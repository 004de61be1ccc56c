---- MODULE MCSurfacePipeline ----
(***************************************************************************)
(* Two processes of one thread each, of two versions.                      *)
(***************************************************************************)
EXTENDS SurfacePipeline, TLC

CONSTANTS p1, p2, t1, t2, old, new

OneEach == t1 :> p1 @@ t2 :> p2
TwoVersions == p1 :> old @@ p2 :> new
====
