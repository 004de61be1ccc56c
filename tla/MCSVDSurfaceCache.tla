---- MODULE MCSVDSurfaceCache ----
(* Three keys, a surface of half a megabyte and one of a megabyte and a half, limits from "nothing fits" up. *)
EXTENDS SVDSurfaceCache, TLC

CONSTANTS k1, k2, k3, small, large

MCKeys == {k1, k2, k3}
MCSurfaces == {small, large}
MCSizeOf == (small :> 1) @@ (large :> 3)
MCBytesPerMB == 2
MCConfigValues == {-1, 1, 2}
====
