---- MODULE MCSurfaceSampling ----
(***************************************************************************)
(* Five rows of six columns: of four threads the last gets no row, of      *)
(* three the last gets a short chunk.  All gaps of up to four columns      *)
(* divide the samples, multiples of 60.                                    *)
(***************************************************************************)
EXTENDS SurfaceSampling

MCSample == [i \in Rows |-> [j \in Columns |-> 60 * ((i + 2) * j * j - 7 * i * j + 5 * i)]]
MCFinite == {{}, {2}, {0, 4}, {1, 2, 5}}
====
