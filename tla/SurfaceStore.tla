---- MODULE SurfaceStore ----
(***************************************************************************)
(* What a caller may rely on from the process-wide surface cache: a lossy  *)
(* store.  A surface published under a key may be forgotten at any time,   *)
(* but a lookup that finds something finds the surface published last.     *)
(* SVDSurfaceCache implements it; SurfacePipeline relies on it.            *)
(***************************************************************************)
CONSTANTS Keys, Surfaces, Miss

VARIABLES
    stored,   \* partial function: key -> the surface a lookup would return
    event     \* the latest call, with the surface it published or returned

storeVars == <<stored, event>>

Init ==
    /\ stored = [k \in {} |-> Miss]
    /\ event = [op |-> "none", key |-> Miss, surface |-> Miss]

Publish(k, s) ==
    /\ stored' = [x \in DOMAIN stored \cup {k} |-> IF x = k THEN s ELSE stored[x]]
    /\ event' = [op |-> "put", key |-> k, surface |-> s]

Lookup(k) ==
    /\ event' = [op |-> "get", key |-> k,
                 surface |-> IF k \in DOMAIN stored THEN stored[k] ELSE Miss]
    /\ UNCHANGED stored

\* Eviction of one key, or of all of them at once.
Lose(lost) ==
    /\ stored' = [x \in DOMAIN stored \ lost |-> stored[x]]
    /\ UNCHANGED event

Next == \/ \E k \in Keys : Lookup(k) \/ \E s \in Surfaces : Publish(k, s)
        \/ \E lost \in SUBSET Keys : Lose(lost)

Spec == Init /\ [][Next]_storeVars
====
