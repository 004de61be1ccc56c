---- MODULE SVDSurfaceCache ----
(***************************************************************************)
(* The process-wide LRU cache of sealed SVD surfaces                       *)
(* (src/SBTL/SVDSurfaceCache.cpp).  Every member function holds mutex_ for *)
(* its whole body, so get, clear and the first half of put are one step;   *)
(* the eviction loop of put is one step per iteration, with the mutex held *)
(* (`frame` is the put that holds it).  The two limits are read from the   *)
(* live configuration, one after the other, before the loop starts.        *)
(***************************************************************************)
EXTENDS Integers, Sequences, FiniteSets, SequencesExt, FiniteSetsExt

CONSTANTS
    Keys,          \* on-disk cache paths
    Surfaces,      \* sealed surfaces
    SizeOf,        \* estimated bytes of each surface
    BytesPerMB,    \* 1024 * 1024, scaled down with SizeOf
    ConfigValues,  \* values the two configuration keys take (any int)
    Miss           \* nullptr

ASSUME CacheAssumption ==
    /\ Miss \notin Surfaces
    /\ SizeOf \in [Surfaces -> Nat]
    /\ BytesPerMB \in Nat
    /\ ConfigValues \subseteq Int

VARIABLES
    entries,   \* entries_: partial function key -> surface
    lru,       \* lru_: sequence of keys, most recently used first
    total,     \* total_bytes_
    frame,     \* the put holding mutex_ inside evict_to_fit_locked_
    config,    \* SVDSBTL_SURFACE_CACHE_MAX_ENTRIES and _MAX_SIZE_MB
    event,     \* history: the latest call of get or put, with the surface it carried
    recency    \* history: every key ever used, latest use first

vars == <<entries, lru, total, frame, config, event, recency>>

NoFrame == [key |-> Miss, bytes |-> 0, stage |-> "free", maxEntries |-> 0, maxBytes |-> 0]

NonNegative(n) == IF n < 0 THEN 0 ELSE n

\* The list without its element k (lru_.erase of the entry's iterator).
Erase(list, k) ==
    IF \E i \in 1..Len(list) : list[i] = k
    THEN LET n == CHOOSE i \in 1..Len(list) : list[i] = k
         IN  [i \in 1..Len(list) - 1 |-> IF i < n THEN list[i] ELSE list[i + 1]]
    ELSE list

\* Mutant of ToFront: the old place of the key is not erased.
ToFront_noErase(list, k) == <<k>> \o list

ToFront(list, k) == <<k>> \o Erase(list, k)

Init ==
    /\ entries = [k \in {} |-> Miss]
    /\ lru = <<>>
    /\ total = 0
    /\ frame = NoFrame
    /\ config \in [maxEntries : ConfigValues, maxSizeMB : ConfigValues]
    /\ event = [op |-> "none", key |-> Miss, surface |-> Miss]
    /\ recency = <<>>

MutexFree == frame = NoFrame

\* Mutant of Get: a hit is not promoted.
Get_noPromote(k) ==
    /\ MutexFree
    /\ k \in DOMAIN entries
    /\ recency' = ToFront(recency, k)
    /\ event' = [op |-> "get", key |-> k, surface |-> entries[k]]
    /\ UNCHANGED <<entries, lru, total, frame, config>>

Get(k) ==
    /\ MutexFree
    /\ IF k \in DOMAIN entries
       THEN /\ lru' = ToFront(lru, k)
            /\ recency' = ToFront(recency, k)
            /\ event' = [op |-> "get", key |-> k, surface |-> entries[k]]
       ELSE /\ event' = [op |-> "get", key |-> k, surface |-> Miss]
            /\ UNCHANGED <<lru, recency>>
    /\ UNCHANGED <<entries, total, frame, config>>

\* Mutants of Put: the replaced entry's bytes are not subtracted; emplace without the
\* erase before it, which leaves the old surface in place.
Put_keepBytes(k, s) ==
    /\ MutexFree
    /\ s # Miss
    /\ entries' = [x \in DOMAIN entries \cup {k} |-> IF x = k THEN s ELSE entries[x]]
    /\ lru' = ToFront(lru, k)
    /\ recency' = ToFront(recency, k)
    /\ total' = total + SizeOf[s]
    /\ frame' = [NoFrame EXCEPT !.key = k, !.bytes = SizeOf[s], !.stage = "limits"]
    /\ event' = [op |-> "put", key |-> k, surface |-> s]
    /\ UNCHANGED config

Put_keepOld(k, s) ==
    /\ MutexFree
    /\ s # Miss
    /\ entries' = [x \in DOMAIN entries \cup {k} |-> IF x \in DOMAIN entries THEN entries[x] ELSE s]
    /\ lru' = ToFront(lru, k)
    /\ recency' = ToFront(recency, k)
    /\ total' = total + (IF k \in DOMAIN entries THEN 0 ELSE SizeOf[s])
    /\ frame' = [NoFrame EXCEPT !.key = k, !.bytes = SizeOf[s], !.stage = "limits"]
    /\ event' = [op |-> "put", key |-> k, surface |-> s]
    /\ UNCHANGED config

\* put up to the call of evict_to_fit_locked_; a null surface is ignored.
Put(k, s) ==
    /\ MutexFree
    /\ s # Miss
    /\ entries' = [x \in DOMAIN entries \cup {k} |-> IF x = k THEN s ELSE entries[x]]
    /\ lru' = ToFront(lru, k)
    /\ recency' = ToFront(recency, k)
    /\ total' = total - (IF k \in DOMAIN entries THEN SizeOf[entries[k]] ELSE 0) + SizeOf[s]
    /\ frame' = [NoFrame EXCEPT !.key = k, !.bytes = SizeOf[s], !.stage = "limits"]
    /\ event' = [op |-> "put", key |-> k, surface |-> s]
    /\ UNCHANGED config

ReadMaxEntries ==
    /\ frame.stage = "limits"
    /\ frame' = [frame EXCEPT !.stage = "limit2", !.maxEntries = NonNegative(config.maxEntries)]
    /\ UNCHANGED <<entries, lru, total, config, event, recency>>

ReadMaxBytes ==
    /\ frame.stage = "limit2"
    /\ frame' = [frame EXCEPT !.stage = "evict",
                              !.maxBytes = NonNegative(config.maxSizeMB) * BytesPerMB]
    /\ UNCHANGED <<entries, lru, total, config, event, recency>>

\* Mutant of OverLimit: eviction only when both limits are passed.
OverLimit_both == lru # <<>> /\ Cardinality(DOMAIN entries) > frame.maxEntries /\ total > frame.maxBytes

OverLimit == lru # <<>> /\ (Cardinality(DOMAIN entries) > frame.maxEntries \/ total > frame.maxBytes)

\* Mutants of EvictVictim: the most recently used entry goes; nothing is popped.
EvictVictim_newest ==
    /\ frame.stage = "evict"
    /\ OverLimit
    /\ total' = total - SizeOf[entries[lru[1]]]
    /\ entries' = [x \in DOMAIN entries \ {lru[1]} |-> entries[x]]
    /\ lru' = Tail(lru)
    /\ UNCHANGED <<frame, config, event, recency>>

EvictVictim_noPop == frame.stage = "evict" /\ OverLimit /\ UNCHANGED vars

\* One iteration of the loop: the least recently used entry goes.
EvictVictim ==
    /\ frame.stage = "evict"
    /\ OverLimit
    /\ LET victim == lru[Len(lru)] IN
       /\ total' = total - SizeOf[entries[victim]]
       /\ entries' = [x \in DOMAIN entries \ {victim} |-> entries[x]]
       /\ lru' = SubSeq(lru, 1, Len(lru) - 1)
    /\ UNCHANGED <<frame, config, event, recency>>

Release ==
    /\ frame.stage = "evict"
    /\ ~OverLimit
    /\ frame' = NoFrame
    /\ UNCHANGED <<entries, lru, total, config, event, recency>>

Clear ==
    /\ MutexFree
    /\ entries' = [k \in {} |-> Miss]
    /\ lru' = <<>>
    /\ total' = 0
    /\ UNCHANGED <<frame, config, event, recency>>

\* set_config_int needs no mutex of the cache, so it may come between any two steps.
SetConfig(name, value) ==
    /\ config' = [config EXCEPT ![name] = value]
    /\ UNCHANGED <<entries, lru, total, frame, event, recency>>

Next ==
    \/ \E k \in Keys : Get(k)
    \/ \E k \in Keys, s \in Surfaces : Put(k, s)
    \/ ReadMaxEntries
    \/ ReadMaxBytes
    \/ EvictVictim
    \/ Release
    \/ Clear
    \/ \E name \in {"maxEntries", "maxSizeMB"}, value \in ConfigValues : SetConfig(name, value)

\* The thread inside put keeps running: its loop has no wait in it.
Fairness == WF_vars(ReadMaxEntries) /\ WF_vars(ReadMaxBytes)
            /\ WF_vars(EvictVictim) /\ WF_vars(Release)

Spec == Init /\ [][Next]_vars /\ Fairness
-----------------------------------------------------------------------------
(* Properties *)

\* Every variable holds a value of its type.
TypeOK ==
    /\ \E D \in SUBSET Keys : entries \in [D -> Surfaces]
    /\ lru \in Seq(Keys)
    /\ total \in Int
    /\ frame \in [key : Keys \cup {Miss}, bytes : Nat,
                  stage : {"free", "limits", "limit2", "evict"},
                  maxEntries : Nat, maxBytes : Nat]
    /\ config \in [maxEntries : ConfigValues, maxSizeMB : ConfigValues]
    /\ event \in [op : {"none", "get", "put"}, key : Keys \cup {Miss}, surface : Surfaces \cup {Miss}]
    /\ recency \in Seq(Keys)

\* The list and the map name the same keys, and the list names each once: put, get,
\* clear and eviction keep the two structures of the cache in step, so an iterator
\* stored in an entry always designates a live element of lru_.
ListMatchesMap ==
    /\ DOMAIN entries = {lru[i] : i \in 1..Len(lru)}
    /\ \A i, j \in 1..Len(lru) : lru[i] = lru[j] => i = j

\* total_bytes_ is the sum of the estimates of the entries present: replacement,
\* eviction and clear subtract what the entry once added.  It is unsigned: a drift
\* below zero would make the cache evict everything for ever.
TotalIsSum == total = MapThenSumSet(LAMBDA k : SizeOf[entries[k]], DOMAIN entries)

\* What is cached is exactly what was used last: no key stays while one used after
\* it, by get or by put, has been evicted.
KeepsMostRecent == IsPrefix(lru, recency)

\* When put gives the mutex back, both limits it read hold.
RespectsLimits ==
    [][Release => /\ Cardinality(DOMAIN entries) <= frame.maxEntries \/ lru = <<>>
                  /\ total <= frame.maxBytes]_vars

\* A surface that fits the limits on its own survives the put that publishes it:
\* eviction takes the others first.
FreshSurvives ==
    [][Release /\ frame.maxEntries >= 1 /\ frame.bytes <= frame.maxBytes
          => frame.key \in DOMAIN entries]_vars

\* Every put returns: the eviction loop ends whatever the configuration does meanwhile.
PutReturns == (frame # NoFrame) ~> (frame = NoFrame)

\* The cache is a lossy store: a hit is the surface published last under that key.
Store == INSTANCE SurfaceStore WITH stored <- entries
ImplementsStore == Store!Spec
====
