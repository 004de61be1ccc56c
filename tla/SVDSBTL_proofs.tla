---- MODULE SVDSBTL_proofs ----
(***************************************************************************)
(* The SVDSBTL backend: what its surfaces are filled with, and what a      *)
(* state makes of an input.                                                *)
(*                                                                         *)
(* Every row of a table that is filled was sampled, by one thread only,    *)
(* and a table is filled along its rows, for any number of rows, threads   *)
(* and processors, whichever workers start or fail and however they        *)
(* interleave.  Every output read and every row of a batch is of its own   *)
(* input, which was taken for what it is, for any inputs and batches, with *)
(* whatever providers and however many updates of the sources fail.        *)
(***************************************************************************)
EXTENDS SurfaceSampling, SVDSBTLPoint, FiniteSetTheorems, WellFoundedInduction, TLAPS

-----------------------------------------------------------------------------
(* Sampling a surface. *)

SamplingTypes ==
    /\ n_threads \in 1 .. NT
    /\ main \in [at : {"decide", "serial", "spawn", "join", "threw", "terminated", "fill", "built"}, next : Nat]
    /\ worker \in [Rows -> [at : {"none", "start", "sampling", "done"}, row : Nat]]
    /\ worker_factory_failed \in BOOLEAN
    /\ sampled \in [Rows -> Nat]

\* The rows that a worker has left behind.
Covered(i) == \E t \in Rows : worker[t].at # "none" /\ Lo(t) <= i /\ i < worker[t].row

Within(t) ==
    /\ Lo(t) < Hi(t) /\ Lo(t) <= worker[t].row /\ worker[t].row <= Hi(t)
    /\ worker[t].at = "start" => worker[t].row = Lo(t)
    /\ worker[t].at = "sampling" => worker[t].row < Hi(t)
    /\ worker[t].at = "done" /\ ~worker_factory_failed => worker[t].row = Hi(t)

\* While there may be workers: those spawned are within their chunks, and the
\* rows they have left behind are those sampled.
Dealt ==
    /\ main.next <= n_threads
    /\ \A t \in Rows : worker[t].at # "none" <=> t < main.next
    /\ \A t \in Rows : worker[t].at # "none" => Within(t)
    /\ \A i \in Rows : sampled[i] = IF Covered(i) THEN 1 ELSE 0

AllSpawned == main.next = n_threads \/ NT <= Lo(main.next)

Quiet == \A t \in Rows : worker[t].at \in {"none", "done"}

SamplingInv ==
    /\ SamplingTypes
    /\ \A i \in Rows : sampled[i] <= 1
    /\ main.at \in {"decide", "serial"} =>
        \A t \in Rows : worker[t].at = "none" /\ sampled[t] = IF t < main.next THEN 1 ELSE 0
    /\ main.at = "decide" => main.next = 0
    /\ main.at = "serial" => main.next < NT
    /\ main.at \in {"spawn", "join"} => Dealt
    /\ main.at = "join" => AllSpawned
    /\ main.at \in {"fill", "built", "threw"} => Quiet
    /\ main.at \in {"fill", "built"} => \A i \in Rows : sampled[i] = 1

-----------------------------------------------------------------------------
(* Arithmetic. *)

\* What \div is.
LEMMA Division ==
    ASSUME NEW a \in Nat, NEW b \in Nat \ {0}
    PROVE  /\ a \div b \in Nat
           /\ (a \div b) * b <= a
           /\ a < (a \div b) * b + b
OBVIOUS

LEMMA Multiples ==
    ASSUME NEW c \in Nat, NEW t \in Nat, NEW u \in Nat, t < u
    PROVE  t * c \in Nat /\ t * c + c <= u * c
OBVIOUS

\* A multiple below another is one of a smaller factor.
LEMMA SmallerFactor ==
    ASSUME NEW c \in Nat, NEW t \in Nat, NEW u \in Nat, t * c < u * c
    PROVE  t < u
OBVIOUS

\* A chunk has a row at least, and the chunks of all threads have all rows.
LEMMA ChunkCovers ==
    ASSUME n_threads \in 1 .. NT
    PROVE  Chunk \in Nat /\ Chunk >= 1 /\ NT <= n_threads * Chunk
<1>1. NT \in Nat /\ n_threads \in Nat \ {0} /\ NT + n_threads - 1 \in Nat
  BY SamplingAssumption
<1>2. /\ Chunk \in Nat
      /\ NT + n_threads - 1 < Chunk * n_threads + n_threads
  BY <1>1, Division DEF Chunk
<1> HIDE DEF Chunk
<1>3. NT <= Chunk * n_threads /\ Chunk * n_threads = n_threads * Chunk
  BY <1>1, <1>2
<1>4. Chunk # 0
  BY <1>1, <1>3, SamplingAssumption
<1> QED BY <1>2, <1>3, <1>4

\* The chunks of two threads have no row in common.
LEMMA ChunksApart ==
    ASSUME n_threads \in 1 .. NT, NEW t \in Nat, NEW u \in Nat, NEW i \in Nat,
           Lo(t) <= i, i < Hi(t), Lo(u) <= i, i < Hi(u)
    PROVE  t = u
<1> USE SamplingAssumption
<1>1. Chunk \in Nat
  BY ChunkCovers
<1> HIDE DEF Chunk
<1>2. t * Chunk \in Nat /\ u * Chunk \in Nat
  BY <1>1
<1>3. i < Lo(t) + Chunk /\ i < Lo(u) + Chunk
  BY <1>1, <1>2 DEF Hi, Lo
<1>4. ~ (t < u)
  BY <1>1, <1>2, <1>3, Multiples DEF Lo
<1>5. ~ (u < t)
  BY <1>1, <1>2, <1>3, Multiples DEF Lo
<1> QED BY <1>4, <1>5

\* Every row is in the chunk of a thread that was spawned.
LEMMA RowIsDealt ==
    ASSUME n_threads \in 1 .. NT, NEW next \in Nat, next = n_threads \/ NT <= Lo(next), NEW i \in Rows
    PROVE  \E t \in Rows : t < next /\ Lo(t) <= i /\ i < Hi(t)
<1> DEFINE t == i \div Chunk
<1>1. Chunk \in Nat /\ Chunk >= 1 /\ NT <= n_threads * Chunk
  BY ChunkCovers
<1>2. NT \in Nat /\ n_threads \in Nat /\ i \in Nat /\ i < NT
  BY SamplingAssumption DEF Rows
<1> HIDE DEF Chunk
<1>3. t \in Nat /\ t * Chunk <= i /\ i < t * Chunk + Chunk
  BY <1>1, <1>2, Division
<1> HIDE DEF t
<1>4. t * Chunk \in Nat /\ next * Chunk \in Nat /\ n_threads * Chunk \in Nat
  BY <1>1, <1>2, <1>3
<1>5. t < n_threads
  BY <1>1, <1>2, <1>3, <1>4, SmallerFactor
<1>6. t < next
  <2>1. CASE next = n_threads
    BY <1>5, <2>1
  <2>2. CASE NT <= Lo(next)
    <3>1. t * Chunk < next * Chunk
      BY <1>2, <1>3, <1>4, <2>2 DEF Lo
    <3> QED BY <1>1, <1>3, <3>1, SmallerFactor
  <2> QED BY <2>1, <2>2
<1>7. t \in Rows
  BY <1>2, <1>3, <1>5 DEF Rows
<1>8. Lo(t) <= i /\ i < Hi(t)
  BY <1>2, <1>3, <1>4 DEF Lo, Hi
<1> QED BY <1>6, <1>7, <1>8

-----------------------------------------------------------------------------
(* The invariant. *)

LEMMA SamplingInitInv == SamplingInit => SamplingInv
<1> SUFFICES ASSUME SamplingInit PROVE SamplingInv
  OBVIOUS
<1>1. NT \in Nat /\ NT >= 1 /\ \A t \in Rows : t \in Nat
  BY SamplingAssumption DEF Rows
<1>2. SamplingTypes
  <2>1. worker \in [Rows -> [at : {"none", "start", "sampling", "done"}, row : Nat]]
    BY DEF SamplingInit
  <2>2. main \in [at : {"decide", "serial", "spawn", "join", "threw", "terminated", "fill", "built"}, next : Nat]
    BY DEF SamplingInit
  <2>3. sampled \in [Rows -> Nat]
    BY DEF SamplingInit
  <2>4. n_threads = 1 /\ worker_factory_failed \in BOOLEAN
    BY DEF SamplingInit
  <2>5. n_threads \in 1 .. NT
    BY <1>1, <2>4
  <2> QED BY <2>1, <2>2, <2>3, <2>4, <2>5 DEF SamplingTypes
<1>3. \A t \in Rows : worker[t].at = "none" /\ sampled[t] = 0 /\ ~ (t < 0)
  BY <1>1 DEF SamplingInit
<1> QED BY <1>2, <1>3 DEF SamplingInit, SamplingInv

LEMMA DecideInv ==
    ASSUME SamplingInv, NEW setting \in Settings, NEW processors \in Processors, NEW able \in BOOLEAN,
           Decide(setting, processors, able)
    PROVE  SamplingInv'
<1> DEFINE wanted == resolve_thread_count(setting, processors)
           parallel == wanted > 1 /\ able
<1>1. NT \in Nat /\ NT >= 2 /\ setting \in Int /\ processors \in Nat /\ \A t \in Rows : t \in Nat
  BY SamplingAssumption DEF Rows
<1>2. wanted \in Nat /\ wanted >= 1
  BY <1>1 DEF resolve_thread_count
<1>3. /\ main.at = "decide"
      /\ n_threads' = IF ~parallel THEN 1 ELSE IF wanted < NT THEN wanted ELSE NT
      /\ main' = [main EXCEPT !.at = IF parallel THEN "spawn" ELSE "serial"]
      /\ UNCHANGED <<worker, worker_factory_failed, sampled>>
  BY DEF Decide
<1> HIDE DEF wanted
<1>4. n_threads' \in 1 .. NT
  BY <1>1, <1>2, <1>3
<1>5. main'.at \in {"spawn", "serial"} /\ main'.next = 0 /\ main' \in [at : {"spawn", "serial"}, next : Nat]
  BY <1>3 DEF SamplingInv, SamplingTypes
<1> HIDE DEF parallel
<1>6. SamplingTypes'
  BY <1>3, <1>4, <1>5 DEF SamplingInv, SamplingTypes
<1>7. \A t \in Rows : worker'[t].at = "none" /\ sampled'[t] = 0
  BY <1>1, <1>3 DEF SamplingInv
<1>8. Dealt'
  <2>1. \A i \in Rows : ~Covered(i)'
    BY <1>7 DEF Covered
  <2>2. \A t \in Rows : ~ (t < main'.next)
    BY <1>1, <1>5
  <2> QED BY <1>4, <1>5, <1>7, <2>1, <2>2 DEF Dealt
<1> QED BY <1>1, <1>5, <1>6, <1>7, <1>8 DEF SamplingInv

LEMMA SerialInv ==
    ASSUME SamplingInv, NEW finite \in Finite, Serial(finite)
    PROVE  SamplingInv'
<1>1. /\ NT \in Nat /\ \A t \in Rows : t \in Nat /\ t < NT
      /\ \A n \in Nat : n < NT => n \in Rows
  BY SamplingAssumption DEF Rows
<1>2. /\ main.at = "serial" /\ main.next \in Nat /\ main.next < NT /\ main.next \in Rows
      /\ sampled' = [sampled EXCEPT ![main.next] = @ + 1]
      /\ main' = [at |-> IF main.next + 1 = NT THEN "fill" ELSE "serial", next |-> main.next + 1]
      /\ UNCHANGED <<n_threads, worker, worker_factory_failed>>
  BY <1>1 DEF Serial, SampledRow, SamplingInv, SamplingTypes
<1>3. \A t \in Rows : worker[t].at = "none" /\ sampled[t] = IF t < main.next THEN 1 ELSE 0
  BY <1>2 DEF SamplingInv
<1>4. sampled \in [Rows -> Nat]
  BY DEF SamplingInv, SamplingTypes
<1>5. \A t \in Rows : worker'[t].at = "none" /\ sampled'[t] = IF t < main.next + 1 THEN 1 ELSE 0
  BY <1>1, <1>2, <1>3, <1>4
<1>6. SamplingTypes'
  BY <1>2, <1>4 DEF SamplingInv, SamplingTypes
<1>7. CASE main.next + 1 = NT
  <2>1. main'.at = "fill" /\ \A t \in Rows : sampled'[t] = 1
    BY <1>1, <1>2, <1>5, <1>7
  <2> QED BY <1>5, <1>6, <2>1 DEF SamplingInv, Quiet
<1>8. CASE main.next + 1 # NT
  <2>1. main'.at = "serial" /\ main'.next = main.next + 1 /\ main'.next < NT
    BY <1>1, <1>2, <1>8
  <2>2. \A t \in Rows : sampled'[t] <= 1
    BY <1>5
  <2> QED BY <1>5, <1>6, <2>1, <2>2 DEF SamplingInv
<1> QED BY <1>7, <1>8

LEMMA SpawnInv ==
    ASSUME SamplingInv, Spawn
    PROVE  SamplingInv'
<1> DEFINE t == main.next
<1>1. /\ NT \in Nat /\ n_threads \in 1 .. NT /\ t \in Nat /\ t < n_threads /\ t \in Rows
      /\ main.at = "spawn" /\ Lo(t) < Hi(t) /\ \A u \in Rows : u \in Nat
      /\ worker' = [worker EXCEPT ![t] = [at |-> "start", row |-> Lo(t)]]
      /\ main' = [main EXCEPT !.next = @ + 1]
      /\ UNCHANGED <<n_threads, worker_factory_failed, sampled>>
  BY SamplingAssumption DEF Spawn, Dealing, SamplingInv, SamplingTypes, Rows
<1>2. Chunk \in Nat
  BY <1>1, ChunkCovers
<1> HIDE DEF Chunk, t
<1>3. Lo(t) \in Nat /\ Hi(t) \in Nat
  BY <1>1, <1>2 DEF Lo, Hi
<1>4. SamplingTypes'
  BY <1>1, <1>3 DEF SamplingInv, SamplingTypes
<1>5. Dealt
  BY <1>1 DEF SamplingInv
<1>6. main'.at = "spawn" /\ main'.next = t + 1
  BY <1>1 DEF SamplingInv, SamplingTypes, t
<1>7. Chunk' = Chunk /\ \A u : Lo(u)' = Lo(u) /\ Hi(u)' = Hi(u)
  BY <1>1 DEF Chunk, Lo, Hi
<1> HIDE DEF Lo, Hi
<1>8. /\ worker'[t] = [at |-> "start", row |-> Lo(t)] /\ worker[t].at = "none"
      /\ \A u \in Rows : u # t => worker'[u] = worker[u]
  BY <1>1, <1>5 DEF SamplingInv, SamplingTypes, Dealt, t
<1>9. \A i \in Rows : Covered(i)' = Covered(i)
  <2> TAKE i \in Rows
  <2>1. i \in Nat
    BY <1>1
  <2> QED BY <1>3, <1>7, <1>8, <2>1 DEF Covered
<1>10. \A u \in Rows : worker'[u].at # "none" <=> u < t + 1
  BY <1>1, <1>5, <1>8 DEF Dealt, t
<1>11. \A u \in Rows : worker'[u].at # "none" => Within(u)'
  BY <1>1, <1>3, <1>5, <1>7, <1>8 DEF Dealt, Within
<1>12. Dealt'
  BY <1>1, <1>5, <1>6, <1>9, <1>10, <1>11 DEF Dealt
<1> QED BY <1>1, <1>4, <1>6, <1>12 DEF SamplingInv

LEMMA SpawnThrowInv ==
    ASSUME SamplingInv, SpawnThrow
    PROVE  SamplingInv'
<1>1. /\ main.at = "spawn" /\ main.next \in Nat
      /\ main' = [main EXCEPT !.at = IF main.next = 0 THEN "threw" ELSE "terminated"]
      /\ UNCHANGED <<n_threads, worker, worker_factory_failed, sampled>>
  BY DEF SpawnThrow, Dealing, SamplingInv, SamplingTypes
<1>2. main' \in [at : {"threw", "terminated"}, next : Nat] /\ main'.at = IF main.next = 0 THEN "threw" ELSE "terminated"
  BY <1>1 DEF SamplingInv, SamplingTypes
<1>3. SamplingTypes'
  BY <1>1, <1>2 DEF SamplingInv, SamplingTypes
<1>4. main.next = 0 => Quiet'
  <2>1. \A t \in Rows : ~ (t < 0)
    BY SamplingAssumption DEF Rows
  <2>2. Dealt
    BY <1>1 DEF SamplingInv
  <2> QED BY <1>1, <2>1, <2>2 DEF Quiet, Dealt
<1> QED BY <1>1, <1>2, <1>3, <1>4 DEF SamplingInv

LEMMA SpawnEndInv ==
    ASSUME SamplingInv, SpawnEnd
    PROVE  SamplingInv'
<1>1. /\ main.at = "spawn" /\ main.next \in Nat /\ ~Dealing /\ n_threads \in 1 .. NT /\ NT \in Nat
      /\ main' = [main EXCEPT !.at = "join"]
      /\ UNCHANGED <<n_threads, worker, worker_factory_failed, sampled>>
  BY SamplingAssumption DEF SpawnEnd, SamplingInv, SamplingTypes
<1>2. main' \in [at : {"join"}, next : Nat] /\ main'.at = "join" /\ main'.next = main.next
  BY <1>1 DEF SamplingInv, SamplingTypes
<1>3. SamplingTypes'
  BY <1>1, <1>2 DEF SamplingInv, SamplingTypes
<1>4. \A u : Lo(u)' = Lo(u) /\ Hi(u)' = Hi(u)
  BY <1>1 DEF Lo, Hi, Chunk
<1>5. Dealt'
  BY <1>1, <1>2, <1>4 DEF SamplingInv, Dealt, Covered, Within
<1>6. AllSpawned
  <2>1. Chunk \in Nat /\ Chunk >= 1
    BY <1>1, ChunkCovers
  <2> HIDE DEF Chunk
  <2>2. Lo(main.next) \in Nat
    BY <1>1, <2>1 DEF Lo
  <2>3. main.next <= n_threads
    BY <1>1 DEF SamplingInv, Dealt
  <2>4. CASE main.next = n_threads
    BY <2>4 DEF AllSpawned
  <2>5. CASE main.next # n_threads
    <3>1. ~ (Lo(main.next) < Hi(main.next))
      BY <1>1, <2>3, <2>5 DEF Dealing
    <3>2. NT <= Lo(main.next)
      BY <1>1, <2>1, <2>2, <3>1 DEF Hi
    <3> QED BY <3>2 DEF AllSpawned
  <2> QED BY <2>4, <2>5
<1>7. AllSpawned'
  BY <1>1, <1>2, <1>4, <1>6 DEF AllSpawned
<1> QED BY <1>1, <1>2, <1>3, <1>5, <1>7 DEF SamplingInv

\* A worker is within its chunk, while the caller deals or waits.
LEMMA Working ==
    ASSUME SamplingInv, NEW t \in Rows, main.at # "terminated", worker[t].at \in {"start", "sampling"}
    PROVE  main.at \in {"spawn", "join"} /\ Dealt /\ Within(t)
<1>1. main.at \notin {"decide", "serial", "fill", "built", "threw"}
  BY DEF SamplingInv, Quiet
<1>2. main.at \in {"spawn", "join"}
  BY <1>1 DEF SamplingInv, SamplingTypes
<1> QED BY <1>2 DEF SamplingInv, Dealt

LEMMA StartInv ==
    ASSUME SamplingInv, NEW t \in Rows, Start(t)
    PROVE  SamplingInv'
<1>1. /\ worker[t].at = "start" /\ UNCHANGED <<n_threads, main, sampled>>
      /\ \/ worker' = [worker EXCEPT ![t].at = "sampling"] /\ UNCHANGED worker_factory_failed
         \/ worker' = [worker EXCEPT ![t].at = "done"] /\ worker_factory_failed' = TRUE
  BY DEF Start
<1>2. main.at \in {"spawn", "join"} /\ Dealt /\ Within(t)
  BY Working DEF Start
<1>3. worker \in [Rows -> [at : {"none", "start", "sampling", "done"}, row : Nat]] /\ worker_factory_failed \in BOOLEAN
  BY DEF SamplingInv, SamplingTypes
<1>4. \A u : Lo(u)' = Lo(u) /\ Hi(u)' = Hi(u)
  BY <1>1 DEF Lo, Hi, Chunk
<1>5. /\ worker'[t].at \in {"sampling", "done"} /\ worker'[t].row = worker[t].row
      /\ worker'[t].at = "done" => worker_factory_failed'
      /\ worker_factory_failed => worker_factory_failed'
      /\ worker_factory_failed' \in BOOLEAN
      /\ \A u \in Rows : u # t => worker'[u] = worker[u]
      /\ worker' \in [Rows -> [at : {"none", "start", "sampling", "done"}, row : Nat]]
  <2>1. CASE worker' = [worker EXCEPT ![t].at = "sampling"] /\ UNCHANGED worker_factory_failed
    BY <1>3, <2>1
  <2>2. CASE worker' = [worker EXCEPT ![t].at = "done"] /\ worker_factory_failed' = TRUE
    BY <1>3, <2>2
  <2> QED BY <1>1, <2>1, <2>2
<1>6. SamplingTypes'
  BY <1>1, <1>5 DEF SamplingInv, SamplingTypes
<1>7. \A u \in Rows : (worker'[u].at # "none" <=> worker[u].at # "none") /\ worker'[u].row = worker[u].row
  BY <1>1, <1>5
<1>8. worker[t].row = Lo(t) /\ Lo(t) < Hi(t)
  BY <1>1, <1>2 DEF Within
<1>9. \A u \in Rows : worker'[u].at # "none" => Within(u)'
  BY <1>1, <1>2, <1>4, <1>5, <1>8 DEF Dealt, Within
<1>10. Dealt'
  BY <1>1, <1>2, <1>4, <1>7, <1>9 DEF Dealt, Covered
<1> QED BY <1>1, <1>2, <1>4, <1>6, <1>10 DEF SamplingInv, AllSpawned

LEMMA WorkInv ==
    ASSUME SamplingInv, NEW t \in Rows, NEW finite \in Finite, Work(t, finite)
    PROVE  SamplingInv'
<1> DEFINE r == worker[t].row
<1>1. main.at \in {"spawn", "join"} /\ Dealt /\ Within(t) /\ worker[t].at = "sampling"
  BY Working DEF Work
<1>2. /\ sampled' = [sampled EXCEPT ![r] = @ + 1]
      /\ worker' = [worker EXCEPT ![t] = [at |-> IF r + 1 = Hi(t) THEN "done" ELSE "sampling", row |-> r + 1]]
      /\ UNCHANGED <<n_threads, main, worker_factory_failed>>
  BY DEF Work, SampledRow
<1>3. /\ n_threads \in 1 .. NT /\ sampled \in [Rows -> Nat] /\ r \in Nat
      /\ worker \in [Rows -> [at : {"none", "start", "sampling", "done"}, row : Nat]]
  BY DEF SamplingInv, SamplingTypes
<1>4. NT \in Nat /\ \A u \in Rows : u \in Nat
  BY SamplingAssumption DEF Rows
<1>5. Chunk \in Nat
  BY <1>3, ChunkCovers
<1>6. \A u : Lo(u)' = Lo(u) /\ Hi(u)' = Hi(u)
  BY <1>2 DEF Lo, Hi, Chunk
<1> HIDE DEF Chunk, r
<1>7. \A u \in Rows : Lo(u) \in Nat /\ Hi(u) \in Nat /\ Hi(u) <= NT
  BY <1>4, <1>5 DEF Lo, Hi
<1>8. Lo(t) <= r /\ r < Hi(t) /\ r \in Rows
  <2>1. Lo(t) <= r /\ r < Hi(t)
    BY <1>1 DEF Within, r
  <2> QED BY <1>3, <1>4, <1>7, <2>1 DEF Rows
<1>9. /\ worker'[t] = [at |-> IF r + 1 = Hi(t) THEN "done" ELSE "sampling", row |-> r + 1]
      /\ \A u \in Rows : u # t => worker'[u] = worker[u]
      /\ worker' \in [Rows -> [at : {"none", "start", "sampling", "done"}, row : Nat]]
  BY <1>2, <1>3
<1>10. /\ sampled'[r] = sampled[r] + 1 /\ \A i \in Rows : i # r => sampled'[i] = sampled[i]
       /\ sampled' \in [Rows -> Nat]
  BY <1>2, <1>3, <1>8
<1>11. SamplingTypes'
  BY <1>2, <1>9, <1>10 DEF SamplingInv, SamplingTypes
\* No other worker has this row.
<1>12. ~Covered(r)
  <2> SUFFICES ASSUME NEW u \in Rows, worker[u].at # "none", Lo(u) <= r, r < worker[u].row PROVE FALSE
    BY DEF Covered
  <2>1. worker[u].row <= Hi(u) /\ worker[u].row \in Nat
    BY <1>1, <1>3 DEF Dealt, Within
  <2>2. r < Hi(u)
    BY <1>3, <1>7, <2>1
  <2>3. t = u
    BY <1>3, <1>4, <1>8, <2>2, ChunksApart
  <2> QED BY <1>3, <2>3 DEF r
<1> HIDE DEF Lo, Hi
<1>13. ASSUME NEW i \in Rows PROVE Covered(i)' <=> Covered(i) \/ i = r
  <2>1. i \in Nat
    BY <1>4
  <2>2. ASSUME NEW u \in Rows, u # t
        PROVE  (worker'[u].at # "none" /\ Lo(u)' <= i /\ i < worker'[u].row)
                  <=> (worker[u].at # "none" /\ Lo(u) <= i /\ i < worker[u].row)
    BY <1>6, <1>9, <2>2
  <2>3. (worker'[t].at # "none" /\ Lo(t)' <= i /\ i < worker'[t].row) <=> Lo(t) <= i /\ (i < r \/ i = r)
    BY <1>3, <1>6, <1>7, <1>9, <2>1
  <2>4. (worker[t].at # "none" /\ Lo(t) <= i /\ i < worker[t].row) <=> Lo(t) <= i /\ i < r
    BY <1>1 DEF r
  <2>5. Lo(t) <= r
    BY <1>8
  <2> QED BY <2>2, <2>3, <2>4, <2>5 DEF Covered
<1>14. \A i \in Rows : sampled'[i] = IF Covered(i)' THEN 1 ELSE 0
  <2>1. sampled[r] = 0
    BY <1>1, <1>8, <1>12 DEF Dealt
  <2> QED BY <1>1, <1>10, <1>12, <1>13, <2>1 DEF Dealt
<1>15. Within(t)'
  BY <1>3, <1>6, <1>7, <1>8, <1>9 DEF Within
<1>16. \A u \in Rows : worker'[u].at # "none" => Within(u)'
  BY <1>1, <1>2, <1>6, <1>9, <1>15 DEF Dealt, Within
<1>17. \A u \in Rows : worker'[u].at # "none" <=> worker[u].at # "none"
  BY <1>1, <1>9
<1>18. Dealt'
  BY <1>1, <1>2, <1>14, <1>16, <1>17 DEF Dealt
<1>19. \A i \in Rows : sampled'[i] <= 1
  BY <1>14
<1> QED BY <1>1, <1>2, <1>6, <1>11, <1>18, <1>19 DEF SamplingInv, AllSpawned

LEMMA JoinInv ==
    ASSUME SamplingInv, Join
    PROVE  SamplingInv'
<1>1. /\ main.at = "join" /\ Quiet /\ Dealt /\ AllSpawned
      /\ main' = [main EXCEPT !.at = IF worker_factory_failed THEN "threw" ELSE "fill"]
      /\ UNCHANGED <<n_threads, worker, worker_factory_failed, sampled>>
  BY DEF Join, SamplingInv, Quiet
<1>2. main' \in [at : {"threw", "fill"}, next : Nat] /\ main'.at = IF worker_factory_failed THEN "threw" ELSE "fill"
  BY <1>1 DEF SamplingInv, SamplingTypes
<1>3. SamplingTypes'
  BY <1>1, <1>2 DEF SamplingInv, SamplingTypes
<1>4. ASSUME ~worker_factory_failed, NEW i \in Rows PROVE sampled[i] = 1
  <2>1. n_threads \in 1 .. NT /\ main.next \in Nat
    BY DEF SamplingInv, SamplingTypes
  <2>2. PICK t \in Rows : t < main.next /\ Lo(t) <= i /\ i < Hi(t)
    BY <1>1, <2>1, RowIsDealt DEF AllSpawned
  <2>3. worker[t].at = "done" /\ Within(t)
    BY <1>1, <2>2 DEF Dealt, Quiet
  <2>4. worker[t].row = Hi(t)
    BY <1>4, <2>3 DEF Within
  <2>5. Covered(i)
    BY <2>2, <2>3, <2>4 DEF Covered
  <2> QED BY <1>1, <2>5 DEF Dealt
<1>5. Quiet'
  BY <1>1 DEF Quiet
<1> QED BY <1>1, <1>2, <1>3, <1>4, <1>5 DEF SamplingInv

LEMMA FillInv ==
    ASSUME SamplingInv, Fill
    PROVE  SamplingInv'
<1>1. /\ main.at = "fill" /\ UNCHANGED <<n_threads, worker, worker_factory_failed, sampled>>
      /\ \E at \in {"threw", "built"} : main' = [main EXCEPT !.at = at]
  BY DEF Fill
<1>2. main' \in [at : {"threw", "built"}, next : Nat]
  BY <1>1 DEF SamplingInv, SamplingTypes
<1>3. SamplingTypes' /\ Quiet'
  BY <1>1, <1>2 DEF SamplingInv, SamplingTypes, Quiet
<1> QED BY <1>1, <1>2, <1>3 DEF SamplingInv

LEMMA SamplingStepInv ==
    ASSUME SamplingInv, [SamplingNext]_samplingVars
    PROVE  SamplingInv'
<1>1. CASE UNCHANGED samplingVars
  BY <1>1 DEF samplingVars, SamplingInv, SamplingTypes, Dealt, Covered, Within, Lo, Hi, Chunk, AllSpawned, Quiet
<1> QED
  BY <1>1, DecideInv, SerialInv, SpawnInv, SpawnThrowInv, SpawnEndInv, StartInv, WorkInv, JoinInv, FillInv DEF SamplingNext

\* No row is sampled by two threads and none is lost: what sample_grid fills
\* are the cells without a value of rows that were all sampled.
THEOREM RowsAreSampledOnce == SamplingSpec => []RowsSampledOnce
<1>1. SamplingInit => SamplingInv
  BY SamplingInitInv
<1>2. SamplingInv /\ [SamplingNext]_samplingVars => SamplingInv'
  BY SamplingStepInv
<1>3. SamplingInv => RowsSampledOnce
  BY DEF SamplingInv, RowsSampledOnce
<1> QED BY <1>1, <1>2, <1>3, PTL DEF SamplingSpec

-----------------------------------------------------------------------------
(* What the fill makes of a row. *)

\* A multiple is divided by its factor.
LEMMA MultipleDivides ==
    ASSUME NEW d \in Int, NEW n \in Nat \ {0}
    PROVE  (d * n) \div n = d
OBVIOUS

LEMMA NoRemainder ==
    ASSUME NEW x \in Int, NEW n \in Nat \ {0}, x % n = 0
    PROVE  x \div n \in Int /\ x = (x \div n) * n
OBVIOUS

\* Natural numbers have a least one, and those below a bound a greatest.
LEMMA LeastNatural ==
    ASSUME NEW S \in SUBSET Nat, S # {}
    PROVE  \E n \in S : \A k \in S : n <= k
<1>1. PICK n \in S : \A k \in S : ~(<<k, n>> \in OpToRel(<, Nat))
  BY NatLessThanWellFounded, WFMin
<1>2. ASSUME NEW k \in S, k < n PROVE FALSE
  <2>1. k \in Nat /\ n \in Nat
    OBVIOUS
  <2>2. <<k, n>> \in OpToRel(<, Nat)
    BY <1>2, <2>1, Zenon DEF OpToRel
  <2> QED BY <1>1, <2>2, Zenon
<1>3. \A k \in S : n <= k
  BY <1>2
<1> QED BY <1>3

LEMMA GreatestNatural ==
    ASSUME NEW n \in Nat, NEW S \in SUBSET (0 .. n), S # {}
    PROVE  \E k \in S : \A m \in S : m <= k
<1> DEFINE Bounds == {k \in Nat : \A m \in S : m <= k}
<1>1. n \in Bounds
  OBVIOUS
<1>2. PICK k \in Bounds : \A b \in Bounds : k <= b
  BY <1>1, LeastNatural
<1>3. CASE k \in S
  BY <1>2, <1>3
<1>4. CASE k \notin S
  <2>1. k # 0
    <3>1. PICK m \in S : TRUE
      OBVIOUS
    <3> QED BY <1>2, <1>4, <3>1
  <2>2. k - 1 \in Bounds
    BY <1>2, <1>4, <2>1
  <2> QED BY <1>2, <2>2
<1> QED BY <1>3, <1>4

LEMMA LeastIs ==
    ASSUME NEW S \in SUBSET Int, NEW m \in S, \A k \in S : m <= k
    PROVE  Least(S) = m
<1>1. Least(S) \in S /\ \A k \in S : Least(S) <= k
  BY Zenon DEF Least
<1>2. Least(S) \in Int /\ m \in Int
  BY <1>1
<1>3. Least(S) <= m /\ m <= Least(S)
  BY <1>1
<1> QED BY <1>2, <1>3

LEMMA GreatestIs ==
    ASSUME NEW S \in SUBSET Int, NEW m \in S, \A k \in S : k <= m
    PROVE  Greatest(S) = m
<1>1. Greatest(S) \in S /\ \A k \in S : k <= Greatest(S)
  BY Zenon DEF Greatest
<1>2. Greatest(S) \in Int /\ m \in Int
  BY <1>1
<1>3. Greatest(S) <= m /\ m <= Greatest(S)
  BY <1>1
<1> QED BY <1>2, <1>3

\* A row as it is sampled: integers, or nothing, whose differences divide evenly.
SampledLine(row) ==
    /\ row \in [Columns -> Int \cup {NoValue}]
    /\ \A a, b \in Good(row) : a < b => (row[b] - row[a]) % (b - a) = 0

First(row) == Least(Good(row))
Final(row) == Greatest(Good(row))
Before(row, j) == {k \in Good(row) : k < j}
After(row, j) == {k \in Good(row) : k > j}

\* The recurrence by which FilledRow fills, and the straight lines it is to result in.
Recurrence(row, f) ==
    [j \in Columns |->
        IF j <= First(row) THEN row[First(row)]
        ELSE IF j >= Final(row) THEN row[Final(row)]
        ELSE IF row[j] # NoValue THEN row[j]
        ELSE f[j - 1] + (row[Least(After(row, j))] - f[j - 1]) \div (Least(After(row, j)) - (j - 1))]

Slope(row, a, b) == (row[b] - row[a]) \div (b - a)

Straight(row) ==
    [j \in Columns |->
        IF j <= First(row) THEN row[First(row)]
        ELSE IF j >= Final(row) THEN row[Final(row)]
        ELSE IF row[j] # NoValue THEN row[j]
        ELSE row[Greatest(Before(row, j))]
             + Slope(row, Greatest(Before(row, j)), Least(After(row, j))) * (j - Greatest(Before(row, j)))]

\* Two samples with none between them.
Neighbours(row, a, b) ==
    /\ a \in Good(row) /\ b \in Good(row) /\ a < b
    /\ \A k \in Good(row) : k <= a \/ b <= k

LEMMA EndsOfRow ==
    ASSUME NEW row, SampledLine(row), Good(row) # {}
    PROVE  /\ First(row) \in Good(row) /\ \A k \in Good(row) : First(row) <= k
           /\ Final(row) \in Good(row) /\ \A k \in Good(row) : k <= Final(row)
<1>1. NR \in Nat /\ NR - 1 \in Nat /\ Good(row) \in SUBSET (0 .. (NR - 1)) /\ Good(row) \in SUBSET Nat
  BY SamplingAssumption DEF Good, Columns
<1> HIDE DEF Good
<1>2. PICK a \in Good(row) : \A k \in Good(row) : a <= k
  BY <1>1, LeastNatural
<1>3. PICK b \in Good(row) : \A k \in Good(row) : k <= b
  BY <1>1, GreatestNatural
<1>4. First(row) = a
  BY <1>1, <1>2, LeastIs DEF First
<1>5. Final(row) = b
  BY <1>1, <1>3, GreatestIs DEF Final
<1> QED BY <1>2, <1>3, <1>4, <1>5

\* A cell of a gap lies between two neighbours.
LEMMA GapHasEnds ==
    ASSUME NEW row, SampledLine(row), NEW j \in Columns, row[j] = NoValue, Good(row) # {},
           First(row) < j, j < Final(row)
    PROVE  \E a, b \in Good(row) : Neighbours(row, a, b) /\ a < j /\ j < b
<1>1. NR \in Nat /\ NR - 1 \in Nat /\ Good(row) \in SUBSET (0 .. (NR - 1)) /\ Good(row) \in SUBSET Nat /\ j \in Nat
  BY SamplingAssumption DEF Good, Columns
<1>2. j \notin Good(row)
  BY DEF Good
<1> HIDE DEF Good
<1>3. Before(row, j) # {} /\ After(row, j) # {}
  BY EndsOfRow DEF Before, After
<1>4. Before(row, j) \in SUBSET (0 .. (NR - 1)) /\ After(row, j) \in SUBSET Nat
  BY <1>1 DEF Before, After
<1>5. PICK a \in Before(row, j) : \A k \in Before(row, j) : k <= a
  BY <1>1, <1>3, <1>4, GreatestNatural
<1>6. PICK b \in After(row, j) : \A k \in After(row, j) : b <= k
  BY <1>3, <1>4, LeastNatural
<1>7. a \in Good(row) /\ b \in Good(row) /\ a < j /\ j < b
  BY DEF Before, After
<1>8. \A k \in Good(row) : k <= a \/ b <= k
  BY <1>1, <1>2, <1>5, <1>6 DEF Before, After
<1>9. Neighbours(row, a, b)
  BY <1>1, <1>7, <1>8 DEF Neighbours
<1> QED BY <1>7, <1>9

\* And they are what both definitions look for.
LEMMA GapEnds ==
    ASSUME NEW row, SampledLine(row), NEW a, NEW b, Neighbours(row, a, b), NEW j \in Columns, a < j, j < b
    PROVE  /\ Greatest(Before(row, j)) = a /\ Least(After(row, j)) = b
           /\ row[j] = NoValue /\ First(row) < j /\ j < Final(row)
           /\ a \in Columns /\ b \in Columns /\ row[a] \in Int /\ row[b] \in Int
<1>1. Good(row) \in SUBSET Int /\ j \in Int /\ a \in Int /\ b \in Int
  BY SamplingAssumption DEF Good, Columns, Neighbours
<1>2. row[j] = NoValue /\ a \in Columns /\ b \in Columns /\ row[a] \in Int /\ row[b] \in Int
  BY <1>1 DEF Good, Neighbours, SampledLine
<1> HIDE DEF Good
<1>3. Good(row) # {} /\ First(row) <= a /\ b <= Final(row) /\ First(row) \in Int /\ Final(row) \in Int
  BY <1>1, EndsOfRow DEF Neighbours
<1>4. a \in Before(row, j) /\ b \in After(row, j)
  BY DEF Neighbours, Before, After
<1>5. /\ \A k \in Before(row, j) : k <= a
      /\ \A k \in After(row, j) : b <= k
  BY <1>1 DEF Neighbours, Before, After
<1>6. Before(row, j) \in SUBSET Int /\ After(row, j) \in SUBSET Int
  BY <1>1 DEF Before, After
<1>7. Greatest(Before(row, j)) = a
  BY <1>4, <1>5, <1>6, GreatestIs
<1>8. Least(After(row, j)) = b
  BY <1>4, <1>5, <1>6, LeastIs
<1> QED BY <1>1, <1>2, <1>3, <1>7, <1>8

\* In a gap the straight line goes on from the sample before it.
LEMMA StraightInGap ==
    ASSUME NEW row, SampledLine(row), NEW a, NEW b, Neighbours(row, a, b), NEW j \in Columns, a <= j, j < b
    PROVE  /\ Slope(row, a, b) \in Int /\ row[a] \in Int /\ row[b] \in Int /\ a \in Nat /\ b \in Nat
           /\ row[b] = row[a] + Slope(row, a, b) * (b - a)
           /\ Straight(row)[j] = row[a] + Slope(row, a, b) * (j - a)
<1>1. a \in Columns /\ b \in Columns /\ a \in Nat /\ b \in Nat /\ j \in Nat /\ b - a \in Nat \ {0} /\ row[a] # NoValue /\ row[b] # NoValue
  BY SamplingAssumption DEF Good, Columns, Neighbours
<1>2. row[a] \in Int /\ row[b] \in Int
  BY <1>1 DEF SampledLine
<1>3. (row[b] - row[a]) % (b - a) = 0
  BY DEF SampledLine, Neighbours
<1>4. Slope(row, a, b) \in Int /\ row[b] - row[a] = Slope(row, a, b) * (b - a)
  <2> DEFINE x == row[b] - row[a]
             n == b - a
  <2>1. x \in Int /\ n \in Nat \ {0} /\ x % n = 0
    BY <1>1, <1>2, <1>3
  <2>2. Slope(row, a, b) = x \div n
    BY DEF Slope
  <2> HIDE DEF x, n
  <2>3. Slope(row, a, b) \in Int /\ x = Slope(row, a, b) * n
    BY <2>1, <2>2, NoRemainder
  <2> QED BY <2>3 DEF x, n
<1>5. Straight(row)[j] = row[a] + Slope(row, a, b) * (j - a)
  <2>1. CASE j = a
    <3>1. First(row) <= a /\ ~(a >= Final(row)) /\ First(row) \in Int /\ First(row) \in Good(row) /\ \A k \in Good(row) : First(row) <= k
      <4>1. Good(row) # {} /\ Good(row) \in SUBSET Int
        BY DEF Neighbours, Good, Columns
      <4> QED BY <1>1, <4>1, EndsOfRow DEF Neighbours
    <3>2. /\ a <= First(row) => Straight(row)[a] = row[First(row)] /\ First(row) = a
          /\ First(row) < a => Straight(row)[a] = row[a]
      <4>1. Straight(row)[a] = IF a <= First(row) THEN row[First(row)] ELSE row[a]
        BY <1>1, <3>1 DEF Straight
      <4>2. First(row) <= a
        BY <3>1
      <4> QED BY <1>1, <3>1, <4>1, <4>2
    <3>3. Straight(row)[a] = row[a]
      BY <1>1, <3>1, <3>2
    <3> QED BY <1>1, <1>2, <1>4, <2>1, <3>3
  <2>2. CASE a < j
    <3>1. /\ Greatest(Before(row, j)) = a /\ Least(After(row, j)) = b
          /\ row[j] = NoValue /\ First(row) < j /\ j < Final(row)
      BY <2>2, GapEnds
    <3>2. First(row) \in Int /\ Final(row) \in Int
      <4>1. Good(row) # {} /\ Good(row) \in SUBSET Int
        BY DEF Neighbours, Good, Columns
      <4> QED BY <4>1, EndsOfRow
    <3>3. ~(j <= First(row)) /\ ~(j >= Final(row))
      BY <1>1, <3>1, <3>2
    <3>4. Straight(row)[j] = row[Greatest(Before(row, j))]
             + Slope(row, Greatest(Before(row, j)), Least(After(row, j))) * (j - Greatest(Before(row, j)))
      BY <3>1, <3>3 DEF Straight
    <3> QED BY <3>1, <3>4
  <2> QED BY <1>1, <2>1, <2>2
<1>6. row[b] = row[a] + Slope(row, a, b) * (b - a)
  BY <1>2, <1>4
<1> QED BY <1>1, <1>2, <1>4, <1>5, <1>6

\* The next cell of a gap, from the cell before it and the sample after it.
LEMMA GapStep ==
    ASSUME NEW x \in Int, NEW d \in Int, NEW a \in Nat, NEW b \in Nat, NEW j \in Nat, a < j, j < b
    PROVE  (x + d * (j - 1 - a)) + ((x + d * (b - a)) - (x + d * (j - 1 - a))) \div (b - (j - 1)) = x + d * (j - a)
<1>1. b - (j - 1) \in Nat \ {0} /\ j - 1 - a \in Int /\ b - a \in Int
  OBVIOUS
<1>2. d * (b - a) = d * (b - (j - 1)) + d * (j - 1 - a)
  BY <1>1
<1>3. d * (j - a) = d * (j - 1 - a) + d
  BY <1>1
<1>4. (d * (b - (j - 1))) \div (b - (j - 1)) = d
  BY <1>1, MultipleDivides
<1>5. d * (b - a) \in Int /\ d * (b - (j - 1)) \in Int /\ d * (j - 1 - a) \in Int /\ d * (j - a) \in Int
  BY <1>1
<1>6. (x + d * (b - a)) - (x + d * (j - 1 - a)) = d * (b - (j - 1))
  BY <1>2, <1>5
<1> QED BY <1>3, <1>4, <1>5, <1>6

\* Straight lines are what the recurrence determines, and nothing else is.
LEMMA OneSolution ==
    ASSUME NEW row, SampledLine(row), Good(row) # {}, NEW f
    PROVE  f = Recurrence(row, f) <=> f = Straight(row)
<1> DEFINE g == Straight(row)
<1>1. ASSUME NEW j \in Columns, row[j] = NoValue, First(row) < j, j < Final(row)
      PROVE  j - 1 \in Columns /\ Recurrence(row, g)[j] = g[j]
  <2>1. PICK a, b \in Good(row) : Neighbours(row, a, b) /\ a < j /\ j < b
    BY <1>1, GapHasEnds
  <2>2. a \in Nat /\ b \in Nat /\ j \in Nat /\ j - 1 \in Columns /\ a <= j - 1 /\ j - 1 < b
    BY <2>1, SamplingAssumption DEF Good, Columns
  <2>3. /\ Slope(row, a, b) \in Int /\ row[a] \in Int /\ row[b] \in Int
        /\ row[b] = row[a] + Slope(row, a, b) * (b - a)
        /\ g[j] = row[a] + Slope(row, a, b) * (j - a)
    BY <2>1, <2>2, StraightInGap
  <2>4. g[j - 1] = row[a] + Slope(row, a, b) * (j - 1 - a)
    BY <2>1, <2>2, StraightInGap
  <2>5. Least(After(row, j)) = b
    BY <2>1, GapEnds
  <2>6. First(row) \in Int /\ Final(row) \in Int
    BY EndsOfRow DEF Good, Columns
  <2>7. Recurrence(row, g)[j] = g[j - 1] + (row[b] - g[j - 1]) \div (b - (j - 1))
    BY <1>1, <2>2, <2>5, <2>6 DEF Recurrence
  <2>8. Recurrence(row, g)[j] = g[j]
    <3> HIDE DEF g
    <3> DEFINE d == Slope(row, a, b)
               x == row[a]
    <3>1. d \in Int /\ x \in Int /\ a < j /\ j < b
      BY <2>1, <2>3
    <3> HIDE DEF d, x
    <3>2. (x + d * (j - 1 - a)) + ((x + d * (b - a)) - (x + d * (j - 1 - a))) \div (b - (j - 1)) = x + d * (j - a)
      BY <2>2, <3>1, GapStep
    <3>3. row[b] = x + d * (b - a) /\ g[j] = x + d * (j - a) /\ g[j - 1] = x + d * (j - 1 - a)
      BY <2>3, <2>4 DEF x, d
    <3> QED BY <2>7, <3>2, <3>3, Zenon
  <2> QED BY <2>2, <2>8
<1>2. g = Recurrence(row, g)
  <2>1. ASSUME NEW j \in Columns PROVE Recurrence(row, g)[j] = g[j]
    <3>1. First(row) \in Int /\ Final(row) \in Int /\ j \in Int
      BY EndsOfRow DEF Good, Columns
    <3>2. CASE row[j] = NoValue /\ First(row) < j /\ j < Final(row)
      BY <1>1, <3>2
    <3>3. CASE j <= First(row)
      BY <3>3 DEF Recurrence, Straight
    <3>4. CASE ~(j <= First(row)) /\ j >= Final(row)
      BY <3>4 DEF Recurrence, Straight
    <3>5. CASE ~(j <= First(row)) /\ ~(j >= Final(row)) /\ row[j] # NoValue
      BY <3>5 DEF Recurrence, Straight
    <3> QED BY <3>1, <3>2, <3>3, <3>4, <3>5
  <2>2. g \in [Columns -> {g[j] : j \in Columns}] /\ DOMAIN Recurrence(row, g) = Columns
    BY DEF Straight, Recurrence
  <2>3. Recurrence(row, g) = [j \in Columns |-> Recurrence(row, g)[j]]
    BY DEF Recurrence
  <2>4. g = [j \in Columns |-> g[j]]
    BY DEF Straight
  <2> HIDE DEF g
  <2> QED BY <2>1, <2>3, <2>4
<1>3. ASSUME f = Recurrence(row, f) PROVE f = g
  <2> DEFINE Wrong == {j \in Columns : f[j] # g[j]}
  <2>1. Wrong \in SUBSET Nat
    BY SamplingAssumption DEF Columns
  <2>2. ASSUME NEW j \in Wrong, \A k \in Wrong : j <= k PROVE FALSE
    <3>1. First(row) \in Int /\ Final(row) \in Int /\ j \in Int /\ j \in Columns /\ f[j] # g[j]
      BY EndsOfRow, <2>1 DEF Good, Columns
    <3>2. f[j] = Recurrence(row, f)[j] /\ g[j] = Recurrence(row, g)[j]
      BY <1>2, <1>3
    <3>3. CASE row[j] = NoValue /\ First(row) < j /\ j < Final(row)
      <4>1. j - 1 \in Columns
        BY <1>1, <3>1, <3>3
      <4>2. j - 1 \notin Wrong
        BY <2>2, <3>1
      <4>3. f[j - 1] = g[j - 1]
        BY <4>1, <4>2
      <4> HIDE DEF g, Wrong
      <4>4. Recurrence(row, f)[j] = Recurrence(row, g)[j]
        BY <3>1, <4>3 DEF Recurrence
      <4> QED BY <3>1, <3>2, <4>4
    <3>4. CASE ~(row[j] = NoValue /\ First(row) < j /\ j < Final(row))
      <4> HIDE DEF g, Wrong
      <4>1. Recurrence(row, f)[j] = Recurrence(row, g)[j]
        BY <3>1, <3>4 DEF Recurrence
      <4> QED BY <3>1, <3>2, <4>1
    <3> QED BY <3>3, <3>4
  <2>3. Wrong = {}
    <3> HIDE DEF Wrong
    <3> QED BY <2>1, <2>2, LeastNatural
  <2>4. f = [j \in Columns |-> f[j]]
    BY <1>3 DEF Recurrence
  <2>5. g = [j \in Columns |-> g[j]]
    BY DEF Straight
  <2> HIDE DEF g
  <2> QED BY <2>3, <2>4, <2>5
<1> QED BY <1>2, <1>3

LEMMA FilledIsStraight ==
    ASSUME NEW row, SampledLine(row), Good(row) # {}
    PROVE  FilledRow(row) = Straight(row)
<1>1. FilledRow(row) = CHOOSE f : f = Recurrence(row, f)
  BY DEF FilledRow, Recurrence, First, Final, After
<1>2. \E f : f = Recurrence(row, f)
  BY OneSolution
<1>3. FilledRow(row) = Recurrence(row, FilledRow(row))
  BY <1>1, <1>2, Zenon
<1> QED BY <1>3, OneSolution

-----------------------------------------------------------------------------
(* The median. *)

Up(C, V, v) == {c \in C : V[c] <= v}
Low(C, V, v) == {c \in C : V[c] < v}

LEMMA Counts ==
    ASSUME NEW C, IsFiniteSet(C), NEW V, NEW v
    PROVE  /\ IsFiniteSet(Up(C, V, v)) /\ Cardinality(Up(C, V, v)) \in 0 .. Cardinality(C)
           /\ IsFiniteSet(Low(C, V, v)) /\ Cardinality(Low(C, V, v)) \in 0 .. Cardinality(C)
           /\ Cardinality(C) \in Nat
<1>1. Up(C, V, v) \in SUBSET C /\ Low(C, V, v) \in SUBSET C
  BY DEF Up, Low
<1> HIDE DEF Up, Low
<1>2. /\ IsFiniteSet(Up(C, V, v)) /\ Cardinality(Up(C, V, v)) <= Cardinality(C)
      /\ IsFiniteSet(Low(C, V, v)) /\ Cardinality(Low(C, V, v)) <= Cardinality(C)
  BY <1>1, FS_Subset
<1>3. Cardinality(Up(C, V, v)) \in Nat /\ Cardinality(Low(C, V, v)) \in Nat /\ Cardinality(C) \in Nat
  BY <1>2, FS_CardinalityType
<1> QED BY <1>2, <1>3

\* A greater value has more values up to it.
LEMMA MoreAbove ==
    ASSUME NEW C, IsFiniteSet(C), NEW V \in [C -> Int], NEW c \in C, NEW d \in C, V[c] < V[d]
    PROVE  Cardinality(Up(C, V, V[c])) < Cardinality(Up(C, V, V[d]))
<1>1. Up(C, V, V[c]) \in SUBSET Up(C, V, V[d]) /\ d \in Up(C, V, V[d]) /\ d \notin Up(C, V, V[c])
  BY DEF Up
<1>2. /\ IsFiniteSet(Up(C, V, V[d]))
      /\ Cardinality(Up(C, V, V[c])) \in Nat /\ Cardinality(Up(C, V, V[d])) \in Nat
  BY Counts
<1>3. /\ Cardinality(Up(C, V, V[c])) <= Cardinality(Up(C, V, V[d]))
      /\ Cardinality(Up(C, V, V[c])) # Cardinality(Up(C, V, V[d]))
  BY <1>1, <1>2, FS_Subset
<1> QED BY <1>2, <1>3

LEMMA HighestCell ==
    ASSUME NEW C, IsFiniteSet(C), NEW V \in [C -> Int], NEW D \in SUBSET C, D # {}
    PROVE  \E d \in D : \A e \in D : V[e] <= V[d]
<1> DEFINE Sizes == {Cardinality(Up(C, V, V[d])) : d \in D}
<1>1. Sizes \in SUBSET (0 .. Cardinality(C)) /\ Sizes # {} /\ Cardinality(C) \in Nat
  BY Counts
<1>2. PICK k \in Sizes : \A l \in Sizes : l <= k
  <2> HIDE DEF Sizes
  <2> QED BY <1>1, GreatestNatural
<1>3. PICK d \in D : k = Cardinality(Up(C, V, V[d]))
  OBVIOUS
<1>4. ASSUME NEW e \in D, V[d] < V[e] PROVE FALSE
  <2>1. d \in C /\ e \in C
    OBVIOUS
  <2>2. Cardinality(Up(C, V, V[d])) < Cardinality(Up(C, V, V[e]))
    BY <1>4, <2>1, MoreAbove
  <2>3. Cardinality(Up(C, V, V[e])) <= Cardinality(Up(C, V, V[d]))
    BY <1>2, <1>3
  <2>4. Cardinality(Up(C, V, V[d])) \in Nat /\ Cardinality(Up(C, V, V[e])) \in Nat
    BY Counts
  <2> QED BY <2>2, <2>3, <2>4
<1>5. \A e \in D : V[e] \in Int /\ V[d] \in Int
  OBVIOUS
<1> QED BY <1>4, <1>5

\* The element in the middle, where nth_element puts it.
Middle(C, V, v) ==
    /\ Cardinality(Low(C, V, v)) <= Cardinality(C) \div 2
    /\ Cardinality(C) \div 2 < Cardinality(Up(C, V, v))

LEMMA HalfOf ==
    ASSUME NEW n \in Nat \ {0}
    PROVE  n \div 2 \in Nat /\ n \div 2 < n /\ 2 * (n \div 2) <= n /\ n < 2 * (n \div 2) + 2
OBVIOUS

LEMMA MiddleExists ==
    ASSUME NEW C, IsFiniteSet(C), C # {}, NEW V \in [C -> Int]
    PROVE  \E c \in C : Middle(C, V, V[c])
<1> DEFINE n == Cardinality(C)
           half == n \div 2
           Size(c) == Cardinality(Up(C, V, V[c]))
           Enough == {Size(c) : c \in {d \in C : half < Size(d)}}
<1>1. n \in Nat \ {0}
  BY FS_CardinalityType, FS_EmptySet
<1>2. half \in Nat /\ half < n
  BY <1>1, HalfOf
<1>3. \A c \in C : Size(c) \in Nat
  BY Counts
<1>4. Enough # {}
  <2>1. PICK d \in C : \A e \in C : V[e] <= V[d]
    BY HighestCell
  <2>2. Up(C, V, V[d]) = C
    BY <2>1 DEF Up
  <2> QED BY <1>2, <2>2
<1>5. Enough \in SUBSET Nat
  BY <1>3
<1>6. PICK k \in Enough : \A l \in Enough : k <= l
  <2> HIDE DEF Enough
  <2> QED BY <1>4, <1>5, LeastNatural
<1>7. PICK c \in C : k = Size(c) /\ half < Size(c)
  OBVIOUS
<1>8. Cardinality(Low(C, V, V[c])) <= half
  <2> SUFFICES ASSUME ~(Cardinality(Low(C, V, V[c])) <= half) PROVE FALSE
    OBVIOUS
  <2> DEFINE L == Low(C, V, V[c])
  <2>1. Cardinality(L) \in Nat /\ IsFiniteSet(L) /\ half < Cardinality(L)
    BY <1>2, Counts
  <2>2. L # {} /\ L \in SUBSET C
    BY <1>2, <2>1, FS_EmptySet DEF Low
  <2>3. PICK d \in L : \A e \in L : V[e] <= V[d]
    <3> HIDE DEF L
    <3> QED BY <2>2, HighestCell
  <2>4. d \in C /\ V[d] < V[c]
    BY DEF Low
  <2>5. L \in SUBSET Up(C, V, V[d])
    BY <2>3 DEF Low, Up
  <2>6. Cardinality(L) <= Size(d)
    <3>1. IsFiniteSet(Up(C, V, V[d]))
      BY Counts
    <3> HIDE DEF L
    <3> QED BY <2>5, <3>1, FS_Subset
  <2>7. half < Size(d)
    BY <1>2, <1>3, <2>1, <2>4, <2>6
  <2>8. Size(c) <= Size(d)
    <3>1. Size(d) \in Enough
      BY <2>4, <2>7
    <3> QED BY <1>6, <1>7, <3>1
  <2>9. Size(d) < Size(c)
    BY <2>4, MoreAbove
  <2> QED BY <1>3, <2>4, <2>8, <2>9
<1> QED BY <1>7, <1>8 DEF Middle

\* Half of the values are not above the one in the middle, and half not below it.
LEMMA MiddleHalves ==
    ASSUME NEW C, IsFiniteSet(C), C # {}, NEW V \in [C -> Int], NEW v \in Int, Middle(C, V, v)
    PROVE  /\ 2 * Cardinality(Up(C, V, v)) >= Cardinality(C)
           /\ 2 * Cardinality({c \in C : V[c] >= v}) >= Cardinality(C)
<1> DEFINE n == Cardinality(C)
           half == n \div 2
<1>1. n \in Nat \ {0}
  BY FS_CardinalityType, FS_EmptySet
<1>2. half \in Nat /\ 2 * half <= n /\ n < 2 * half + 2
  BY <1>1, HalfOf
<1>3. Cardinality(Up(C, V, v)) \in Nat /\ Cardinality(Low(C, V, v)) \in Nat
  BY Counts
<1>4. {c \in C : V[c] >= v} = C \ Low(C, V, v) /\ C \cap Low(C, V, v) = Low(C, V, v)
  BY DEF Low
<1>5. Cardinality({c \in C : V[c] >= v}) = n - Cardinality(Low(C, V, v))
  BY <1>4, FS_Difference
<1>6. Cardinality(Low(C, V, v)) <= half /\ half < Cardinality(Up(C, V, v))
  BY DEF Middle
<1> HIDE DEF half, n
<1>7. 2 * Cardinality(Up(C, V, v)) >= n
  BY <1>1, <1>2, <1>3, <1>6
<1>8. 2 * (n - Cardinality(Low(C, V, v))) >= n
  BY <1>1, <1>2, <1>3, <1>6
<1> QED BY <1>5, <1>7, <1>8 DEF n

ValuesIn(m) == [c \in FiniteCells(m) |-> m[c[1]][c[2]]]

LEMMA MedianIsMiddle ==
    ASSUME NEW m, FiniteCells(m) # {}, ValuesIn(m) \in [FiniteCells(m) -> Int]
    PROVE  /\ IsFiniteSet(FiniteCells(m))
           /\ Median(m) \in Int /\ Middle(FiniteCells(m), ValuesIn(m), Median(m))
<1> DEFINE C == FiniteCells(m)
           V == ValuesIn(m)
           Taken == {m[c[1]][c[2]] : c \in C}
<1>1. IsFiniteSet(C)
  <2>1. IsFiniteSet(Rows) /\ IsFiniteSet(Columns)
    BY SamplingAssumption, FS_Interval DEF Rows, Columns
  <2>2. IsFiniteSet(Cells)
    BY <2>1, FS_Product DEF Cells
  <2> QED BY <2>2, FS_Subset DEF FiniteCells
<1>2. \A c \in C : V[c] = m[c[1]][c[2]] /\ V[c] \in Int
  <2>1. \A c \in C : V[c] = m[c[1]][c[2]]
    BY DEF ValuesIn
  <2> QED BY <2>1
<1>3. ASSUME NEW v PROVE /\ {c \in C : m[c[1]][c[2]] < v} = Low(C, V, v)
                         /\ {c \in C : m[c[1]][c[2]] <= v} = Up(C, V, v)
  <2> HIDE DEF C, V
  <2> QED BY <1>2 DEF Low, Up
<1>4. \E v \in Taken : Middle(C, V, v)
  <2>1. PICK c \in C : Middle(C, V, V[c])
    <3> HIDE DEF C, V
    <3> QED BY <1>1, MiddleExists DEF C, V
  <2> QED BY <1>2, <2>1
<1>5. Median(m) = CHOOSE v \in Taken : /\ Cardinality({c \in C : m[c[1]][c[2]] < v}) <= Cardinality(C) \div 2
                                       /\ Cardinality(C) \div 2 < Cardinality({c \in C : m[c[1]][c[2]] <= v})
  BY Zenon DEF Median
<1>6. Median(m) \in Taken /\ Middle(C, V, Median(m))
  <2>1. \E v \in Taken : /\ Cardinality({c \in C : m[c[1]][c[2]] < v}) <= Cardinality(C) \div 2
                         /\ Cardinality(C) \div 2 < Cardinality({c \in C : m[c[1]][c[2]] <= v})
    <3>1. PICK v \in Taken : Middle(C, V, v)
      BY <1>4
    <3> HIDE DEF C, V, Taken
    <3> QED BY <1>3, <3>1 DEF Middle
  <2>2. /\ Median(m) \in Taken
        /\ Cardinality({c \in C : m[c[1]][c[2]] < Median(m)}) <= Cardinality(C) \div 2
        /\ Cardinality(C) \div 2 < Cardinality({c \in C : m[c[1]][c[2]] <= Median(m)})
    <3> HIDE DEF C, V, Taken
    <3> QED BY <1>5, <2>1, Zenon
  <2> HIDE DEF C, V, Taken
  <2> QED BY <1>3, <2>2 DEF Middle
<1>7. Median(m) \in Int
  <2>1. PICK c \in C : Median(m) = m[c[1]][c[2]]
    BY <1>6
  <2> QED BY <1>2, <2>1
<1> QED BY <1>1, <1>6, <1>7

-----------------------------------------------------------------------------
(* What is filled. *)

MatrixInv ==
    /\ M \in [Rows -> [Columns -> Int \cup {NoValue}]]
    /\ \A i \in Rows : \A j \in Columns : M[i][j] \in {NoValue, Sample[i][j]}

LEMMA RowIsLine ==
    ASSUME MatrixInv, NEW i \in Rows
    PROVE  SampledLine(M[i])
<1>1. M[i] \in [Columns -> Int \cup {NoValue}]
  BY DEF MatrixInv
<1>2. ASSUME NEW a \in Good(M[i]), NEW b \in Good(M[i]), a < b PROVE (M[i][b] - M[i][a]) % (b - a) = 0
  <2>1. a \in Columns /\ b \in Columns /\ M[i][a] = Sample[i][a] /\ M[i][b] = Sample[i][b]
    BY DEF Good, MatrixInv
  <2> QED BY <1>2, <2>1, EvenAssumption
<1> QED BY <1>1, <1>2 DEF SampledLine

\* A straight row keeps its samples, is constant outside them and straight between them.
LEMMA StraightKeeps ==
    ASSUME NEW row, SampledLine(row), Good(row) # {}
    PROVE  /\ Straight(row) \in [Columns -> Int]
           /\ \A a \in Good(row) :
                /\ Straight(row)[a] = row[a]
                /\ (\A k \in Good(row) : a <= k) => \A j \in 0 .. a : Straight(row)[j] = row[a]
                /\ (\A k \in Good(row) : k <= a) => \A j \in a .. NR - 1 : Straight(row)[j] = row[a]
                /\ \A b \in Good(row) :
                     (a < b /\ \A k \in Good(row) : k <= a \/ b <= k) =>
                        \A j \in a .. b : (Straight(row)[j] - row[a]) * (b - a) = (row[b] - row[a]) * (j - a)
<1>1. /\ NR \in Nat \ {0, 1} /\ First(row) \in Columns /\ Final(row) \in Columns /\ Columns \in SUBSET Nat
      /\ First(row) \in Int /\ Final(row) \in Int /\ First(row) \in Good(row) /\ Final(row) \in Good(row)
      /\ \A k \in Good(row) : First(row) <= k /\ k <= Final(row)
  BY EndsOfRow, SamplingAssumption DEF Good, Columns
<1>2. \A a \in Good(row) : a \in Columns /\ a \in Int /\ row[a] \in Int /\ row[a] # NoValue
  BY <1>1 DEF Good, SampledLine
<1>3. ASSUME NEW a \in Good(row) PROVE Straight(row)[a] = row[a]
  <2>1. CASE a <= First(row)
    <3>1. a = First(row)
      BY <1>1, <1>2, <2>1
    <3> QED BY <1>1, <1>2, <2>1, <3>1 DEF Straight
  <2>2. CASE ~(a <= First(row)) /\ a >= Final(row)
    <3>1. a = Final(row)
      BY <1>1, <1>2, <2>2
    <3> QED BY <1>1, <1>2, <2>2, <3>1 DEF Straight
  <2>3. CASE ~(a <= First(row)) /\ ~(a >= Final(row))
    BY <1>2, <2>3 DEF Straight
  <2> QED BY <2>1, <2>2, <2>3
<1>4. ASSUME NEW a \in Good(row), \A k \in Good(row) : a <= k, NEW j \in 0 .. a PROVE Straight(row)[j] = row[a]
  <2>1. a = First(row)
    BY <1>1, <1>2, <1>4
  <2>2. j \in Columns /\ j <= First(row)
    BY <1>1, <1>2, <2>1 DEF Columns
  <2> QED BY <2>1, <2>2 DEF Straight
<1>5. ASSUME NEW a \in Good(row), \A k \in Good(row) : k <= a, NEW j \in a .. NR - 1 PROVE Straight(row)[j] = row[a]
  <2>1. a = Final(row)
    BY <1>1, <1>2, <1>5
  <2>2. j \in Columns /\ j >= Final(row) /\ j \in Int
    BY <1>1, <1>2, <2>1 DEF Columns
  <2>3. CASE j <= First(row)
    <3>1. First(row) = Final(row)
      BY <1>1, <2>2, <2>3
    <3> QED BY <2>1, <2>2, <2>3, <3>1 DEF Straight
  <2>4. CASE ~(j <= First(row))
    BY <2>1, <2>2, <2>4 DEF Straight
  <2> QED BY <2>3, <2>4
<1>6. ASSUME NEW a \in Good(row), NEW b \in Good(row), a < b, \A k \in Good(row) : k <= a \/ b <= k, NEW j \in a .. b
      PROVE  (Straight(row)[j] - row[a]) * (b - a) = (row[b] - row[a]) * (j - a)
  <2>1. Neighbours(row, a, b) /\ a \in Nat /\ b \in Nat /\ j \in Int /\ j \in Columns /\ a \in Columns /\ a <= j /\ j <= b
    BY <1>1, <1>2, <1>6 DEF Neighbours, Columns
  <2> DEFINE d == Slope(row, a, b)
             x == row[a]
  <2>2. d \in Int /\ x \in Int /\ row[b] = x + d * (b - a)
    BY <1>6, <2>1, StraightInGap
  <2>3. CASE j < b
    <3>1. Straight(row)[j] = x + d * (j - a)
      BY <2>1, <2>3, StraightInGap
    <3> HIDE DEF d, x
    <3>2. (Straight(row)[j] - x) * (b - a) = (row[b] - x) * (j - a)
      <4>1. Straight(row)[j] - x = d * (j - a) /\ row[b] - x = d * (b - a)
        BY <2>1, <2>2, <3>1
      <4>2. (d * (j - a)) * (b - a) = (d * (b - a)) * (j - a)
        BY <2>1, <2>2
      <4> QED BY <4>1, <4>2
    <3> QED BY <3>2 DEF x
  <2>4. CASE j = b
    BY <1>3, <2>4
  <2> QED BY <2>1, <2>3, <2>4
<1>7. ASSUME NEW j \in Columns PROVE Straight(row)[j] \in Int
  <2>1. j \in Int
    BY <1>1
  <2>2. CASE j <= First(row)
    BY <1>1, <1>2, <2>2 DEF Straight
  <2>3. CASE ~(j <= First(row)) /\ j >= Final(row)
    BY <1>1, <1>2, <2>3 DEF Straight
  <2>4. CASE ~(j <= First(row)) /\ ~(j >= Final(row)) /\ row[j] # NoValue
    BY <2>4 DEF Straight, SampledLine
  <2>5. CASE ~(j <= First(row)) /\ ~(j >= Final(row)) /\ row[j] = NoValue
    <3>1. PICK a, b \in Good(row) : Neighbours(row, a, b) /\ a < j /\ j < b
      BY <1>1, <2>1, <2>5, GapHasEnds
    <3>2. a <= j /\ a \in Int
      BY <1>2, <2>1, <3>1
    <3>3. Slope(row, a, b) \in Int /\ row[a] \in Int /\ Straight(row)[j] = row[a] + Slope(row, a, b) * (j - a)
      BY <3>1, <3>2, StraightInGap
    <3> QED BY <2>1, <3>2, <3>3
  <2> QED BY <2>2, <2>3, <2>4, <2>5
<1>8. Straight(row) \in [Columns -> Int]
  <2>1. Straight(row) = [j \in Columns |-> Straight(row)[j]]
    BY DEF Straight
  <2> QED BY <1>7, <2>1
<1> QED BY <1>3, <1>4, <1>5, <1>6, <1>8

\* The rows as they are before those without any sample take the median.
RowWise == [i \in Rows |-> FilledRow(M[i])]
Others == {c \in Cells : Good(M[c[1]]) # {}}

LEMMA RowWiseIs ==
    ASSUME MatrixInv
    PROVE  /\ \A i \in Rows : Good(M[i]) # {} => RowWise[i] = Straight(M[i]) /\ RowWise[i] \in [Columns -> Int]
           /\ FiniteCells(RowWise) = Others
<1>1. ASSUME NEW i \in Rows, Good(M[i]) # {}
      PROVE  RowWise[i] = Straight(M[i]) /\ RowWise[i] \in [Columns -> Int]
  BY <1>1, RowIsLine, FilledIsStraight, StraightKeeps DEF RowWise
<1>2. ASSUME NEW i \in Rows, Good(M[i]) = {}
      PROVE  \A j \in Columns : RowWise[i][j] = NoValue
  <2>1. FilledRow(M[i]) = M[i]
    BY <1>2 DEF FilledRow
  <2> QED BY <1>2, <2>1 DEF RowWise, Good
<1>3. ASSUME NEW c \in Cells PROVE RowWise[c[1]][c[2]] # NoValue <=> Good(M[c[1]]) # {}
  <2>1. c[1] \in Rows /\ c[2] \in Columns
    BY DEF Cells
  <2>2. CASE Good(M[c[1]]) # {}
    <3>1. RowWise[c[1]][c[2]] \in Int
      BY <1>1, <2>1, <2>2
    <3> QED BY <2>2, <3>1, SamplingAssumption
  <2>3. CASE Good(M[c[1]]) = {}
    BY <1>2, <2>1, <2>3
  <2> QED BY <2>2, <2>3
<1> QED BY <1>1, <1>3 DEF FiniteCells, Others

\* The fill does what the property says.
LEMMA FillIsStraight ==
    ASSUME SamplingTypes, MatrixInv, Fill
    PROVE  FilledAlongTheRows'
<1> SUFFICES ASSUME main'.at = "built", NEW i \in Rows
             PROVE  IF Good(M[i]) = {} THEN TakesMedian(i)' ELSE Interpolates(i)'
  <2>1. M' = M
    BY DEF Fill
  <2> QED BY <2>1 DEF FilledAlongTheRows
<1>0. M' = M
  BY DEF Fill
<1>1. /\ FiniteCells(M) # {}
      /\ filled' = [k \in Rows |-> IF Good(M[k]) # {} THEN RowWise[k] ELSE [j \in Columns |-> Median(RowWise)]]
  <2>1. CASE FiniteCells(M) = {}
    <3>1. main'.at = "threw"
      BY <2>1 DEF Fill, SamplingTypes
    <3> QED BY <3>1
  <2>2. CASE FiniteCells(M) # {}
    BY <2>2 DEF Fill, RowWise
  <2> QED BY <2>1, <2>2
<1>2. CASE Good(M[i]) # {}
  <2>1. filled'[i] = Straight(M[i])
    BY <1>1, <1>2, RowWiseIs
  <2>2. SampledLine(M[i])
    BY RowIsLine
  <2>3. Interpolates(i)'
    BY <1>0, <1>2, <2>1, <2>2, StraightKeeps DEF Interpolates
  <2> QED BY <1>2, <2>3
<1>3. CASE Good(M[i]) = {}
  <2> DEFINE V == ValuesIn(RowWise)
             v == Median(RowWise)
  <2>1. FiniteCells(RowWise) = Others
    BY RowWiseIs
  <2>2. Others # {}
    <3>1. PICK c \in Cells : M[c[1]][c[2]] # NoValue
      BY <1>1 DEF FiniteCells
    <3>2. c[2] \in Good(M[c[1]])
      BY <3>1 DEF Good, Cells
    <3> QED BY <3>1, <3>2 DEF Others
  <2>3. \A c \in Others : c[1] \in Rows /\ c[2] \in Columns /\ Good(M[c[1]]) # {}
    BY DEF Others, Cells
  <2>4. \A c \in Others : RowWise[c[1]][c[2]] \in Int
    BY <2>3, RowWiseIs
  <2>5. V \in [Others -> Int] /\ \A c \in Others : V[c] = RowWise[c[1]][c[2]]
    BY <2>1, <2>4 DEF ValuesIn
  <2>6. IsFiniteSet(Others) /\ v \in Int /\ Middle(Others, V, v)
    BY <2>1, <2>2, <2>5, MedianIsMiddle
  <2>7. /\ 2 * Cardinality(Up(Others, V, v)) >= Cardinality(Others)
        /\ 2 * Cardinality({c \in Others : V[c] >= v}) >= Cardinality(Others)
    <3> HIDE DEF V, v
    <3> QED BY <2>2, <2>5, <2>6, MiddleHalves
  <2>8. \A c \in Others : filled'[c[1]][c[2]] = V[c]
    BY <1>1, <2>3, <2>5
  <2>9. \A j \in Columns : filled'[i][j] = v
    BY <1>1, <1>3
  <2>10. filled'[i][0] = v
    <3>1. 0 \in Columns
      BY SamplingAssumption DEF Columns
    <3> QED BY <2>9, <3>1
  <2>11. ASSUME NEW j \in Columns
         PROVE  /\ {c \in Others : filled'[c[1]][c[2]] <= filled'[i][j]} = Up(Others, V, v)
                /\ {c \in Others : filled'[c[1]][c[2]] >= filled'[i][j]} = {c \in Others : V[c] >= v}
    <3> HIDE DEF V, v
    <3> QED BY <2>8, <2>9 DEF Up
  <2> HIDE DEF V, v
  <2>12. Others' = Others
    BY <1>0 DEF Others
  <2>13. TakesMedian(i)'
    BY <2>7, <2>9, <2>10, <2>11, <2>12 DEF TakesMedian, Others
  <2> QED BY <1>3, <2>13
<1> QED BY <1>2, <1>3

LEMMA RowSampledInv ==
    ASSUME MatrixInv, NEW i \in Nat, NEW finite, SampledRow(i, finite)
    PROVE  MatrixInv'
<1> DEFINE line == [j \in Columns |-> IF j \in finite THEN Sample[i][j] ELSE NoValue]
<1>1. M' = [M EXCEPT ![i] = line]
  BY DEF SampledRow
<1>2. CASE i \notin Rows
  BY <1>1, <1>2 DEF MatrixInv
<1>3. CASE i \in Rows
  <2>1. line \in [Columns -> Int \cup {NoValue}] /\ \A j \in Columns : line[j] \in {NoValue, Sample[i][j]}
    BY <1>3, SamplingAssumption
  <2> HIDE DEF line
  <2> QED BY <1>1, <1>3, <2>1 DEF MatrixInv
<1> QED BY <1>2, <1>3

\* A table that is built is not touched again, and one that is not has no such property to lose.
LEMMA TableInv ==
    ASSUME SamplingInv, MatrixInv, FilledAlongTheRows, [SamplingNext]_samplingVars
    PROVE  MatrixInv' /\ FilledAlongTheRows'
<1>1. ASSUME UNCHANGED <<M, filled>>, main'.at = "built" => main.at = "built"
      PROVE  MatrixInv' /\ FilledAlongTheRows'
  <2>1. MatrixInv'
    BY <1>1 DEF MatrixInv
  <2>2. \A i \in Rows : TakesMedian(i)' <=> TakesMedian(i)
    BY <1>1 DEF TakesMedian
  <2>3. \A i \in Rows : Interpolates(i)' <=> Interpolates(i)
    BY <1>1 DEF Interpolates
  <2> QED BY <1>1, <2>1, <2>2, <2>3 DEF FilledAlongTheRows
<1>2. ASSUME main'.at # "built"
      PROVE  FilledAlongTheRows'
  BY <1>2 DEF FilledAlongTheRows
<1>3. SamplingTypes /\ (main.at = "built" => Quiet)
  BY DEF SamplingInv
<1>4. CASE UNCHANGED samplingVars
  BY <1>1, <1>4 DEF samplingVars
<1>5. ASSUME NEW setting \in Settings, NEW processors \in Processors, NEW able \in BOOLEAN, Decide(setting, processors, able)
      PROVE  MatrixInv' /\ FilledAlongTheRows'
  <2>1. main'.at # "built"
    BY <1>3, <1>5 DEF Decide, SamplingTypes
  <2> QED BY <1>1, <1>5, <2>1 DEF Decide
<1>6. ASSUME NEW finite \in Finite, Serial(finite) PROVE MatrixInv' /\ FilledAlongTheRows'
  <2>1. main'.at # "built" /\ main.next \in Nat
    BY <1>3, <1>6 DEF Serial, SamplingTypes
  <2>2. MatrixInv'
    BY <1>6, <2>1, RowSampledInv DEF Serial
  <2> QED BY <1>2, <2>1, <2>2
<1>7. CASE Spawn \/ SpawnThrow \/ SpawnEnd \/ Join
  <2>1. main'.at # "built"
    BY <1>3, <1>7 DEF Spawn, Dealing, SpawnThrow, SpawnEnd, Join, SamplingTypes
  <2> QED BY <1>1, <1>7, <2>1 DEF Spawn, SpawnThrow, SpawnEnd, Join
<1>8. ASSUME NEW t \in Rows, Start(t) PROVE MatrixInv' /\ FilledAlongTheRows'
  BY <1>1, <1>8 DEF Start
<1>9. ASSUME NEW t \in Rows, NEW finite \in Finite, Work(t, finite) PROVE MatrixInv' /\ FilledAlongTheRows'
  <2>1. main'.at # "built" /\ worker[t].row \in Nat
    BY <1>3, <1>9 DEF Work, Quiet, SamplingTypes
  <2>2. MatrixInv'
    BY <1>9, <2>1, RowSampledInv DEF Work
  <2> QED BY <1>2, <2>1, <2>2
<1>10. CASE Fill
  BY <1>3, <1>10, FillIsStraight DEF Fill, MatrixInv
<1> QED BY <1>4, <1>5, <1>6, <1>7, <1>8, <1>9, <1>10 DEF SamplingNext

\* A table that is built keeps its samples and is straight between them in every
\* row: filling a gap from the left, each cell from the one just filled, comes to
\* the line between the two samples.  Rows without samples get the median of the
\* others, which there always is.
THEOREM TablesAreFilled == SamplingSpec => []FilledAlongTheRows
<1>1. SamplingInit => SamplingInv /\ MatrixInv /\ FilledAlongTheRows
  <2>1. SamplingInit => MatrixInv
    BY DEF SamplingInit, Unsampled, MatrixInv
  <2>2. SamplingInit => FilledAlongTheRows
    BY DEF SamplingInit, FilledAlongTheRows
  <2> QED BY <2>1, <2>2, SamplingInitInv
<1>2. SamplingInv /\ MatrixInv /\ FilledAlongTheRows /\ [SamplingNext]_samplingVars => SamplingInv' /\ MatrixInv' /\ FilledAlongTheRows'
  BY SamplingStepInv, TableInv
<1> QED BY <1>1, <1>2, PTL DEF SamplingSpec

-----------------------------------------------------------------------------
(* The points of a state. *)

Hows == {"nothing", "nan", "ValueError", "NotImplementedError", "L", "V", "input", "sat", "surface", "blend", "mixed",
         "state", "seed", "probe", "half"}
Values == [of : Inputs \cup {NoInput}, how : Hows]
PairOfValues == [L : Values, V : Values]
PointKinds == {"Invalid", "SinglePhase", "DomeBlend", "Patched", "OutOfRange", "TwoPhaseDisallowed"}
Points == [kind : PointKinds, input : Inputs \cup {NoInput}, threw : BOOLEAN,
           T : Values, h : PairOfValues, s : PairOfValues, d : PairOfValues]
TableRows == [status : {"ok", "internal_error", "OutOfRange", "TwoPhaseDisallowed"}, values : Seq(Values), threw : BOOLEAN]

Resolving == {"route", "satpoint", "satsource", "patch", "polish", "restore", "dtdome", "dtsource", "dtpressure",
              "atlas", "reclassify", "missed", "missedsource", "nowhere", "ptsat", "ptsource"}
Evaluating == {"eval", "endpoint", "endliquid", "endvapour"}

Calls == [fn : {"none", "update", "fast", "read"}, stage : {"idle", "batch"} \cup Resolving \cup Evaluating,
          xs : Seq(Inputs), outs : Seq(Properties), end : {"d", "h", "s"}, nan : BOOLEAN,
          value : Values, values : Seq(Values), failed : BOOLEAN, rows : Seq(TableRows)]

PointTypes ==
    /\ call \in Calls /\ pt \in Points /\ active_eval_ \in Points
    /\ patch_source_ \in Values /\ disturbed \in BOOLEAN
    /\ \A o \in DOMAIN cached : cached[o] \in Values

\* What a point knows is of its input, and it is of a kind its place can have.
OwnEnds(ends, x) == ends.L \in {Nothing, Value(x, "L")} /\ ends.V \in {Nothing, Value(x, "V")}

KindFits(kind, x, threw) ==
    /\ threw \/ kind \in Kinds(x)
    /\ kind = "DomeBlend" => x.place \in {"dome", "edge"}

OwnPoint(p, x) ==
    /\ p.input = x
    /\ p.T = Nothing \/ p.T.of = x
    /\ OwnEnds(p.h, x) /\ OwnEnds(p.s, x) /\ OwnEnds(p.d, x)
    /\ KindFits(p.kind, x, p.threw)

ActiveOwn ==
    active_eval_ = NoPoint
    \/ (active_eval_.input \in Inputs /\ active_eval_.kind # "Invalid" /\ OwnPoint(active_eval_, active_eval_.input))

NewPoints == {NoPoint, [NoPoint EXCEPT !.threw = TRUE]}
NewPoint == pt \in NewPoints
Calling == call.fn \in {"update", "fast"} /\ call.stage # "idle"
InRow == call.fn = "fast" /\ call.stage \in {"batch"} \cup Evaluating

\* Which stage belongs to which function, and what the call has got so far.
ShapeOfCall ==
    /\ call.stage \in Resolving => call.fn \in {"update", "fast"} /\ NewPoint
    /\ call.stage = "idle" \/ call.fn = "read" => pt = NoPoint
    /\ call.stage = "batch" => call.fn = "fast"
    /\ call.stage \in Evaluating => call.fn \in {"fast", "read"} /\ Len(call.values) < Len(call.outs)
    /\ call.fn = "read" => Len(call.outs) = 1 /\ call.values = <<>> /\ active_eval_ # NoPoint
    /\ Calling => Len(call.rows) < Len(call.xs)
    /\ call.fn # "fast" => call.rows = <<>>
    /\ call.fn = "fast" => /\ Len(call.rows) <= Len(call.xs)
                           /\ call.stage # "idle" => Len(call.outs) > 0
                           /\ \A k \in DOMAIN call.xs : call.xs[k].pair \notin {"PQ", "QT"}
    /\ call.fn = "fast" /\ call.stage \in {"batch"} \cup Resolving => call.values = <<>> /\ ~call.failed
    /\ call.fn = "update" /\ call.stage # "idle" => DOMAIN cached = {}

\* Which inputs come to a stage of resolve_point_.
ComesTo(stage, x, threw) ==
    CASE stage \in {"satpoint", "satsource"} -> x.pair \in {"PQ", "QT"} /\ x.place \in {"dome", "outside"}
      [] stage \in {"patch", "polish", "restore"} -> x.place \in Patchable
      [] stage \in {"dtdome", "dtsource"} -> x.pair = "DmassT" /\ x.place \notin Patchable
      [] stage = "dtpressure" -> x.pair = "DmassT" /\ x.place = "dome"
      [] stage = "atlas" -> /\ x.pair \notin {"PQ", "QT"} /\ x.place \notin Patchable
                            /\ x.pair = "DmassT" /\ x.place = "dome" => threw
      [] stage = "reclassify" -> x.place \in {"near", "edge"}
      [] stage \in {"missed", "missedsource"} -> x.place \in {"dome", "outside"}
      [] stage \in {"ptsat", "ptsource"} -> x.place \in {"sat", "outside"}
      [] stage = "nowhere" -> x.place = "outside" \/ threw
      [] OTHER -> TRUE

Routing == call.stage \in Resolving => ComesTo(call.stage, X, pt.threw)

\* What the patch source holds, for the last update and for the row at work.
Holding(x) ==
    /\ patch_source_.of = x
    /\ patch_source_.how \in {"state", "seed"} \/ (patch_backend = "IF97" /\ x.place = "band")

Polishing == call.stage \in {"polish", "restore"}

PatchHeld ==
    /\ call.fn = "fast" /\ Polishing => disturbed
    /\ active_eval_.kind = "Patched" /\ ~disturbed /\ ~(call.fn = "update" /\ Polishing) => Holding(active_eval_.input)
    /\ InRow /\ pt.kind = "Patched" => patch_source_.of = X

\* The values read, cached and put into rows.
Moved == active_eval_.kind = "Patched" /\ disturbed
OwnValue(v) == v = NaN \/ v.of = active_eval_.input

ReadValues ==
    /\ ~Moved => \A o \in DOMAIN cached : OwnValue(cached[o])
    /\ call.stage = "idle" /\ call.fn = "read" /\ ~Moved => call.value \in Errors \/ OwnValue(call.value)

RowValue(v, o, x) == v.of = x \/ (v = NaN /\ o = "w" /\ x.place \in {"dome", "edge"})

RowUnderWay ==
    InRow => /\ OwnPoint(pt, X)
             /\ pt.kind \in {"SinglePhase", "DomeBlend", "Patched"}
             /\ ~call.failed => \A j \in DOMAIN call.values : RowValue(call.values[j], call.outs[j], X)

RowFits(row, x, outs) ==
    /\ \A o \in DOMAIN outs : IF row.status # "ok" THEN row.values[o] = NaN ELSE RowValue(row.values[o], outs[o], x)
    /\ ~row.threw => row.status \in Statuses(x)

RowsFit == \A k \in DOMAIN call.rows : RowFits(call.rows[k], call.xs[k], call.outs)

PointInv ==
    /\ PointTypes /\ ActiveOwn /\ ShapeOfCall /\ Routing /\ PatchHeld /\ ReadValues /\ RowUnderWay /\ RowsFit

-----------------------------------------------------------------------------
(* Values, and the fields of a call. *)

Stages == {"idle", "batch"} \cup Resolving \cup Evaluating

LEMMA ValueTypes ==
    /\ Nothing \in Values /\ NaN \in Values /\ \A e \in Hows : Thrown(e) \in Values
    /\ \A x \in Inputs \cup {NoInput}, how \in Hows : Value(x, how) \in Values /\ Value(x, how).of = x /\ Value(x, how).how = how
    /\ NoInput \notin Inputs /\ NoPair \in PairOfValues /\ NoPoint \in Points
<1>1. NoInput \notin Inputs
  <2>1. "none" \notin Pairs
    BY DEF Pairs
  <2> QED BY <2>1, PointAssumption DEF NoInput
<1>2. \A x \in Inputs \cup {NoInput}, how \in Hows : Value(x, how) \in Values /\ Value(x, how).of = x /\ Value(x, how).how = how
  BY DEF Values, Value
<1>3. Nothing \in Values /\ NaN \in Values /\ \A e \in Hows : Thrown(e) \in Values
  <2>1. NoInput \in Inputs \cup {NoInput} /\ "nothing" \in Hows /\ "nan" \in Hows
    BY DEF Hows
  <2> HIDE DEF NoInput, Values
  <2> QED BY <1>2, <2>1 DEF Nothing, NaN, Thrown
<1>4. NoPair \in PairOfValues
  BY <1>3 DEF NoPair, PairOfValues
<1>5. NoPoint \in Points
  <2> HIDE DEF NoPair, Nothing, NoInput
  <2> QED BY <1>3, <1>4 DEF NoPoint, Points, PointKinds
<1> QED BY <1>1, <1>2, <1>3, <1>4, <1>5

\* Only the stage of the call is changed.
GoesTo(st) ==
    /\ call' \in Calls
    /\ call'.stage = st /\ call'.fn = call.fn /\ call'.xs = call.xs /\ call'.outs = call.outs
    /\ call'.value = call.value /\ call'.values = call.values /\ call'.failed = call.failed /\ call'.rows = call.rows

LEMMA GotoFields ==
    ASSUME call \in Calls, NEW st \in Stages, Goto(st)
    PROVE  GoesTo(st)
BY DEF Calls, Stages, Goto, GoesTo

LEMMA InputAtWork ==
    ASSUME PointInv, call.stage # "idle", call.fn # "none"
    PROVE  X \in Inputs /\ X # NoInput
<1>1. call \in Calls /\ NoInput \notin Inputs
  BY ValueTypes DEF PointInv, PointTypes
<1>2. CASE call.fn = "read"
  BY <1>1, <1>2 DEF X, PointInv, ShapeOfCall, ActiveOwn
<1>3. CASE call.fn \in {"update", "fast"}
  <2>1. Len(call.rows) < Len(call.xs) /\ call.rows \in Seq(TableRows) /\ call.xs \in Seq(Inputs)
    BY <1>1, <1>3 DEF PointInv, ShapeOfCall, Calling, Calls
  <2>2. Len(call.rows) + 1 \in 1 .. Len(call.xs)
    BY <2>1
  <2> QED BY <1>1, <1>3, <2>1, <2>2 DEF X
<1> QED BY <1>1, <1>2, <1>3 DEF Calls

LEMMA NewPointTyped ==
    ASSUME NEW p \in NewPoints
    PROVE  /\ p \in Points /\ p.T = Nothing /\ p.threw \in BOOLEAN
           /\ \A x : OwnEnds(p.h, x) /\ OwnEnds(p.s, x) /\ OwnEnds(p.d, x)
<1>1. NoPoint \in Points
  BY ValueTypes
<1>2. p \in Points
  BY <1>1 DEF Points, NewPoints
<1>3. p.threw \in BOOLEAN
  BY <1>2 DEF Points
<1>4. p.T = Nothing /\ p.h = NoPair /\ p.s = NoPair /\ p.d = NoPair
  <2>1. NoPoint.T = Nothing /\ NoPoint.h = NoPair /\ NoPoint.s = NoPair /\ NoPoint.d = NoPair
    BY DEF NoPoint
  <2>2. p.T = NoPoint.T /\ p.h = NoPoint.h /\ p.s = NoPoint.s /\ p.d = NoPoint.d
    BY <1>1 DEF NewPoints, Points
  <2> QED BY <2>1, <2>2
<1> QED BY <1>2, <1>3, <1>4 DEF NoPair, OwnEnds

-----------------------------------------------------------------------------
(* resolve_point_ goes on. *)

LEMMA GoOn ==
    ASSUME PointInv, call.stage \in Resolving, NEW st \in Resolving, Goto(st),
           active_eval_' = active_eval_, cached' = cached, patch_backend' = patch_backend,
           NewPoint', ComesTo(st, X, pt'.threw), patch_source_' \in Values, disturbed' \in BOOLEAN,
           \/ patch_source_' = patch_source_ /\ disturbed' = disturbed /\ ~Polishing /\ st \notin {"polish", "restore"}
           \/ st \in {"polish", "restore"} /\ (call.fn = "fast" => disturbed')
    PROVE  PointInv'
<1>1. GoesTo(st)
  BY GotoFields DEF PointInv, PointTypes, Stages
<1>2. call.fn \in {"update", "fast"} /\ NewPoint
  BY DEF PointInv, ShapeOfCall
<1>3. X' = X
  BY <1>1, <1>2 DEF X, GoesTo
<1>4. st # "idle" /\ st # "batch" /\ st \notin Evaluating /\ call.stage # "idle" /\ call.stage # "batch" /\ call.stage \notin Evaluating
  BY DEF Resolving, Evaluating
<1>5. PointTypes'
  <2>1. pt' \in Points
    BY NewPointTyped DEF NewPoint
  <2> QED BY <1>1, <2>1 DEF PointInv, PointTypes, GoesTo
<1>6. ActiveOwn'
  BY DEF PointInv, ActiveOwn
<1>7. ShapeOfCall'
  BY <1>1, <1>2, <1>4 DEF PointInv, ShapeOfCall, GoesTo, Calling
<1>8. Routing'
  BY <1>1, <1>3 DEF Routing, GoesTo
<1>9. PatchHeld'
  BY <1>1, <1>2, <1>4 DEF PointInv, PatchHeld, GoesTo, Polishing, Holding, InRow
<1>10. ReadValues'
  <2>1. (call.fn = "update" /\ DOMAIN cached = {}) \/ (call.fn = "fast" /\ disturbed' \in {disturbed, TRUE})
    BY <1>2, <1>4 DEF PointInv, ShapeOfCall
  <2> QED BY <1>1, <1>4, <2>1 DEF PointInv, ReadValues, GoesTo, Moved, OwnValue
<1>11. RowUnderWay'
  BY <1>1, <1>4 DEF RowUnderWay, InRow, GoesTo
<1>12. RowsFit'
  BY <1>1 DEF PointInv, RowsFit, GoesTo
<1> QED BY <1>5, <1>6, <1>7, <1>8, <1>9, <1>10, <1>11, <1>12 DEF PointInv

\* A row is finished.
LEMMA RowDone ==
    ASSUME PointInv, call.fn = "fast", call.stage # "idle",
           NEW status \in {"ok", "internal_error", "OutOfRange", "TwoPhaseDisallowed"},
           NEW values \in Seq(Values), NEW threw \in BOOLEAN,
           Row(status, values, threw), RowFits([status |-> status, values |-> values, threw |-> threw], X, call.outs),
           active_eval_' = active_eval_, cached' = cached, patch_backend' = patch_backend,
           patch_source_' \in Values, disturbed' \in BOOLEAN,
           disturbed' \/ (patch_source_' = patch_source_ /\ disturbed' = disturbed)
    PROVE  PointInv'
<1> DEFINE row == [status |-> status, values |-> values, threw |-> threw]
           n == Len(call.rows)
           next == IF n + 1 < Len(call.xs) THEN "route" ELSE "idle"
<1>1. call \in Calls /\ call.rows \in Seq(TableRows) /\ call.xs \in Seq(Inputs) /\ n \in Nat /\ Len(call.xs) \in Nat /\ n < Len(call.xs)
  BY DEF PointInv, PointTypes, Calls, ShapeOfCall, Calling
<1>2. row \in TableRows
  BY DEF TableRows
<1>3. Append(call.rows, row) \in Seq(TableRows) /\ Len(Append(call.rows, row)) = n + 1
  BY <1>1, <1>2
<1>4. call' = [call EXCEPT !.rows = Append(@, row), !.values = <<>>, !.failed = FALSE, !.nan = FALSE, !.stage = next]
  BY DEF Row
<1>5. pt' = NoPoint
  BY DEF Row
<1>6. next \in {"route", "idle"} /\ (next = "route" => n + 1 < Len(call.xs))
  OBVIOUS
<1> HIDE DEF row, n, next
<1>7. /\ call' \in Calls
      /\ call'.stage = next /\ call'.fn = "fast" /\ call'.xs = call.xs /\ call'.outs = call.outs
      /\ call'.values = <<>> /\ call'.failed = FALSE /\ call'.rows = Append(call.rows, row)
  <2> DEFINE rows == Append(call.rows, row)
  <2>1. rows \in Seq(TableRows) /\ call' = [call EXCEPT !.rows = rows, !.values = <<>>, !.failed = FALSE, !.nan = FALSE, !.stage = next]
    BY <1>1, <1>3, <1>4 DEF Calls
  <2> HIDE DEF rows
  <2>2. <<>> \in Seq(Values) /\ next \in {"idle", "batch"} \cup Resolving \cup Evaluating
    BY <1>6 DEF Resolving
  <2>3. /\ call'.stage = next /\ call'.fn = "fast" /\ call'.xs = call.xs /\ call'.outs = call.outs
        /\ call'.values = <<>> /\ call'.failed = FALSE /\ call'.rows = rows
    BY <1>1, <2>1 DEF Calls
  <2>4. call' \in Calls
    BY <1>1, <2>1, <2>2 DEF Calls
  <2> QED BY <2>3, <2>4 DEF rows
<1>8. call'.stage # "batch" /\ call'.stage \notin Evaluating /\ (call'.stage \in Resolving => call'.stage = "route") /\ ~Polishing'
  BY <1>6, <1>7 DEF Evaluating, Resolving, Polishing
<1>9. PointTypes'
  BY <1>5, <1>7, ValueTypes DEF PointInv, PointTypes
<1>10. ActiveOwn'
  BY DEF PointInv, ActiveOwn
<1>11. ShapeOfCall'
  <2>1. /\ Len(call'.rows) <= Len(call'.xs)
        /\ call'.stage # "idle" => Len(call'.rows) < Len(call'.xs)
    BY <1>1, <1>3, <1>6, <1>7
  <2>2. NewPoint'
    BY <1>5 DEF NewPoint, NewPoints
  <2>3. call'.stage # "idle" => Len(call'.outs) > 0
    BY <1>7 DEF PointInv, ShapeOfCall
  <2>4. \A k \in DOMAIN call'.xs : call'.xs[k].pair \notin {"PQ", "QT"}
    BY <1>7 DEF PointInv, ShapeOfCall
  <2> QED BY <1>5, <1>7, <1>8, <2>1, <2>2, <2>3, <2>4 DEF ShapeOfCall, Calling
<1>12. Routing'
  BY <1>8 DEF Routing, ComesTo
<1>13. PatchHeld'
  BY <1>7, <1>8 DEF PointInv, PatchHeld, Polishing, Holding, InRow
<1>14. ReadValues'
  BY <1>7 DEF PointInv, ReadValues, Moved, OwnValue
<1>15. RowUnderWay'
  BY <1>8 DEF RowUnderWay, InRow
<1>16. RowsFit'
  <2>1. ASSUME NEW k \in DOMAIN call'.rows PROVE RowFits(call'.rows[k], call'.xs[k], call'.outs)
    <3>1. k \in 1 .. n + 1
      BY <1>1, <1>3, <1>7, <2>1
    <3>2. CASE k \in 1 .. n
      <4>1. k \in DOMAIN call.rows /\ call'.rows[k] = call.rows[k]
        BY <1>1, <1>7, <3>2 DEF n
      <4> QED BY <1>7, <4>1 DEF PointInv, RowsFit
    <3>3. CASE k = n + 1
      <4>1. call'.rows[k] = row
        BY <1>1, <1>7, <3>3 DEF n
      <4>2. call'.xs[k] = X
        BY <1>7, <3>3 DEF X, n
      <4> QED BY <1>7, <4>1, <4>2 DEF row
    <3> QED BY <1>1, <3>1, <3>2, <3>3
  <2> QED BY <2>1 DEF RowsFit
<1> QED BY <1>9, <1>10, <1>11, <1>12, <1>13, <1>14, <1>15, <1>16 DEF PointInv

\* A row without a result.
LEMMA BlankRow ==
    ASSUME PointInv, call.fn = "fast", call.stage # "idle", NEW status \in {"internal_error", "OutOfRange", "TwoPhaseDisallowed"},
           NEW threw \in BOOLEAN, threw \/ status \in Statuses(X)
    PROVE  NaNs \in Seq(Values) /\ RowFits([status |-> status, values |-> NaNs, threw |-> threw], X, call.outs)
<1>1. call.outs \in Seq(Properties) /\ DOMAIN call.outs = 1 .. Len(call.outs) /\ Len(call.outs) \in Nat
  BY DEF PointInv, PointTypes, Calls
<1>2. NaNs \in Seq(Values)
  <2>1. NaNs \in [1 .. Len(call.outs) -> Values]
    BY <1>1, ValueTypes DEF NaNs
  <2> QED BY <1>1, <2>1
<1>3. \A o \in DOMAIN call.outs : NaNs[o] = NaN
  BY DEF NaNs
<1> QED BY <1>2, <1>3 DEF RowFits

\* A point is resolved.
LEMMA Resolve ==
    ASSUME PointInv, call.stage \in Resolving,
           NEW kind \in PointKinds \ {"Invalid"}, NEW T \in Values, NEW known \in Points,
           T = Nothing \/ T.of = X, OwnEnds(known.h, X), OwnEnds(known.s, X), OwnEnds(known.d, X),
           KindFits(kind, X, known.threw), Resolved(kind, T, known),
           cached' = cached, patch_backend' = patch_backend, patch_source_' \in Values, disturbed' \in BOOLEAN,
           kind = "Patched" => /\ patch_source_'.of = X
                               /\ patch_source_'.how \in {"state", "seed"} \/ (patch_backend = "IF97" /\ X.place = "band"),
           (patch_source_' = patch_source_ /\ disturbed' = disturbed) \/ (call.fn = "fast" => disturbed')
    PROVE  PointInv'
<1> DEFINE point == [known EXCEPT !.kind = kind, !.input = X, !.T = T]
<1>1. call.stage # "idle" /\ call.fn \in {"update", "fast"} /\ NewPoint /\ call \in Calls
  BY DEF PointInv, PointTypes, ShapeOfCall, Resolving
<1>2. X \in Inputs /\ X # NoInput /\ NoInput \notin Inputs
  BY <1>1, InputAtWork, ValueTypes
<1>3. /\ point \in Points /\ point.kind = kind /\ point.input = X /\ point.T = T /\ point.threw = known.threw
      /\ point.h = known.h /\ point.s = known.s /\ point.d = known.d /\ point.threw \in BOOLEAN
  BY <1>2 DEF Points
<1>4. OwnPoint(point, X)
  <2> HIDE DEF point
  <2> QED BY <1>3 DEF OwnPoint
<1>5. CASE call.fn = "update"
  <2>1. active_eval_' = point /\ pt' = NoPoint /\ Goto("idle")
    BY <1>5 DEF Resolved
  <2> HIDE DEF point
  <2>2. GoesTo("idle")
    BY <1>1, <2>1, GotoFields DEF Stages
  <2>3. PointTypes'
    BY <1>3, <2>1, <2>2, ValueTypes DEF PointInv, PointTypes, GoesTo
  <2>4. ActiveOwn'
    BY <1>2, <1>3, <1>4, <2>1 DEF ActiveOwn
  <2>5. ShapeOfCall'
    BY <1>5, <2>1, <2>2 DEF PointInv, ShapeOfCall, GoesTo, Calling, Resolving, Evaluating
  <2>6. Routing' /\ RowUnderWay'
    BY <2>2 DEF Routing, RowUnderWay, GoesTo, Resolving, Evaluating, InRow
  <2>7. PatchHeld'
    BY <1>3, <1>5, <2>1, <2>2 DEF PatchHeld, GoesTo, InRow, Holding
  <2>8. ReadValues'
    BY <1>1, <1>5, <2>2 DEF PointInv, ShapeOfCall, ReadValues, GoesTo
  <2>9. RowsFit'
    BY <2>2 DEF PointInv, RowsFit, GoesTo
  <2> QED BY <2>3, <2>4, <2>5, <2>6, <2>7, <2>8, <2>9 DEF PointInv
<1>6. CASE call.fn = "fast" /\ kind \in {"OutOfRange", "TwoPhaseDisallowed"}
  <2>1. Row(kind, NaNs, point.threw) /\ active_eval_' = active_eval_
    BY <1>6 DEF Resolved
  <2>2. point.threw \/ kind \in Statuses(X)
    BY <1>3, <1>6 DEF KindFits, Statuses
  <2> HIDE DEF point
  <2>3. NaNs \in Seq(Values) /\ RowFits([status |-> kind, values |-> NaNs, threw |-> point.threw], X, call.outs)
    BY <1>1, <1>3, <1>6, <2>2, BlankRow
  <2> QED BY <1>1, <1>3, <1>6, <2>1, <2>3, RowDone
<1>7. CASE call.fn = "fast" /\ kind \notin {"OutOfRange", "TwoPhaseDisallowed"}
  <2>1. pt' = point /\ Goto("batch") /\ active_eval_' = active_eval_
    BY <1>7 DEF Resolved
  <2> HIDE DEF point
  <2>2. GoesTo("batch")
    BY <1>1, <2>1, GotoFields DEF Stages
  <2>3. X' = X
    BY <1>7, <2>2 DEF X, GoesTo
  <2>4. PointTypes'
    BY <1>3, <2>1, <2>2 DEF PointInv, PointTypes, GoesTo
  <2>5. ActiveOwn'
    BY <2>1 DEF PointInv, ActiveOwn
  <2>6. ShapeOfCall'
    BY <1>1, <1>7, <2>2 DEF PointInv, ShapeOfCall, GoesTo, Calling, Resolving, Evaluating
  <2>7. Routing'
    BY <2>2 DEF Routing, GoesTo, Resolving
  <2>8. PatchHeld'
    BY <1>3, <1>7, <2>1, <2>2, <2>3 DEF PointInv, PatchHeld, GoesTo, InRow, Holding, Polishing
  <2>9. ReadValues'
    BY <1>7, <2>1, <2>2 DEF PointInv, ReadValues, GoesTo, Moved, OwnValue
  <2>10. RowUnderWay'
    <3>1. kind \in {"SinglePhase", "DomeBlend", "Patched"}
      BY <1>7 DEF PointKinds
    <3>2. call'.values = <<>>
      BY <1>7, <2>2 DEF PointInv, ShapeOfCall, GoesTo
    <3> QED BY <1>3, <1>4, <2>1, <2>3, <3>1, <3>2 DEF RowUnderWay
  <2>11. RowsFit'
    BY <2>2 DEF PointInv, RowsFit, GoesTo
  <2> QED BY <2>4, <2>5, <2>6, <2>7, <2>8, <2>9, <2>10, <2>11 DEF PointInv
<1> QED BY <1>1, <1>5, <1>6, <1>7

\* resolve_point_ throws.
LEMMA Refuse ==
    ASSUME PointInv, call.stage \in Resolving, ~Polishing, Refused,
           UNCHANGED <<cached, patch_backend, patch_source_, disturbed>>
    PROVE  PointInv'
<1>1. call \in Calls /\ call.fn \in {"update", "fast"} /\ Thrown("ValueError") \in Values
  BY ValueTypes DEF PointInv, PointTypes, ShapeOfCall, Hows
<1>2. /\ call' \in Calls /\ call'.stage = "idle" /\ call'.fn = call.fn /\ call'.xs = call.xs /\ call'.outs = call.outs
      /\ call'.values = call.values /\ call'.failed = call.failed /\ call'.rows = call.rows
  BY <1>1 DEF Refused, Calls
<1>3. pt' = NoPoint /\ active_eval_' = active_eval_ /\ call.stage # "idle"
  BY DEF Refused, Resolving
<1>4. PointTypes'
  BY <1>2, <1>3, ValueTypes DEF PointInv, PointTypes
<1>5. ShapeOfCall'
  BY <1>1, <1>2, <1>3 DEF PointInv, ShapeOfCall, Calling, Resolving, Evaluating
<1>6. ActiveOwn' /\ Routing' /\ RowUnderWay'
  BY <1>2, <1>3 DEF PointInv, ActiveOwn, Routing, RowUnderWay, Resolving, Evaluating, InRow
<1>7. PatchHeld'
  BY <1>2, <1>3 DEF PointInv, PatchHeld, Polishing, Holding, InRow, Evaluating
<1>8. ReadValues'
  BY <1>1, <1>2, <1>3 DEF PointInv, ReadValues, Moved, OwnValue
<1>9. RowsFit'
  BY <1>2 DEF PointInv, RowsFit
<1> QED BY <1>4, <1>5, <1>6, <1>7, <1>8, <1>9 DEF PointInv

\* The steps that leave the patch source alone.
PatchAlone == UNCHANGED <<cached, patch_backend, patch_source_, disturbed>>

LEMMA GoOnAlone ==
    ASSUME PointInv, call.stage \in Resolving, ~Polishing, PatchAlone,
           NEW st \in Resolving \ {"polish", "restore"},
           \/ On(st) /\ ComesTo(st, X, pt.threw)
           \/ OnAfterThrow(st) /\ ComesTo(st, X, TRUE)
    PROVE  PointInv'
<1>1. patch_source_ \in Values /\ disturbed \in BOOLEAN /\ NewPoint
  BY DEF PointInv, PointTypes, ShapeOfCall
<1>2. Goto(st) /\ active_eval_' = active_eval_ /\ NewPoint' /\ ComesTo(st, X, pt'.threw)
  <2>1. CASE On(st) /\ ComesTo(st, X, pt.threw)
    <3>1. pt' = pt
      BY <2>1 DEF On
    <3> QED BY <1>1, <2>1, <3>1 DEF On, NewPoint
  <2>2. CASE OnAfterThrow(st) /\ ComesTo(st, X, TRUE)
    <3>1. pt' = [NoPoint EXCEPT !.threw = TRUE]
      BY <2>2 DEF OnAfterThrow
    <3>2. pt'.threw = TRUE
      BY <3>1 DEF NoPoint
    <3>3. NewPoint'
      BY <3>1 DEF NewPoint, NewPoints
    <3> QED BY <2>2, <3>2, <3>3 DEF OnAfterThrow
  <2> QED BY <2>1, <2>2
<1> QED BY <1>1, <1>2, GoOn DEF PatchAlone

LEMMA ResolveAlone ==
    ASSUME PointInv, call.stage \in Resolving, PatchAlone,
           NEW kind \in PointKinds \ {"Invalid", "Patched"}, NEW T \in Values, NEW known \in Points,
           T = Nothing \/ T.of = X, OwnEnds(known.h, X), OwnEnds(known.s, X), OwnEnds(known.d, X),
           KindFits(kind, X, known.threw), Resolved(kind, T, known)
    PROVE  PointInv'
<1>1. patch_source_ \in Values /\ disturbed \in BOOLEAN
  BY DEF PointInv, PointTypes
<1> QED BY <1>1, Resolve DEF PatchAlone

\* What is known of a point on the way.
LEMMA Known ==
    ASSUME PointInv, call.stage \in Resolving
    PROVE  /\ pt \in Points /\ pt.threw \in BOOLEAN /\ OwnEnds(pt.h, X) /\ OwnEnds(pt.s, X) /\ OwnEnds(pt.d, X)
           /\ InputT \in Values /\ (InputT = Nothing \/ InputT.of = X)
           /\ \A how \in Hows : Value(X, how) \in Values /\ Value(X, how).of = X /\ Value(X, how).how = how
           /\ Nothing \in Values
           /\ X \in Inputs /\ X.pair \in Pairs /\ X.place \in PlacesOf(X.pair) /\ X.place \in Places
           /\ (call.fn = "fast" => X.pair \notin {"PQ", "QT"}) /\ call.fn \in {"update", "fast"} /\ call.stage # "idle"
<1>1. call.stage # "idle" /\ call.fn \in {"update", "fast"} /\ NewPoint /\ call \in Calls
  BY DEF PointInv, PointTypes, ShapeOfCall, Resolving
<1>2. X \in Inputs /\ X # NoInput
  BY <1>1, InputAtWork
<1>3. /\ pt \in Points /\ pt.threw \in BOOLEAN /\ OwnEnds(pt.h, X) /\ OwnEnds(pt.s, X) /\ OwnEnds(pt.d, X)
  BY <1>1, NewPointTyped DEF NewPoint
<1>4. \A how \in Hows : Value(X, how) \in Values /\ Value(X, how).of = X /\ Value(X, how).how = how
  BY <1>2, ValueTypes
<1>5. InputT \in Values /\ (InputT = Nothing \/ InputT.of = X)
  <2>1. "input" \in Hows
    BY DEF Hows
  <2> QED BY <1>4, <2>1, ValueTypes DEF InputT
<1>6. X.pair \in Pairs /\ X.place \in PlacesOf(X.pair) /\ X.place \in Places
  BY <1>2, PointAssumption
<1>7. call.fn = "fast" => X.pair \notin {"PQ", "QT"}
  <2>1. CASE call.fn = "fast"
    <3>1. Len(call.rows) < Len(call.xs) /\ call.rows \in Seq(TableRows) /\ call.xs \in Seq(Inputs)
      BY <1>1, <2>1 DEF PointInv, ShapeOfCall, Calling, Calls
    <3>2. Len(call.rows) + 1 \in DOMAIN call.xs
      BY <3>1
    <3> QED BY <2>1, <3>2 DEF X, PointInv, ShapeOfCall
  <2> QED BY <2>1
<1> QED BY <1>1, <1>2, <1>3, <1>4, <1>5, <1>6, <1>7, ValueTypes

\* The endpoints that a point gets when it is found in the dome.
LEMMA KnownEnds ==
    ASSUME NEW p \in Points, NEW e \in {"h", "s", "d"}, NEW ends \in PairOfValues, NEW x \in Inputs,
           OwnEnds(p.h, x), OwnEnds(p.s, x), OwnEnds(p.d, x), OwnEnds(ends, x)
    PROVE  LET q == [p EXCEPT ![e] = ends]
           IN  /\ q \in Points /\ OwnEnds(q.h, x) /\ OwnEnds(q.s, x) /\ OwnEnds(q.d, x)
               /\ q.threw = p.threw /\ q.kind = p.kind /\ q.input = p.input /\ q.T = p.T
<1>1. CASE e = "h"
  BY <1>1 DEF Points
<1>2. CASE e = "s"
  BY <1>2 DEF Points
<1>3. CASE e = "d"
  BY <1>3 DEF Points
<1> QED BY <1>1, <1>2, <1>3

LEMMA SaturatedIsOwn ==
    ASSUME X \in Inputs
    PROVE  /\ Saturated \in PairOfValues /\ OwnEnds(Saturated, X)
           /\ Liquid \in Values /\ Vapour \in Values /\ Liquid = Value(X, "L") /\ Vapour = Value(X, "V")
<1>1. Value(X, "L") \in Values /\ Value(X, "V") \in Values
  BY ValueTypes DEF Hows
<1> QED BY <1>1 DEF Saturated, Liquid, Vapour, PairOfValues, OwnEnds

-----------------------------------------------------------------------------
(* resolve_point_, step by step. *)

LEMMA RouteInv ==
    ASSUME PointInv, Route
    PROVE  PointInv'
<1>1. call.stage = "route" /\ call.stage \in Resolving /\ ~Polishing /\ PatchAlone
  BY DEF Route, At, Steady, PatchAlone, backends, Resolving, Polishing
<1>2. X.pair \in Pairs /\ X.place \in PlacesOf(X.pair) /\ X.place \in Places /\ call.fn \in {"update", "fast"}
  BY <1>1, Known
<1>3. CASE X.place = "badQ"
  BY <1>1, <1>3, Refuse DEF Route, PatchAlone
<1>4. CASE X.place # "badQ" /\ X.pair \in {"PQ", "QT"}
  <2>1. On("satpoint") /\ "satpoint" \in Resolving \ {"polish", "restore"}
    BY <1>4 DEF Route, Resolving
  <2>2. ComesTo("satpoint", X, pt.threw)
    BY <1>2, <1>4 DEF ComesTo, PlacesOf
  <2> QED BY <1>1, <2>1, <2>2, GoOnAlone
<1>5. CASE X.place # "badQ" /\ X.pair \notin {"PQ", "QT"} /\ X.place \in Patchable
  <2>1. On("patch") /\ "patch" \in Resolving \ {"polish", "restore"}
    BY <1>5 DEF Route, Resolving
  <2>2. ComesTo("patch", X, pt.threw)
    BY <1>5 DEF ComesTo
  <2> QED BY <1>1, <2>1, <2>2, GoOnAlone
<1>6. CASE X.place # "badQ" /\ X.pair = "DmassT" /\ X.place \notin Patchable /\ X.place # "outside"
  <2>1. On("dtdome") /\ "dtdome" \in Resolving \ {"polish", "restore"}
    BY <1>6 DEF Route, Resolving
  <2>2. ComesTo("dtdome", X, pt.threw)
    BY <1>6 DEF ComesTo
  <2> QED BY <1>1, <2>1, <2>2, GoOnAlone
<1>7. CASE X.place # "badQ" /\ X.pair \notin {"PQ", "QT"} /\ X.place \notin Patchable /\ ~(X.pair = "DmassT" /\ X.place # "outside")
  <2>1. On("atlas") /\ "atlas" \in Resolving \ {"polish", "restore"}
    BY <1>7 DEF Route, Resolving
  <2>2. ComesTo("atlas", X, pt.threw)
    BY <1>7 DEF ComesTo
  <2> QED BY <1>1, <2>1, <2>2, GoOnAlone
<1> QED BY <1>3, <1>4, <1>5, <1>6, <1>7

LEMMA SaturationInv ==
    ASSUME PointInv, SaturationPoint \/ SaturationSource
    PROVE  PointInv'
<1>1. /\ call.stage \in {"satpoint", "satsource"} /\ call.stage \in Resolving /\ ~Polishing /\ PatchAlone
      /\ \/ X.place # "outside" /\ Resolved("DomeBlend", Value(X, "sat"), pt)
         \/ call.stage = "satpoint" /\ On("satsource")
         \/ Refused
  BY DEF SaturationPoint, SaturationSource, Sat, Consults, Source, At, PatchAlone, backends, Resolving, Polishing
<1>2. X.pair \in {"PQ", "QT"} /\ X.place \in {"dome", "outside"}
  BY <1>1 DEF PointInv, Routing, ComesTo
<1>3. CASE X.place # "outside" /\ Resolved("DomeBlend", Value(X, "sat"), pt)
  <2>1. KindFits("DomeBlend", X, pt.threw)
    BY <1>2, <1>3 DEF KindFits, Kinds, Patchable
  <2>2. "DomeBlend" \in PointKinds \ {"Invalid", "Patched"} /\ "sat" \in Hows
    BY DEF PointKinds, Hows
  <2> QED BY <1>1, <1>3, <2>1, <2>2, Known, ResolveAlone
<1>4. CASE call.stage = "satpoint" /\ On("satsource")
  <2>1. ComesTo("satsource", X, pt.threw) /\ "satsource" \in Resolving \ {"polish", "restore"}
    BY <1>2 DEF ComesTo, Resolving
  <2> QED BY <1>1, <1>4, <2>1, GoOnAlone
<1>5. CASE Refused
  BY <1>1, <1>5, Refuse DEF PatchAlone
<1> QED BY <1>1, <1>3, <1>4, <1>5

LEMMA DensityInv ==
    ASSUME PointInv, DensityDome \/ DensitySource \/ DensityPressure
    PROVE  PointInv'
<1>1. /\ call.stage \in {"dtdome", "dtsource", "dtpressure"} /\ call.stage \in Resolving /\ ~Polishing /\ PatchAlone
      /\ \/ call.stage = "dtdome" /\ On("dtsource")
         \/ call.stage \in {"dtdome", "dtsource"} /\ InDome /\ On("dtpressure")
         \/ call.stage \in {"dtdome", "dtsource"} /\ ~InDome /\ On("atlas")
         \/ OnAfterThrow("atlas")
         \/ call.stage = "dtpressure" /\ Resolved("DomeBlend", Value(X, "input"), [pt EXCEPT !.d = Saturated])
  BY DEF DensityDome, DensitySource, DensityPressure, Consults, Source, At, PatchAlone, backends, Resolving, Polishing
<1>2. /\ X.pair = "DmassT" /\ X.place \notin Patchable
      /\ call.stage = "dtpressure" => X.place = "dome"
  BY <1>1 DEF PointInv, Routing, ComesTo, Patchable
<1>3. {"dtsource", "dtpressure", "atlas"} \in SUBSET (Resolving \ {"polish", "restore"})
  BY DEF Resolving
<1>4. CASE call.stage = "dtdome" /\ On("dtsource")
  <2>1. ComesTo("dtsource", X, pt.threw)
    BY <1>2 DEF ComesTo
  <2> QED BY <1>1, <1>3, <1>4, <2>1, GoOnAlone
<1>5. CASE InDome /\ On("dtpressure")
  <2>1. ComesTo("dtpressure", X, pt.threw)
    BY <1>2, <1>5 DEF ComesTo, InDome
  <2> QED BY <1>1, <1>3, <1>5, <2>1, GoOnAlone
<1>6. CASE ~InDome /\ On("atlas")
  <2>1. ComesTo("atlas", X, pt.threw)
    BY <1>2, <1>6 DEF ComesTo, InDome
  <2> QED BY <1>1, <1>3, <1>6, <2>1, GoOnAlone
<1>7. CASE OnAfterThrow("atlas")
  <2>1. ComesTo("atlas", X, TRUE)
    BY <1>2 DEF ComesTo
  <2> QED BY <1>1, <1>3, <1>7, <2>1, GoOnAlone
<1>8. CASE call.stage = "dtpressure" /\ Resolved("DomeBlend", Value(X, "input"), [pt EXCEPT !.d = Saturated])
  <2> DEFINE known == [pt EXCEPT !.d = Saturated]
  <2>1. known \in Points /\ OwnEnds(known.h, X) /\ OwnEnds(known.s, X) /\ OwnEnds(known.d, X) /\ known.threw = pt.threw
    BY <1>1, Known, SaturatedIsOwn, KnownEnds
  <2>2. KindFits("DomeBlend", X, known.threw)
    BY <1>2, <1>8 DEF KindFits, Kinds, Patchable
  <2>3. "DomeBlend" \in PointKinds \ {"Invalid", "Patched"} /\ "input" \in Hows
    BY DEF PointKinds, Hows
  <2>4. Resolved("DomeBlend", Value(X, "input"), known)
    BY <1>8
  <2> HIDE DEF known
  <2> QED BY <1>1, <2>1, <2>2, <2>3, <2>4, Known, ResolveAlone
<1> QED BY <1>1, <1>4, <1>5, <1>6, <1>7, <1>8

\* Where resolve_point_ ends without having asked for more.
LEMMA Ends ==
    ASSUME PointInv, call.stage \in Resolving, ~Polishing, PatchAlone,
           NEW kind \in {"SinglePhase", "OutOfRange", "TwoPhaseDisallowed"},
           pt.threw \/ kind \in Kinds(X), Resolved(kind, InputT, pt)
    PROVE  PointInv'
<1>1. KindFits(kind, X, pt.threw) /\ kind \in PointKinds \ {"Invalid", "Patched"}
  BY DEF KindFits, PointKinds
<1> QED BY <1>1, Known, ResolveAlone

LEMMA AtlasInv ==
    ASSUME PointInv, Atlas
    PROVE  PointInv'
<1>1. call.stage = "atlas" /\ call.stage \in Resolving /\ ~Polishing /\ PatchAlone
  BY DEF Atlas, At, Steady, PatchAlone, backends, Resolving, Polishing
<1>2. /\ X.pair \notin {"PQ", "QT"} /\ X.place \notin Patchable
      /\ X.pair = "DmassT" /\ X.place = "dome" => pt.threw
  BY <1>1 DEF PointInv, Routing, ComesTo
<1>3. X.pair \in Pairs /\ X.place \in PlacesOf(X.pair) /\ X.place \in Places
  BY <1>1, Known
<1>4. X.place = "sat" => X.pair = "PT"
  BY <1>2, <1>3 DEF PlacesOf, Pairs
<1>5. X.pair = "PT" => X.place # "dome"
  BY <1>3 DEF PlacesOf
<1>6. {"reclassify", "missed", "ptsat"} \in SUBSET (Resolving \ {"polish", "restore"})
  BY DEF Resolving
<1>7. CASE X.place \in {"region", "near", "edge"} \/ (X.pair = "DmassT" /\ InDome)
  <2>1. CASE X.place \in {"near", "edge"} /\ On("reclassify")
    <3>1. ComesTo("reclassify", X, pt.threw)
      BY <2>1 DEF ComesTo
    <3> QED BY <1>1, <1>6, <2>1, <3>1, GoOnAlone
  <2>2. CASE Resolved("SinglePhase", InputT, pt)
    <3>1. pt.threw \/ "SinglePhase" \in Kinds(X)
      BY <1>2, <1>7 DEF Kinds, InDome
    <3> QED BY <1>1, <2>2, <3>1, Ends
  <2>3. CASE ~(X.place \in {"near", "edge"} /\ On("reclassify")) /\ ~Resolved("SinglePhase", InputT, pt)
    <3>1. X.place \in {"dome", "sat", "outside"} /\ X.place \notin {"region", "near", "edge"} /\ X.pair = "DmassT" /\ InDome
      BY <1>7, <2>3 DEF Atlas
    <3>2. Resolved("OutOfRange", InputT, pt)
      BY <2>3, <3>1 DEF Atlas
    <3>3. pt.threw
      BY <1>2, <3>1 DEF InDome
    <3> QED BY <1>1, <3>2, <3>3, Ends
  <2> QED BY <2>1, <2>2, <2>3
<1>8. CASE X.place \in {"dome", "sat", "outside"} /\ ~(X.pair = "DmassT" /\ InDome)
  <2>1. CASE X.pair \in {"HmassP", "PSmass"}
    <3>1. On("missed")
      BY <1>8, <2>1 DEF Atlas
    <3>2. ComesTo("missed", X, pt.threw)
      BY <1>4, <1>8, <2>1 DEF ComesTo
    <3> QED BY <1>1, <1>6, <3>1, <3>2, GoOnAlone
  <2>2. CASE X.pair = "PT"
    <3>1. On("ptsat")
      BY <1>8, <2>2 DEF Atlas
    <3>2. ComesTo("ptsat", X, pt.threw)
      BY <1>5, <1>8, <2>2 DEF ComesTo
    <3> QED BY <1>1, <1>6, <3>1, <3>2, GoOnAlone
  <2>3. CASE X.pair = "DmassT"
    <3>1. Resolved("OutOfRange", InputT, pt)
      BY <1>8, <2>3 DEF Atlas
    <3>2. "OutOfRange" \in Kinds(X)
      BY <1>4, <1>8, <2>3 DEF Kinds, InDome, Patchable
    <3> QED BY <1>1, <3>1, <3>2, Ends
  <2> QED BY <1>2, <1>3, <2>1, <2>2, <2>3 DEF Pairs
<1> QED BY <1>7, <1>8 DEF Atlas

\* Where it ends inside the dome, with endpoints it has found on the way.
LEMMA InTheDome ==
    ASSUME PointInv, call.stage \in Resolving, ~Polishing, PatchAlone, NEW known \in Points,
           OwnEnds(known.h, X), OwnEnds(known.s, X), OwnEnds(known.d, X),
           X.place \in {"dome", "edge"}, DomeOf(known)
    PROVE  PointInv'
<1>1. KindFits("DomeBlend", X, known.threw)
  BY DEF KindFits, Kinds, Patchable
<1>2. "DomeBlend" \in PointKinds \ {"Invalid", "Patched"} /\ "sat" \in Hows
  BY DEF PointKinds, Hows
<1>3. Resolved("DomeBlend", Value(X, "sat"), known)
  BY DEF DomeOf
<1>4. Value(X, "sat") \in Values /\ Value(X, "sat").of = X
  BY <1>2, Known
<1> QED BY <1>1, <1>2, <1>3, <1>4, ResolveAlone

LEMMA OwnInTheDome ==
    ASSUME PointInv, call.stage \in Resolving, ~Polishing, PatchAlone,
           X.place \in {"dome", "edge"}, DomeOf([pt EXCEPT ![Own] = Saturated])
    PROVE  PointInv'
<1> DEFINE known == [pt EXCEPT ![Own] = Saturated]
<1>1. Own \in {"h", "s", "d"}
  BY DEF Own
<1>2. known \in Points /\ OwnEnds(known.h, X) /\ OwnEnds(known.s, X) /\ OwnEnds(known.d, X)
  BY <1>1, Known, SaturatedIsOwn, KnownEnds
<1>3. DomeOf(known)
  OBVIOUS
<1> HIDE DEF known
<1> QED BY <1>2, <1>3, InTheDome

LEMMA ReclassifyInv ==
    ASSUME PointInv, Reclassify
    PROVE  PointInv'
<1>1. /\ call.stage = "reclassify" /\ call.stage \in Resolving /\ ~Polishing /\ PatchAlone
      /\ \/ X.place = "edge" /\ DomeOf([pt EXCEPT ![Own] = Saturated])
         \/ Resolved("SinglePhase", InputT, pt)
  BY DEF Reclassify, Consults, At, PatchAlone, backends, Resolving, Polishing
<1>2. X.place \in {"near", "edge"}
  BY <1>1 DEF PointInv, Routing, ComesTo
<1>3. CASE X.place = "edge" /\ DomeOf([pt EXCEPT ![Own] = Saturated])
  BY <1>1, <1>3, OwnInTheDome
<1>4. CASE Resolved("SinglePhase", InputT, pt)
  <2>1. "SinglePhase" \in Kinds(X)
    BY <1>2 DEF Kinds, Patchable
  <2> QED BY <1>1, <1>4, <2>1, Ends
<1> QED BY <1>1, <1>3, <1>4

LEMMA MissedInv ==
    ASSUME PointInv, Missed \/ MissedSource
    PROVE  PointInv'
<1> DEFINE all == [pt EXCEPT !.h = Saturated, !.s = Saturated, !.d = Saturated]
<1>1. /\ call.stage \in {"missed", "missedsource"} /\ call.stage \in Resolving /\ ~Polishing /\ PatchAlone
      /\ \/ call.stage = "missed" /\ On("missedsource")
         \/ InDome /\ DomeOf([pt EXCEPT ![Own] = Saturated])
         \/ ~InDome /\ Resolved("OutOfRange", InputT, pt)
         \/ InDome /\ DomeOf(all)
         \/ ~InDome /\ On("nowhere")
         \/ OnAfterThrow("nowhere")
  BY DEF Missed, MissedSource, Consults, Source, At, PatchAlone, backends, Resolving, Polishing
<1>2. X.place \in {"dome", "outside"} /\ (~InDome => X.place = "outside") /\ (InDome => X.place = "dome")
  BY <1>1 DEF PointInv, Routing, ComesTo, InDome
<1>3. {"missedsource", "nowhere"} \in SUBSET (Resolving \ {"polish", "restore"})
  BY DEF Resolving
<1>4. CASE call.stage = "missed" /\ On("missedsource")
  <2>1. ComesTo("missedsource", X, pt.threw)
    BY <1>2 DEF ComesTo
  <2> QED BY <1>1, <1>3, <1>4, <2>1, GoOnAlone
<1>5. CASE InDome /\ DomeOf([pt EXCEPT ![Own] = Saturated])
  BY <1>1, <1>2, <1>5, OwnInTheDome
<1>6. CASE ~InDome /\ Resolved("OutOfRange", InputT, pt)
  <2>1. "OutOfRange" \in Kinds(X)
    BY <1>2, <1>6 DEF Kinds, Patchable
  <2> QED BY <1>1, <1>6, <2>1, Ends
<1>7. CASE InDome /\ DomeOf(all)
  <2> DEFINE one == [pt EXCEPT !.h = Saturated]
             two == [one EXCEPT !.s = Saturated]
             three == [two EXCEPT !.d = Saturated]
  <2>1. X \in Inputs /\ Saturated \in PairOfValues /\ OwnEnds(Saturated, X)
    BY <1>1, Known, SaturatedIsOwn
  <2>2. pt \in Points /\ OwnEnds(pt.h, X) /\ OwnEnds(pt.s, X) /\ OwnEnds(pt.d, X)
    BY <1>1, Known
  <2>3. one \in Points /\ OwnEnds(one.h, X) /\ OwnEnds(one.s, X) /\ OwnEnds(one.d, X)
    BY <2>1, <2>2, KnownEnds
  <2> HIDE DEF one
  <2>4. two \in Points /\ OwnEnds(two.h, X) /\ OwnEnds(two.s, X) /\ OwnEnds(two.d, X)
    BY <2>1, <2>3, KnownEnds
  <2> HIDE DEF two
  <2>5. three \in Points /\ OwnEnds(three.h, X) /\ OwnEnds(three.s, X) /\ OwnEnds(three.d, X)
    BY <2>1, <2>4, KnownEnds
  <2>6. all = three
    BY <2>2 DEF one, two, Points
  <2> HIDE DEF all, three
  <2> QED BY <1>1, <1>2, <1>7, <2>5, <2>6, InTheDome
<1>8. CASE ~InDome /\ On("nowhere")
  <2>1. ComesTo("nowhere", X, pt.threw)
    BY <1>2, <1>8 DEF ComesTo
  <2> QED BY <1>1, <1>3, <1>8, <2>1, GoOnAlone
<1>9. CASE OnAfterThrow("nowhere")
  <2>1. ComesTo("nowhere", X, TRUE)
    BY DEF ComesTo
  <2> QED BY <1>1, <1>3, <1>9, <2>1, GoOnAlone
<1> QED BY <1>1, <1>4, <1>5, <1>6, <1>7, <1>8, <1>9

LEMMA NowhereInv ==
    ASSUME PointInv, Nowhere
    PROVE  PointInv'
<1>1. /\ call.stage = "nowhere" /\ call.stage \in Resolving /\ ~Polishing /\ PatchAlone
      /\ Resolved("OutOfRange", InputT, pt)
  BY DEF Nowhere, At, Steady, PatchAlone, backends, Resolving, Polishing
<1>2. X.place = "outside" \/ pt.threw
  BY <1>1 DEF PointInv, Routing, ComesTo
<1>3. pt.threw \/ "OutOfRange" \in Kinds(X)
  BY <1>2 DEF Kinds, Patchable
<1> QED BY <1>1, <1>3, Ends

LEMMA OnSaturationInv ==
    ASSUME PointInv, OnSaturation \/ OnSaturationSource
    PROVE  PointInv'
<1>1. /\ call.stage \in {"ptsat", "ptsource"} /\ call.stage \in Resolving /\ ~Polishing /\ PatchAlone
      /\ Outcome \/ (call.stage = "ptsat" /\ On("ptsource")) \/ OnAfterThrow("nowhere")
  BY DEF OnSaturation, OnSaturationSource, Consults, Source, At, PatchAlone, backends, Resolving, Polishing
<1>2. X.place \in {"sat", "outside"}
  BY <1>1 DEF PointInv, Routing, ComesTo
<1>3. {"ptsource", "nowhere"} \in SUBSET (Resolving \ {"polish", "restore"})
  BY DEF Resolving
<1>4. CASE Outcome
  <2> DEFINE kind == IF X.place = "sat" THEN "TwoPhaseDisallowed" ELSE "OutOfRange"
  <2>1. kind \in {"SinglePhase", "OutOfRange", "TwoPhaseDisallowed"} /\ kind \in Kinds(X)
    BY <1>2 DEF Kinds, Patchable
  <2>2. Resolved(kind, InputT, pt)
    BY <1>4 DEF Outcome
  <2> HIDE DEF kind
  <2> QED BY <1>1, <2>1, <2>2, Ends
<1>5. CASE call.stage = "ptsat" /\ On("ptsource")
  <2>1. ComesTo("ptsource", X, pt.threw)
    BY <1>2 DEF ComesTo
  <2> QED BY <1>1, <1>3, <1>5, <2>1, GoOnAlone
<1>6. CASE OnAfterThrow("nowhere")
  <2>1. ComesTo("nowhere", X, TRUE)
    BY DEF ComesTo
  <2> QED BY <1>1, <1>3, <1>6, <2>1, GoOnAlone
<1> QED BY <1>1, <1>4, <1>5, <1>6

LEMMA PatchInv ==
    ASSUME PointInv, Patch \/ Polish \/ Restore
    PROVE  PointInv'
<1>1. call.stage \in {"patch", "polish", "restore"} /\ call.stage \in Resolving
  BY DEF Patch, Polish, Restore, At, Resolving
<1>2. X.place \in Patchable
  BY <1>1 DEF PointInv, Routing, ComesTo
<1>3. /\ pt \in Points /\ OwnEnds(pt.h, X) /\ OwnEnds(pt.s, X) /\ OwnEnds(pt.d, X)
      /\ InputT \in Values /\ (InputT = Nothing \/ InputT.of = X)
      /\ X \in Inputs /\ call.fn \in {"update", "fast"} /\ NewPoint /\ disturbed \in BOOLEAN
  BY <1>1, Known DEF PointInv, PointTypes, ShapeOfCall
<1>4. cached' = cached /\ patch_backend' = patch_backend
  BY DEF Patch, Polish, Restore, backends
<1>5. disturbed' \in BOOLEAN /\ (call.fn = "fast" => disturbed')
  <2>1. CASE Patch
    BY <2>1 DEF Patch
  <2>2. CASE Polish \/ Restore
    <3>1. disturbed' = disturbed /\ Polishing
      BY <2>2 DEF Polish, Restore, At, Polishing
    <3> QED BY <1>3, <3>1 DEF PointInv, PatchHeld
  <2> QED BY <2>1, <2>2
<1>6. \A how \in Hows : Value(X, how) \in Values /\ Value(X, how).of = X /\ Value(X, how).how = how
  BY <1>3, ValueTypes
<1>7. \E how \in {"seed", "state", "half", "probe"} :
         /\ patch_source_' = Value(X, how)
         /\ \/ On("polish") \/ On("restore")
            \/ PatchedAt(patch_source_') /\ (how \in {"seed", "state"} \/ ~Accepts)
            \/ Resolved("OutOfRange", InputT, [NoPoint EXCEPT !.threw = TRUE])
  <2>1. CASE Patch
    BY <2>1 DEF Patch, Holds
  <2>2. CASE Polish
    BY <2>2 DEF Polish, Holds
  <2>3. CASE Restore
    BY <2>3 DEF Restore, Holds
  <2> QED BY <2>1, <2>2, <2>3
<1>8. PICK how \in {"seed", "state", "half", "probe"} :
         /\ patch_source_' = Value(X, how)
         /\ \/ On("polish") \/ On("restore")
            \/ PatchedAt(patch_source_') /\ (how \in {"seed", "state"} \/ ~Accepts)
            \/ Resolved("OutOfRange", InputT, [NoPoint EXCEPT !.threw = TRUE])
  BY <1>7
<1>9. patch_source_' \in Values /\ patch_source_'.of = X /\ patch_source_'.how = how
  <2>1. how \in Hows
    BY DEF Hows
  <2> QED BY <1>6, <1>8, <2>1
<1>10. ASSUME NEW st \in {"polish", "restore"}, On(st) PROVE PointInv'
  <2>1. Goto(st) /\ active_eval_' = active_eval_ /\ pt' = pt
    BY <1>10 DEF On
  <2>2. NewPoint'
    BY <1>3, <2>1 DEF NewPoint
  <2>3. ComesTo(st, X, pt'.threw) /\ st \in Resolving
    BY <1>2, <1>10 DEF ComesTo, Resolving
  <2> QED BY <1>1, <1>4, <1>5, <1>9, <1>10, <2>1, <2>2, <2>3, GoOn
<1>11. CASE PatchedAt(patch_source_') /\ (how \in {"seed", "state"} \/ ~Accepts)
  <2>1. KindFits("Patched", X, pt.threw)
    BY <1>2 DEF KindFits, Kinds, Patchable
  <2>2. "Patched" \in PointKinds \ {"Invalid"}
    BY DEF PointKinds
  <2>3. patch_source_'.how \in {"state", "seed"} \/ (patch_backend = "IF97" /\ X.place = "band")
    BY <1>9, <1>11 DEF Accepts
  <2> DEFINE T == IF InputT = Nothing THEN patch_source_' ELSE InputT
  <2>4. Resolved("Patched", T, pt)
    BY <1>11 DEF PatchedAt
  <2>5. T \in Values /\ (T = Nothing \/ T.of = X)
    BY <1>3, <1>9
  <2> HIDE DEF T
  <2> QED BY <1>1, <1>3, <1>4, <1>5, <1>9, <2>1, <2>2, <2>3, <2>4, <2>5, Resolve
<1>12. CASE Resolved("OutOfRange", InputT, [NoPoint EXCEPT !.threw = TRUE])
  <2> DEFINE known == [NoPoint EXCEPT !.threw = TRUE]
  <2>1. known \in Points /\ OwnEnds(known.h, X) /\ OwnEnds(known.s, X) /\ OwnEnds(known.d, X)
    BY NewPointTyped DEF NewPoints
  <2>2. known.threw = TRUE
    BY DEF NoPoint
  <2>3. Resolved("OutOfRange", InputT, known)
    BY <1>12
  <2> HIDE DEF known
  <2>4. KindFits("OutOfRange", X, known.threw)
    BY <2>2 DEF KindFits
  <2>5. "OutOfRange" \in PointKinds \ {"Invalid"} 
    BY DEF PointKinds
  <2> QED BY <1>1, <1>3, <1>4, <1>5, <1>9, <2>1, <2>3, <2>4, <2>5, Resolve
<1> QED BY <1>8, <1>10, <1>11, <1>12

-----------------------------------------------------------------------------
(* The saturation providers, and entering a call. *)

LEMMA AskInv ==
    ASSUME PointInv, AskSuperanc \/ AskSurrogate
    PROVE  PointInv'
<1>1. UNCHANGED <<patch_source_, active_eval_, cached, pt, disturbed, patch_backend>>
  BY DEF AskSuperanc, AskSurrogate, backends
<1>2. call \in Calls /\ call' \in {call, [call EXCEPT !.nan = TRUE]}
  BY DEF AskSuperanc, AskSurrogate, PointInv, PointTypes
<1>3. /\ call' \in Calls
      /\ call'.stage = call.stage /\ call'.fn = call.fn /\ call'.xs = call.xs /\ call'.outs = call.outs
      /\ call'.value = call.value /\ call'.values = call.values /\ call'.failed = call.failed /\ call'.rows = call.rows
  BY <1>2 DEF Calls
<1>4. X' = X
  BY <1>1, <1>3 DEF X
<1>5. PointTypes' /\ ActiveOwn'
  BY <1>1, <1>3 DEF PointInv, PointTypes, ActiveOwn
<1>6. ShapeOfCall'
  BY <1>1, <1>3 DEF PointInv, ShapeOfCall, Calling, NewPoint
<1>7. Routing'
  BY <1>1, <1>3, <1>4 DEF PointInv, Routing
<1>8. PatchHeld'
  BY <1>1, <1>3, <1>4 DEF PointInv, PatchHeld, Polishing, InRow, Holding
<1>9. ReadValues'
  BY <1>1, <1>3 DEF PointInv, ReadValues, Moved, OwnValue
<1>10. RowUnderWay' /\ RowsFit'
  BY <1>1, <1>3, <1>4 DEF PointInv, RowUnderWay, RowsFit, InRow
<1> QED BY <1>5, <1>6, <1>7, <1>8, <1>9, <1>10 DEF PointInv

\* A call is entered, or refused because its surface cannot be had.
LEMMA Enter ==
    ASSUME PointInv, call.stage = "idle", NEW new \in Calls, call' = new,
           UNCHANGED <<active_eval_, pt, patch_source_, disturbed, patch_backend>>, cached' \in {cached, Empty},
           new.values = <<>>, new.failed = FALSE, new.rows = <<>>,
           \/ new.stage = "idle" /\ new.fn \in {"update", "fast"}
           \/ new.stage = "route" /\ Len(new.xs) > 0 /\ new.fn = "update" /\ cached' = Empty
           \/ /\ new.stage = "route" /\ Len(new.xs) > 0 /\ new.fn = "fast" /\ Len(new.outs) > 0
              /\ \A k \in DOMAIN new.xs : new.xs[k].pair \notin {"PQ", "QT"}
           \/ /\ new.fn = "read" /\ Len(new.outs) = 1 /\ active_eval_ # NoPoint
              /\ new.stage = "eval" \/ (new.stage = "idle" /\ (~Moved => OwnValue(new.value))),
           new.fn = "fast" /\ new.stage = "idle" => new.xs = <<>>
    PROVE  PointInv'
<1>1. call \in Calls /\ pt = NoPoint
  BY DEF PointInv, PointTypes, ShapeOfCall
<1>2. NewPoint
  BY <1>1 DEF NewPoint, NewPoints
<1>3. new.stage # "batch" /\ ~Polishing' /\ (new.stage \in Resolving => new.stage = "route") /\ (new.stage \in Evaluating => new.fn = "read")
  BY DEF Resolving, Evaluating, Polishing
<1>4. DOMAIN Empty = {}
  BY DEF Empty
<1>5. PointTypes'
  BY <1>4 DEF PointInv, PointTypes
<1>6. ActiveOwn'
  BY DEF PointInv, ActiveOwn
<1>7. ShapeOfCall'
  <2>1. Len(new.rows) = 0 /\ Len(new.values) = 0 /\ Len(new.xs) \in Nat /\ DOMAIN <<>> = {}
    BY DEF Calls
  <2>2. new.stage \in Resolving => new.fn \in {"update", "fast"}
    BY <1>3 DEF Resolving
  <2>3. Calling' => Len(new.rows) < Len(new.xs)
    BY <1>3, <2>1 DEF Calling
  <2>4. /\ new.stage \in Resolving => NewPoint'
        /\ new.stage = "idle" \/ new.fn = "read" => pt' = NoPoint
    BY <1>1, <1>2 DEF NewPoint
  <2>5. new.stage \in Evaluating => new.fn \in {"fast", "read"} /\ Len(new.values) < Len(new.outs)
    <3>1. new.stage \in Evaluating => new.fn = "read"
      BY <1>3
    <3>2. new.fn = "read" => Len(new.outs) = 1
      OBVIOUS
    <3>3. Len(new.values) = 0
      BY <2>1
    <3>4. new.fn = "read" => Len(new.values) < Len(new.outs)
      <4>1. 0 < 1
        OBVIOUS
      <4> QED BY <3>2, <3>3, <4>1, Zenon
    <3> QED BY <3>1, <3>4
  <2>6. new.fn = "read" => Len(new.outs) = 1 /\ new.values = <<>> /\ active_eval_' # NoPoint
    OBVIOUS
  <2>7. new.fn = "fast" => /\ Len(new.rows) <= Len(new.xs)
                           /\ new.stage # "idle" => Len(new.outs) > 0
                           /\ \A k \in DOMAIN new.xs : new.xs[k].pair \notin {"PQ", "QT"}
    <3>1. Len(new.rows) <= Len(new.xs)
      BY <2>1
    <3> QED BY <2>1, <3>1
  <2>8. new.fn = "update" /\ new.stage # "idle" => DOMAIN cached' = {}
    BY <1>4
  <2> QED BY <1>3, <2>2, <2>3, <2>4, <2>5, <2>6, <2>7, <2>8 DEF ShapeOfCall
<1>8. Routing'
  BY <1>3 DEF Routing, ComesTo
<1>9. PatchHeld'
  BY <1>3 DEF PointInv, PatchHeld, Polishing, InRow, Holding
<1>10. ReadValues'
  BY <1>4 DEF PointInv, ReadValues, Moved, OwnValue
<1>11. RowUnderWay'
  BY <1>3 DEF RowUnderWay, InRow
<1>12. RowsFit'
  BY DEF RowsFit
<1> QED BY <1>5, <1>6, <1>7, <1>8, <1>9, <1>10, <1>11, <1>12 DEF PointInv

Begun(c, fn, xs, outs) ==
    /\ c \in Calls /\ c.fn = fn /\ c.stage = "route" /\ c.xs = xs /\ c.outs = outs
    /\ c.values = <<>> /\ c.failed = FALSE /\ c.rows = <<>>

LEMMA CallTypes ==
    ASSUME NEW fn \in {"update", "fast", "read"}, NEW xs \in Seq(Inputs), NEW outs \in Seq(Properties)
    PROVE  /\ Begun(Called(fn, xs, outs), fn, xs, outs) /\ CalledInVain(fn) \in Calls
           /\ CalledInVain(fn).fn = fn /\ CalledInVain(fn).stage = "idle" /\ CalledInVain(fn).xs = <<>>
           /\ CalledInVain(fn).values = <<>> /\ CalledInVain(fn).failed = FALSE /\ CalledInVain(fn).rows = <<>>
<1>1. Thrown("ValueError") \in Values /\ Nothing \in Values
  BY ValueTypes DEF Hows
<1>2. <<>> \in Seq(Inputs) /\ <<>> \in Seq(Properties) /\ <<>> \in Seq(Values) /\ <<>> \in Seq(TableRows)
  OBVIOUS
<1>3. NoCall \in Calls
  <2> HIDE DEF Nothing, Values, TableRows
  <2> QED BY <1>1, <1>2 DEF NoCall, Calls
<1>4. Called(fn, xs, outs) \in Calls /\ CalledInVain(fn) \in Calls
  BY <1>1, <1>3 DEF Called, CalledInVain, Calls, Resolving
<1> QED BY <1>4 DEF Called, CalledInVain, NoCall, Begun

LEMMA UpdateInv ==
    ASSUME PointInv, NEW x \in Inputs, Update(x)
    PROVE  PointInv'
<1>1. /\ call.stage = "idle" /\ UNCHANGED <<active_eval_, pt, patch_source_, disturbed, patch_backend>>
      /\ \/ call' = Called("update", <<x>>, <<>>) /\ cached' = Empty
         \/ call' = CalledInVain("update") /\ cached' = cached
  BY DEF Update, At, backends
<1>2. <<x>> \in Seq(Inputs) /\ Len(<<x>>) > 0 /\ <<>> \in Seq(Properties)
  OBVIOUS
<1>3. CASE call' = Called("update", <<x>>, <<>>) /\ cached' = Empty
  <2> DEFINE new == Called("update", <<x>>, <<>>)
  <2>1. /\ new \in Calls /\ new.fn = "update" /\ new.stage = "route" /\ new.xs = <<x>>
        /\ new.values = <<>> /\ new.failed = FALSE /\ new.rows = <<>>
    <3>1. Begun(Called("update", <<x>>, <<>>), "update", <<x>>, <<>>)
      BY <1>2, CallTypes
    <3> QED BY <3>1 DEF Begun
  <2> HIDE DEF new
  <2>2. call' = new
    BY <1>3 DEF new
  <2> QED BY <1>1, <1>2, <1>3, <2>1, <2>2, Enter
<1>4. CASE call' = CalledInVain("update") /\ cached' = cached
  <2> DEFINE new == CalledInVain("update")
  <2>1. /\ new \in Calls /\ new.fn = "update" /\ new.stage = "idle"
        /\ new.values = <<>> /\ new.failed = FALSE /\ new.rows = <<>>
    BY <1>2, CallTypes
  <2> HIDE DEF new
  <2>2. call' = new
    BY <1>4 DEF new
  <2> QED BY <1>1, <1>4, <2>1, <2>2, Enter
<1> QED BY <1>1, <1>3, <1>4

LEMMA FastEvaluateInv ==
    ASSUME PointInv, NEW xs \in Batches, NEW outs \in Outputs, FastEvaluate(xs, outs)
    PROVE  PointInv'
<1>1. /\ call.stage = "idle" /\ UNCHANGED <<active_eval_, pt, patch_source_, disturbed, patch_backend, cached>>
      /\ call' \in {Called("fast", xs, outs), CalledInVain("fast")}
  BY DEF FastEvaluate, At, backends
<1>2. /\ xs \in Seq(Inputs) /\ Len(xs) > 0 /\ outs \in Seq(Properties) /\ Len(outs) > 0
      /\ \A k \in DOMAIN xs : xs[k].pair \notin {"PQ", "QT"}
  BY PointAssumption
<1>3. CASE call' = Called("fast", xs, outs)
  <2> DEFINE new == Called("fast", xs, outs)
  <2>1. /\ new \in Calls /\ new.fn = "fast" /\ new.stage = "route" /\ new.xs = xs /\ new.outs = outs
        /\ new.values = <<>> /\ new.failed = FALSE /\ new.rows = <<>>
    <3>1. Begun(Called("fast", xs, outs), "fast", xs, outs)
      BY <1>2, CallTypes
    <3> QED BY <3>1 DEF Begun
  <2> HIDE DEF new
  <2>2. call' = new
    BY <1>3 DEF new
  <2> QED BY <1>1, <1>2, <2>1, <2>2, Enter
<1>4. CASE call' = CalledInVain("fast")
  <2> DEFINE new == CalledInVain("fast")
  <2>1. /\ new \in Calls /\ new.fn = "fast" /\ new.stage = "idle" /\ new.xs = <<>>
        /\ new.values = <<>> /\ new.failed = FALSE /\ new.rows = <<>>
    BY <1>2, CallTypes
  <2> HIDE DEF new
  <2>2. call' = new
    BY <1>4 DEF new
  <2> QED BY <1>1, <2>1, <2>2, Enter
<1> QED BY <1>1, <1>3, <1>4

LEMMA ReadInv ==
    ASSUME PointInv, NEW p \in Reads, Read(p)
    PROVE  PointInv'
<1> DEFINE asked == [NoCall EXCEPT !.fn = "read", !.outs = <<p>>]
           new == IF p \in DOMAIN cached THEN [asked EXCEPT !.value = cached[p]] ELSE [asked EXCEPT !.stage = "eval"]
<1>1. /\ call.stage = "idle" /\ UNCHANGED <<active_eval_, pt, patch_source_, disturbed, patch_backend, cached>>
      /\ call' = new /\ active_eval_.kind # "Invalid"
  BY DEF Read, At, backends
<1>2. active_eval_ # NoPoint
  BY <1>1 DEF NoPoint
<1>3. p \in Properties /\ <<p>> \in Seq(Properties) /\ Len(<<p>>) = 1
  BY PointAssumption
<1>4. NoCall \in Calls /\ NoCall.stage = "idle" /\ NoCall.values = <<>> /\ NoCall.failed = FALSE /\ NoCall.rows = <<>>
  <2>1. <<>> \in Seq(Inputs) /\ <<>> \in Seq(Properties) /\ <<>> \in Seq(Values) /\ <<>> \in Seq(TableRows)
    OBVIOUS
  <2>2. Nothing \in Values
    BY ValueTypes
  <2> HIDE DEF Nothing, Values, TableRows
  <2> QED BY <2>1, <2>2 DEF NoCall, Calls
<1>5. /\ asked \in Calls /\ asked.fn = "read" /\ asked.outs = <<p>>
      /\ asked.stage = "idle" /\ asked.values = <<>> /\ asked.failed = FALSE /\ asked.rows = <<>>
  BY <1>3, <1>4 DEF Calls
<1> HIDE DEF asked
<1>6. p \in DOMAIN cached => cached[p] \in Values /\ (~Moved => OwnValue(cached[p]))
  BY DEF PointInv, PointTypes, ReadValues
<1>7. /\ new \in Calls /\ new.fn = "read" /\ new.outs = <<p>> /\ new.values = <<>> /\ new.failed = FALSE /\ new.rows = <<>>
      /\ new.stage = "eval" \/ (new.stage = "idle" /\ (~Moved => OwnValue(new.value)))
  <2>1. CASE p \in DOMAIN cached
    <3> DEFINE v == cached[p]
    <3>1. v \in Values /\ (~Moved => OwnValue(v))
      BY <1>6, <2>1
    <3>2. new = [asked EXCEPT !.value = v]
      BY <2>1
    <3> HIDE DEF v, new
    <3>3. /\ new \in Calls /\ new.fn = "read" /\ new.outs = <<p>> /\ new.values = <<>> /\ new.failed = FALSE /\ new.rows = <<>>
          /\ new.stage = "idle" /\ new.value = v
      BY <1>5, <3>1, <3>2 DEF Calls
    <3> QED BY <3>1, <3>3
  <2>2. CASE p \notin DOMAIN cached
    <3>1. new = [asked EXCEPT !.stage = "eval"]
      BY <2>2
    <3> HIDE DEF new
    <3> QED BY <1>5, <3>1 DEF Calls, Evaluating
  <2> QED BY <2>1, <2>2
<1> HIDE DEF new
<1>8. cached' \in {cached, Empty}
  BY <1>1
<1> QED BY <1>1, <1>2, <1>3, <1>7, <1>8, Enter

-----------------------------------------------------------------------------
(* evaluate_property_. *)

\* What is known of the point that is evaluated.
LEMMA PointAtWork ==
    ASSUME PointInv, call.stage \in Evaluating
    PROVE  /\ call \in Calls /\ call.fn \in {"fast", "read"} /\ call.stage # "idle"
           /\ X \in Inputs /\ X # NoInput /\ E \in Points /\ OwnPoint(E, X) /\ E.kind \in PointKinds \ {"Invalid"}
           /\ call.fn = "fast" => InRow /\ E = pt /\ E.kind \in {"SinglePhase", "DomeBlend", "Patched"}
           /\ call.fn = "read" => E = active_eval_ /\ X = active_eval_.input /\ active_eval_ # NoPoint
           /\ Len(call.values) \in Nat /\ Len(call.outs) \in Nat /\ Len(call.values) < Len(call.outs)
           /\ call.outs \in Seq(Properties) /\ call.values \in Seq(Values) /\ Wanted \in Properties
<1>1. call \in Calls /\ call.fn \in {"fast", "read"} /\ call.stage # "idle" /\ pt \in Points /\ active_eval_ \in Points
  BY DEF PointInv, PointTypes, ShapeOfCall, Evaluating
<1>2. X \in Inputs /\ X # NoInput
  BY <1>1, InputAtWork
<1>3. /\ call.outs \in Seq(Properties) /\ call.values \in Seq(Values) /\ Len(call.values) \in Nat /\ Len(call.outs) \in Nat
      /\ Len(call.values) < Len(call.outs)
  BY <1>1 DEF Calls, PointInv, ShapeOfCall
<1>4. Wanted \in Properties
  <2>1. Len(call.values) + 1 \in 1 .. Len(call.outs)
    BY <1>3
  <2> QED BY <1>3, <2>1 DEF Wanted
<1>5. CASE call.fn = "fast"
  <2>1. InRow /\ E = pt
    BY <1>5 DEF InRow, E
  <2>2. OwnPoint(E, X) /\ E.kind \in {"SinglePhase", "DomeBlend", "Patched"}
    BY <2>1 DEF PointInv, RowUnderWay
  <2> QED BY <1>1, <1>2, <1>3, <1>4, <1>5, <2>1, <2>2 DEF PointKinds
<1>6. CASE call.fn = "read"
  <2>1. E = active_eval_ /\ X = active_eval_.input /\ active_eval_ # NoPoint
    BY <1>6 DEF E, X, PointInv, ShapeOfCall
  <2>2. OwnPoint(E, X) /\ E.kind # "Invalid"
    BY <2>1 DEF PointInv, ActiveOwn
  <2>3. E.kind \in PointKinds
    BY <1>1, <2>1 DEF Points
  <2> QED BY <1>1, <1>2, <1>3, <1>4, <1>6, <2>1, <2>2, <2>3
<1> QED BY <1>1, <1>5, <1>6

\* The evaluation goes on, with what the point has learnt.
LEMMA Evaluate ==
    ASSUME PointInv, call.stage \in Evaluating, NEW st \in Evaluating, GoesTo(st),
           NEW q \in Points, OwnPoint(q, X), q.kind = E.kind, SetE(q),
           UNCHANGED <<cached, patch_source_, disturbed, patch_backend>>
    PROVE  PointInv'
<1>1. /\ call \in Calls /\ call.fn \in {"fast", "read"} /\ X \in Inputs /\ E.kind # "Invalid"
      /\ call.fn = "fast" => E = pt /\ E.kind \in {"SinglePhase", "DomeBlend", "Patched"}
      /\ call.fn = "read" => E = active_eval_ /\ X = active_eval_.input
  BY PointAtWork
<1>2. /\ call.fn = "read" => active_eval_' = q /\ pt' = pt
      /\ call.fn = "fast" => active_eval_' = active_eval_ /\ pt' = q
  BY <1>1 DEF SetE
<1>3. q.input = X
  BY DEF OwnPoint
<1>4. X' = X
  BY <1>1, <1>2, <1>3 DEF X, GoesTo
<1>5. st # "idle" /\ st # "batch" /\ st \notin Resolving /\ call.stage # "idle" /\ call.stage # "batch" /\ call.stage \notin Resolving
  BY DEF Resolving, Evaluating
<1>6. PointTypes'
  BY <1>1, <1>2 DEF PointInv, PointTypes, GoesTo
<1>7. ActiveOwn'
  BY <1>1, <1>2, <1>3 DEF PointInv, ActiveOwn
<1>8. ShapeOfCall'
  <2>1. call.fn = "read" => active_eval_' # NoPoint /\ pt' = NoPoint
    <3>1. q # NoPoint
      BY <1>1 DEF NoPoint
    <3> QED BY <1>2, <3>1 DEF PointInv, ShapeOfCall
  <2> QED BY <1>1, <1>5, <2>1 DEF PointInv, ShapeOfCall, GoesTo, Calling
<1>9. Routing'
  BY <1>5 DEF Routing, GoesTo
<1>10. PatchHeld'
  <2>1. ~Polishing' /\ ~Polishing /\ (InRow' => InRow)
    BY <1>5 DEF Polishing, Resolving, GoesTo, InRow
  <2>2. active_eval_'.kind = active_eval_.kind /\ active_eval_'.input = active_eval_.input
    BY <1>1, <1>2, <1>3
  <2>3. InRow' => pt'.kind = pt.kind
    BY <1>1, <1>2 DEF InRow, GoesTo
  <2> QED BY <1>4, <2>1, <2>2, <2>3 DEF PointInv, PatchHeld, Holding
<1>11. ReadValues'
  <2>1. active_eval_'.kind = active_eval_.kind /\ active_eval_'.input = active_eval_.input
    BY <1>1, <1>2, <1>3
  <2> QED BY <1>5, <2>1 DEF PointInv, ReadValues, Moved, OwnValue, GoesTo
<1>12. RowUnderWay'
  <2>1. InRow' => InRow /\ pt' = q /\ q.kind = pt.kind
    BY <1>1, <1>2 DEF InRow, GoesTo
  <2> QED BY <1>1, <1>4, <2>1 DEF PointInv, RowUnderWay, GoesTo
<1>13. RowsFit'
  BY DEF PointInv, RowsFit, GoesTo
<1> QED BY <1>6, <1>7, <1>8, <1>9, <1>10, <1>11, <1>12, <1>13 DEF PointInv

LEMMA BatchInv ==
    ASSUME PointInv, Batch
    PROVE  PointInv'
<1>1. /\ call.stage = "batch" /\ UNCHANGED <<active_eval_, cached, patch_source_, disturbed, patch_backend>>
      /\ Row("internal_error", NaNs, TRUE) \/ (Goto("eval") /\ pt' = pt)
  BY DEF Batch, At, Steady, backends
<1>2. /\ call.fn = "fast" /\ call.stage # "idle" /\ InRow /\ call \in Calls
      /\ call.values = <<>> /\ Len(call.outs) > 0 /\ call.stage \notin Resolving /\ patch_source_ \in Values /\ disturbed \in BOOLEAN
  BY <1>1 DEF PointInv, PointTypes, ShapeOfCall, InRow, Resolving
<1>3. CASE Row("internal_error", NaNs, TRUE)
  <2>1. NaNs \in Seq(Values) /\ RowFits([status |-> "internal_error", values |-> NaNs, threw |-> TRUE], X, call.outs)
    BY <1>2, BlankRow
  <2> QED BY <1>1, <1>2, <1>3, <2>1, RowDone
<1>4. CASE Goto("eval") /\ pt' = pt
  <2>1. GoesTo("eval")
    BY <1>2, <1>4, GotoFields DEF Stages, Evaluating
  <2>2. X' = X /\ InRow' /\ ~Polishing'
    BY <1>1, <1>2, <2>1 DEF X, GoesTo, InRow, Evaluating, Polishing
  <2>3. PointTypes' /\ ActiveOwn'
    BY <1>1, <1>4, <2>1 DEF PointInv, PointTypes, ActiveOwn, GoesTo
  <2>4. ShapeOfCall'
    <3>1. Len(call.values) < Len(call.outs)
      BY <1>2
    <3> QED BY <1>1, <1>2, <2>1, <3>1 DEF PointInv, ShapeOfCall, GoesTo, Calling, Resolving, Evaluating
  <2>5. Routing'
    BY <2>1 DEF Routing, GoesTo, Resolving
  <2>6. PatchHeld'
    BY <1>1, <1>2, <1>4, <2>1, <2>2 DEF PointInv, PatchHeld, GoesTo, Holding, Polishing
  <2>7. ReadValues'
    BY <1>1, <2>1 DEF PointInv, ReadValues, GoesTo, Moved, OwnValue
  <2>8. RowUnderWay'
    BY <1>2, <1>4, <2>1, <2>2 DEF PointInv, RowUnderWay, GoesTo
  <2>9. RowsFit'
    BY <2>1 DEF PointInv, RowsFit, GoesTo
  <2> QED BY <2>3, <2>4, <2>5, <2>6, <2>7, <2>8, <2>9 DEF PointInv
<1> QED BY <1>1, <1>3, <1>4

\* What an output can come to: it is of the input at work, or an exception, or, for a read, NaN.
FitToRead(v) == ~Moved => v \in Errors \/ OwnValue(v)
FitForRow(v, o) ==
    \/ v.of = X \/ v = Thrown("ValueError")
    \/ v = Thrown("NotImplementedError") /\ o = "w" /\ X.place \in {"dome", "edge"}
Answers(v, o) ==
    /\ v \in Values
    /\ call.fn = "read" => FitToRead(v)
    /\ call.fn = "fast" => FitForRow(v, o)

LEMMA OwnAnswers ==
    ASSUME PointInv, call.stage \in Evaluating, NEW v \in Values, NEW o, v.of = X \/ v = Thrown("ValueError")
    PROVE  Answers(v, o)
BY PointAtWork DEF Answers, FitToRead, FitForRow, OwnValue, Errors

LEMMA BlendIsOwn ==
    ASSUME NEW x \in Inputs, NEW ends, OwnEnds(ends, x), ends.L # Nothing, ends.V # Nothing
    PROVE  Blend(ends) = Value(x, "blend") /\ Blend(ends) \in Values /\ Blend(ends).of = x
<1>1. ends.L = Value(x, "L") /\ ends.V = Value(x, "V")
  BY DEF OwnEnds
<1>2. Blend(ends) = Value(x, "blend")
  BY <1>1 DEF Blend, Value
<1>3. Value(x, "blend") \in Values /\ Value(x, "blend").of = x
  BY ValueTypes DEF Hows
<1> QED BY <1>2, <1>3

LEMMA OutcomeAnswers ==
    ASSUME PointInv, call.stage \in Evaluating, NEW o \in Properties, NEW v \in Outcomes(o),
           ~Shortcut(o) /\ E.kind = "DomeBlend" => Lacking(o) = {}
    PROVE  Answers(v, o)
<1>1. /\ X \in Inputs /\ X # NoInput /\ E \in Points /\ OwnPoint(E, X) /\ E.kind \in PointKinds \ {"Invalid"}
      /\ call.fn = "fast" => InRow /\ E = pt /\ E.kind \in {"SinglePhase", "DomeBlend", "Patched"}
      /\ call.fn = "read" => E = active_eval_ /\ X = active_eval_.input
      /\ call.fn \in {"fast", "read"}
  BY PointAtWork
<1>2. \A how \in Hows : Value(X, how) \in Values /\ Value(X, how).of = X
  BY <1>1, ValueTypes
<1>3. Thrown("ValueError") \in Values /\ Thrown("NotImplementedError") \in Values /\ NaN \in Values
  BY ValueTypes DEF Hows
<1>4. CASE Shortcut(o)
  <2>1. v = (IF o = "T" THEN E.T ELSE Value(X, "input"))
    BY <1>4 DEF Outcomes
  <2>2. CASE o = "T"
    <3>1. E.T # Nothing /\ E.T \in Values
      BY <1>1, <1>4, <2>2 DEF Shortcut, Given, Points
    <3>2. E.T.of = X
      BY <1>1, <3>1 DEF OwnPoint
    <3> QED BY <2>1, <2>2, <3>1, <3>2, OwnAnswers
  <2>3. CASE o # "T"
    <3>1. "input" \in Hows
      BY DEF Hows
    <3> QED BY <1>2, <2>1, <2>3, <3>1, OwnAnswers
  <2> QED BY <2>2, <2>3
<1>5. CASE ~Shortcut(o) /\ E.kind = "SinglePhase"
  <2>1. v \in {Value(X, "surface"), Thrown("ValueError")}
    BY <1>5 DEF Outcomes
  <2>2. "surface" \in Hows
    BY DEF Hows
  <2> QED BY <1>2, <1>3, <2>1, <2>2, OwnAnswers
<1>6. CASE ~Shortcut(o) /\ E.kind = "DomeBlend"
  <2>1. v = Blended(o)
    BY <1>6 DEF Outcomes
  <2>2. \A e \in {"d", "h", "s"} : E[e].L = Nothing \/ E[e].V = Nothing \/ (Blend(E[e]) = Value(X, "blend") /\ Blend(E[e]) \in Values /\ Blend(E[e]).of = X)
    <3>1. OwnEnds(E.d, X) /\ OwnEnds(E.h, X) /\ OwnEnds(E.s, X)
      BY <1>1 DEF OwnPoint
    <3> QED BY <1>1, <3>1, BlendIsOwn
  <2>3. CASE o \in {"d", "h", "s"}
    <3>1. E[o].L # Nothing /\ E[o].V # Nothing
      BY <1>6, <2>3 DEF Lacking, Needed
    <3>2. v = Blend(E[o])
      BY <2>1, <2>3 DEF Blended
    <3> QED BY <2>2, <2>3, <3>1, <3>2, OwnAnswers
  <2>4. CASE o = "u"
    <3>1. \A e \in {"d", "h"} : E[e].L # Nothing /\ E[e].V # Nothing
      BY <1>6, <2>4 DEF Lacking, Needed
    <3>2. Blend(E["d"]) = Value(X, "blend") /\ Blend(E["h"]) = Value(X, "blend") /\ Blend(E["d"]) \in Values /\ Blend(E["d"]).of = X
      BY <2>2, <3>1
    <3>3. v = Blend(E.d)
      BY <2>1, <2>4, <3>2 DEF Blended
    <3> QED BY <3>2, <3>3, OwnAnswers
  <2>5. CASE o = "w"
    <3>1. v = Thrown("NotImplementedError")
      BY <2>1, <2>5 DEF Blended
    <3>2. X.place \in {"dome", "edge"}
      BY <1>1, <1>6 DEF OwnPoint, KindFits
    <3> QED BY <1>3, <2>5, <3>1, <3>2 DEF Answers, FitToRead, FitForRow, Errors
  <2>6. CASE o \in {"T", "cp"}
    <3>1. v = Thrown("ValueError")
      BY <2>1, <2>6 DEF Blended
    <3> QED BY <1>3, <3>1, OwnAnswers
  <2> QED BY <2>3, <2>4, <2>5, <2>6 DEF Properties
<1>7. CASE ~Shortcut(o) /\ E.kind = "Patched"
  <2>1. v \in {patch_source_, Thrown("ValueError")}
    BY <1>7 DEF Outcomes
  <2>2. CASE v = patch_source_
    <3>1. v \in Values
      BY <2>2 DEF PointInv, PointTypes
    <3>2. call.fn = "fast" => v.of = X
      BY <1>1, <1>7, <2>2 DEF PointInv, PatchHeld
    <3>3. call.fn = "read" /\ ~Moved => v.of = X
      BY <1>1, <1>7, <2>2 DEF PointInv, PatchHeld, Moved, Holding
    <3> QED BY <1>1, <3>1, <3>2, <3>3 DEF Answers, FitToRead, FitForRow, OwnValue
  <2>3. CASE v = Thrown("ValueError")
    BY <1>3, <2>3, OwnAnswers
  <2> QED BY <2>1, <2>2, <2>3
<1>8. CASE ~Shortcut(o) /\ E.kind \notin {"SinglePhase", "DomeBlend", "Patched"}
  <2>1. v = NaN
    BY <1>8 DEF Outcomes
  <2>2. call.fn = "read"
    BY <1>1, <1>8
  <2> QED BY <1>3, <2>1, <2>2 DEF Answers, FitToRead, OwnValue
<1> QED BY <1>4, <1>5, <1>6, <1>7, <1>8

LEMMA AnswerRead ==
    ASSUME PointInv, call.stage \in Evaluating, call.fn = "read", NEW v, Answers(v, Wanted), Answer(Wanted, v),
           UNCHANGED <<active_eval_, patch_source_, disturbed, patch_backend>>
    PROVE  PointInv'
<1> DEFINE o == Wanted
<1>1. call \in Calls /\ v \in Values /\ FitToRead(v) /\ pt' = pt /\ call' = [call EXCEPT !.stage = "idle", !.value = v]
  BY DEF PointInv, PointTypes, Answers, Answer
<1>2. \/ cached' = cached
      \/ v \notin Errors /\ cached' = [q \in DOMAIN cached \cup {o} |-> IF q = o THEN v ELSE cached[q]]
  BY DEF Answer
<1>3. /\ call' \in Calls /\ call'.stage = "idle" /\ call'.value = v /\ call'.fn = "read" /\ call'.xs = call.xs /\ call'.outs = call.outs
      /\ call'.values = call.values /\ call'.failed = call.failed /\ call'.rows = call.rows
  BY <1>1 DEF Calls
<1> HIDE DEF o
<1>4. \A q \in DOMAIN cached' : (q \in DOMAIN cached /\ cached'[q] = cached[q]) \/ (cached'[q] = v /\ v \notin Errors)
  BY <1>2
<1>5. PointTypes'
  BY <1>1, <1>3, <1>4 DEF PointInv, PointTypes
<1>6. ShapeOfCall'
  BY <1>1, <1>3 DEF PointInv, ShapeOfCall, Calling, Resolving, Evaluating
<1>7. ActiveOwn' /\ Routing' /\ RowUnderWay'
  BY <1>3 DEF PointInv, ActiveOwn, Routing, RowUnderWay, InRow, Resolving
<1>8. PatchHeld'
  BY <1>3 DEF PointInv, PatchHeld, InRow, Holding
<1>9. ReadValues'
  <2>1. ~Moved => \A q \in DOMAIN cached' : OwnValue(cached'[q])
    BY <1>1, <1>4 DEF PointInv, ReadValues, FitToRead
  <2> QED BY <1>1, <1>3, <2>1 DEF ReadValues, Moved, OwnValue, FitToRead
<1>10. RowsFit'
  BY <1>3 DEF PointInv, RowsFit
<1> QED BY <1>5, <1>6, <1>7, <1>8, <1>9, <1>10 DEF PointInv

LEMMA AnswerRow ==
    ASSUME PointInv, call.stage \in Evaluating, call.fn = "fast", NEW v, Answers(v, Wanted), Answer(Wanted, v),
           UNCHANGED <<active_eval_, patch_source_, disturbed, patch_backend>>
    PROVE  PointInv'
<1> DEFINE w == IF v \in Errors THEN NaN ELSE v
           values == Append(call.values, w)
           failed == call.failed \/ v = Thrown("ValueError")
           n == Len(call.values)
<1>1. /\ call \in Calls /\ call.stage # "idle" /\ InRow /\ X \in Inputs /\ X # NoInput /\ OwnPoint(pt, X) /\ pt \in Points
      /\ pt.kind \in {"SinglePhase", "DomeBlend", "Patched"}
      /\ n \in Nat /\ Len(call.outs) \in Nat /\ n < Len(call.outs) /\ call.outs \in Seq(Properties) /\ call.values \in Seq(Values)
  BY PointAtWork
<1>2. v \in Values /\ FitForRow(v, Wanted) /\ NaN \in Values /\ patch_source_ \in Values /\ disturbed \in BOOLEAN /\ cached' = cached
  BY ValueTypes DEF Answers, Answer, PointInv, PointTypes
<1>3. w \in Values /\ (v # Thrown("ValueError") => RowValue(w, Wanted, X))
  BY <1>1, <1>2 DEF FitForRow, RowValue, Errors, Thrown, Value
<1> HIDE DEF w
<1>4. values \in Seq(Values) /\ Len(values) = n + 1 /\ values[n + 1] = w /\ \A j \in 1 .. n : values[j] = call.values[j]
  BY <1>1, <1>3
<1>5. failed \in BOOLEAN /\ Wanted = call.outs[n + 1]
  BY <1>1 DEF Calls, Wanted
<1>6. ~failed => \A j \in 1 .. n + 1 : RowValue(values[j], call.outs[j], X)
  <2> SUFFICES ASSUME ~failed, NEW j \in 1 .. n + 1 PROVE RowValue(values[j], call.outs[j], X)
    OBVIOUS
  <2>1. CASE j \in 1 .. n
    <3>1. j \in DOMAIN call.values /\ ~call.failed
      BY <1>1, <2>1
    <3>2. RowValue(call.values[j], call.outs[j], X)
      BY <1>1, <3>1 DEF PointInv, RowUnderWay
    <3> QED BY <1>4, <2>1, <3>2
  <2>2. CASE j = n + 1
    BY <1>3, <1>4, <1>5, <2>2
  <2> QED BY <1>1, <2>1, <2>2
<1>7. \/ n + 1 < Len(call.outs) /\ call' = [call EXCEPT !.stage = "eval", !.values = values, !.failed = failed] /\ pt' = pt
      \/ n + 1 = Len(call.outs) /\ failed /\ Row("internal_error", NaNs, TRUE)
      \/ n + 1 = Len(call.outs) /\ ~failed /\ Row("ok", values, pt.threw)
  <2>1. IF n + 1 < Len(call.outs)
        THEN call' = [call EXCEPT !.stage = "eval", !.values = values, !.failed = failed] /\ pt' = pt
        ELSE IF failed THEN Row("internal_error", NaNs, TRUE) ELSE Row("ok", values, pt.threw)
    BY <1>4 DEF Answer, w
  <2>2. n + 1 < Len(call.outs) \/ (~(n + 1 < Len(call.outs)) /\ n + 1 = Len(call.outs))
    BY <1>1
  <2> HIDE DEF values, failed, n
  <2> QED BY <2>1, <2>2
<1> HIDE DEF values, failed, n
<1>8. CASE n + 1 < Len(call.outs) /\ call' = [call EXCEPT !.stage = "eval", !.values = values, !.failed = failed] /\ pt' = pt
  <2>1. /\ call' \in Calls /\ call'.stage = "eval" /\ call'.fn = "fast" /\ call'.xs = call.xs /\ call'.outs = call.outs
        /\ call'.value = call.value /\ call'.values = values /\ call'.failed = failed /\ call'.rows = call.rows
    BY <1>1, <1>4, <1>5, <1>8 DEF Calls, Evaluating
  <2>2. X' = X /\ InRow' /\ ~Polishing'
    BY <1>1, <2>1 DEF X, InRow, Evaluating, Polishing
  <2>3. PointTypes' /\ ActiveOwn'
    BY <1>2, <1>8, <2>1 DEF PointInv, PointTypes, ActiveOwn
  <2>4. ShapeOfCall'
    <3>1. Len(call'.values) < Len(call'.outs)
      BY <1>4, <1>8, <2>1
    <3> QED BY <1>1, <2>1, <3>1 DEF PointInv, ShapeOfCall, Calling, Resolving, Evaluating
  <2>5. Routing'
    BY <2>1 DEF Routing, Resolving
  <2>6. PatchHeld'
    BY <1>1, <1>8, <2>1, <2>2 DEF PointInv, PatchHeld, Holding, Polishing
  <2>7. ReadValues'
    BY <1>2, <2>1 DEF PointInv, ReadValues, Moved, OwnValue
  <2>8. RowUnderWay'
    <3>1. DOMAIN values = 1 .. n + 1
      BY <1>4
    <3> QED BY <1>1, <1>6, <1>8, <2>1, <2>2, <3>1 DEF RowUnderWay
  <2>9. RowsFit'
    BY <2>1 DEF PointInv, RowsFit
  <2> QED BY <2>3, <2>4, <2>5, <2>6, <2>7, <2>8, <2>9 DEF PointInv
<1>9. CASE n + 1 = Len(call.outs) /\ failed /\ Row("internal_error", NaNs, TRUE)
  <2>1. NaNs \in Seq(Values) /\ RowFits([status |-> "internal_error", values |-> NaNs, threw |-> TRUE], X, call.outs)
    BY <1>1, BlankRow
  <2> QED BY <1>1, <1>2, <1>9, <2>1, RowDone
<1>10. CASE n + 1 = Len(call.outs) /\ ~failed /\ Row("ok", values, pt.threw)
  <2>1. pt.threw \in BOOLEAN
    BY <1>1 DEF Points
  <2>2. \A o \in DOMAIN call.outs : RowValue(values[o], call.outs[o], X)
    <3>1. DOMAIN call.outs = 1 .. n + 1
      BY <1>1, <1>10
    <3> QED BY <1>6, <1>10, <3>1
  <2>3. ~pt.threw => "ok" \in Statuses(X)
    <3>1. ~pt.threw => pt.kind \in Kinds(X)
      BY <1>1 DEF OwnPoint, KindFits
    <3>2. pt.kind \in Kinds(X) => Kinds(X) \cap {"OutOfRange", "TwoPhaseDisallowed"} = {}
      BY <1>1 DEF Kinds
    <3> QED BY <3>1, <3>2 DEF Statuses
  <2>4. RowFits([status |-> "ok", values |-> values, threw |-> pt.threw], X, call.outs)
    BY <2>2, <2>3 DEF RowFits
  <2> QED BY <1>1, <1>2, <1>4, <1>10, <2>1, <2>4, RowDone
<1> QED BY <1>7, <1>8, <1>9, <1>10

LEMMA AnswerInv ==
    ASSUME PointInv, call.stage \in Evaluating, NEW v, Answers(v, Wanted), Answer(Wanted, v),
           UNCHANGED <<active_eval_, patch_source_, disturbed, patch_backend>>
    PROVE  PointInv'
BY PointAtWork, AnswerRead, AnswerRow

LEMMA EvalInv ==
    ASSUME PointInv, Eval
    PROVE  PointInv'
<1>1. call.stage = "eval" /\ call.stage \in Evaluating /\ UNCHANGED <<active_eval_, patch_source_, disturbed, patch_backend>>
  BY DEF Eval, At, backends, Evaluating
<1>2. call \in Calls /\ Wanted \in Properties /\ E \in Points /\ OwnPoint(E, X)
  BY <1>1, PointAtWork
<1>3. CASE ~Shortcut(Wanted) /\ E.kind = "DomeBlend" /\ Lacking(Wanted) # {}
  <2>1. /\ UNCHANGED <<cached, pt>>
        /\ \E e \in Lacking(Wanted) : call' = [call EXCEPT !.stage = "endpoint", !.end = e, !.nan = FALSE]
    BY <1>3 DEF Eval
  <2>2. Lacking(Wanted) \subseteq {"d", "h", "s"}
    BY <1>2 DEF Lacking, Needed, Properties
  <2>3. PICK e \in {"d", "h", "s"} : call' = [call EXCEPT !.stage = "endpoint", !.end = e, !.nan = FALSE]
    BY <2>1, <2>2
  <2>4. GoesTo("endpoint") /\ "endpoint" \in Evaluating
    BY <1>2, <2>3 DEF GoesTo, Calls, Evaluating
  <2>5. SetE(E)
    BY <1>1, <2>1 DEF SetE, E
  <2> QED BY <1>1, <1>2, <2>1, <2>4, <2>5, Evaluate
<1>4. CASE ~(~Shortcut(Wanted) /\ E.kind = "DomeBlend" /\ Lacking(Wanted) # {})
  <2>1. PICK v \in Outcomes(Wanted) : Answer(Wanted, v)
    BY <1>4 DEF Eval
  <2>2. Answers(v, Wanted)
    BY <1>1, <1>2, <1>4, OutcomeAnswers
  <2> QED BY <1>1, <2>1, <2>2, AnswerInv
<1> QED BY <1>3, <1>4

\* An endpoint that a point gets later.
LEMMA LearntEnds ==
    ASSUME NEW p \in Points, NEW e \in {"h", "s", "d"}, NEW ends \in PairOfValues, NEW x, OwnPoint(p, x), OwnEnds(ends, x)
    PROVE  LET q == [p EXCEPT ![e] = ends]
           IN  q \in Points /\ OwnPoint(q, x) /\ q.kind = p.kind
<1> DEFINE q == [p EXCEPT ![e] = ends]
<1>1. CASE e = "h"
  <2>1. q = [p EXCEPT !.h = ends]
    BY <1>1
  <2> HIDE DEF q
  <2>2. q.kind = p.kind /\ q.input = p.input /\ q.T = p.T /\ q.threw = p.threw /\ q.h = ends /\ q.s = p.s /\ q.d = p.d /\ q \in Points
    BY <2>1 DEF Points
  <2> QED BY <2>2 DEF OwnPoint, q
<1>2. CASE e = "s"
  <2>1. q = [p EXCEPT !.s = ends]
    BY <1>2
  <2> HIDE DEF q
  <2>2. q.kind = p.kind /\ q.input = p.input /\ q.T = p.T /\ q.threw = p.threw /\ q.h = p.h /\ q.s = ends /\ q.d = p.d /\ q \in Points
    BY <2>1 DEF Points
  <2> QED BY <2>2 DEF OwnPoint, q
<1>3. CASE e = "d"
  <2>1. q = [p EXCEPT !.d = ends]
    BY <1>3
  <2> HIDE DEF q
  <2>2. q.kind = p.kind /\ q.input = p.input /\ q.T = p.T /\ q.threw = p.threw /\ q.h = p.h /\ q.s = p.s /\ q.d = ends /\ q \in Points
    BY <2>1 DEF Points
  <2> QED BY <2>2 DEF OwnPoint, q
<1> QED BY <1>1, <1>2, <1>3

LEMMA EndpointInv ==
    ASSUME PointInv, Endpoint \/ EndLiquid \/ EndVapour
    PROVE  PointInv'
<1> DEFINE e == call.end
<1>1. /\ call.stage \in Evaluating /\ UNCHANGED <<patch_source_, disturbed, patch_backend>>
      /\ \/ SetE([E EXCEPT ![call.end] = Saturated]) /\ Goto("eval") /\ cached' = cached
         \/ UNCHANGED <<active_eval_, pt>> /\ Goto("endliquid") /\ cached' = cached
         \/ SetE([E EXCEPT ![call.end].L = Liquid]) /\ Goto("endvapour") /\ cached' = cached
         \/ SetE([E EXCEPT ![call.end].V = Vapour]) /\ Goto("eval") /\ cached' = cached
         \/ Answer(Wanted, Thrown("ValueError")) /\ active_eval_' = active_eval_
  BY DEF Endpoint, EndLiquid, EndVapour, EndpointThrows, Consults, Source, At, backends, Evaluating
<1>2. call \in Calls /\ E \in Points /\ OwnPoint(E, X) /\ X \in Inputs /\ e \in {"h", "s", "d"}
  BY <1>1, PointAtWork DEF Calls
<1>3. Saturated \in PairOfValues /\ OwnEnds(Saturated, X) /\ Liquid \in Values /\ Vapour \in Values /\ Liquid = Value(X, "L") /\ Vapour = Value(X, "V")
  BY <1>2, SaturatedIsOwn
<1>4. E[e] \in PairOfValues /\ OwnEnds(E[e], X)
  BY <1>2 DEF Points, OwnPoint
<1>5. Goto("eval") => GoesTo("eval")
  BY <1>2, GotoFields DEF Stages, Evaluating
<1>6. Goto("endliquid") => GoesTo("endliquid")
  BY <1>2, GotoFields DEF Stages, Evaluating
<1>7. Goto("endvapour") => GoesTo("endvapour")
  BY <1>2, GotoFields DEF Stages, Evaluating
<1>8. {"eval", "endliquid", "endvapour"} \subseteq Evaluating
  BY DEF Evaluating
<1>9. ASSUME NEW ends \in PairOfValues, OwnEnds(ends, X), SetE([E EXCEPT ![e] = ends]), cached' = cached,
             NEW st \in {"eval", "endvapour"}, GoesTo(st)
      PROVE  PointInv'
  <2> DEFINE q == [E EXCEPT ![e] = ends]
  <2>1. q \in Points /\ OwnPoint(q, X) /\ q.kind = E.kind
    BY <1>2, <1>9, LearntEnds
  <2>2. SetE(q)
    BY <1>9
  <2> HIDE DEF q
  <2>3. st \in Evaluating
    BY <1>8
  <2> QED BY <1>1, <1>9, <2>1, <2>2, <2>3, Evaluate
<1>10. CASE SetE([E EXCEPT ![call.end] = Saturated]) /\ Goto("eval") /\ cached' = cached
  BY <1>3, <1>5, <1>9, <1>10
<1>11. CASE UNCHANGED <<active_eval_, pt>> /\ Goto("endliquid") /\ cached' = cached
  <2>1. SetE(E)
    BY <1>11 DEF SetE, E
  <2> QED BY <1>1, <1>2, <1>6, <1>8, <1>11, <2>1, Evaluate
<1>12. CASE SetE([E EXCEPT ![call.end].L = Liquid]) /\ Goto("endvapour") /\ cached' = cached
  <2> DEFINE ends == [E[e] EXCEPT !.L = Liquid]
  <2>1. ends \in PairOfValues /\ OwnEnds(ends, X)
    BY <1>3, <1>4 DEF PairOfValues, OwnEnds
  <2>2. SetE([E EXCEPT ![e] = ends])
    BY <1>12
  <2> HIDE DEF ends
  <2> QED BY <1>7, <1>9, <1>12, <2>1, <2>2
<1>13. CASE SetE([E EXCEPT ![call.end].V = Vapour]) /\ Goto("eval") /\ cached' = cached
  <2> DEFINE ends == [E[e] EXCEPT !.V = Vapour]
  <2>1. ends \in PairOfValues /\ OwnEnds(ends, X)
    BY <1>3, <1>4 DEF PairOfValues, OwnEnds
  <2>2. SetE([E EXCEPT ![e] = ends])
    BY <1>13
  <2> HIDE DEF ends
  <2> QED BY <1>5, <1>9, <1>13, <2>1, <2>2
<1>14. CASE Answer(Wanted, Thrown("ValueError")) /\ active_eval_' = active_eval_
  <2>1. Thrown("ValueError") \in Values
    BY ValueTypes DEF Hows
  <2>2. Answers(Thrown("ValueError"), Wanted)
    BY <1>1, <2>1, OwnAnswers
  <2> QED BY <1>1, <1>14, <2>2, AnswerInv
<1> QED BY <1>1, <1>10, <1>11, <1>12, <1>13, <1>14

-----------------------------------------------------------------------------
LEMMA InitInv == Init => PointInv
<1> SUFFICES ASSUME Init PROVE PointInv
  OBVIOUS
<1>1. /\ call = NoCall /\ pt = NoPoint /\ active_eval_ = NoPoint /\ cached = Empty /\ patch_source_ = Nothing /\ disturbed = FALSE
  BY DEF Init
<1>2. /\ call.fn = "none" /\ call.stage = "idle" /\ call.xs = <<>> /\ call.outs = <<>> /\ call.end = "d" /\ call.nan = FALSE
      /\ call.value = Nothing /\ call.values = <<>> /\ call.failed = FALSE /\ call.rows = <<>>
  BY <1>1 DEF NoCall
<1>3. Nothing \in Values /\ NoPoint \in Points
  BY ValueTypes
<1>4. call \in Calls
  <2>1. <<>> \in Seq(Inputs) /\ <<>> \in Seq(Properties) /\ <<>> \in Seq(Values) /\ <<>> \in Seq(TableRows)
    OBVIOUS
  <2> HIDE DEF Nothing, Values, TableRows
  <2> QED BY <1>1, <1>3, <2>1 DEF NoCall, Calls
<1>5. DOMAIN cached = {}
  BY <1>1 DEF Empty
<1>6. PointTypes
  BY <1>1, <1>3, <1>4, <1>5 DEF PointTypes
<1>7. ActiveOwn
  BY <1>1 DEF ActiveOwn
<1>8. ShapeOfCall
  BY <1>1, <1>2 DEF ShapeOfCall, Calling, Resolving, Evaluating
<1>9. Routing /\ RowUnderWay
  BY <1>2 DEF Routing, RowUnderWay, InRow, Resolving
<1>10. PatchHeld
  BY <1>1, <1>2 DEF PatchHeld, InRow, NoPoint
<1>11. ReadValues
  BY <1>2, <1>5 DEF ReadValues
<1>12. RowsFit
  BY <1>2 DEF RowsFit
<1> QED BY <1>6, <1>7, <1>8, <1>9, <1>10, <1>11, <1>12 DEF PointInv

LEMMA StepInv == PointInv /\ [Next]_vars => PointInv'
<1> SUFFICES ASSUME PointInv, [Next]_vars PROVE PointInv'
  OBVIOUS
<1>1. CASE Call
  BY <1>1, UpdateInv, FastEvaluateInv, ReadInv DEF Call
<1>2. CASE AskSuperanc \/ AskSurrogate
  BY <1>2, AskInv
<1>3. CASE Route \/ SaturationPoint \/ SaturationSource \/ Patch \/ Polish \/ Restore
  BY <1>3, RouteInv, SaturationInv, PatchInv
<1>4. CASE DensityDome \/ DensitySource \/ DensityPressure
  BY <1>4, DensityInv
<1>5. CASE Atlas \/ Reclassify \/ Missed \/ MissedSource \/ Nowhere
  BY <1>5, AtlasInv, ReclassifyInv, MissedInv, NowhereInv
<1>6. CASE OnSaturation \/ OnSaturationSource
  BY <1>6, OnSaturationInv
<1>7. CASE Batch \/ Eval \/ Endpoint \/ EndLiquid \/ EndVapour
  BY <1>7, BatchInv, EvalInv, EndpointInv
<1>8. CASE UNCHANGED vars
  <2>1. UNCHANGED <<patch_backend, patch_source_, active_eval_, cached, pt, call, disturbed>>
    BY <1>8 DEF vars, backends
  <2>2. X' = X
    BY <2>1 DEF X
  <2> QED BY <2>1, <2>2
          DEF PointInv, PointTypes, ActiveOwn, ShapeOfCall, Routing, PatchHeld, ReadValues, RowUnderWay, RowsFit,
              NewPoint, Calling, InRow, Holding, Polishing, Moved, OwnValue
<1> QED BY <1>1, <1>2, <1>3, <1>4, <1>5, <1>6, <1>7, <1>8 DEF Next, Step

LEMMA PointInvHolds == Spec => []PointInv
BY InitInv, StepInv, PTL DEF Spec

-----------------------------------------------------------------------------
\* An output read after an update, from wherever evaluate_property_ or the base class takes it,
\* belongs to the input of that update, unless the point is patched and a batch has moved the
\* patch source since: for any sequence of updates, reads and batches, refused or not.
THEOREM ReadsAreOwn == Spec => []ReadsOwn
<1>1. PointInv => ReadsOwn
  BY DEF PointInv, ReadValues, Moved, OwnValue, ReadsOwn, At
<1> QED BY <1>1, PointInvHolds, PTL

\* fast_evaluate never mixes its rows: each has the values of its own input, or is blank with a
\* status that says so, whatever was evaluated, patched or refused in the rows before it.
THEOREM RowsOwnOrBlank == Spec => []RowsAreOwnOrBlank
<1>1. PointInv => RowsAreOwnOrBlank
  BY DEF PointInv, RowsFit, RowFits, RowValue, RowsAreOwnOrBlank
<1> QED BY <1>1, PointInvHolds, PTL

\* resolve_point_ takes an input for what it is, with whatever saturation providers, as long as
\* no update of a source fails on the way.
THEOREM InputsAreRouted == Spec => []RoutedByPlace
<1>1. PointInv => RoutedByPlace
  <2> SUFFICES ASSUME PointInv PROVE RoutedByPlace
    OBVIOUS
  <2>1. active_eval_.kind # "Invalid" /\ ~active_eval_.threw => active_eval_.kind \in Kinds(active_eval_.input)
    BY DEF PointInv, ActiveOwn, OwnPoint, KindFits, NoPoint
  <2>2. \A k \in DOMAIN call.rows : ~call.rows[k].threw => call.rows[k].status \in Statuses(call.xs[k])
    BY DEF PointInv, RowsFit, RowFits
  <2> QED BY <2>1, <2>2 DEF RoutedByPlace
<1> QED BY <1>1, PointInvHolds, PTL

\* What polish_patch_state_ leaves for the outputs of a patched point is a state of its input.
THEOREM PatchesAreStates == Spec => []PatchIsAState
<1>1. PointInv => PatchIsAState
  <2> SUFFICES ASSUME PointInv, call.stage = "idle", active_eval_.kind = "Patched", ~disturbed,
                      ~(patch_backend = "IF97" /\ active_eval_.input.place = "band")
               PROVE  patch_source_ \in {Value(active_eval_.input, "state"), Value(active_eval_.input, "seed")}
    BY DEF PatchIsAState, At
  <2>1. patch_source_.of = active_eval_.input /\ patch_source_.how \in {"state", "seed"}
    BY DEF PointInv, PatchHeld, Holding, Polishing
  <2>2. patch_source_ = [of |-> patch_source_.of, how |-> patch_source_.how]
    BY DEF PointInv, PointTypes, Values
  <2> QED BY <2>1, <2>2 DEF Value
<1> QED BY <1>1, PointInvHolds, PTL
====
