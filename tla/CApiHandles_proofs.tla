---- MODULE CApiHandles_proofs ----
(***************************************************************************)
(* The table of handles, for any threads, addresses and calls: a handle    *)
(* means the state it was made for, and every state has one owner.         *)
(***************************************************************************)
EXTENDS CApiHandles, TLAPS

Stages == {"idle", "build", "lock", "insert", "number", "erase", "find", "update", "read", "done"}
Rooms == [1..Rows -> [1..Columns -> Inputs \cup {None}]]
Calls == [fn : Functions \cup {"none"}, handle : Nat \cup {-1}, state : States \cup {None},
          inputs : [1..Rows -> Inputs], stage : Stages, row : 1..Rows, column : 1..Columns,
          out : Rooms, result : Nat \cup Inputs \cup {None}]

\* Thread t goes on to a stage of the same call, and the other threads stay in theirs.
Moves(t, s) ==
    /\ call' \in [Threads -> Calls]
    /\ call'[t].stage = s
    /\ call'[t].fn = call[t].fn /\ call'[t].handle = call[t].handle /\ call'[t].state = call[t].state
    /\ \A u \in Threads \ {t} : call'[u] = call[u]

LEMMA GotoLemma ==
    ASSUME call \in [Threads -> Calls], NEW t \in Threads, NEW s \in Stages, Goto(t, s)
    PROVE  Moves(t, s)
<1>1. [call[t] EXCEPT !.stage = s] \in Calls
  BY DEF Calls
<1> QED BY <1>1 DEF Goto, Moves, Calls

LEMMA SetLemma ==
    ASSUME call \in [Threads -> Calls], NEW t \in Threads, NEW r \in Calls,
           call' = [call EXCEPT ![t] = r]
    PROVE  /\ call' \in [Threads -> Calls] /\ call'[t] = r
           /\ \A u \in Threads \ {t} : call'[u] = call[u]
  OBVIOUS

LEMMA FieldLemma ==
    ASSUME NEW c \in Calls
    PROVE  /\ \A s \in Stages : [c EXCEPT !.stage = s] \in Calls
           /\ \A s \in States : [c EXCEPT !.state = s] \in Calls
           /\ \A x \in Nat \cup Inputs : [c EXCEPT !.result = x] \in Calls
           /\ \A i \in 1..Rows : [c EXCEPT !.row = i] \in Calls
           /\ \A j \in 1..Columns : [c EXCEPT !.column = j] \in Calls
  BY DEF Calls

LEMMA AfterRowLemma ==
    ASSUME call \in [Threads -> Calls], NEW t \in Threads
    PROVE  /\ AfterRow(t) \in Calls
           /\ AfterRow(t).stage \in {"update", "done"}
           /\ AfterRow(t).fn = call[t].fn /\ AfterRow(t).handle = call[t].handle
           /\ AfterRow(t).state = call[t].state
<1>1. call[t] \in Calls
  OBVIOUS
<1>2. CASE call[t].row < Rows
  <2>1. AfterRow(t) = [call[t] EXCEPT !.row = @ + 1, !.column = 1, !.stage = "update"]
    BY <1>2 DEF AfterRow
  <2>2. call[t].row + 1 \in 1..Rows /\ 1 \in 1..Columns
    BY <1>1, <1>2, CApiAssumption DEF Calls
  <2> DEFINE c == [call[t] EXCEPT !.row = call[t].row + 1]
             d == [c EXCEPT !.column = 1]
  <2>3. c \in Calls /\ c.fn = call[t].fn /\ c.handle = call[t].handle /\ c.state = call[t].state
    BY <1>1, <2>2, FieldLemma DEF Calls
  <2> HIDE DEF c
  <2>4. d \in Calls /\ d.fn = c.fn /\ d.handle = c.handle /\ d.state = c.state
    BY <2>2, <2>3, FieldLemma DEF Calls
  <2>5. AfterRow(t) = [d EXCEPT !.stage = "update"]
    BY <2>1 DEF c, d
  <2> HIDE DEF d
  <2>6. [d EXCEPT !.stage = "update"] \in Calls
    BY <2>4, FieldLemma DEF Stages
  <2> QED BY <2>3, <2>4, <2>5, <2>6 DEF Calls
<1>3. CASE ~(call[t].row < Rows)
  BY <1>1, <1>3 DEF Calls, AfterRow, Stages
<1> QED BY <1>2, <1>3

LEMMA PutLemma ==
    ASSUME NEW f, NEW k, NEW x
    PROVE  /\ DOMAIN Put(f, k, x) = DOMAIN f \cup {k}
           /\ Put(f, k, x)[k] = x
           /\ \A h \in DOMAIN f \ {k} : Put(f, k, x)[h] = f[h]
           /\ Values(Put(f, k, x)) \subseteq Values(f) \cup {x}
           /\ k \notin DOMAIN f => Values(Put(f, k, x)) = Values(f) \cup {x}
  BY DEF Put, Values

LEMMA WithoutLemma ==
    ASSUME NEW f, NEW k
    PROVE  /\ DOMAIN Without(f, k) = DOMAIN f \ {k}
           /\ \A h \in DOMAIN f \ {k} : Without(f, k)[h] = f[h]
           /\ Values(Without(f, k)) \subseteq Values(f)
           /\ (\A g, h \in DOMAIN f : f[g] = f[h] => g = h) /\ k \in DOMAIN f
                => Values(Without(f, k)) = Values(f) \ {f[k]}
  BY DEF Without, Values

\* The types of the table and of the calls, as far as the table depends on them.
Typed ==
    /\ DOMAIN ASlibrary \subseteq Nat /\ Values(ASlibrary) \subseteq States
    /\ next_handle \in Nat
    /\ ASLib_mutex \in Threads \cup {None}
    /\ live \subseteq States
    /\ point \in [States -> Inputs]
    /\ call \in [Threads -> Calls]
    /\ known \subseteq Nat

\* Only a factory call builds and inserts, only a free erases, and the others look up.
StageOfFunction ==
    \A t \in Threads :
        /\ call[t].stage \in {"build", "insert", "number"} => call[t].fn = "factory"
        /\ call[t].stage \in {"lock", "insert", "number"} /\ call[t].fn = "factory" => call[t].state \in States
        /\ call[t].stage = "erase" => call[t].fn = "free"
        /\ call[t].stage \in {"find", "update", "read"} => call[t].fn \notin {"factory", "free"}
        /\ call[t].fn \in {"factory", "free"} => call[t].stage \notin {"find", "update", "read"}

\* The mutex is held by the thread that is inside the table, and by no other.
Exclusive ==
    \A t \in Threads : ASLib_mutex = t <=> call[t].stage \in {"insert", "number", "erase", "find"}

\* The next handle is free, except between the insertion of its state and its count.
NextIsFree ==
    /\ \A h \in DOMAIN ASlibrary :
          h < next_handle \/ (h = next_handle /\ \E t \in Threads : call[t].stage = "number")
    /\ \A t \in Threads : call[t].stage = "number" =>
          next_handle \in DOMAIN ASlibrary /\ ASlibrary[next_handle] = call[t].state

\* What the callers see to, and what follows from it: the entry a call refers to after
\* it has left the table is not erased under it.
OneUser ==
    \A t, u \in Threads :
        t # u /\ Running(t) /\ Running(u) /\ call[t].fn # "factory" /\ call[u].fn # "factory"
              /\ call[t].handle = call[u].handle
            => call[t].fn = "free" /\ call[u].fn = "free"

EntryInUse == \A t \in Threads : call[t].stage \in {"update", "read"} => call[t].handle \in DOMAIN ASlibrary

\* A handle that some thread has begun to free is no longer issued, and never will be.
NotIssuedAgain ==
    /\ DOMAIN issued \subseteq known
    /\ \A h \in known : h < next_handle
    /\ \A t \in Threads : call[t].fn # "factory" => call[t].handle \in known \cup {-1}
    /\ \A t \in Threads : Running(t) /\ call[t].fn = "free" => call[t].handle \notin DOMAIN issued

TableInv ==
    /\ Typed /\ StageOfFunction /\ Exclusive /\ NextIsFree
    /\ OneUser /\ EntryInUse /\ NotIssuedAgain
    /\ HandlesResolve /\ StatesAreOwned

LEMMA TypedStep ==
    ASSUME Typed, StageOfFunction, EntryInUse, Next
    PROVE  Typed'
<1> USE CApiAssumption
<1>1. ASSUME NEW t \in Threads, NEW fn \in Functions, NEW h \in HandlesOf(fn), NEW xs \in InputsOf(fn),
             Call(t, fn, h, xs)
      PROVE  Typed'
  <2>1. h \in Nat \cup {-1}
    BY DEF HandlesOf, Typed
  <2>2. xs \in [1..Rows -> Inputs]
    BY DEF InputsOf, Inputs
  <2>3. NoCall \in Calls
    BY DEF NoCall, Calls, Stages, Rooms, Blank, Inputs
  <2>4. Entered(fn, h, xs) \in Calls
    BY <2>1, <2>2, <2>3 DEF Entered, Calls, Stages
  <2> QED BY <1>1, <2>4 DEF Call, Typed, library
<1>2. ASSUME NEW t \in Threads, FactoryBuild(t) PROVE Typed'
  <2>1. ASSUME NEW s \in States, call' = [call EXCEPT ![t] = [@ EXCEPT !.state = s, !.stage = "lock"]]
        PROVE  call' \in [Threads -> Calls]
    <3> DEFINE c == [call[t] EXCEPT !.state = s]
    <3>1. c \in Calls
      BY FieldLemma DEF Typed
    <3>2. call' = [call EXCEPT ![t] = [c EXCEPT !.stage = "lock"]]
      BY <2>1
    <3> HIDE DEF c
    <3>3. [c EXCEPT !.stage = "lock"] \in Calls
      BY <3>1, FieldLemma DEF Stages
    <3> QED BY <3>2, <3>3, SetLemma DEF Typed
  <2>2. HandleException(t) => call' \in [Threads -> Calls]
    BY GotoLemma DEF HandleException, Typed, Stages, Moves
  <2> QED BY <1>2, <2>1, <2>2 DEF FactoryBuild, Typed, library, histories, Inputs
<1>3. ASSUME NEW t \in Threads, Lock(t) PROVE Typed'
  BY <1>3, GotoLemma DEF Lock, Typed, Stages, Moves, histories
<1>4. ASSUME NEW t \in Threads, AddInsert(t) PROVE Typed'
  <2>1. call[t].state \in States
    BY <1>4 DEF AddInsert, At, StageOfFunction
  <2>2. call' \in [Threads -> Calls]
    BY <1>4, GotoLemma DEF AddInsert, Typed, Stages, Moves
  <2>3. DOMAIN ASlibrary' \subseteq Nat /\ Values(ASlibrary') \subseteq States
    <3>1. \/ ASlibrary' = ASlibrary
          \/ ASlibrary' = Put(ASlibrary, next_handle, call[t].state)
      BY <1>4 DEF AddInsert
    <3> DEFINE f == Put(ASlibrary, next_handle, call[t].state)
    <3>0. DOMAIN f = DOMAIN ASlibrary \cup {next_handle} /\ Values(f) \subseteq Values(ASlibrary) \cup {call[t].state}
      <4> DEFINE s == call[t].state
      <4> HIDE DEF s
      <4>1. DOMAIN Put(ASlibrary, next_handle, s) = DOMAIN ASlibrary \cup {next_handle}
        BY DEF Put
      <4>2. Values(Put(ASlibrary, next_handle, s)) \subseteq Values(ASlibrary) \cup {s}
        BY ONLY PutLemma
      <4> QED BY <4>1, <4>2 DEF s
    <3> HIDE DEF f
    <3>2. DOMAIN f \subseteq Nat
      BY <3>0 DEF Typed
    <3>3. Values(f) \subseteq States
      BY <2>1, <3>0 DEF Typed
    <3> QED BY ONLY <3>1, <3>2, <3>3, Typed DEF Typed, f
  <2> QED BY <1>4, <2>2, <2>3 DEF AddInsert, Typed, histories
<1>5. ASSUME NEW t \in Threads, AddNumber(t) PROVE Typed'
  <2>1. next_handle' \in Nat /\ next_handle' - 1 \in Nat
    BY <1>5 DEF AddNumber, Typed
  <2> DEFINE c == [call[t] EXCEPT !.result = next_handle' - 1]
  <2>2. c \in Calls
    BY <2>1, FieldLemma DEF Typed
  <2>3. call' \in [Threads -> Calls]
    <3>1. call' = [call EXCEPT ![t] = [c EXCEPT !.stage = "done"]]
      BY <1>5 DEF AddNumber
    <3> HIDE DEF c
    <3>2. [c EXCEPT !.stage = "done"] \in Calls
      BY <2>2, FieldLemma DEF Stages
    <3> QED BY <3>1, <3>2, SetLemma DEF Typed
  <2> QED BY <1>5, <2>1, <2>3 DEF AddNumber, Typed
<1>6. ASSUME NEW t \in Threads, RemoveErase(t) PROVE Typed'
  <2>1. call' \in [Threads -> Calls]
    BY <1>6, GotoLemma DEF RemoveErase, HandleException, Typed, Stages, Moves
  <2>2. DOMAIN ASlibrary' \subseteq Nat /\ Values(ASlibrary') \subseteq States
    <3>1. \/ ASlibrary' = ASlibrary
          \/ ASlibrary' = Without(ASlibrary, call[t].handle)
      BY <1>6 DEF RemoveErase, Erased
    <3> DEFINE f == Without(ASlibrary, call[t].handle)
    <3>2. DOMAIN f = DOMAIN ASlibrary \ {call[t].handle} /\ Values(f) \subseteq Values(ASlibrary)
      BY ONLY WithoutLemma
    <3> HIDE DEF f
    <3>3. DOMAIN f \subseteq Nat /\ Values(f) \subseteq States
      BY <3>2 DEF Typed
    <3> QED BY ONLY <3>1, <3>3, Typed DEF Typed, f
  <2> QED BY <1>6, <2>1, <2>2 DEF RemoveErase, Erased, Typed
<1>7. ASSUME NEW t \in Threads, GetFind(t) PROVE Typed'
  BY <1>7, GotoLemma DEF GetFind, HandleException, Typed, Stages, Moves, histories
<1>8. ASSUME NEW t \in Threads, Update(t) PROVE Typed'
  <2>1. call' \in [Threads -> Calls]
    BY <1>8, GotoLemma, AfterRowLemma DEF Update, HandleException, Typed, Stages, Moves
  <2>2. point' \in [States -> Inputs]
    <3>1. call[t].inputs[call[t].row] \in Inputs /\ Bad \in Inputs
      BY DEF Typed, Calls, Inputs
    <3> QED BY <1>8, <3>1 DEF Update, Typed
  <2> QED BY <1>8, <2>1, <2>2 DEF Update, Typed, library
<1>9. ASSUME NEW t \in Threads, At(t, "read") PROVE point[AS(t)] \in Inputs
  BY <1>9 DEF At, EntryInUse, AS, Typed, Values
<1>10. ASSUME NEW t \in Threads, Output(t) PROVE Typed'
  <2> DEFINE c == [call[t] EXCEPT !.result = point[AS(t)]]
  <2>1. c \in Calls
    BY <1>9, <1>10, FieldLemma DEF Output, Typed
  <2>2. call' \in [Threads -> Calls]
    <3>1. call' = [call EXCEPT ![t] = [c EXCEPT !.stage = "done"]] \/ HandleException(t)
      BY <1>10 DEF Output
    <3> HIDE DEF c
    <3>2. [c EXCEPT !.stage = "done"] \in Calls
      BY <2>1, FieldLemma DEF Stages
    <3> QED BY <3>1, <3>2, SetLemma, GotoLemma DEF Typed, HandleException, Stages, Moves
  <2> QED BY <1>10, <2>2 DEF Output, Typed, library, histories
<1>11. ASSUME NEW t \in Threads, BatchOutput(t) PROVE Typed'
  <2> DEFINE w == [call[t].out EXCEPT ![call[t].row][call[t].column] = point[AS(t)]]
             r == IF call[t].column < Columns THEN [call[t] EXCEPT !.column = @ + 1] ELSE AfterRow(t)
  <2>1. call[t] \in Calls /\ point[AS(t)] \in Inputs
    BY <1>9, <1>11 DEF BatchOutput, Typed
  <2>2. w \in Rooms
    BY <2>1 DEF Rooms, Calls
  <2>3. r \in Calls
    <3>1. CASE call[t].column < Columns
      <4>1. call[t].column + 1 \in 1..Columns
        BY <2>1, <3>1 DEF Calls
      <4> QED BY <2>1, <3>1, <4>1 DEF Calls
    <3> QED BY <3>1, AfterRowLemma DEF Typed
  <2> HIDE DEF w, r
  <2>4. [r EXCEPT !.out = w] \in Calls
    BY <2>2, <2>3 DEF Calls
  <2>5. call' = [call EXCEPT ![t] = [r EXCEPT !.out = w]] \/ call' = [call EXCEPT ![t] = AfterRow(t)]
    BY <1>11 DEF BatchOutput, w, r
  <2>6. call' \in [Threads -> Calls]
    BY <2>4, <2>5, SetLemma, AfterRowLemma DEF Typed
  <2> QED BY <1>11, <2>6 DEF BatchOutput, Typed, library, histories
<1> QED BY <1>1, <1>2, <1>3, <1>4, <1>5, <1>6, <1>7, <1>8, <1>10, <1>11 DEF Next, Step

-----------------------------------------------------------------------------
(* What each step does to the call of its thread, and to those of others.   *)

Others(t) == \A u \in Threads \ {t} : call'[u] = call[u]
Same(t) == call'[t].fn = call[t].fn /\ call'[t].handle = call[t].handle /\ call'[t].state = call[t].state

LEMMA CallShape ==
    ASSUME Typed, NEW t \in Threads, NEW fn \in Functions, NEW h \in HandlesOf(fn), NEW xs \in InputsOf(fn),
           Call(t, fn, h, xs)
    PROVE  /\ Others(t) /\ call'[t].fn = fn /\ call'[t].handle = h
           /\ call'[t].stage = IF fn = "factory" THEN "build" ELSE "lock"
           /\ ~Running(t)
<1>1. Entered(fn, h, xs).fn = fn /\ Entered(fn, h, xs).handle = h
      /\ Entered(fn, h, xs).stage = IF fn = "factory" THEN "build" ELSE "lock"
  BY DEF Entered, NoCall
<1> QED BY <1>1 DEF Call, Others, Typed

LEMMA BuildShape ==
    ASSUME Typed, NEW t \in Threads, FactoryBuild(t)
    PROVE  /\ Others(t) /\ call'[t].fn = call[t].fn /\ call'[t].handle = call[t].handle
           /\ \/ /\ call'[t].stage = "done"
                 /\ call'[t].state = call[t].state
                 /\ live' = live
              \/ /\ call'[t].stage = "lock"
                 /\ call'[t].state \in States \ live
                 /\ live' = live \cup {call'[t].state}
<1>1. ASSUME NEW s \in States \ live, live' = live \cup {s},
             call' = [call EXCEPT ![t] = [@ EXCEPT !.state = s, !.stage = "lock"]]
      PROVE  /\ Others(t) /\ call'[t].fn = call[t].fn /\ call'[t].handle = call[t].handle
             /\ call'[t].stage = "lock" /\ call'[t].state = s
  <2> DEFINE c == [call[t] EXCEPT !.state = s]
  <2>1. c.state = s /\ c.fn = call[t].fn /\ c.handle = call[t].handle /\ c \in Calls
    BY FieldLemma DEF Typed, Calls
  <2>2. call' = [call EXCEPT ![t] = [c EXCEPT !.stage = "lock"]]
    BY <1>1
  <2> HIDE DEF c
  <2>3. /\ [c EXCEPT !.stage = "lock"].state = s /\ [c EXCEPT !.stage = "lock"].fn = call[t].fn
        /\ [c EXCEPT !.stage = "lock"].handle = call[t].handle /\ [c EXCEPT !.stage = "lock"].stage = "lock"
    BY <2>1 DEF Calls
  <2> QED BY <2>2, <2>3 DEF Others, Typed
<1>2. ASSUME HandleException(t), UNCHANGED live
      PROVE  Others(t) /\ Same(t) /\ call'[t].stage = "done" /\ live' = live
  BY <1>2, GotoLemma DEF HandleException, Typed, Moves, Others, Same, Stages
<1> QED BY <1>1, <1>2 DEF FactoryBuild, Same

LEMMA NumberShape ==
    ASSUME Typed, NEW t \in Threads, AddNumber(t)
    PROVE  Others(t) /\ Same(t) /\ call'[t].stage = "done"
<1> DEFINE c == [call[t] EXCEPT !.result = next_handle' - 1]
<1>1. c \in Calls /\ c.fn = call[t].fn /\ c.handle = call[t].handle /\ c.state = call[t].state
  <2>1. next_handle' - 1 \in Nat
    BY DEF AddNumber, Typed
  <2>2. c \in Calls
    BY <2>1, FieldLemma DEF Typed
  <2>3. call[t] \in Calls
    BY DEF Typed
  <2>4. c.fn = call[t].fn /\ c.handle = call[t].handle /\ c.state = call[t].state
    BY <2>3 DEF Calls
  <2> QED BY <2>2, <2>4
<1>2. call' = [call EXCEPT ![t] = [c EXCEPT !.stage = "done"]]
  BY DEF AddNumber
<1> HIDE DEF c
<1>3. /\ [c EXCEPT !.stage = "done"].state = c.state /\ [c EXCEPT !.stage = "done"].fn = c.fn
      /\ [c EXCEPT !.stage = "done"].handle = c.handle /\ [c EXCEPT !.stage = "done"].stage = "done"
  BY <1>1 DEF Calls
<1> QED BY <1>1, <1>2, <1>3 DEF Others, Same, Typed

\* The steps outside the table leave it alone.
LEMMA UseShape ==
    ASSUME Typed, EntryInUse, NEW t \in Threads, Update(t) \/ Output(t) \/ BatchOutput(t)
    PROVE  /\ Others(t) /\ Same(t)
           /\ call[t].stage \in {"update", "read"}
           /\ call'[t].stage \in {"update", "read", "done"}
           /\ UNCHANGED <<ASlibrary, next_handle, ASLib_mutex, live, known, issued>>
<1>1. CASE Update(t)
  BY <1>1, GotoLemma, AfterRowLemma
  DEF Update, HandleException, At, Typed, Moves, Others, Same, Stages, library
<1>2. CASE Output(t)
  <2> DEFINE c == [call[t] EXCEPT !.result = point[AS(t)]]
  <2>1. c.fn = call[t].fn /\ c.handle = call[t].handle /\ c.state = call[t].state /\ c \in Calls
    <3>1. point[AS(t)] \in Inputs
      BY <1>2 DEF Output, At, EntryInUse, AS, Typed, Values
    <3>2. c \in Calls
      BY <3>1, FieldLemma DEF Typed
    <3>3. call[t] \in Calls
      BY DEF Typed
    <3>4. c.fn = call[t].fn /\ c.handle = call[t].handle /\ c.state = call[t].state
      BY <3>3 DEF Calls
    <3> QED BY <3>2, <3>4
  <2>2. call' = [call EXCEPT ![t] = [c EXCEPT !.stage = "done"]] \/ HandleException(t)
    BY <1>2 DEF Output
  <2> HIDE DEF c
  <2>3. /\ [c EXCEPT !.stage = "done"].state = c.state /\ [c EXCEPT !.stage = "done"].fn = c.fn
        /\ [c EXCEPT !.stage = "done"].handle = c.handle /\ [c EXCEPT !.stage = "done"].stage = "done"
    BY <2>1 DEF Calls
  <2>4. Others(t) /\ Same(t) /\ call'[t].stage = "done"
    BY <2>1, <2>2, <2>3, GotoLemma DEF HandleException, Typed, Moves, Others, Same, Stages
  <2> QED BY <1>2, <2>4 DEF Output, At, library, histories
<1>3. CASE BatchOutput(t)
  <2> DEFINE w == [call[t].out EXCEPT ![call[t].row][call[t].column] = point[AS(t)]]
             r == IF call[t].column < Columns THEN [call[t] EXCEPT !.column = @ + 1] ELSE AfterRow(t)
  <2>1. call[t] \in Calls /\ call[t].stage = "read"
    BY <1>3 DEF BatchOutput, At, Typed
  <2>2. r \in Calls /\ r.fn = call[t].fn /\ r.handle = call[t].handle /\ r.state = call[t].state
        /\ r.stage \in {"read", "update", "done"}
    <3>1. CASE call[t].column < Columns
      <4>1. call[t].column + 1 \in 1..Columns
        BY <2>1, <3>1, CApiAssumption DEF Calls
      <4> QED BY <2>1, <3>1, <4>1 DEF Calls
    <3> QED BY <3>1, AfterRowLemma DEF Typed
  <2>3. call' = [call EXCEPT ![t] = [r EXCEPT !.out = w]] \/ call' = [call EXCEPT ![t] = AfterRow(t)]
    BY <1>3 DEF BatchOutput
  <2> HIDE DEF r, w
  <2>4. /\ [r EXCEPT !.out = w].fn = r.fn /\ [r EXCEPT !.out = w].handle = r.handle
        /\ [r EXCEPT !.out = w].state = r.state /\ [r EXCEPT !.out = w].stage = r.stage
    BY <2>2 DEF Calls
  <2>5. Others(t) /\ Same(t) /\ call'[t].stage \in {"read", "update", "done"}
    BY <2>2, <2>3, <2>4, AfterRowLemma DEF Typed, Others, Same
  <2> QED BY <1>3, <2>1, <2>5 DEF BatchOutput, library, histories
<1> QED BY <1>1, <1>2, <1>3

-----------------------------------------------------------------------------
(* The invariant of the table, one action at a time.                       *)

LEMMA CallStep ==
    ASSUME TableInv, NEW t \in Threads, NEW fn \in Functions, NEW h \in HandlesOf(fn), NEW xs \in InputsOf(fn),
           Call(t, fn, h, xs), Typed'
    PROVE  TableInv'
<1> USE DEF TableInv
<1>1. /\ Others(t) /\ call'[t].fn = fn /\ call'[t].handle = h
      /\ call'[t].stage = IF fn = "factory" THEN "build" ELSE "lock"
      /\ call[t].stage \in {"idle", "done"}
  BY CallShape DEF Running
<1>2. /\ UNCHANGED <<ASlibrary, next_handle, ASLib_mutex, live, known>>
      /\ issued' = IF fn = "free" THEN Without(issued, h) ELSE issued
      /\ fn # "factory" => MayUse(t, h, fn)
  BY DEF Call, library
<1>3. /\ DOMAIN issued' \subseteq DOMAIN issued
      /\ \A g \in DOMAIN issued' : issued'[g] = issued[g]
      /\ fn = "free" => h \notin DOMAIN issued'
  BY <1>2 DEF Without
<1>4. StageOfFunction'
  BY <1>1 DEF StageOfFunction, Others
<1>5. Exclusive'
  BY <1>1, <1>2 DEF Exclusive, Others
<1>6. NextIsFree'
  BY <1>1, <1>2 DEF NextIsFree, Others
<1>7. OneUser'
  BY <1>1, <1>2 DEF OneUser, MayUse, Running, Others
<1>8. EntryInUse'
  BY <1>1, <1>2 DEF EntryInUse, Others
<1>9. NotIssuedAgain'
  BY <1>1, <1>2, <1>3 DEF NotIssuedAgain, MayUse, Running, Others
<1>10. HandlesResolve'
  BY <1>2, <1>3 DEF HandlesResolve
<1>11. Making' = Making /\ \A u \in Making : call'[u].state = call[u].state
  BY <1>1 DEF Making, Others
<1>12. StatesAreOwned'
  BY <1>2, <1>11 DEF StatesAreOwned, Values
<1> QED BY <1>4, <1>5, <1>6, <1>7, <1>8, <1>9, <1>10, <1>12

LEMMA BuildStep ==
    ASSUME TableInv, NEW t \in Threads, FactoryBuild(t), Typed'
    PROVE  TableInv'
<1> USE DEF TableInv
<1>1. /\ Others(t) /\ call'[t].fn = call[t].fn /\ call'[t].handle = call[t].handle
      /\ call[t].stage = "build" /\ call[t].fn = "factory"
  BY BuildShape DEF FactoryBuild, At, StageOfFunction
<1>2. UNCHANGED <<ASlibrary, next_handle, ASLib_mutex, known, issued>>
  BY DEF FactoryBuild, library, histories
<1>3. \/ call'[t].stage = "done" /\ live' = live
      \/ /\ call'[t].stage = "lock" /\ call'[t].state \in States \ live
         /\ live' = live \cup {call'[t].state}
  BY BuildShape
<1>4. StageOfFunction'
  BY <1>1, <1>3 DEF StageOfFunction, Others
<1>5. Exclusive'
  BY <1>1, <1>2, <1>3 DEF Exclusive, Others
<1>6. NextIsFree'
  BY <1>1, <1>2, <1>3 DEF NextIsFree, Others
<1>7. OneUser'
  BY <1>1, <1>2, <1>3 DEF OneUser, Running, Others
<1>8. EntryInUse'
  BY <1>1, <1>2, <1>3 DEF EntryInUse, Others
<1>9. NotIssuedAgain'
  BY <1>1, <1>2, <1>3 DEF NotIssuedAgain, Running, Others
<1>10. HandlesResolve'
  BY <1>2, <1>3 DEF HandlesResolve
<1>11. StatesAreOwned'
  <2>1. t \notin Making /\ \A u \in Making : call'[u] = call[u] /\ u # t
    BY <1>1 DEF Making, Others
  <2>2. CASE call'[t].stage = "done"
    <3>1. Making' = Making /\ live' = live
      BY <1>1, <1>3, <2>2 DEF Making, Others
    <3> QED BY <1>2, <2>1, <3>1 DEF StatesAreOwned
  <2>3. CASE call'[t].stage = "lock"
    <3>1. Making' = Making \cup {t}
      BY <1>1, <2>3 DEF Making, Others
    <3>2. call'[t].state \notin live /\ live' = live \cup {call'[t].state}
      BY <1>3, <2>3
    <3>3. \A u \in Making : call[u].state \in live
      BY DEF StatesAreOwned
    <3>4. live' = Values(ASlibrary') \cup {call'[u].state : u \in Making'}
      BY <1>2, <2>1, <3>1, <3>2 DEF StatesAreOwned, Values
    <3>5. \A u, w \in Making' : call'[u].state = call'[w].state => u = w
      BY <2>1, <3>1, <3>2, <3>3 DEF StatesAreOwned
    <3>6. \A u \in Making' : call'[u].state \notin Values(ASlibrary')
      BY <1>2, <2>1, <3>1, <3>2 DEF StatesAreOwned, Values
    <3>7. \A g, h \in DOMAIN ASlibrary' : ASlibrary'[g] = ASlibrary'[h] => g = h
      BY <1>2 DEF StatesAreOwned
    <3> QED BY <3>4, <3>5, <3>6, <3>7 DEF StatesAreOwned
  <2> QED BY <1>3, <2>2, <2>3
<1> QED BY <1>4, <1>5, <1>6, <1>7, <1>8, <1>9, <1>10, <1>11

LEMMA LockStep ==
    ASSUME TableInv, NEW t \in Threads, Lock(t), Typed'
    PROVE  TableInv'
<1> USE DEF TableInv
<1>1. /\ Others(t) /\ Same(t) /\ call[t].stage = "lock"
      /\ call'[t].stage = IF call[t].fn = "factory" THEN "insert" ELSE IF call[t].fn = "free" THEN "erase" ELSE "find"
  BY GotoLemma DEF Lock, At, Typed, Moves, Stages, Others, Same
<1>2. /\ UNCHANGED <<ASlibrary, next_handle, live, known, issued>>
      /\ ASLib_mutex = None /\ ASLib_mutex' = t
  BY DEF Lock, histories
<1>4. StageOfFunction'
  BY <1>1 DEF StageOfFunction, Others, Same
<1>5. Exclusive'
  BY <1>1, <1>2, CApiAssumption DEF Exclusive, Others
<1>6. NextIsFree'
  BY <1>1, <1>2 DEF NextIsFree, Others, Same
<1>7. OneUser'
  BY <1>1, <1>2 DEF OneUser, Running, Others, Same
<1>8. EntryInUse'
  BY <1>1, <1>2 DEF EntryInUse, Others, Same
<1>9. NotIssuedAgain'
  BY <1>1, <1>2 DEF NotIssuedAgain, Running, Others, Same
<1>10. HandlesResolve'
  BY <1>2 DEF HandlesResolve
<1>11. Making' = Making /\ \A u \in Making : call'[u].state = call[u].state
  BY <1>1 DEF Making, Others, Same
<1>12. StatesAreOwned'
  BY <1>2, <1>11 DEF StatesAreOwned, Values
<1> QED BY <1>4, <1>5, <1>6, <1>7, <1>8, <1>9, <1>10, <1>12

LEMMA InsertStep ==
    ASSUME TableInv, NEW t \in Threads, AddInsert(t), Typed'
    PROVE  TableInv'
<1> USE DEF TableInv
<1>1. Others(t) /\ Same(t) /\ call[t].stage = "insert" /\ call'[t].stage = "number"
  BY GotoLemma DEF AddInsert, At, Typed, Moves, Stages, Others, Same
<1>2. UNCHANGED <<next_handle, ASLib_mutex, live, known, issued>>
  BY DEF AddInsert, histories
<1>3. call[t].fn = "factory" /\ ASLib_mutex = t /\ next_handle \notin DOMAIN ASlibrary
  BY <1>1 DEF StageOfFunction, Exclusive, NextIsFree, Typed
<1> DEFINE s == call[t].state
<1>4. /\ DOMAIN ASlibrary' = DOMAIN ASlibrary \cup {next_handle}
      /\ ASlibrary'[next_handle] = s
      /\ \A h \in DOMAIN ASlibrary : ASlibrary'[h] = ASlibrary[h]
      /\ Values(ASlibrary') = Values(ASlibrary) \cup {s}
  BY <1>3 DEF AddInsert, Put, Values
<1>5. StageOfFunction'
  BY <1>1 DEF StageOfFunction, Others, Same
<1>6. Exclusive'
  BY <1>1, <1>2 DEF Exclusive, Others
<1>7. NextIsFree'
  <2>1. \A u \in Threads : call'[u].stage = "number" => u = t
    BY <1>1, <1>3 DEF Exclusive, Others
  <2> QED BY <1>1, <1>2, <1>3, <1>4, <2>1 DEF NextIsFree, Exclusive, Others, Same
<1>8. OneUser'
  BY <1>1, <1>2 DEF OneUser, Running, Others, Same
<1>9. EntryInUse'
  BY <1>1, <1>2, <1>4 DEF EntryInUse, Others, Same
<1>10. NotIssuedAgain'
  BY <1>1, <1>2 DEF NotIssuedAgain, Running, Others, Same
<1>11. HandlesResolve'
  BY <1>2, <1>4 DEF HandlesResolve
<1>12. t \in Making /\ Making' = Making \ {t} /\ \A u \in Making' : call'[u].state = call[u].state
  BY <1>1, <1>3 DEF Making, Others, Same
<1>13. StatesAreOwned'
  <2>1. live' = Values(ASlibrary') \cup {call'[u].state : u \in Making'}
    BY <1>2, <1>4, <1>12 DEF StatesAreOwned
  <2>2. s \notin Values(ASlibrary)
    BY <1>12 DEF StatesAreOwned
  <2>3. \A g, h \in DOMAIN ASlibrary' : ASlibrary'[g] = ASlibrary'[h] => g = h
    BY <1>4, <2>2 DEF StatesAreOwned, Values
  <2>4. \A u \in Making' : call'[u].state \notin Values(ASlibrary')
    BY <1>4, <1>12 DEF StatesAreOwned
  <2>5. \A u, w \in Making' : call'[u].state = call'[w].state => u = w
    BY <1>12 DEF StatesAreOwned
  <2> QED BY <2>1, <2>3, <2>4, <2>5 DEF StatesAreOwned
<1> QED BY <1>5, <1>6, <1>7, <1>8, <1>9, <1>10, <1>11, <1>13

LEMMA NumberStep ==
    ASSUME TableInv, NEW t \in Threads, AddNumber(t), Typed'
    PROVE  TableInv'
<1> USE DEF TableInv
<1>1. Others(t) /\ Same(t) /\ call[t].stage = "number" /\ call'[t].stage = "done"
  BY NumberShape DEF AddNumber, At
<1>2. /\ call[t].fn = "factory" /\ ASLib_mutex = t
      /\ next_handle \in DOMAIN ASlibrary /\ ASlibrary[next_handle] = call[t].state
      /\ next_handle \in Nat
  BY <1>1 DEF StageOfFunction, Exclusive, NextIsFree, Typed
<1>3. /\ UNCHANGED ASlibrary
      /\ next_handle' = next_handle + 1 /\ ASLib_mutex' = None
      /\ known' = known \cup {next_handle}
      /\ issued' = Put(issued, next_handle, call[t].state)
  BY <1>2 DEF AddNumber
<1>4. call[t].state \in Values(ASlibrary)
  BY <1>2 DEF Values
<1>5. live' = live
  BY <1>4 DEF AddNumber
<1>6. /\ DOMAIN issued' = DOMAIN issued \cup {next_handle}
      /\ issued'[next_handle] = call[t].state
      /\ \A h \in DOMAIN issued : issued'[h] = issued[h] \/ h = next_handle
  BY <1>3 DEF Put
<1>7. StageOfFunction'
  BY <1>1 DEF StageOfFunction, Others, Same
<1>8. Exclusive'
  BY <1>1, <1>2, <1>3, CApiAssumption DEF Exclusive, Others
<1>9. NextIsFree'
  <2>1. \A u \in Threads : call'[u].stage # "number"
    BY <1>1, <1>2 DEF Exclusive, Others
  <2>2. \A h \in DOMAIN ASlibrary : h \in Nat /\ h <= next_handle
    BY <1>2 DEF NextIsFree, Typed
  <2> QED BY <1>2, <1>3, <2>1, <2>2 DEF NextIsFree
<1>10. OneUser'
  BY <1>1 DEF OneUser, Running, Others, Same
<1>11. EntryInUse'
  BY <1>1, <1>3 DEF EntryInUse, Others, Same
<1>12. NotIssuedAgain'
  <2>1. \A h \in known : h \in Nat /\ h < next_handle
    BY DEF NotIssuedAgain, Typed
  <2>2. \A u \in Threads : call'[u].fn # "factory" => call'[u].handle \in known \cup {-1}
    BY <1>1, <1>2 DEF NotIssuedAgain, Others, Same
  <2>3. \A u \in Threads : Running(u)' /\ call'[u].fn = "free" =>
            u # t /\ Running(u) /\ call[u].fn = "free" /\ call'[u].handle = call[u].handle
    BY <1>1, <1>2 DEF Running, Others, Same
  <2>4. \A h \in known \cup {-1} : h # next_handle
    BY <1>2, <2>1
  <2>5. \A u \in Threads : Running(u)' /\ call'[u].fn = "free" => call'[u].handle \notin DOMAIN issued'
    BY <1>6, <2>2, <2>3, <2>4 DEF NotIssuedAgain
  <2>6. DOMAIN issued' \subseteq known'
    BY <1>3, <1>6 DEF NotIssuedAgain
  <2>7. \A h \in known' : h < next_handle'
    BY <1>2, <1>3, <2>1
  <2>8. \A u \in Threads : call'[u].fn # "factory" => call'[u].handle \in known' \cup {-1}
    BY <1>3, <2>2
  <2> QED BY <2>5, <2>6, <2>7, <2>8 DEF NotIssuedAgain
<1>13. HandlesResolve'
  <2>1. call[t].state \in live
    BY <1>4 DEF StatesAreOwned
  <2> QED BY <1>2, <1>3, <1>5, <1>6, <2>1 DEF HandlesResolve
<1>14. Making' = Making /\ \A u \in Making : call'[u].state = call[u].state
  BY <1>1 DEF Making, Others, Same
<1>15. StatesAreOwned'
  BY <1>3, <1>5, <1>14 DEF StatesAreOwned, Values
<1> QED BY <1>7, <1>8, <1>9, <1>10, <1>11, <1>12, <1>13, <1>15

LEMMA EraseStep ==
    ASSUME TableInv, NEW t \in Threads, RemoveErase(t), Typed'
    PROVE  TableInv'
<1> USE DEF TableInv
<1> DEFINE h == call[t].handle
<1>1. Others(t) /\ Same(t) /\ call[t].stage = "erase" /\ call'[t].stage = "done"
  BY GotoLemma DEF RemoveErase, HandleException, At, Typed, Moves, Stages, Others, Same
<1>2. call[t].fn = "free" /\ ASLib_mutex = t /\ h \notin DOMAIN issued
  BY <1>1 DEF StageOfFunction, Exclusive, NotIssuedAgain, Running
<1>3. UNCHANGED <<next_handle, known, issued>> /\ ASLib_mutex' = None
  BY DEF RemoveErase
<1>4. \/ h \in DOMAIN ASlibrary /\ ASlibrary' = Without(ASlibrary, h) /\ live' = live \ {ASlibrary[h]}
      \/ ASlibrary' = ASlibrary /\ live' = live
  BY DEF RemoveErase, Erased
<1>5. /\ DOMAIN ASlibrary' \subseteq DOMAIN ASlibrary
      /\ \A g \in DOMAIN ASlibrary \ {h} : g \in DOMAIN ASlibrary' /\ ASlibrary'[g] = ASlibrary[g]
      /\ \A g \in DOMAIN ASlibrary' : ASlibrary'[g] = ASlibrary[g]
  BY <1>4 DEF Without
<1>6. StageOfFunction'
  BY <1>1 DEF StageOfFunction, Others, Same
<1>7. Exclusive'
  BY <1>1, <1>2, <1>3, CApiAssumption DEF Exclusive, Others
<1>8. NextIsFree'
  <2>1. \A u \in Threads : call[u].stage # "number" /\ call'[u].stage # "number"
    BY <1>1, <1>2 DEF Exclusive, Others
  <2> QED BY <1>3, <1>5, <2>1 DEF NextIsFree
<1>9. OneUser'
  BY <1>1 DEF OneUser, Running, Others, Same
<1>10. EntryInUse'
  <2>1. ASSUME NEW u \in Threads, call'[u].stage \in {"update", "read"}
        PROVE  call'[u].handle \in DOMAIN ASlibrary'
    <3>1. u # t /\ call'[u] = call[u]
      BY <1>1, <2>1 DEF Others
    <3>2. call[u].fn \notin {"factory", "free"}
      BY <2>1, <3>1 DEF StageOfFunction
    <3>3. call[u].handle # h
      BY <1>1, <1>2, <2>1, <3>1, <3>2 DEF OneUser, Running
    <3> QED BY <1>5, <2>1, <3>1, <3>3 DEF EntryInUse
  <2> QED BY <2>1 DEF EntryInUse
<1>11. NotIssuedAgain'
  BY <1>1, <1>3 DEF NotIssuedAgain, Running, Others, Same
<1>12. HandlesResolve'
  <2>1. ASSUME NEW g \in DOMAIN issued
        PROVE  g \in DOMAIN ASlibrary' /\ ASlibrary'[g] = issued[g] /\ issued[g] \in live'
    <3>1. g # h /\ g \in DOMAIN ASlibrary /\ ASlibrary[g] = issued[g] /\ issued[g] \in live
      BY <1>2 DEF HandlesResolve
    <3>2. h \in DOMAIN ASlibrary => ASlibrary[h] # ASlibrary[g]
      BY <3>1 DEF StatesAreOwned
    <3> QED BY <1>4, <1>5, <3>1, <3>2
  <2> QED BY <1>3, <2>1 DEF HandlesResolve
<1>13. Making' = Making /\ \A u \in Making : call'[u].state = call[u].state
  BY <1>1 DEF Making, Others, Same
<1>14. StatesAreOwned'
  <2>1. CASE ASlibrary' = ASlibrary /\ live' = live
    BY <2>1, <1>13 DEF StatesAreOwned, Values
  <2>2. CASE h \in DOMAIN ASlibrary /\ ASlibrary' = Without(ASlibrary, h) /\ live' = live \ {ASlibrary[h]}
    <3>1. Values(ASlibrary') = Values(ASlibrary) \ {ASlibrary[h]} /\ ASlibrary[h] \in Values(ASlibrary)
      BY <2>2 DEF StatesAreOwned, Without, Values
    <3>2. \A u \in Making : call[u].state # ASlibrary[h]
      BY <3>1 DEF StatesAreOwned
    <3>3. live' = Values(ASlibrary') \cup {call'[u].state : u \in Making'}
      BY <1>13, <2>2, <3>1, <3>2 DEF StatesAreOwned
    <3>4. \A f, g \in DOMAIN ASlibrary' : ASlibrary'[f] = ASlibrary'[g] => f = g
      BY <1>5 DEF StatesAreOwned
    <3> QED BY <1>13, <3>1, <3>3, <3>4 DEF StatesAreOwned
  <2> QED BY <1>4, <2>1, <2>2
<1> QED BY <1>6, <1>7, <1>8, <1>9, <1>10, <1>11, <1>12, <1>14

LEMMA FindStep ==
    ASSUME TableInv, NEW t \in Threads, GetFind(t), Typed'
    PROVE  TableInv'
<1> USE DEF TableInv
<1>1. /\ Others(t) /\ Same(t) /\ call[t].stage = "find"
      /\ \/ call'[t].stage \in {"update", "read"} /\ call[t].handle \in DOMAIN ASlibrary
         \/ call'[t].stage = "done"
  BY GotoLemma DEF GetFind, HandleException, At, Typed, Moves, Stages, Others, Same
<1>2. UNCHANGED <<ASlibrary, next_handle, live, known, issued>> /\ ASLib_mutex' = None
  BY DEF GetFind, histories
<1>3. ASLib_mutex = t
  BY <1>1 DEF Exclusive
<1>4. StageOfFunction'
  BY <1>1 DEF StageOfFunction, Others, Same
<1>5. Exclusive'
  BY <1>1, <1>2, <1>3, CApiAssumption DEF Exclusive, Others
<1>6. NextIsFree'
  BY <1>1, <1>2 DEF NextIsFree, Others, Same
<1>7. OneUser'
  BY <1>1 DEF OneUser, Running, Others, Same
<1>8. EntryInUse'
  BY <1>1, <1>2 DEF EntryInUse, Others, Same
<1>9. NotIssuedAgain'
  BY <1>1, <1>2 DEF NotIssuedAgain, Running, Others, Same
<1>10. HandlesResolve'
  BY <1>2 DEF HandlesResolve
<1>11. Making' = Making /\ \A u \in Making : call'[u].state = call[u].state
  BY <1>1 DEF Making, Others, Same
<1>12. StatesAreOwned'
  BY <1>2, <1>11 DEF StatesAreOwned, Values
<1> QED BY <1>4, <1>5, <1>6, <1>7, <1>8, <1>9, <1>10, <1>12

LEMMA UseStep ==
    ASSUME TableInv, NEW t \in Threads, Update(t) \/ Output(t) \/ BatchOutput(t), Typed'
    PROVE  TableInv'
<1> USE DEF TableInv
<1>1. /\ Others(t) /\ Same(t) /\ call[t].stage \in {"update", "read"}
      /\ call'[t].stage \in {"update", "read", "done"}
  BY UseShape
<1>2. UNCHANGED <<ASlibrary, next_handle, ASLib_mutex, live, known, issued>>
  BY UseShape
<1>3. StageOfFunction'
  BY <1>1 DEF StageOfFunction, Others, Same
<1>4. Exclusive'
  BY <1>1, <1>2 DEF Exclusive, Others
<1>5. NextIsFree'
  BY <1>1, <1>2 DEF NextIsFree, Others, Same
<1>6. OneUser'
  BY <1>1 DEF OneUser, Running, Others, Same
<1>7. EntryInUse'
  BY <1>1, <1>2 DEF EntryInUse, Others, Same
<1>8. NotIssuedAgain'
  BY <1>1, <1>2 DEF NotIssuedAgain, Running, Others, Same
<1>9. HandlesResolve'
  BY <1>2 DEF HandlesResolve
<1>10. Making' = Making /\ \A u \in Making : call'[u].state = call[u].state
  BY <1>1 DEF Making, Others, Same
<1>11. StatesAreOwned'
  BY <1>2, <1>10 DEF StatesAreOwned, Values
<1> QED BY <1>3, <1>4, <1>5, <1>6, <1>7, <1>8, <1>9, <1>11

LEMMA Initially ==
    ASSUME Init
    PROVE  TableInv
<1>1. NoCall \in Calls /\ NoCall.stage = "idle" /\ NoCall.handle = -1 /\ NoCall.fn = "none"
  BY CApiAssumption DEF NoCall, Calls, Stages, Rooms, Blank, Inputs
<1>2. \A t \in Threads : call[t] = NoCall
  BY DEF Init
<1>3. DOMAIN ASlibrary = {} /\ DOMAIN issued = {} /\ known = {} /\ live = {} /\ next_handle = 0 /\ ASLib_mutex = None
  BY DEF Init, Empty
<1>4. Values(ASlibrary) = {} /\ Making = {}
  BY <1>1, <1>2, <1>3 DEF Values, Making
<1>5. Typed
  BY <1>1, <1>3, <1>4 DEF Init, Typed, Inputs
<1>6. StageOfFunction /\ NextIsFree /\ OneUser /\ EntryInUse /\ NotIssuedAgain
  BY <1>1, <1>2, <1>3 DEF StageOfFunction, NextIsFree, OneUser, EntryInUse, NotIssuedAgain, Running
<1>7. Exclusive
  BY <1>1, <1>2, <1>3, CApiAssumption DEF Exclusive
<1>8. HandlesResolve /\ StatesAreOwned
  BY <1>3, <1>4 DEF HandlesResolve, StatesAreOwned
<1> QED BY <1>5, <1>6, <1>7, <1>8 DEF TableInv

LEMMA TableStep ==
    ASSUME TableInv, [Next]_vars
    PROVE  TableInv'
<1>1. CASE UNCHANGED vars
  <2>1. UNCHANGED <<ASlibrary, next_handle, ASLib_mutex, live, point, call, known, issued>>
    BY <1>1 DEF vars, library, histories
  <2> QED BY <2>1 DEF TableInv, Typed, StageOfFunction, Exclusive, NextIsFree, OneUser, EntryInUse,
                      NotIssuedAgain, HandlesResolve, StatesAreOwned, Making, Running, Values
<1>2. CASE Next
  <2>1. Typed'
    BY <1>2, TypedStep DEF TableInv
  <2> QED BY <1>2, <2>1, CallStep, BuildStep, LockStep, InsertStep, NumberStep, EraseStep, FindStep, UseStep
          DEF Next, Step
<1> QED BY <1>1, <1>2

\* A handle that the factory has returned and nobody has begun to free resolves to the
\* state made for it, for any number of threads, in any order of their steps.
THEOREM HandlesAlwaysResolve == Spec => []HandlesResolve
<1>1. TableInv => HandlesResolve
  BY DEF TableInv
<1> QED BY <1>1, Initially, TableStep, PTL DEF Spec

\* Every state that exists has one owner: no leak, and no two handles for one state.
THEOREM StatesAlwaysOwned == Spec => []StatesAreOwned
<1>1. TableInv => StatesAreOwned
  BY DEF TableInv
<1> QED BY <1>1, Initially, TableStep, PTL DEF Spec

\* As long as the callers do not use one handle at once, the entry that a call refers to
\* without the mutex is never erased under it.
THEOREM EntriesStayInUse == Spec => []EntryInUse
<1>1. TableInv => EntryInUse
  BY DEF TableInv
<1> QED BY <1>1, Initially, TableStep, PTL DEF Spec

-----------------------------------------------------------------------------
(* What is read through a handle, and what freeing it answers.              *)

\* What every step does to the entries and to the points of their states: an entry never
\* changes its state, a new one takes the next handle, and only an update through a handle
\* changes the point of its state.
LEMMA EntriesKeep ==
    ASSUME TableInv, NEW t \in Threads, Step(t)
    PROVE  /\ \A h \in DOMAIN ASlibrary' :
                 \/ h \in DOMAIN ASlibrary /\ ASlibrary'[h] = ASlibrary[h]
                 \/ h = next_handle
           /\ next_handle' >= next_handle
           /\ \A h \in DOMAIN ASlibrary :
                 point'[ASlibrary[h]] = point[ASlibrary[h]] \/ (Update(t) /\ call[t].handle = h)
<1> USE DEF TableInv
<1>0. next_handle \in Nat
  BY DEF Typed
<1>1. CASE FactoryBuild(t)
  <2>1. UNCHANGED <<ASlibrary, next_handle>>
    BY <1>1 DEF FactoryBuild, library
  <2>2. point' = point \/ \E s \in States \ live : point' = [point EXCEPT ![s] = Bad]
    BY <1>1 DEF FactoryBuild
  <2>3. \A h \in DOMAIN ASlibrary : ASlibrary[h] \in live /\ ASlibrary[h] \in States
    BY DEF StatesAreOwned, Values, Typed
  <2> QED BY <1>0, <2>1, <2>2, <2>3 DEF Typed
<1>2. CASE Lock(t) \/ GetFind(t) \/ Output(t) \/ BatchOutput(t)
  BY <1>0, <1>2 DEF Lock, GetFind, Output, BatchOutput, library
<1>3. CASE AddInsert(t)
  BY <1>0, <1>3 DEF AddInsert, Put
<1>4. CASE AddNumber(t)
  BY <1>0, <1>4 DEF AddNumber
<1>5. CASE RemoveErase(t)
  BY <1>0, <1>5 DEF RemoveErase, Erased, Without
<1>6. CASE Update(t)
  <2>1. UNCHANGED <<ASlibrary, next_handle>> /\ call[t].handle \in DOMAIN ASlibrary
    BY <1>6 DEF Update, library, At, EntryInUse
  <2>2. point' = point \/ \E x : point' = [point EXCEPT ![AS(t)] = x]
    BY <1>6 DEF Update
  <2>3. \A h \in DOMAIN ASlibrary : h # call[t].handle => ASlibrary[h] # AS(t) /\ ASlibrary[h] \in States
    BY <2>1 DEF StatesAreOwned, AS, Values, Typed
  <2> QED BY <1>0, <1>6, <2>1, <2>2, <2>3 DEF Typed
<1> QED BY <1>1, <1>2, <1>3, <1>4, <1>5, <1>6 DEF Step

\* A handle that was freed has no entry and never gets one again.
FreedForGood == \A h \in DOMAIN freed : h \in Nat /\ h < next_handle /\ h \notin DOMAIN ASlibrary

\* What was last put in through a handle is still what its state holds.
HoldsExpected ==
    \A h \in DOMAIN expected :
        /\ h \in Nat /\ h < next_handle
        /\ h \in DOMAIN ASlibrary => expected[h] \in {Bad, point[ASlibrary[h]]}

\* While a batch reads the outputs of a row, the state holds the input of that row.
RowIsHeld ==
    \A t \in Threads :
        call[t].fn = "batch" /\ call[t].stage = "read" =>
            LET x == call[t].inputs[call[t].row] IN x # Bad /\ point[AS(t)] = x

ErrorsTyped == errcode \in [Threads -> {0, 1}]

UseInv == TableInv /\ ErrorsTyped /\ FreedForGood /\ FreeSucceedsOnce /\ HoldsExpected /\ RowIsHeld /\ BatchRowsAreOwn

LEMMA FreedCall ==
    ASSUME UseInv, NEW t \in Threads, NEW fn \in Functions, NEW h \in HandlesOf(fn), NEW xs \in InputsOf(fn),
           Call(t, fn, h, xs)
    PROVE  (FreedForGood /\ FreeSucceedsOnce /\ HoldsExpected)'
<1> USE DEF UseInv, TableInv
<1>1. Others(t) /\ call'[t].stage # "done"
  BY CallShape
<1>2. /\ UNCHANGED <<ASlibrary, next_handle, point, freed, expected>>
      /\ \A u \in Threads \ {t} : errcode'[u] = errcode[u]
  BY DEF Call, library
<1>3. FreedForGood' /\ HoldsExpected'
  BY <1>2 DEF FreedForGood, HoldsExpected
<1>4. FreeSucceedsOnce'
  BY <1>1, <1>2 DEF FreeSucceedsOnce, Others
<1> QED BY <1>3, <1>4

LEMMA ErrorsStep ==
    ASSUME ErrorsTyped, NEW t \in Threads, Step(t)
    PROVE  ErrorsTyped' /\ \A u \in Threads \ {t} : errcode'[u] = errcode[u]
<1>1. errcode' = errcode \/ errcode' = [errcode EXCEPT ![t] = 1]
  BY DEF Step, FactoryBuild, Lock, AddInsert, AddNumber, RemoveErase, GetFind, Update, Output, BatchOutput,
         HandleException
<1> QED BY <1>1 DEF ErrorsTyped

\* Only the erasure of a free frees, and no other step of a free ends without an error.
LEMMA FreedKept ==
    ASSUME UseInv, NEW t \in Threads, Step(t), ~RemoveErase(t)
    PROVE  (FreedForGood /\ FreeSucceedsOnce)'
<1> USE DEF UseInv, TableInv
<1>1. freed' = freed
  BY DEF Step, FactoryBuild, Lock, AddInsert, AddNumber, GetFind, Update, Output, BatchOutput, histories
<1>2. Others(t) /\ call'[t].fn = call[t].fn /\ call'[t].handle = call[t].handle
  <2>1. CASE FactoryBuild(t)
    BY <2>1, BuildShape
  <2>2. CASE Lock(t) \/ AddInsert(t) \/ GetFind(t)
    BY <2>2, GotoLemma DEF Lock, AddInsert, GetFind, HandleException, Typed, Moves, Stages, Others
  <2>3. CASE AddNumber(t)
    BY <2>3, NumberShape DEF Same
  <2>4. CASE Update(t) \/ Output(t) \/ BatchOutput(t)
    BY <2>4, UseShape DEF Same
  <2> QED BY <2>1, <2>2, <2>3, <2>4 DEF Step
<1>3. call'[t].stage = "done" => call[t].fn # "free"
  <2>1. CASE FactoryBuild(t) \/ AddInsert(t) \/ AddNumber(t) \/ GetFind(t) \/ Update(t) \/ Output(t) \/ BatchOutput(t)
    BY <2>1 DEF StageOfFunction, FactoryBuild, AddInsert, AddNumber, GetFind, Update, Output, BatchOutput, At
  <2>2. CASE Lock(t)
    BY <2>2, GotoLemma DEF Lock, Typed, Moves, Stages
  <2> QED BY <2>1, <2>2 DEF Step
<1>4. FreedForGood'
  <2>1. \A h \in DOMAIN ASlibrary' : h \in DOMAIN ASlibrary \/ h = next_handle
    BY EntriesKeep
  <2>2. next_handle' >= next_handle /\ next_handle \in Nat /\ next_handle' \in Nat
    <3>1. next_handle' = next_handle \/ next_handle' = next_handle + 1
      BY DEF Step, FactoryBuild, Lock, AddInsert, AddNumber, GetFind, Update, Output, BatchOutput, library
    <3> QED BY <3>1 DEF Typed
  <2> QED BY <1>1, <2>1, <2>2 DEF FreedForGood
<1>5. FreeSucceedsOnce'
  BY <1>1, <1>2, <1>3, ErrorsStep DEF FreeSucceedsOnce, Others
<1> QED BY <1>4, <1>5

LEMMA FreedErase ==
    ASSUME UseInv, NEW t \in Threads, RemoveErase(t)
    PROVE  (FreedForGood /\ FreeSucceedsOnce)'
<1> USE DEF UseInv, TableInv
<1> DEFINE h == call[t].handle
<1>1. Others(t) /\ Same(t) /\ call[t].stage = "erase" /\ call'[t].stage = "done"
  BY GotoLemma DEF RemoveErase, HandleException, At, Typed, Moves, Stages, Others, Same
<1>2. call[t].fn = "free" /\ ASLib_mutex = t
  BY <1>1 DEF StageOfFunction, Exclusive
<1>3. next_handle' = next_handle /\ next_handle \in Nat
  BY DEF RemoveErase, Typed
<1>4. CASE /\ h \in DOMAIN ASlibrary /\ ASlibrary' = Without(ASlibrary, h)
           /\ freed' = Put(freed, h, (IF h \in DOMAIN freed THEN freed[h] ELSE 0) + 1)
           /\ errcode' = errcode
  <2>1. h \in Nat /\ h < next_handle
    <3>1. \A u \in Threads : call[u].stage # "number"
      BY <1>1, <1>2 DEF Exclusive
    <3> QED BY <1>4, <3>1 DEF NextIsFree, Typed
  <2>2. h \notin DOMAIN freed
    BY <1>4 DEF FreedForGood
  <2>3. /\ DOMAIN freed' = DOMAIN freed \cup {h} /\ freed'[h] = 1
        /\ \A g \in DOMAIN freed : freed'[g] = freed[g]
    BY <1>4, <2>2 DEF Put
  <2>4. DOMAIN ASlibrary' = DOMAIN ASlibrary \ {h}
    BY <1>4 DEF Without
  <2>5. FreedForGood'
    BY <1>3, <2>1, <2>3, <2>4 DEF FreedForGood
  <2>6. \A u \in Threads : call[u].stage = "done" /\ call[u].fn = "free" /\ call[u].handle = h => errcode[u] # 0
    BY <2>2 DEF FreeSucceedsOnce
  <2>7. FreeSucceedsOnce'
    BY <1>1, <1>2, <1>4, <2>3, <2>6 DEF FreeSucceedsOnce, Others, Same
  <2> QED BY <2>5, <2>7
<1>5. CASE UNCHANGED <<ASlibrary, freed>> /\ errcode' = [errcode EXCEPT ![t] = 1]
  <2>1. FreedForGood'
    BY <1>3, <1>5 DEF FreedForGood
  <2>2. errcode'[t] # 0 /\ \A u \in Threads \ {t} : errcode'[u] = errcode[u]
    BY <1>5 DEF ErrorsTyped
  <2>3. FreeSucceedsOnce'
    BY <1>1, <1>2, <1>5, <2>2 DEF FreeSucceedsOnce, Others, Same
  <2> QED BY <2>1, <2>3
<1> QED BY <1>4, <1>5 DEF RemoveErase, Erased, HandleException

LEMMA ExpectedStep ==
    ASSUME UseInv, NEW t \in Threads, Step(t)
    PROVE  HoldsExpected'
<1> USE DEF UseInv, TableInv
<1>0. next_handle' >= next_handle /\ next_handle \in Nat /\ next_handle' \in Nat
  <2>1. next_handle' = next_handle \/ next_handle' = next_handle + 1
    BY DEF Step, FactoryBuild, Lock, AddInsert, AddNumber, RemoveErase, GetFind, Update, Output, BatchOutput,
           library
  <2> QED BY <2>1 DEF Typed
<1>1. \A h \in DOMAIN ASlibrary' :
         (h \in DOMAIN ASlibrary /\ ASlibrary'[h] = ASlibrary[h]) \/ h = next_handle
  BY EntriesKeep
<1>2. CASE ~Update(t)
  <2>1. expected' = expected
    BY <1>2 DEF Step, FactoryBuild, Lock, AddInsert, AddNumber, RemoveErase, GetFind, Output, BatchOutput, histories
  <2>2. \A h \in DOMAIN ASlibrary : point'[ASlibrary[h]] = point[ASlibrary[h]]
    BY <1>2, EntriesKeep
  <2> QED BY <1>0, <1>1, <2>1, <2>2 DEF HoldsExpected
<1>3. CASE Update(t)
  <2> DEFINE g == call[t].handle
  <2>1. /\ UNCHANGED <<ASlibrary, next_handle>> /\ g \in DOMAIN ASlibrary
        /\ call[t].fn # "factory" /\ AS(t) \in States
    BY <1>3 DEF Update, library, At, EntryInUse, StageOfFunction, AS, Typed, Values
  <2>2. g \in Nat /\ g < next_handle
    <3>1. g \in known
      BY <2>1 DEF NotIssuedAgain, Typed
    <3> QED BY <3>1 DEF NotIssuedAgain, Typed
  <2>3. \E x : expected' = Put(expected, g, x) /\ x \in {Bad, point'[AS(t)]}
    BY <1>3, <2>1 DEF Update, Typed
  <2>4. DOMAIN expected' = DOMAIN expected \cup {g} /\ expected'[g] \in {Bad, point'[ASlibrary[g]]}
        /\ \A h \in DOMAIN expected : h # g => expected'[h] = expected[h]
    BY <2>3 DEF Put, AS
  <2>5. \A h \in DOMAIN ASlibrary : h # g => point'[ASlibrary[h]] = point[ASlibrary[h]]
    BY EntriesKeep
  <2> QED BY <2>1, <2>2, <2>4, <2>5 DEF HoldsExpected
<1> QED BY <1>2, <1>3

LEMMA AfterRowData ==
    ASSUME Typed, NEW t \in Threads
    PROVE  AfterRow(t).inputs = call[t].inputs /\ AfterRow(t).out = call[t].out
BY DEF AfterRow, Typed, Calls

\* What a step of a batch does to its own rows.
LEMMA BatchShape ==
    ASSUME TableInv, NEW t \in Threads, Step(t), call[t].fn = "batch"
    PROVE  LET x == call[t].inputs[call[t].row] IN
           /\ call'[t].inputs = call[t].inputs
           /\ \/ call'[t].out = call[t].out
              \/ /\ call[t].stage = "read"
                 /\ call'[t].out = [call[t].out EXCEPT ![call[t].row][call[t].column] = point[AS(t)]]
           /\ call'[t].stage = "read" =>
                 /\ call'[t].row = call[t].row
                 /\ \/ call[t].stage = "read" /\ point' = point
                    \/ x # Bad /\ point'[AS(t)] = x
<1> USE DEF TableInv
<1>0. call[t] \in Calls /\ call \in [Threads -> Calls]
  BY DEF Typed
<1> DEFINE x == call[t].inputs[call[t].row]
<1>1. ASSUME NEW s \in Stages, Goto(t, s)
      PROVE  /\ call'[t].inputs = call[t].inputs /\ call'[t].out = call[t].out
             /\ call'[t].row = call[t].row /\ call'[t].stage = s
  BY <1>0, <1>1 DEF Goto, Calls
<1>2. call' = [call EXCEPT ![t] = AfterRow(t)] =>
         /\ call'[t].inputs = call[t].inputs /\ call'[t].out = call[t].out /\ call'[t].stage # "read"
  BY <1>0, AfterRowData, AfterRowLemma
<1>3. CASE Lock(t) \/ GetFind(t)
  BY <1>1, <1>3 DEF Lock, GetFind, HandleException, Stages
<1>4. CASE Update(t)
  <2>1. CASE /\ x # Bad /\ point' = [point EXCEPT ![AS(t)] = x] /\ Goto(t, "read")
    <3>1. AS(t) \in States
      BY <1>4 DEF Update, At, EntryInUse, AS, Typed, Values
    <3> QED BY <1>1, <2>1, <3>1 DEF Stages, Typed
  <2>2. CASE call' = [call EXCEPT ![t] = AfterRow(t)]
    BY <1>2, <2>2
  <2> QED BY <1>4, <2>1, <2>2 DEF Update
<1>5. CASE BatchOutput(t)
  <2> DEFINE w == [call[t].out EXCEPT ![call[t].row][call[t].column] = point[AS(t)]]
             c == IF call[t].column < Columns THEN [call[t] EXCEPT !.column = @ + 1] ELSE AfterRow(t)
  <2>1. call[t].stage = "read" /\ point' = point
    BY <1>5 DEF BatchOutput, At
  <2>2. c.inputs = call[t].inputs /\ (c.stage = "read" => c.row = call[t].row) /\ c \in Calls
    <3>1. CASE call[t].column < Columns
      <4>1. call[t].column + 1 \in 1..Columns
        BY <1>0, <3>1, CApiAssumption DEF Calls
      <4> QED BY <1>0, <3>1, <4>1 DEF Calls
    <3>2. CASE ~(call[t].column < Columns)
      BY <1>0, <3>2, AfterRowLemma, AfterRowData
    <3> QED BY <3>1, <3>2
  <2>3. call' = [call EXCEPT ![t] = [c EXCEPT !.out = w]] \/ call' = [call EXCEPT ![t] = AfterRow(t)]
    BY <1>5 DEF BatchOutput
  <2> HIDE DEF c, w
  <2>4. CASE call' = [call EXCEPT ![t] = [c EXCEPT !.out = w]]
    <3>1. call'[t] = [c EXCEPT !.out = w]
      BY <1>0, <2>4
    <3>2. call'[t].inputs = c.inputs /\ call'[t].row = c.row /\ call'[t].stage = c.stage /\ call'[t].out = w
      BY <2>2, <3>1 DEF Calls
    <3> QED BY <2>1, <2>2, <3>2 DEF w
  <2>5. CASE call' = [call EXCEPT ![t] = AfterRow(t)]
    BY <1>2, <2>5
  <2> QED BY <2>3, <2>4, <2>5
<1> QED BY <1>3, <1>4, <1>5
        DEF Step, StageOfFunction, FactoryBuild, AddInsert, AddNumber, RemoveErase, Output, At

\* The state behind a call that is past the table is left alone by the other threads.
LEMMA OthersKeepMine ==
    ASSUME TableInv, NEW t \in Threads, Step(t), NEW u \in Threads \ {t}, call[u].stage = "read"
    PROVE  AS(u)' = AS(u) /\ point'[AS(u)] = point[AS(u)] /\ call'[u] = call[u]
<1> USE DEF TableInv
<1> DEFINE h == call[u].handle
<1>1. Others(t)
  <2>1. CASE Lock(t) \/ AddInsert(t) \/ GetFind(t) \/ RemoveErase(t)
    BY <2>1, GotoLemma DEF Lock, AddInsert, GetFind, RemoveErase, HandleException, Typed, Moves, Stages, Others
  <2> QED BY <2>1, BuildShape, NumberShape, UseShape DEF Step
<1>2. call'[u] = call[u] /\ h \in DOMAIN ASlibrary
  BY <1>1 DEF Others, EntryInUse
<1>3. ASlibrary'[h] = ASlibrary[h]
  <2>1. CASE RemoveErase(t)
    <3>1. call[t].stage = "erase" /\ call[t].fn = "free" /\ call[u].fn \notin {"factory", "free"}
      BY <2>1 DEF RemoveErase, At, StageOfFunction
    <3>2. h # call[t].handle
      BY <3>1 DEF OneUser, Running
    <3> QED BY <1>2, <2>1, <3>2 DEF RemoveErase, Erased, Without
  <2>2. CASE AddInsert(t)
    BY <1>2, <2>2 DEF AddInsert, Put
  <2>3. CASE ~RemoveErase(t) /\ ~AddInsert(t)
    BY <2>3 DEF Step, FactoryBuild, Lock, AddNumber, GetFind, Update, Output, BatchOutput, library
  <2> QED BY <2>1, <2>2, <2>3
<1>4. point'[ASlibrary[h]] = point[ASlibrary[h]]
  <2>1. Update(t) => call[t].handle # h
    <3> SUFFICES ASSUME Update(t) PROVE call[t].handle # h
      OBVIOUS
    <3>1. call[t].stage = "update" /\ call[t].fn # "factory" /\ call[t].fn # "free" /\ call[u].fn # "factory"
      BY DEF Update, At, StageOfFunction
    <3> QED BY <3>1 DEF OneUser, Running
  <2> QED BY <1>2, <2>1, EntriesKeep
<1> QED BY <1>2, <1>3, <1>4 DEF AS

LEMMA RowsStep ==
    ASSUME UseInv, NEW t \in Threads, Step(t), Typed', EntryInUse'
    PROVE  RowIsHeld' /\ BatchRowsAreOwn'
<1> USE DEF UseInv, TableInv
<1>1. call'[t].fn = call[t].fn /\ call'[t].handle = call[t].handle /\ Others(t)
  <2>1. CASE Lock(t) \/ AddInsert(t) \/ GetFind(t) \/ RemoveErase(t)
    BY <2>1, GotoLemma DEF Lock, AddInsert, GetFind, RemoveErase, HandleException, Typed, Moves, Stages, Others
  <2> QED BY <2>1, BuildShape, NumberShape, UseShape DEF Step, Same
<1>2. ASSUME NEW u \in Threads, call'[u].fn = "batch", call'[u].stage = "read"
      PROVE  LET x == call'[u].inputs[call'[u].row] IN x # Bad /\ point'[AS(u)'] = x
  <2>1. CASE u # t
    <3>1. call'[u] = call[u]
      BY <1>1, <2>1 DEF Others
    <3> QED BY <1>2, <2>1, <3>1, OthersKeepMine DEF RowIsHeld
  <2>2. CASE u = t
    <3> DEFINE x == call[t].inputs[call[t].row]
    <3>1. call'[t].inputs = call[t].inputs /\ call'[t].row = call[t].row
      BY <1>1, <1>2, <2>2, BatchShape
    <3>2. x # Bad /\ point'[AS(t)] = x
      BY <1>1, <1>2, <2>2, BatchShape DEF RowIsHeld
    <3>3. AS(t)' = AS(t)
      <4>1. call[t].stage \in {"update", "read"}
        BY <1>1, <1>2, <2>2, GotoLemma
        DEF Step, Lock, GetFind, FactoryBuild, AddInsert, AddNumber, RemoveErase, HandleException, Moves, Stages,
            Typed, Update, Output, BatchOutput, At, StageOfFunction
      <4>2. UNCHANGED ASlibrary
        BY <4>1 DEF Step, Lock, GetFind, FactoryBuild, AddInsert, AddNumber, RemoveErase, Update, Output,
                    BatchOutput, At, library
      <4> QED BY <1>1, <4>2 DEF AS
    <3> QED BY <2>2, <3>1, <3>2, <3>3
  <2> QED BY <2>1, <2>2
<1>3. ASSUME NEW u \in Threads, call'[u].fn = "batch", NEW i \in 1..Rows, NEW j \in 1..Columns,
             call'[u].out[i][j] # None
      PROVE  call'[u].inputs[i] # Bad /\ call'[u].out[i][j] = call'[u].inputs[i]
  <2>1. CASE u # t
    BY <1>1, <1>3, <2>1 DEF Others, BatchRowsAreOwn
  <2>2. CASE u = t
    <3>1. call[t].fn = "batch" /\ call'[t].inputs = call[t].inputs
      BY <1>1, <1>3, <2>2, BatchShape
    <3>2. CASE call'[t].out = call[t].out
      BY <1>3, <2>2, <3>1, <3>2 DEF BatchRowsAreOwn
    <3>3. CASE /\ call[t].stage = "read"
               /\ call'[t].out = [call[t].out EXCEPT ![call[t].row][call[t].column] = point[AS(t)]]
      <4>1. call[t].out \in [1..Rows -> [1..Columns -> Inputs \cup {None}]]
            /\ call[t].row \in 1..Rows /\ call[t].column \in 1..Columns
        BY DEF Typed, Calls, Rooms
      <4>2. CASE i = call[t].row /\ j = call[t].column
        BY <2>2, <3>1, <3>3, <4>1, <4>2 DEF RowIsHeld
      <4>3. CASE ~(i = call[t].row /\ j = call[t].column)
        <5>1. call'[t].out[i][j] = call[t].out[i][j]
          BY <3>3, <4>1, <4>3
        <5> QED BY <1>3, <2>2, <3>1, <5>1 DEF BatchRowsAreOwn
      <4> QED BY <4>2, <4>3
    <3> QED BY <3>1, <3>2, <3>3, BatchShape
  <2> QED BY <2>1, <2>2
<1> QED BY <1>2, <1>3 DEF RowIsHeld, BatchRowsAreOwn

LEMMA UseInit == Init => UseInv
<1> SUFFICES ASSUME Init PROVE UseInv
  OBVIOUS
<1>1. TableInv
  BY Initially
<1>2. \A t \in Threads : call[t].fn = "none" /\ call[t].stage = "idle"
  BY DEF Init, NoCall
<1>3. DOMAIN freed = {} /\ DOMAIN expected = {} /\ ErrorsTyped
  BY DEF Init, Empty, ErrorsTyped
<1> QED BY <1>1, <1>2, <1>3
        DEF UseInv, FreedForGood, FreeSucceedsOnce, HoldsExpected, RowIsHeld, BatchRowsAreOwn

LEMMA UseInvStep == UseInv /\ [Next]_vars => UseInv'
<1> SUFFICES ASSUME UseInv, [Next]_vars PROVE UseInv'
  OBVIOUS
<1>1. TableInv'
  BY TableStep DEF UseInv
<1>2. ASSUME NEW t \in Threads, Step(t) PROVE UseInv'
  BY <1>1, <1>2, ErrorsStep, FreedKept, FreedErase, ExpectedStep, RowsStep DEF UseInv, TableInv
<1>3. ASSUME NEW t \in Threads, NEW fn \in Functions, NEW h \in HandlesOf(fn), NEW xs \in InputsOf(fn),
             Call(t, fn, h, xs)
      PROVE  UseInv'
  <2>1. (FreedForGood /\ FreeSucceedsOnce /\ HoldsExpected)'
    BY <1>3, FreedCall
  <2>2. Others(t) /\ call'[t].stage \in {"build", "lock"}
    BY <1>3, CallShape DEF UseInv, TableInv
  <2>3. call'[t].out = Blank /\ UNCHANGED <<ASlibrary, point>> /\ errcode' = [errcode EXCEPT ![t] = 0]
    <3>1. call'[t] = Entered(fn, h, xs)
      BY <1>3 DEF Call, UseInv, TableInv, Typed
    <3>2. Entered(fn, h, xs).out = Blank
      BY DEF Entered, NoCall
    <3> QED BY <1>3, <3>1, <3>2 DEF Call, library
  <2>4. ErrorsTyped'
    BY <2>3 DEF UseInv, ErrorsTyped
  <2>5. RowIsHeld'
    BY <2>2, <2>3 DEF UseInv, RowIsHeld, Others, AS
  <2>6. BatchRowsAreOwn'
    <3>1. \A i \in 1..Rows, j \in 1..Columns : Blank[i][j] = None
      BY DEF Blank
    <3> QED BY <2>2, <2>3, <3>1 DEF UseInv, BatchRowsAreOwn, Others
  <2> QED BY <1>1, <2>1, <2>4, <2>5, <2>6 DEF UseInv
<1>4. CASE UNCHANGED vars
  <2>1. UNCHANGED <<ASlibrary, next_handle, point, call, errcode, freed, expected>>
    BY <1>4 DEF vars, library, histories
  <2> QED BY <1>1, <2>1
          DEF UseInv, ErrorsTyped, FreedForGood, FreeSucceedsOnce, HoldsExpected, RowIsHeld, BatchRowsAreOwn, AS
<1> QED BY <1>2, <1>3, <1>4 DEF Next

LEMMA UseAlways == Spec => []UseInv
BY UseInit, UseInvStep, PTL DEF Spec

\* Of the calls that free a handle one succeeds, and every other one says that it has not,
\* whatever threads they come from and however often the handle is freed.
THEOREM FreesSucceedOnce == Spec => []FreeSucceedsOnce
<1>1. UseInv => FreeSucceedsOnce
  BY DEF UseInv
<1> QED BY <1>1, UseAlways, PTL

\* An output without an error is that of the last update through the same handle.
THEOREM OutputsAreOwn == Spec => []OutputsOfOwnUpdate
<1>1. UseInv => OutputsOfOwnUpdate
  BY DEF UseInv, TableInv, HoldsExpected, OutputsOfOwnUpdate, EntryInUse, AS
<1> QED BY <1>1, UseAlways, PTL

\* What a batch writes into a row belongs to the input of that row, and a row whose update
\* has thrown keeps its elements.
THEOREM RowsAreAlwaysOwn == Spec => []BatchRowsAreOwn
<1>1. UseInv => BatchRowsAreOwn
  BY DEF UseInv
<1> QED BY <1>1, UseAlways, PTL
====
