---- MODULE CApiHandles ----
(***************************************************************************)
(* The low-level C interface of CoolPropLib.cpp: threads make, use and     *)
(* free AbstractState objects through integer handles.  The table of       *)
(* handles is guarded by a mutex; the objects are not, and a call uses its *)
(* object through a reference into the table after the mutex is released.  *)
(*                                                                         *)
(* A state is an address, which the allocator may hand out again after it  *)
(* is freed.  What an update puts into a state is the point it was given,  *)
(* or Bad, an undefined one, if it throws; outputs may throw too.  Calls   *)
(* with the same control stand behind one: "update" for those that set     *)
(* something, "output" for those that return a number, "batch" for         *)
(* AbstractState_update_and_1_out, _5_out and _common_out.                 *)
(***************************************************************************)
EXTENDS Integers, FiniteSets

CONSTANTS
    Threads,
    States,       \* addresses of AbstractState objects
    None,         \* no state, no thread, no result, an array element not written
    Points,       \* inputs of an update that has a solution
    Bad,          \* an input without one
    Functions,    \* the functions the threads call
    Rows,         \* length of the arrays of a batch
    Columns,      \* number of outputs of a batch
    MaxHandles    \* bound on the handles handed out in one behaviour

ASSUME CApiAssumption ==
    /\ None \notin States \cup Threads \cup Points \cup {Bad}
    /\ Bad \notin Points
    /\ Functions \subseteq {"factory", "free", "update", "output", "batch"}
    /\ Rows \in Nat \ {0} /\ Columns \in Nat \ {0} /\ MaxHandles \in Nat

Inputs == Points \cup {Bad}

VARIABLES
    ASlibrary,     \* the map from handles to states
    next_handle,
    ASLib_mutex,   \* the thread that holds it
    live,          \* the states that exist
    point,         \* what each state was last updated with
    call,          \* the call each thread is in, or was last in
    errcode,       \* the variable each thread passes for the error code
    known,         \* history: the handles some caller has been given
    issued,        \* history: the state made for each known handle that is not freed
    freed,         \* history: how often each handle was freed without an error
    expected       \* history: what the callers last put into the state of each handle

library == <<ASlibrary, next_handle, ASLib_mutex>>
histories == <<known, issued, freed, expected>>
vars == <<library, live, point, call, errcode, histories>>

Put(f, k, x) == [h \in DOMAIN f \cup {k} |-> IF h = k THEN x ELSE f[h]]
Without(f, k) == [h \in DOMAIN f \ {k} |-> f[h]]
Values(f) == {f[h] : h \in DOMAIN f}
Empty == [h \in {} |-> None]

Blank == [i \in 1..Rows |-> [j \in 1..Columns |-> None]]

NoCall == [fn |-> "none", handle |-> -1, state |-> None, inputs |-> [i \in 1..Rows |-> Bad],
           stage |-> "idle", row |-> 1, column |-> 1, out |-> Blank, result |-> None]

Init ==
    /\ ASlibrary = Empty
    /\ next_handle = 0
    /\ ASLib_mutex = None
    /\ live = {}
    /\ point = [s \in States |-> Bad]
    /\ call = [t \in Threads |-> NoCall]
    /\ errcode = [t \in Threads |-> 0]
    /\ known = {}
    /\ issued = Empty
    /\ freed = Empty
    /\ expected = Empty

-----------------------------------------------------------------------------
At(t, stage) == call[t].stage = stage
Goto(t, stage) == call' = [call EXCEPT ![t].stage = stage]
Running(t) == call[t].stage \notin {"idle", "done"}

\* HandleException sets the error code: 1, which stands for 1, 2 (the message does not
\* fit the caller's buffer) and 3 (an exception that is not CoolProp's).
HandleException(t) == Goto(t, "done") /\ errcode' = [errcode EXCEPT ![t] = 1]

\* What the callers see to: a handle comes from the factory, or is the -1 of a failed
\* one, and two threads use one at once only to free it.
MayUse(t, h, fn) ==
    /\ h \in known \cup {-1}
    /\ \A u \in Threads \ {t} :
          Running(u) /\ call[u].fn # "factory" /\ call[u].handle = h => call[u].fn = "free" /\ fn = "free"

\* MaxHandles bounds the factory calls of a behaviour.
MayMake == next_handle + Cardinality({u \in Threads : Running(u) /\ call[u].fn = "factory"}) < MaxHandles

Entered(fn, h, xs) == [NoCall EXCEPT !.fn = fn, !.handle = h, !.inputs = xs,
                                     !.stage = IF fn = "factory" THEN "build" ELSE "lock"]

\* A thread enters a function of the interface, which first resets the error code.
Call(t, fn, h, xs) ==
    /\ ~Running(t)
    /\ IF fn = "factory" THEN MayMake ELSE MayUse(t, h, fn)
    /\ call' = [call EXCEPT ![t] = Entered(fn, h, xs)]
    /\ errcode' = [errcode EXCEPT ![t] = 0]
    /\ issued' = IF fn = "free" THEN Without(issued, h) ELSE issued
    /\ UNCHANGED <<library, live, point, known, freed, expected>>

\* AbstractState::factory: an object at an address that is free, or an exception.
FactoryBuild(t) ==
    /\ At(t, "build")
    /\ \/ \E s \in States \ live :
            /\ live' = live \cup {s}
            /\ point' = [point EXCEPT ![s] = Bad]
            /\ call' = [call EXCEPT ![t] = [@ EXCEPT !.state = s, !.stage = "lock"]]
            /\ UNCHANGED errcode
       \/ /\ HandleException(t)
          /\ UNCHANGED <<live, point>>
    /\ UNCHANGED <<library, histories>>

\* Mutant of Lock: the table is used without waiting for the mutex.
Lock_noWait(t) ==
    /\ At(t, "lock")
    /\ ASLib_mutex' = t
    /\ Goto(t, IF call[t].fn = "factory" THEN "insert" ELSE IF call[t].fn = "free" THEN "erase" ELSE "find")
    /\ UNCHANGED <<ASlibrary, next_handle, live, point, errcode, histories>>

\* The scoped_lock of add, remove and get.
Lock(t) ==
    /\ At(t, "lock")
    /\ ASLib_mutex = None
    /\ ASLib_mutex' = t
    /\ Goto(t, IF call[t].fn = "factory" THEN "insert" ELSE IF call[t].fn = "free" THEN "erase" ELSE "find")
    /\ UNCHANGED <<ASlibrary, next_handle, live, point, errcode, histories>>

\* add: std::map::insert does not replace an entry.
AddInsert(t) ==
    /\ At(t, "insert")
    /\ ASlibrary' = IF next_handle \in DOMAIN ASlibrary THEN ASlibrary
                    ELSE Put(ASlibrary, next_handle, call[t].state)
    /\ Goto(t, "number")
    /\ UNCHANGED <<next_handle, ASLib_mutex, live, point, errcode, histories>>

\* add: the number of the new entry is returned, and the factory's own pointer to the
\* state goes out of scope.
AddNumber(t) ==
    /\ At(t, "number")
    /\ next_handle' = next_handle + 1
    /\ ASLib_mutex' = None
    /\ live' = live \ ({call[t].state} \ Values(ASlibrary))
    /\ call' = [call EXCEPT ![t] = [@ EXCEPT !.result = next_handle' - 1, !.stage = "done"]]
    /\ known' = known \cup {next_handle' - 1}
    /\ issued' = Put(issued, next_handle' - 1, call[t].state)
    /\ UNCHANGED <<ASlibrary, point, errcode, freed, expected>>

\* remove: the last pointer to the state goes with its entry.
Erased(h) ==
    /\ h \in DOMAIN ASlibrary
    /\ ASlibrary' = Without(ASlibrary, h)
    /\ live' = live \ {ASlibrary[h]}
    /\ freed' = Put(freed, h, (IF h \in DOMAIN freed THEN freed[h] ELSE 0) + 1)

\* Mutant of RemoveErase: how many entries were erased is not checked.
RemoveErase_unchecked(t) ==
    /\ At(t, "erase")
    /\ ASLib_mutex' = None
    /\ Goto(t, "done")
    /\ \/ Erased(call[t].handle)
       \/ call[t].handle \notin DOMAIN ASlibrary /\ UNCHANGED <<ASlibrary, live, freed>>
    /\ UNCHANGED <<next_handle, point, errcode, known, issued, expected>>

\* Mutant of RemoveErase: the handle is given to the next state.
RemoveErase_reuse(t) ==
    /\ At(t, "erase")
    /\ ASLib_mutex' = None
    /\ \/ /\ Erased(call[t].handle)
          /\ next_handle' = call[t].handle
          /\ Goto(t, "done")
          /\ UNCHANGED errcode
       \/ /\ call[t].handle \notin DOMAIN ASlibrary
          /\ HandleException(t)
          /\ UNCHANGED <<ASlibrary, next_handle, live, freed>>
    /\ UNCHANGED <<point, known, issued, expected>>

\* Mutant of RemoveErase: the exception leaves the mutex locked.
RemoveErase_keepLock(t) ==
    /\ At(t, "erase")
    /\ \/ /\ Erased(call[t].handle)
          /\ ASLib_mutex' = None
          /\ Goto(t, "done")
          /\ UNCHANGED errcode
       \/ /\ call[t].handle \notin DOMAIN ASlibrary
          /\ HandleException(t)
          /\ UNCHANGED <<ASlibrary, ASLib_mutex, live, freed>>
    /\ UNCHANGED <<next_handle, point, known, issued, expected>>

RemoveErase(t) ==
    /\ At(t, "erase")
    /\ ASLib_mutex' = None
    /\ \/ /\ Erased(call[t].handle)
          /\ Goto(t, "done")
          /\ UNCHANGED errcode
       \/ /\ call[t].handle \notin DOMAIN ASlibrary
          /\ HandleException(t)
          /\ UNCHANGED <<ASlibrary, live, freed>>
    /\ UNCHANGED <<next_handle, point, known, issued, expected>>

\* Mutant of GetFind: operator[] makes an empty entry for a handle it does not find.
GetFind_create(t) ==
    /\ At(t, "find")
    /\ ASLib_mutex' = None
    /\ IF call[t].handle \in DOMAIN ASlibrary
       THEN /\ Goto(t, IF call[t].fn = "output" THEN "read" ELSE "update")
            /\ UNCHANGED <<errcode, ASlibrary>>
       ELSE /\ HandleException(t)
            /\ ASlibrary' = Put(ASlibrary, call[t].handle, None)
    /\ UNCHANGED <<next_handle, live, point, histories>>

\* get: a reference to the entry, to be used without the mutex.
GetFind(t) ==
    /\ At(t, "find")
    /\ ASLib_mutex' = None
    /\ IF call[t].handle \in DOMAIN ASlibrary
       THEN Goto(t, IF call[t].fn = "output" THEN "read" ELSE "update") /\ UNCHANGED errcode
       ELSE HandleException(t)
    /\ UNCHANGED <<ASlibrary, next_handle, live, point, histories>>

\* The state behind the reference.
AS(t) == ASlibrary[call[t].handle]

\* The loop of a batch goes on to the next row, whether this one has thrown or not.
AfterRow(t) ==
    IF call[t].row < Rows THEN [call[t] EXCEPT !.row = @ + 1, !.column = 1, !.stage = "update"]
    ELSE [call[t] EXCEPT !.stage = "done"]

\* Mutant of Update: the catch clause of a batch covers the update alone.
Update_goOn(t) ==
    /\ At(t, "update")
    /\ LET x == call[t].inputs[call[t].row]
       IN  \/ /\ x # Bad
              /\ point' = [point EXCEPT ![AS(t)] = x]
              /\ expected' = Put(expected, call[t].handle, x)
              /\ Goto(t, IF call[t].fn = "batch" THEN "read" ELSE "done")
              /\ UNCHANGED errcode
           \/ /\ point' \in {point, [point EXCEPT ![AS(t)] = Bad]}
              /\ expected' = Put(expected, call[t].handle, Bad)
              /\ IF call[t].fn = "batch" THEN Goto(t, "read") /\ UNCHANGED errcode ELSE HandleException(t)
    /\ UNCHANGED <<library, live, known, issued, freed>>

\* The state is updated with one input; a throwing update leaves it as it was or
\* without a point.  A batch swallows the exception.
Update(t) ==
    /\ At(t, "update")
    /\ LET x == call[t].inputs[call[t].row]
       IN  \/ /\ x # Bad
              /\ point' = [point EXCEPT ![AS(t)] = x]
              /\ expected' = Put(expected, call[t].handle, x)
              /\ Goto(t, IF call[t].fn = "batch" THEN "read" ELSE "done")
              /\ UNCHANGED errcode
           \/ /\ point' \in {point, [point EXCEPT ![AS(t)] = Bad]}
              /\ expected' = Put(expected, call[t].handle, Bad)
              /\ IF call[t].fn = "batch" THEN call' = [call EXCEPT ![t] = AfterRow(t)] /\ UNCHANGED errcode
                 ELSE HandleException(t)
    /\ UNCHANGED <<library, live, known, issued, freed>>

\* keyed_output of a single call.
Output(t) ==
    /\ At(t, "read")
    /\ call[t].fn = "output"
    /\ \/ call' = [call EXCEPT ![t] = [@ EXCEPT !.result = point[AS(t)], !.stage = "done"]] /\ UNCHANGED errcode
       \/ HandleException(t)
    /\ UNCHANGED <<library, live, point, histories>>

\* One output of a row is written, unless it throws: then the rest of the row is not.
BatchOutput(t) ==
    /\ At(t, "read")
    /\ call[t].fn = "batch"
    /\ \/ LET written == [call[t].out EXCEPT ![call[t].row][call[t].column] = point[AS(t)]]
          IN  call' = [call EXCEPT ![t] =
                          [(IF call[t].column < Columns THEN [call[t] EXCEPT !.column = @ + 1] ELSE AfterRow(t))
                              EXCEPT !.out = written]]
       \/ call' = [call EXCEPT ![t] = AfterRow(t)]
    /\ UNCHANGED <<library, live, point, errcode, histories>>

-----------------------------------------------------------------------------
Step(t) ==
    \/ FactoryBuild(t) \/ Lock(t) \/ AddInsert(t) \/ AddNumber(t) \/ RemoveErase(t)
    \/ GetFind(t) \/ Update(t) \/ Output(t) \/ BatchOutput(t)

\* A single call has one input.
InputsOf(fn) == CASE fn = "batch" -> [1..Rows -> Inputs]
                  [] fn = "update" -> {[i \in 1..Rows |-> x] : x \in Inputs}
                  [] OTHER -> {[i \in 1..Rows |-> Bad]}

HandlesOf(fn) == IF fn = "factory" THEN {-1} ELSE known \cup {-1}

Next ==
    \/ \E t \in Threads, fn \in Functions :
         \E h \in HandlesOf(fn), xs \in InputsOf(fn) : Call(t, fn, h, xs)
    \/ \E t \in Threads : Step(t)

Spec == Init /\ [][Next]_vars

\* A thread that is inside a function of the interface is scheduled.
FairSpec == Spec /\ \A t \in Threads : WF_vars(Step(t))

-----------------------------------------------------------------------------
TypeOK ==
    /\ DOMAIN ASlibrary \subseteq Nat /\ Values(ASlibrary) \subseteq States
    /\ next_handle \in Nat
    /\ ASLib_mutex \in Threads \cup {None}
    /\ live \subseteq States
    /\ point \in [States -> Inputs]
    /\ call \in [Threads ->
          [fn : Functions \cup {"none"}, handle : Nat \cup {-1}, state : States \cup {None},
           inputs : [1..Rows -> Inputs],
           stage : {"idle", "build", "lock", "insert", "number", "erase", "find", "update", "read", "done"},
           row : 1..Rows, column : 1..Columns, out : [1..Rows -> [1..Columns -> Inputs \cup {None}]],
           result : Nat \cup Inputs \cup {None}]]
    /\ errcode \in [Threads -> {0, 1}]
    /\ known \subseteq Nat
    /\ DOMAIN issued \subseteq Nat /\ Values(issued) \subseteq States
    /\ DOMAIN freed \subseteq Nat /\ Values(freed) \subseteq Nat
    /\ DOMAIN expected \subseteq Nat /\ Values(expected) \subseteq Inputs

\* A handle that the factory has returned, and nobody has begun to free, stands for the
\* very state that was made for it, and that state exists, whatever other threads
\* make and free at the same time.
HandlesResolve ==
    \A h \in DOMAIN issued :
        /\ h \in DOMAIN ASlibrary
        /\ ASlibrary[h] = issued[h]
        /\ issued[h] \in live

\* Every state that exists has one owner, an entry of the table or a factory call on
\* its way to make one: nothing leaks, and no two handles share a state.
Making == {t \in Threads : call[t].stage \in {"lock", "insert"} /\ call[t].fn = "factory"}
StatesAreOwned ==
    /\ live = Values(ASlibrary) \cup {call[t].state : t \in Making}
    /\ \A g, h \in DOMAIN ASlibrary : ASlibrary[g] = ASlibrary[h] => g = h
    /\ \A t, u \in Making : call[t].state = call[u].state => t = u
    /\ \A t \in Making : call[t].state \notin Values(ASlibrary)

\* Of the calls that free a handle, from whichever threads and in whichever order, one
\* succeeds, and every other one says that it has not.
FreeSucceedsOnce ==
    /\ \A h \in DOMAIN freed : freed[h] = 1
    /\ \A t \in Threads : call[t].stage = "done" /\ call[t].fn = "free" /\ errcode[t] = 0
                            => call[t].handle \in DOMAIN freed
    /\ \A t, u \in Threads : t # u /\ call[t].stage = "done" /\ call[u].stage = "done"
                               /\ call[t].fn = "free" /\ call[u].fn = "free" /\ call[t].handle = call[u].handle
                               => errcode[t] # 0 \/ errcode[u] # 0

\* What an output returns without an error is that of the last update through the same
\* handle, however many states come and go at other handles, or at the same address.
OutputsOfOwnUpdate ==
    \A t \in Threads :
        call[t].fn = "output" /\ call[t].stage = "read" /\ call[t].handle \in DOMAIN expected
            => expected[call[t].handle] \in {Bad, point[AS(t)]}

\* A row of a batch whose update throws keeps its elements, and every other element
\* that is written belongs to the input of its own row.
BatchRowsAreOwn ==
    \A t \in Threads :
        call[t].fn = "batch" =>
            \A i \in 1..Rows, j \in 1..Columns :
                call[t].out[i][j] # None => call[t].inputs[i] # Bad /\ call[t].out[i][j] = call[t].inputs[i]

\* The mutex is released by every call that takes it, the throwing ones included.
LockIsReleased == \A t \in Threads : ASLib_mutex = t ~> ASLib_mutex # t
====
