---- MODULE ReferenceStates ----
(***************************************************************************)
(* The reference state of one pure fluid: the enthalpy and entropy offset  *)
(* in the fluid library, the copies of it that states own, and the         *)
(* caloric saturation curves that all states of the fluid share, built on  *)
(* first use under a mutex, in the frame of whoever builds them.           *)
(*                                                                         *)
(* A frame is the integer by which an offset moves the enthalpy of every   *)
(* point; the entropy moves with it.  Point[r] is the enthalpy, without    *)
(* any offset, of the point that reference state r sets to zero.  Each     *)
(* thread owns one state, the source of a Helmholtz or an SVDSBTL backend. *)
(***************************************************************************)
EXTENDS Integers

CONSTANTS
    Threads,
    Points,      \* the reference states that name a point: IIR, ASHRAE, NBP, a custom one
    Point,       \* the enthalpy of each
    MaxSets,     \* bound on the changes of reference state
    None         \* no value

ASSUME ReferenceAssumption ==
    /\ Point \in [Points -> Int]
    /\ "DEF" \notin Points /\ "RESET" \notin Points /\ "unknown" \notin Points
    /\ MaxSets \in Nat
    /\ None \notin Int
    /\ "curve" \notin Points /\ "dome" \notin Points /\ None \notin Points
    /\ "nobody" \notin Threads

VARIABLES
    library,  \* the fluid in the library: its offset, and the enthalpy of its anchor points
    state,    \* the state of each thread: its backend, its fluid, that of its saturation states
    curves,   \* m_hL/m_hV, m_sL/m_sV, m_uL/m_uV: the frame of each
    stamp,    \* m_caloric_alpha0_stamp
    holder,   \* m_lazy_build_mutex
    call,     \* where each thread is
    sets,     \* history: changes so far
    force,    \* history: the reference state the library is in
    owes      \* history: the one each state was made for or told

vars == <<library, state, curves, stamp, holder, call, sets, force, owes>>

References == Points \cup {"DEF", "RESET"}
Offsets == [enabled : BOOLEAN, a2 : Int]
Kinds == {"H", "S", "U"}
Nobody == "nobody"

Frame(offset) == IF offset.enabled THEN offset.a2 ELSE 0

\* Mutant of Shifted: the default is an increment like the others.
Shifted_noDefault(offset, delta, r) ==
    IF ~offset.enabled THEN [enabled |-> TRUE, a2 |-> delta]
    ELSE [enabled |-> TRUE, a2 |-> offset.a2 + delta]

\* IdealHelmholtzEnthalpyEntropyOffset::set.
Shifted(offset, delta, r) ==
    IF ~offset.enabled THEN [enabled |-> TRUE, a2 |-> delta]
    ELSE IF r = "DEF" THEN [enabled |-> FALSE, a2 |-> 0]
    ELSE [enabled |-> TRUE, a2 |-> offset.a2 + delta]

\* set_reference_stateS asks a copy of the fluid for its enthalpy at the point.
Delta(r, copy) == IF r \in Points THEN -(Point[r] + Frame(copy)) ELSE 0

\* The frame in which the point of r reads zero.
Due(r) == IF r \in Points THEN -Point[r] ELSE 0

\* What a state is in, or the library, after a reference state is set on top of another.
After(old, r) == IF r = "RESET" THEN old ELSE r

Fresh == [enabled |-> FALSE, a2 |-> 0]    \* a2 is _HUGE, and not used
Idle == [at |-> "idle", want |-> None, copy |-> Fresh, seen |-> None, answer |-> None, resolved |-> FALSE]

Init ==
    /\ library = [offset |-> Fresh, anchor |-> 0]
    /\ state = [t \in Threads |-> [backend |-> "HEOS", own |-> Fresh, sat |-> Fresh, anchor |-> 0]]
    /\ curves = [k \in Kinds |-> None]
    /\ stamp = None
    /\ holder = Nobody
    /\ call = [t \in Threads |-> Idle]
    /\ sets = 0
    /\ force = "DEF"
    /\ owes = [t \in Threads |-> "DEF"]

At(t, places) == call[t].at \in places
Goto(t, place) == call' = [call EXCEPT ![t].at = place]
Return(t, answer) == call' = [call EXCEPT ![t] = [Idle EXCEPT !.answer = answer, !.resolved = call[t].resolved]]
Curves == <<curves, stamp, holder>>
Fluids == <<library, state, force, owes>>

-----------------------------------------------------------------------------
(* set_reference_stateS and set_reference_stateD of the library.            *)

Setting(t) == At(t, {"copied", "offset"})
Overlaps(t) == \E u \in Threads \ {t} : Setting(u)

\* A state of the fluid is made from the library and updated to the point.
SetCopy(t, r) ==
    /\ At(t, {"idle"})
    /\ sets < MaxSets
    /\ call' = [call EXCEPT ![t].at = "copied", ![t].want = r, ![t].copy = library.offset]
    /\ sets' = sets + 1
    /\ force' = IF Overlaps(t) THEN "unknown" ELSE force
    /\ UNCHANGED <<library, state, owes, Curves>>

\* The point is out of the fluid's range, or the state is not found.
SetThrow(t) ==
    /\ At(t, {"copied"})
    /\ call[t].want \in Points
    /\ Return(t, None)
    /\ UNCHANGED <<Fluids, sets, Curves>>

\* set_fluid_enthalpy_entropy_offset adds to the offset the library has by now.
SetOffset(t) ==
    /\ At(t, {"copied"})
    /\ library' = [library EXCEPT !.offset = Shifted(@, Delta(call[t].want, call[t].copy), call[t].want)]
    /\ force' = IF force = "unknown" \/ Overlaps(t) THEN "unknown" ELSE After(force, call[t].want)
    /\ Goto(t, "offset")
    /\ UNCHANGED <<state, owes, sets, Curves>>

\* Mutant of SetAnchor: the anchors are those of the copy the increment came from.
SetAnchor_stale(t) ==
    /\ At(t, {"offset"})
    /\ library' = [library EXCEPT !.anchor = Frame(call[t].copy)]
    /\ Return(t, None)
    /\ UNCHANGED <<state, force, owes, sets, Curves>>

\* Then the enthalpies of the anchor points are computed again, from a second copy.
SetAnchor(t) ==
    /\ At(t, {"offset"})
    /\ library' = [library EXCEPT !.anchor = Frame(library.offset)]
    /\ Return(t, None)
    /\ UNCHANGED <<state, force, owes, sets, Curves>>

-----------------------------------------------------------------------------
(* A thread's own state.                                                    *)

\* A constructor copies the fluid, and the saturation states copy it from there.
Create(t, backend) ==
    /\ At(t, {"idle"})
    /\ state' = [state EXCEPT ![t] = [backend |-> backend, own |-> library.offset, sat |-> library.offset,
                                     anchor |-> library.anchor]]
    /\ owes' = [owes EXCEPT ![t] = IF \E u \in Threads : Setting(u) THEN "unknown" ELSE force]
    /\ call' = [call EXCEPT ![t] = Idle]
    /\ UNCHANGED <<library, force, sets, Curves>>

\* set_reference_stateS of a state: its own fluid only.  An SVDSBTL backend has none.
SetOwn(t, r) ==
    /\ At(t, {"idle"})
    /\ state[t].backend = "HEOS"
    /\ sets < MaxSets
    /\ sets' = sets + 1
    /\ LET own == Shifted(state[t].own, Delta(r, state[t].own), r)
       IN  state' = [state EXCEPT ![t].own = own, ![t].anchor = Frame(own)]
    /\ owes' = [owes EXCEPT ![t] = After(@, r)]
    /\ UNCHANGED <<library, call, force, Curves>>

-----------------------------------------------------------------------------
(* The shared curves.                                                       *)

\* A saturation flash for a caloric property (resolve_T_via_superancillary and the
\* superancillary legs of HSU_D_flash and HS_flash), or a dome read of an SVDSBTL
\* backend, which asks for the curves to be built once in its life.
Ask(t) ==
    /\ At(t, {"idle"})
    /\ call' = [call EXCEPT ![t].at = "ensure", ![t].want = "curve", ![t].seen = None, ![t].answer = None]
    /\ UNCHANGED <<Fluids, sets, Curves>>

AskDome(t) ==
    /\ At(t, {"idle"})
    /\ state[t].backend = "SVDSBTL"
    /\ call' = [call EXCEPT ![t].at = IF call[t].resolved THEN "dome" ELSE "ensure",
                            ![t].want = "dome", ![t].seen = None, ![t].answer = None, ![t].resolved = TRUE]
    /\ UNCHANGED <<Fluids, sets, Curves>>

Built == \A k \in Kinds : curves[k] # None

\* Mutant of Ensure: the first curve stands for all.
Ensure_first(t) ==
    /\ At(t, {"ensure"})
    /\ holder = Nobody
    /\ IF curves["H"] # None THEN Goto(t, call[t].want) /\ UNCHANGED holder
       ELSE Goto(t, "H") /\ holder' = t
    /\ UNCHANGED <<Fluids, sets, curves, stamp>>

\* ensure_HSU_under_lock: the mutex is taken, and given back at once when all is built.
Ensure(t) ==
    /\ At(t, {"ensure"})
    /\ holder = Nobody
    /\ IF Built THEN Goto(t, call[t].want) /\ UNCHANGED holder
       ELSE Goto(t, "H") /\ holder' = t
    /\ UNCHANGED <<Fluids, sets, curves, stamp>>

Following == [H |-> "S", S |-> "U", U |-> "stamp"]

\* Mutant of Add: curves that an unfinished build has left are kept.
Add_keeps(t) ==
    /\ At(t, Kinds)
    /\ LET k == call[t].at
       IN  /\ curves' = [curves EXCEPT ![k] = IF @ # None THEN @ ELSE Frame(state[t].own)]
           /\ Goto(t, Following[k])
    /\ UNCHANGED <<Fluids, sets, stamp, holder>>

\* add_variable_locked evaluates the thread's own equation of state at every node,
\* and replaces the curves whether there are any or not.
Add(t) ==
    /\ At(t, Kinds)
    /\ LET k == call[t].at
       IN  /\ curves' = [curves EXCEPT ![k] = Frame(state[t].own)]
           /\ Goto(t, Following[k])
    /\ UNCHANGED <<Fluids, sets, stamp, holder>>

\* The equation of state throws at a node: the curves already there stay.
AddThrow(t) ==
    /\ At(t, Kinds)
    /\ holder' = Nobody
    /\ Return(t, None)
    /\ UNCHANGED <<Fluids, sets, curves, stamp>>

\* The stamp is the offset the call came with, and the mutex goes.
Stamp(t) ==
    /\ At(t, {"stamp"})
    /\ stamp' = Frame(state[t].own)
    /\ holder' = Nobody
    /\ Goto(t, call[t].want)
    /\ UNCHANGED <<Fluids, sets, curves>>

\* has_variable and get_approx1d, without the mutex.
ReadCurve(t, k) ==
    /\ At(t, {"curve"})
    /\ IF curves[k] = None THEN Return(t, None)
       ELSE call' = [call EXCEPT ![t].at = "shift", ![t].seen = curves[k]]
    /\ UNCHANGED <<Fluids, sets, Curves>>

\* Mutant of Solve: the target is not moved into the frame of the curve.
Solve_noShift(t) ==
    /\ At(t, {"shift"})
    /\ holder = Nobody
    /\ Return(t, call[t].seen - Frame(state[t].own))
    /\ UNCHANGED <<Fluids, sets, Curves>>

\* The target is moved from the state's frame into the stamp's, which is read under
\* the mutex, and the curve inverted: the answer is how far off its target the root is.
Solve(t) ==
    /\ At(t, {"shift"})
    /\ holder = Nobody
    /\ LET shift == IF stamp = None THEN 0 ELSE stamp - Frame(state[t].own)
       IN  Return(t, call[t].seen - (Frame(state[t].own) + shift))
    /\ UNCHANGED <<Fluids, sets, Curves>>

\* sat_eval_: the value of the curve is taken as it is; none is a NaN.
ReadDome(t) ==
    /\ At(t, {"dome"})
    /\ Return(t, None)
    /\ UNCHANGED <<Fluids, sets, Curves>>

-----------------------------------------------------------------------------
Step(t) ==
    \/ SetThrow(t) \/ SetOffset(t) \/ SetAnchor(t)
    \/ Ensure(t) \/ Add(t) \/ AddThrow(t) \/ Stamp(t) \/ (\E k \in Kinds : ReadCurve(t, k)) \/ Solve(t) \/ ReadDome(t)

Next ==
    \E t \in Threads :
        \/ \E r \in References : SetCopy(t, r) \/ SetOwn(t, r)
        \/ \E backend \in {"HEOS", "SVDSBTL"} : Create(t, backend)
        \/ Ask(t)
        \/ AskDome(t)
        \/ Step(t)

Spec == Init /\ [][Next]_vars

-----------------------------------------------------------------------------
Places == {"idle", "copied", "offset", "ensure", "H", "S", "U", "stamp", "curve", "shift", "dome"}

TypeOK ==
    /\ library \in [offset : Offsets, anchor : Int]
    /\ state \in [Threads -> [backend : {"HEOS", "SVDSBTL"}, own : Offsets, sat : Offsets, anchor : Int]]
    /\ curves \in [Kinds -> Int \cup {None}]
    /\ stamp \in Int \cup {None}
    /\ holder \in Threads \cup {Nobody}
    /\ call \in [Threads -> [at : Places, want : References \cup {"curve", "dome", None}, copy : Offsets,
                            seen : Int \cup {None}, answer : Int \cup {None}, resolved : BOOLEAN]]
    /\ sets \in 0..MaxSets
    /\ force \in References \cup {"unknown"}
    /\ owes \in [Threads -> References \cup {"unknown"}]

\* Once they are stamped, all three curves are in the stamp's frame, whoever built
\* which of them, and in how many tries.
CurvesOfOneFrame == stamp # None => \A k \in Kinds : curves[k] = stamp

\* A flash that has asked for the curves reads them, without the mutex, only when
\* all are there and nobody is building.
ReadsFinishedCurves ==
    \A t \in Threads : At(t, {"curve", "shift"}) => Built /\ \A u \in Threads : ~At(u, Kinds \cup {"stamp"})

\* The curves, once stamped, are never built again, whatever reference states follow.
BuiltForGood == [][stamp # None => UNCHANGED <<curves, stamp>>]_vars

\* A caloric flash finds its target in its own state's frame, whoever built the
\* curves and in whichever reference state.
AnswersInOwnFrame ==
    \A t \in Threads : call[t].answer \in {None, 0}

\* When no two changes of the library's reference state overlap, the library is in the
\* one set last; a state is in the one it was made for or told last, if it was not made
\* during a change.
InForceAsSet ==
    /\ force # "unknown" => Frame(library.offset) = Due(force)
    /\ \A t \in Threads : owes[t] # "unknown" => Frame(state[t].own) = Due(owes[t])

\* The enthalpies of a state's anchor points, which its guesses and bounds start
\* from, are in the state's frame.
AnchorsInOwnFrame ==
    \A t \in Threads : owes[t] # "unknown" => state[t].anchor = Frame(state[t].own)
====
