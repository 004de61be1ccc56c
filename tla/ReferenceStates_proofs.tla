---- MODULE ReferenceStates_proofs ----
(***************************************************************************)
(* The shared curves for any number of threads, any points and any number  *)
(* of changes of reference state: whoever builds them, and in how many     *)
(* tries, they end up in one frame, for good, and every flash that uses    *)
(* them finds its target.                                                  *)
(***************************************************************************)
EXTENDS ReferenceStates, TLAPS

Calls == [at : Places, want : References \cup {"curve", "dome", None}, copy : Offsets,
          seen : Int \cup {None}, answer : Int \cup {None}, resolved : BOOLEAN]
States == [backend : {"HEOS", "SVDSBTL"}, own : Offsets, sat : Offsets, anchor : Int]

Building == Kinds \cup {"stamp"}

\* The mutex is held by the thread that builds.
Exclusive == \A t \in Threads : At(t, Building) <=> holder = t

\* The curves a thread has added in the build under way are in its own frame.
OwnSoFar ==
    \A t \in Threads :
        /\ At(t, {"S", "U", "stamp"}) => curves["H"] = Frame(state[t].own)
        /\ At(t, {"U", "stamp"}) => curves["S"] = Frame(state[t].own)
        /\ At(t, {"stamp"}) => curves["U"] = Frame(state[t].own)

\* The last curve is there only between its end and the stamp, and after it.
LastThenStamp == curves["U"] # None /\ stamp = None => \E t \in Threads : At(t, {"stamp"})

\* Nobody builds what is stamped.
StampEnds == stamp # None => holder = Nobody

\* A flash reads what is stamped.
ReadsStamped ==
    \A t \in Threads :
        /\ At(t, {"curve", "shift"}) => stamp # None
        /\ At(t, {"shift"}) => call[t].seen = stamp

CurveInv ==
    /\ Exclusive
    /\ OwnSoFar
    /\ LastThenStamp
    /\ StampEnds
    /\ CurvesOfOneFrame
    /\ ReadsStamped
    /\ AnswersInOwnFrame

-----------------------------------------------------------------------------
LEMMA FrameType ==
    ASSUME NEW o \in Offsets
    PROVE  Frame(o) \in Int
  BY DEF Offsets, Frame

LEMMA ShiftedType ==
    ASSUME NEW o \in Offsets, NEW d \in Int, NEW r
    PROVE  Shifted(o, d, r) \in Offsets
  BY DEF Offsets, Shifted

LEMMA DeltaType ==
    ASSUME NEW o \in Offsets, NEW r \in References
    PROVE  Delta(r, o) \in Int
  BY FrameType, ReferenceAssumption DEF Delta

LEMMA GotoLemma ==
    ASSUME call \in [Threads -> Calls], NEW t \in Threads, NEW p \in Places, Goto(t, p)
    PROVE  /\ call' \in [Threads -> Calls]
           /\ call'[t] \in Calls /\ call'[t].at = p /\ call'[t].seen = call[t].seen
           /\ call'[t].answer = call[t].answer /\ call'[t].want = call[t].want
           /\ \A u \in Threads \ {t} : call'[u] = call[u]
  BY DEF Goto, Calls, Places

LEMMA IdleType == Idle \in Calls
  BY DEF Idle, Calls, Fresh, Offsets, Places

LEMMA ReturnLemma ==
    ASSUME call \in [Threads -> Calls], NEW t \in Threads, NEW a \in Int \cup {None}, Return(t, a)
    PROVE  /\ call' \in [Threads -> Calls]
           /\ call'[t] \in Calls /\ call'[t].at = "idle" /\ call'[t].answer = a
           /\ \A u \in Threads \ {t} : call'[u] = call[u]
  <1> DEFINE c == [Idle EXCEPT !.answer = a, !.resolved = call[t].resolved]
  <1>1. c \in Calls /\ c.at = "idle" /\ c.answer = a
    BY IdleType DEF Calls, Idle
  <1>2. call' = [call EXCEPT ![t] = c]
    BY DEF Return
  <1> QED
    BY <1>1, <1>2

LEMMA CopyLemma ==
    ASSUME call \in [Threads -> Calls], library.offset \in Offsets, NEW t \in Threads, NEW r \in References,
           call' = [call EXCEPT ![t].at = "copied", ![t].want = r, ![t].copy = library.offset]
    PROVE  /\ call' \in [Threads -> Calls]
           /\ call'[t].at = "copied" /\ call'[t].answer = call[t].answer
           /\ call'[t].want = r /\ call'[t].copy = library.offset
           /\ \A u \in Threads \ {t} : call'[u] = call[u]
  <1> DEFINE c == [call[t] EXCEPT !.at = "copied", !.want = r, !.copy = library.offset]
  <1>1. c \in Calls /\ c.at = "copied" /\ c.answer = call[t].answer /\ c.want = r /\ c.copy = library.offset
    BY DEF Calls, Places
  <1>2. call' = [call EXCEPT ![t] = c]
    OBVIOUS
  <1> HIDE DEF c
  <1> QED
    BY <1>1, <1>2

LEMMA AskLemma ==
    ASSUME call \in [Threads -> Calls], NEW t \in Threads, NEW p \in {"ensure", "dome"},
           NEW w \in {"curve", "dome"}, NEW b \in BOOLEAN,
           call' = [call EXCEPT ![t] = [call[t] EXCEPT !.at = p, !.want = w, !.seen = None, !.answer = None,
                                                       !.resolved = b]]
    PROVE  /\ call' \in [Threads -> Calls]
           /\ call'[t].at = p /\ call'[t].answer = None /\ call'[t].want = w
           /\ \A u \in Threads \ {t} : call'[u] = call[u]
  <1> DEFINE c == [call[t] EXCEPT !.at = p, !.want = w, !.seen = None, !.answer = None, !.resolved = b]
  <1>1. c \in Calls /\ c.at = p /\ c.answer = None /\ c.want = w
    BY DEF Calls, Places
  <1> HIDE DEF c
  <1> QED
    BY <1>1 DEF c

LEMMA SeenLemma ==
    ASSUME call \in [Threads -> Calls], NEW t \in Threads, NEW f \in Int,
           call' = [call EXCEPT ![t].at = "shift", ![t].seen = f]
    PROVE  /\ call' \in [Threads -> Calls]
           /\ call'[t].at = "shift" /\ call'[t].seen = f /\ call'[t].answer = call[t].answer
           /\ \A u \in Threads \ {t} : call'[u] = call[u]
  <1> DEFINE c == [call[t] EXCEPT !.at = "shift", !.seen = f]
  <1>1. c \in Calls /\ c.at = "shift" /\ c.seen = f /\ c.answer = call[t].answer
    BY DEF Calls, Places
  <1>2. call' = [call EXCEPT ![t] = c]
    OBVIOUS
  <1> HIDE DEF c
  <1> QED
    BY <1>1, <1>2

-----------------------------------------------------------------------------
(* Types.                                                                   *)

LEMMA FreshType == Fresh \in Offsets
  BY DEF Fresh, Offsets

\* What a call wants fits the place it is in.
WantFits ==
    \A t \in Threads :
        /\ At(t, {"copied"}) => call[t].want \in References
        /\ At(t, Building \cup {"ensure"}) => call[t].want \in {"curve", "dome"}
        /\ At(t, {"shift"}) => call[t].seen \in Int

TypeInv == TypeOK /\ WantFits

LEMMA TypeInit == Init => TypeInv
  BY ReferenceAssumption, IdleType, FreshType
  DEF Init, TypeOK, TypeInv, WantFits, At, Idle, Building, Calls, References, Kinds

LEMMA TypeStep ==
    ASSUME TypeInv, [Next]_vars
    PROVE  TypeInv'
  <1> USE DEF TypeInv
  <1>t. /\ call \in [Threads -> Calls] /\ state \in [Threads -> States] /\ library.offset \in Offsets
        /\ library \in [offset : Offsets, anchor : Int]
        /\ curves \in [Kinds -> Int \cup {None}] /\ stamp \in Int \cup {None} /\ holder \in Threads \cup {Nobody}
        /\ sets \in 0..MaxSets /\ force \in References \cup {"unknown"}
        /\ owes \in [Threads -> References \cup {"unknown"}]
    BY DEF TypeOK, Calls, States
  <1>q. ASSUME call' \in [Threads -> Calls], state' \in [Threads -> States],
               library' \in [offset : Offsets, anchor : Int],
               curves' \in [Kinds -> Int \cup {None}], stamp' \in Int \cup {None}, holder' \in Threads \cup {Nobody},
               sets' \in 0..MaxSets, force' \in References \cup {"unknown"},
               owes' \in [Threads -> References \cup {"unknown"}], WantFits'
        PROVE  TypeInv'
    BY <1>q DEF TypeOK, Calls, States
  <1>w. ASSUME NEW t \in Threads, \A u \in Threads \ {t} : call'[u] = call[u],
               call'[t].at = "copied" => call'[t].want \in References,
               call'[t].at \in Building \cup {"ensure"} => call'[t].want \in {"curve", "dome"},
               call'[t].at = "shift" => call'[t].seen \in Int
        PROVE  WantFits'
    BY <1>w DEF WantFits, At
  <1>1. ASSUME NEW t \in Threads, NEW r \in References, SetCopy(t, r)
        PROVE  TypeInv'
    <2>0. /\ call' \in [Threads -> Calls]
          /\ call'[t].at = "copied" /\ call'[t].want = r
          /\ \A u \in Threads \ {t} : call'[u] = call[u]
      BY <1>t, <1>1, CopyLemma DEF SetCopy
    <2>1. call' \in [Threads -> Calls] /\ WantFits'
      BY <2>0, <1>w DEF Building, Kinds
    <2> QED
      BY <1>1, <1>t, <1>q, <2>1, ReferenceAssumption DEF SetCopy, Curves
  <1>2. ASSUME NEW t \in Threads, SetThrow(t)
        PROVE  TypeInv'
    <2>1. call' \in [Threads -> Calls] /\ WantFits'
      BY <1>t, <1>2, <1>w, ReturnLemma DEF SetThrow, Building, Kinds
    <2> QED
      BY <1>2, <1>t, <1>q, <2>1 DEF SetThrow, Fluids, Curves
  <1>3. ASSUME NEW t \in Threads, SetOffset(t)
        PROVE  TypeInv'
    <2>1. call' \in [Threads -> Calls] /\ WantFits'
      BY <1>t, <1>3, <1>w, GotoLemma DEF SetOffset, Places, Building, Kinds
    <2>0. call[t].want \in References /\ call[t].copy \in Offsets
      BY <1>t, <1>3 DEF SetOffset, WantFits, Calls
    <2>2. library' \in [offset : Offsets, anchor : Int]
      <3>1. Shifted(library.offset, Delta(call[t].want, call[t].copy), call[t].want) \in Offsets
        BY <1>t, <2>0, DeltaType, ShiftedType
      <3> QED
        BY <1>t, <1>3, <3>1 DEF SetOffset
    <2>3. force' \in References \cup {"unknown"}
      BY <1>t, <1>3, <2>0 DEF SetOffset, After
    <2> QED
      BY <1>3, <1>t, <1>q, <2>1, <2>2, <2>3 DEF SetOffset, Curves
  <1>4. ASSUME NEW t \in Threads, SetAnchor(t)
        PROVE  TypeInv'
    <2>1. call' \in [Threads -> Calls] /\ WantFits'
      BY <1>t, <1>4, <1>w, ReturnLemma DEF SetAnchor, Building, Kinds
    <2>2. library' \in [offset : Offsets, anchor : Int]
      BY <1>t, <1>4, FrameType DEF SetAnchor
    <2> QED
      BY <1>4, <1>t, <1>q, <2>1, <2>2 DEF SetAnchor, Curves
  <1>5. ASSUME NEW t \in Threads, NEW b \in {"HEOS", "SVDSBTL"}, Create(t, b)
        PROVE  TypeInv'
    <2>1. call' \in [Threads -> Calls]
      BY <1>t, <1>5, IdleType DEF Create
    <2>2. WantFits'
      BY <1>t, <1>5, <1>w DEF Create, Idle, Building, Kinds
    <2>3. state' \in [Threads -> States]
      BY <1>t, <1>5 DEF Create, States
    <2> QED
      BY <1>5, <1>t, <1>q, <2>1, <2>2, <2>3 DEF Create, Curves
  <1>6. ASSUME NEW t \in Threads, NEW r \in References, SetOwn(t, r)
        PROVE  TypeInv'
    <2> DEFINE own == Shifted(state[t].own, Delta(r, state[t].own), r)
    <2>1. own \in Offsets /\ state[t] \in States
      BY <1>t, DeltaType, ShiftedType DEF States
    <2>2. Frame(own) \in Int
      BY <2>1, FrameType
    <2> DEFINE f == Frame(own)
    <2>3. state' = [state EXCEPT ![t].own = own, ![t].anchor = f]
      BY <1>6 DEF SetOwn
    <2> HIDE DEF own, f
    <2> DEFINE s == [state[t] EXCEPT !.own = own, !.anchor = f]
    <2>5. f \in Int
      BY <2>2 DEF f
    <2>4. s \in States
      BY <2>1, <2>5 DEF States
    <2>6. state' = [state EXCEPT ![t] = s]
      BY <2>3
    <2> HIDE DEF s
    <2>7. state' \in [Threads -> States]
      BY <1>t, <2>4, <2>6
    <2>8. WantFits'
      BY <1>6 DEF SetOwn, WantFits, At
    <2> QED
      BY <1>6, <1>t, <1>q, <2>7, <2>8, ReferenceAssumption DEF SetOwn, After, Curves
  <1>7. ASSUME NEW t \in Threads, Ask(t) \/ AskDome(t)
        PROVE  TypeInv'
    <2>1. PICK p \in {"ensure", "dome"}, w \in {"curve", "dome"}, b \in BOOLEAN :
             call' = [call EXCEPT ![t] = [call[t] EXCEPT !.at = p, !.want = w, !.seen = None, !.answer = None,
                                                         !.resolved = b]]
      <3>1. CASE Ask(t)
        <4>1. call' = [call EXCEPT ![t] = [call[t] EXCEPT !.at = "ensure", !.want = "curve", !.seen = None,
                                                      !.answer = None, !.resolved = call[t].resolved]]
          BY <1>t, <3>1 DEF Ask, Calls
        <4> QED
          BY <1>t, <4>1 DEF Calls
      <3>2. CASE AskDome(t)
        <4> DEFINE p == IF call[t].resolved THEN "dome" ELSE "ensure"
        <4>1. call' = [call EXCEPT ![t].at = p, ![t].want = "dome", ![t].seen = None, ![t].answer = None,
                                   ![t].resolved = TRUE]
          BY <3>2 DEF AskDome
        <4>2. p \in {"ensure", "dome"}
          OBVIOUS
        <4> HIDE DEF p
        <4>3. call' = [call EXCEPT ![t] = [call[t] EXCEPT !.at = p, !.want = "dome", !.seen = None, !.answer = None,
                                                          !.resolved = TRUE]]
          BY <4>1
        <4> QED
          BY <4>2, <4>3
      <3> QED
        BY <1>7, <3>1, <3>2
    <2>2. call' \in [Threads -> Calls] /\ WantFits'
      BY <1>t, <1>w, <2>1, AskLemma DEF Building, Kinds
    <2> QED
      BY <1>7, <1>t, <1>q, <2>2 DEF Ask, AskDome, Fluids, Curves
  <1>9. ASSUME NEW t \in Threads, Ensure(t)
        PROVE  TypeInv'
    <2>0. call[t].want \in {"curve", "dome"}
      BY <1>9 DEF Ensure, WantFits, At
    <2>1. PICK p \in {"curve", "dome", "H"} : Goto(t, p)
      BY <1>9, <2>0 DEF Ensure
    <2>2. call' \in [Threads -> Calls] /\ WantFits'
      BY <1>t, <1>w, <2>0, <2>1, GotoLemma DEF Places, Building, Kinds
    <2> QED
      BY <1>9, <1>t, <1>q, <2>2 DEF Ensure, Fluids
  <1>10. ASSUME NEW t \in Threads, Add(t)
         PROVE  TypeInv'
    <2>0. call[t].want \in {"curve", "dome"}
      BY <1>10 DEF Add, WantFits, At, Building
    <2>1. PICK p \in {"S", "U", "stamp"} : Goto(t, p)
      BY <1>10 DEF Add, At, Kinds, Following
    <2>2. call' \in [Threads -> Calls] /\ WantFits'
      BY <1>t, <1>w, <2>0, <2>1, GotoLemma DEF Places
    <2>3. curves' \in [Kinds -> Int \cup {None}]
      BY <1>t, <1>10, FrameType DEF Add, At, States
    <2> QED
      BY <1>10, <1>t, <1>q, <2>2, <2>3 DEF Add, Fluids
  <1>11. ASSUME NEW t \in Threads, AddThrow(t)
         PROVE  TypeInv'
    <2>1. call' \in [Threads -> Calls] /\ WantFits'
      BY <1>t, <1>11, <1>w, ReturnLemma DEF AddThrow, Building, Kinds
    <2> QED
      BY <1>11, <1>t, <1>q, <2>1 DEF AddThrow, Fluids
  <1>12. ASSUME NEW t \in Threads, Stamp(t)
         PROVE  TypeInv'
    <2>0. call[t].want \in {"curve", "dome"} /\ Goto(t, call[t].want)
      BY <1>12 DEF Stamp, WantFits, At, Building
    <2>1. call' \in [Threads -> Calls] /\ WantFits'
      BY <1>t, <1>w, <2>0, GotoLemma DEF Places, Building, Kinds
    <2>2. stamp' \in Int
      BY <1>t, <1>12, FrameType DEF Stamp, States
    <2> QED
      BY <1>12, <1>t, <1>q, <2>1, <2>2 DEF Stamp, Fluids
  <1>13. ASSUME NEW t \in Threads, NEW k \in Kinds, ReadCurve(t, k)
         PROVE  TypeInv'
    <2>1. call' \in [Threads -> Calls] /\ WantFits'
      <3>1. CASE curves[k] = None
        BY <1>t, <1>w, <1>13, <3>1, ReturnLemma DEF ReadCurve, Building, Kinds
      <3>2. CASE curves[k] # None
        <4>1. curves[k] \in Int
          BY <1>t, <3>2
        <4> QED
          BY <1>t, <1>w, <1>13, <3>2, <4>1, SeenLemma DEF ReadCurve, Building, Kinds
      <3> QED
        BY <3>1, <3>2
    <2> QED
      BY <1>13, <1>t, <1>q, <2>1 DEF ReadCurve, Fluids, Curves
  <1>14. ASSUME NEW t \in Threads, Solve(t)
         PROVE  TypeInv'
    <2> DEFINE shift == IF stamp = None THEN 0 ELSE stamp - Frame(state[t].own)
               a == call[t].seen - (Frame(state[t].own) + shift)
    <2>1. Return(t, a)
      BY <1>14 DEF Solve
    <2>2. a \in Int
      <3>1. call[t].seen \in Int
        BY <1>14 DEF Solve, WantFits
      <3>2. Frame(state[t].own) \in Int
        BY <1>t, FrameType DEF States
      <3> QED
        BY <1>t, <3>1, <3>2
    <2> HIDE DEF a
    <2>3. call' \in [Threads -> Calls] /\ WantFits'
      BY <1>t, <1>w, <2>1, <2>2, ReturnLemma DEF Building, Kinds
    <2> QED
      BY <1>14, <1>t, <1>q, <2>3 DEF Solve, Fluids, Curves
  <1>15. ASSUME NEW t \in Threads, ReadDome(t)
         PROVE  TypeInv'
    <2>1. call' \in [Threads -> Calls] /\ WantFits'
      BY <1>t, <1>15, <1>w, ReturnLemma DEF ReadDome, Building, Kinds
    <2> QED
      BY <1>15, <1>t, <1>q, <2>1 DEF ReadDome, Fluids, Curves
  <1>16. CASE UNCHANGED vars
    BY <1>16 DEF vars, TypeOK, WantFits, At
  <1> QED
    BY <1>1, <1>2, <1>3, <1>4, <1>5, <1>6, <1>7, <1>9, <1>10, <1>11, <1>12, <1>13, <1>14, <1>15, <1>16
    DEF Next, Step

\* Every variable keeps its type through every interleaving of changes, builds and reads.
THEOREM ReferencesAreTyped == Spec => []TypeOK
  <1>1. Init => TypeInv
    BY TypeInit
  <1>2. TypeInv /\ [Next]_vars => TypeInv'
    BY TypeStep
  <1>3. TypeInv => TypeOK
    BY DEF TypeInv
  <1> QED
    BY <1>1, <1>2, <1>3, PTL DEF Spec

-----------------------------------------------------------------------------
(* The curves.                                                              *)

LEMMA CurveInit == Init => CurveInv
  BY ReferenceAssumption
  DEF Init, CurveInv, Exclusive, OwnSoFar, LastThenStamp, StampEnds, CurvesOfOneFrame, ReadsStamped,
      AnswersInOwnFrame, At, Idle, Building, Kinds, Nobody

\* A step of one thread that touches neither the curves nor the mutex, nor the frame
\* of a thread that builds.
LEMMA QuietStep ==
    ASSUME CurveInv, NEW t \in Threads, UNCHANGED Curves,
           \A u \in Threads \ {t} : call'[u] = call[u] /\ state'[u].own = state[u].own,
           ~At(t, Building), call'[t].at \notin Building,
           call'[t].at \in {"curve", "shift"} => stamp # None,
           call'[t].at = "shift" => call'[t].seen = stamp,
           call'[t].answer \in {None, 0}
    PROVE  CurveInv'
  <1> USE DEF CurveInv, At
  <1>1. Exclusive'
    BY DEF Exclusive, Building, Curves
  <1>2. OwnSoFar'
    BY DEF OwnSoFar, Building, Kinds, Curves
  <1>3. LastThenStamp'
    BY DEF LastThenStamp, Building, Curves
  <1>4. StampEnds' /\ CurvesOfOneFrame'
    BY DEF StampEnds, CurvesOfOneFrame, Curves
  <1>5. ReadsStamped'
    BY DEF ReadsStamped, Curves
  <1>6. AnswersInOwnFrame'
    BY DEF AnswersInOwnFrame
  <1> QED
    BY <1>1, <1>2, <1>3, <1>4, <1>5, <1>6

\* All curves are there and nobody builds: they have been stamped.
LEMMA BuiltIsStamped ==
    ASSUME CurveInv, Built, holder = Nobody
    PROVE  stamp # None
  <1>1. \A t \in Threads : ~At(t, {"stamp"})
    BY ReferenceAssumption DEF CurveInv, Exclusive, Nobody, At, Building
  <1> QED
    BY <1>1 DEF CurveInv, LastThenStamp, Built, Kinds

LEMMA CurveStep ==
    ASSUME TypeInv, TypeInv', CurveInv, [Next]_vars
    PROVE  CurveInv'
  <1>t. /\ call \in [Threads -> Calls] /\ state \in [Threads -> States] /\ library.offset \in Offsets
        /\ curves \in [Kinds -> Int \cup {None}] /\ stamp \in Int \cup {None} /\ holder \in Threads \cup {Nobody}
    BY DEF TypeInv, TypeOK, Calls, States
  <1>a. \A t \in Threads : call[t].answer \in {None, 0}
    BY DEF CurveInv, AnswersInOwnFrame
  <1>1. ASSUME NEW t \in Threads, NEW r \in References, SetCopy(t, r)
        PROVE  CurveInv'
    <2>1. call'[t].at = "copied" /\ call'[t].answer = call[t].answer /\ \A u \in Threads \ {t} : call'[u] = call[u]
      BY <1>t, <1>1, CopyLemma DEF SetCopy
    <2> QED
      BY <1>1, <1>a, <2>1, QuietStep DEF SetCopy, At, Building, Kinds
  <1>2. ASSUME NEW t \in Threads, SetThrow(t) \/ SetAnchor(t) \/ ReadDome(t)
        PROVE  CurveInv'
    <2>1. call'[t].at = "idle" /\ call'[t].answer = None /\ \A u \in Threads \ {t} : call'[u] = call[u]
      BY <1>t, <1>2, ReturnLemma DEF SetThrow, SetAnchor, ReadDome
    <2> QED
      BY <1>2, <2>1, QuietStep DEF SetThrow, SetAnchor, ReadDome, Fluids, At, Building, Kinds
  <1>3. ASSUME NEW t \in Threads, SetOffset(t)
        PROVE  CurveInv'
    <2>1. call'[t].at = "offset" /\ call'[t].answer = call[t].answer /\ \A u \in Threads \ {t} : call'[u] = call[u]
      BY <1>t, <1>3, GotoLemma DEF SetOffset, Places
    <2> QED
      BY <1>3, <1>a, <2>1, QuietStep DEF SetOffset, At, Building, Kinds
  <1>5. ASSUME NEW t \in Threads, NEW b \in {"HEOS", "SVDSBTL"}, Create(t, b)
        PROVE  CurveInv'
    <2>1. call'[t].at = "idle" /\ call'[t].answer = None
          /\ \A u \in Threads \ {t} : call'[u] = call[u] /\ state'[u].own = state[u].own
      BY <1>t, <1>5 DEF Create, Idle
    <2> QED
      BY <1>5, <2>1, QuietStep DEF Create, At, Building, Kinds
  <1>6. ASSUME NEW t \in Threads, NEW r \in References, SetOwn(t, r)
        PROVE  CurveInv'
    <2>1. \A u \in Threads \ {t} : state'[u].own = state[u].own
      BY <1>t, <1>6 DEF SetOwn, States
    <2> QED
      BY <1>6, <1>a, <2>1, QuietStep DEF SetOwn, At, Building, Kinds
  <1>7. ASSUME NEW t \in Threads, Ask(t) \/ AskDome(t)
        PROVE  CurveInv'
    <2>1. call'[t].at \in {"ensure", "dome"} /\ call'[t].answer = None /\ \A u \in Threads \ {t} : call'[u] = call[u]
      <3>1. CASE Ask(t)
        BY <1>t, <3>1 DEF Ask, Calls
      <3>2. CASE AskDome(t)
        BY <1>t, <3>2 DEF AskDome, Calls
      <3> QED
        BY <1>7, <3>1, <3>2
    <2> QED
      BY <1>7, <2>1, QuietStep DEF Ask, AskDome, Fluids, At, Building, Kinds
  <1>9. ASSUME NEW t \in Threads, Ensure(t)
        PROVE  CurveInv'
    <2>0. call[t].want \in {"curve", "dome"}
      BY <1>9 DEF Ensure, TypeInv, WantFits, At
    <2>1. CASE Built
      <3>1. call'[t].at = call[t].want /\ call'[t].answer = call[t].answer
            /\ \A u \in Threads \ {t} : call'[u] = call[u]
        BY <1>t, <1>9, <2>0, <2>1, GotoLemma DEF Ensure, Places
      <3>2. stamp # None
        BY <1>9, <2>1, BuiltIsStamped DEF Ensure
      <3> QED
        BY <1>9, <1>a, <2>0, <2>1, <3>1, <3>2, QuietStep DEF Ensure, Fluids, Curves, At, Building, Kinds
    <2>2. CASE ~Built
      <3>1. /\ call'[t].at = "H" /\ call'[t].answer = call[t].answer
            /\ \A u \in Threads \ {t} : call'[u] = call[u]
            /\ holder' = t /\ holder = Nobody
        BY <1>t, <1>9, <2>2, GotoLemma DEF Ensure, Places
      <3>2. stamp = None
        BY <2>2, <1>t DEF CurveInv, CurvesOfOneFrame, Built
      <3>3. \A u \in Threads : ~At(u, Building)
        BY <3>1, ReferenceAssumption DEF CurveInv, Exclusive, Nobody
      <3>4. UNCHANGED <<curves, stamp, state>>
        BY <1>9 DEF Ensure, Fluids
      <3> USE DEF CurveInv, At, Building, Kinds
      <3>5. Exclusive'
        BY <3>1, <3>3 DEF Exclusive
      <3>6. OwnSoFar'
        BY <3>1, <3>3, <3>4 DEF OwnSoFar
      <3>7. LastThenStamp'
        BY <3>1, <3>2, <3>3, <3>4 DEF LastThenStamp
      <3>8. StampEnds' /\ CurvesOfOneFrame'
        BY <3>2, <3>4 DEF StampEnds, CurvesOfOneFrame
      <3>9. ReadsStamped' /\ AnswersInOwnFrame'
        BY <3>1, <3>4 DEF ReadsStamped, AnswersInOwnFrame
      <3> QED
        BY <3>5, <3>6, <3>7, <3>8, <3>9
    <2> QED
      BY <2>1, <2>2
  <1>10. ASSUME NEW t \in Threads, Add(t)
         PROVE  CurveInv'
    <2> DEFINE k == call[t].at
               f == Frame(state[t].own)
    <2>1. /\ k \in Kinds /\ Following[k] \in {"S", "U", "stamp"} /\ Goto(t, Following[k])
          /\ curves' = [curves EXCEPT ![k] = f]
      BY <1>10 DEF Add, At, Kinds, Following
    <2>2. /\ call'[t].at = Following[k] /\ call'[t].answer = call[t].answer
          /\ \A u \in Threads \ {t} : call'[u] = call[u]
      BY <1>t, <2>1, GotoLemma DEF Places
    <2>3. UNCHANGED <<stamp, holder, state>>
      BY <1>10 DEF Add, Fluids
    <2>4. holder = t /\ \A u \in Threads \ {t} : ~At(u, Building)
      BY <1>10, <1>t DEF CurveInv, Exclusive, Add, At, Building
    <2>5. stamp = None
      BY <2>4, ReferenceAssumption DEF CurveInv, StampEnds, Nobody
    <2>6. f \in Int
      BY <1>t, FrameType DEF States
    <2> USE DEF CurveInv, At, Building
    <2>7. Exclusive'
      BY <2>1, <2>2, <2>3, <2>4 DEF Exclusive, Kinds
    <2>8. OwnSoFar'
      BY <1>t, <2>1, <2>2, <2>3, <2>4, <2>6 DEF OwnSoFar, Kinds, Following
    <2>9. LastThenStamp'
      <3>1. CASE k = "U"
        BY <2>1, <2>2, <3>1 DEF LastThenStamp, Following
      <3>2. CASE k # "U"
        <4>1. curves'["U"] = curves["U"]
          BY <1>t, <2>1, <3>2 DEF Kinds
        <4>2. curves["U"] = None
          <5>1. \A u \in Threads : ~At(u, {"stamp"})
            BY <2>1, <2>4 DEF Kinds
          <5> QED
            BY <5>1, <2>5 DEF LastThenStamp
        <4> QED
          BY <4>1, <4>2 DEF LastThenStamp
      <3> QED
        BY <3>1, <3>2
    <2>10. StampEnds' /\ CurvesOfOneFrame'
      BY <2>3, <2>5 DEF StampEnds, CurvesOfOneFrame
    <2>11. ReadsStamped' /\ AnswersInOwnFrame'
      BY <1>a, <2>1, <2>2, <2>3 DEF ReadsStamped, AnswersInOwnFrame
    <2> QED
      BY <2>7, <2>8, <2>9, <2>10, <2>11
  <1>11. ASSUME NEW t \in Threads, AddThrow(t)
         PROVE  CurveInv'
    <2>2. call'[t].at = "idle" /\ call'[t].answer = None /\ \A u \in Threads \ {t} : call'[u] = call[u]
      BY <1>t, <1>11, ReturnLemma DEF AddThrow
    <2>3. UNCHANGED <<stamp, curves, state>> /\ holder' = Nobody
      BY <1>11 DEF AddThrow, Fluids
    <2>4. holder = t /\ \A u \in Threads \ {t} : ~At(u, Building)
      BY <1>11, <1>t DEF CurveInv, Exclusive, AddThrow, At, Building
    <2>5. stamp = None /\ curves["U"] = None
      <3>1. stamp = None
        BY <2>4, ReferenceAssumption DEF CurveInv, StampEnds, Nobody
      <3>2. \A u \in Threads : ~At(u, {"stamp"})
        BY <1>11, <2>4 DEF AddThrow, At, Kinds, Building
      <3> QED
        BY <3>1, <3>2 DEF CurveInv, LastThenStamp
    <2> USE DEF CurveInv, At, Building, Kinds
    <2>7. Exclusive'
      BY <2>2, <2>3, <2>4, ReferenceAssumption DEF Exclusive, Nobody
    <2>8. OwnSoFar'
      BY <2>2, <2>3, <2>4 DEF OwnSoFar
    <2>9. LastThenStamp' /\ StampEnds' /\ CurvesOfOneFrame'
      BY <2>3, <2>5 DEF LastThenStamp, StampEnds, CurvesOfOneFrame
    <2>11. ReadsStamped' /\ AnswersInOwnFrame'
      BY <1>a, <2>2, <2>3 DEF ReadsStamped, AnswersInOwnFrame
    <2> QED
      BY <2>7, <2>8, <2>9, <2>11
  <1>12. ASSUME NEW t \in Threads, Stamp(t)
         PROVE  CurveInv'
    <2>1. call[t].want \in {"curve", "dome"} /\ Goto(t, call[t].want)
      BY <1>12 DEF Stamp, TypeInv, WantFits, At, Building
    <2>2. /\ call'[t].at \in {"curve", "dome"} /\ call'[t].answer = call[t].answer
          /\ \A u \in Threads \ {t} : call'[u] = call[u]
      BY <1>t, <2>1, GotoLemma DEF Places
    <2>3. UNCHANGED <<curves, state>> /\ holder' = Nobody /\ stamp' = Frame(state[t].own)
      BY <1>12 DEF Stamp, Fluids
    <2>4. holder = t /\ \A u \in Threads \ {t} : ~At(u, Building)
      BY <1>12, <1>t DEF CurveInv, Exclusive, Stamp, At, Building
    <2>5. stamp' # None
      BY <1>t, <2>3, FrameType, ReferenceAssumption DEF States
    <2>6. stamp = None
      BY <2>4, ReferenceAssumption DEF CurveInv, StampEnds, Nobody
    <2> USE DEF CurveInv, At, Building, Kinds
    <2>7. Exclusive'
      BY <2>2, <2>3, <2>4, ReferenceAssumption DEF Exclusive, Nobody
    <2>8. OwnSoFar'
      BY <2>2, <2>3, <2>4 DEF OwnSoFar
    <2>9. LastThenStamp' /\ StampEnds'
      BY <2>3, <2>5 DEF LastThenStamp, StampEnds
    <2>10. CurvesOfOneFrame'
      BY <1>12, <2>3 DEF CurvesOfOneFrame, OwnSoFar, Stamp
    <2>11. ReadsStamped' /\ AnswersInOwnFrame'
      BY <1>a, <2>2, <2>3, <2>5, <2>6 DEF ReadsStamped, AnswersInOwnFrame
    <2> QED
      BY <2>7, <2>8, <2>9, <2>10, <2>11
  <1>13. ASSUME NEW t \in Threads, NEW k \in Kinds, ReadCurve(t, k)
         PROVE  CurveInv'
    <2>1. stamp # None /\ curves[k] = stamp /\ stamp \in Int
      BY <1>t, <1>13 DEF ReadCurve, CurveInv, ReadsStamped, CurvesOfOneFrame, At
    <2>2. /\ call'[t].at = "shift" /\ call'[t].seen = stamp /\ call'[t].answer = call[t].answer
          /\ \A u \in Threads \ {t} : call'[u] = call[u]
      BY <1>t, <1>13, <2>1, SeenLemma DEF ReadCurve
    <2> QED
      BY <1>13, <1>a, <2>1, <2>2, QuietStep DEF ReadCurve, Fluids, At, Building, Kinds
  <1>14. ASSUME NEW t \in Threads, Solve(t)
         PROVE  CurveInv'
    <2> DEFINE shift == IF stamp = None THEN 0 ELSE stamp - Frame(state[t].own)
               a == call[t].seen - (Frame(state[t].own) + shift)
    <2>1. Return(t, a)
      BY <1>14 DEF Solve
    <2>2. a = 0
      <3>1. call[t].seen = stamp /\ stamp \in Int
        BY <1>t, <1>14 DEF Solve, CurveInv, ReadsStamped, At
      <3>2. Frame(state[t].own) \in Int
        BY <1>t, FrameType DEF States
      <3> QED
        BY <3>1, <3>2, ReferenceAssumption
    <2> HIDE DEF a
    <2>3. call'[t].at = "idle" /\ call'[t].answer = 0 /\ \A u \in Threads \ {t} : call'[u] = call[u]
      BY <1>t, <2>1, <2>2, ReturnLemma
    <2> QED
      BY <1>14, <2>3, QuietStep DEF Solve, Fluids, At, Building, Kinds
  <1>16. CASE UNCHANGED vars
    BY <1>16 DEF vars, CurveInv, Exclusive, OwnSoFar, LastThenStamp, StampEnds, CurvesOfOneFrame, ReadsStamped,
                 AnswersInOwnFrame, At
  <1> QED
    BY <1>1, <1>2, <1>3, <1>5, <1>6, <1>7, <1>9, <1>10, <1>11, <1>12, <1>13, <1>14, <1>16 DEF Next, Step

LEMMA SpecCurves == Spec => [](TypeInv /\ CurveInv)
  <1>1. Init => TypeInv /\ CurveInv
    BY TypeInit, CurveInit
  <1>2. (TypeInv /\ CurveInv) /\ [Next]_vars => (TypeInv /\ CurveInv)'
    BY TypeStep, CurveStep
  <1> QED
    BY <1>1, <1>2, PTL DEF Spec

\* However many tries the build takes, and whichever threads make them, the three
\* curves end up in one frame, that of the stamp.
THEOREM CurvesShareAFrame == Spec => []CurvesOfOneFrame
  <1>1. CurveInv => CurvesOfOneFrame
    BY DEF CurveInv
  <1> QED
    BY <1>1, SpecCurves, PTL

\* The reads without the mutex never meet a build, nor half of one.
THEOREM ReadsMeetNoBuild == Spec => []ReadsFinishedCurves
  <1>1. TypeInv /\ CurveInv => ReadsFinishedCurves
    BY ReferenceAssumption
    DEF TypeInv, TypeOK, CurveInv, ReadsFinishedCurves, ReadsStamped, StampEnds, Exclusive, CurvesOfOneFrame, Building,
        Built, Nobody
  <1> QED
    BY <1>1, SpecCurves, PTL

\* A caloric flash finds its target, in whichever frame the curves were built.
THEOREM FlashesFindTheirTarget == Spec => []AnswersInOwnFrame
  <1>1. CurveInv => AnswersInOwnFrame
    BY DEF CurveInv
  <1> QED
    BY <1>1, SpecCurves, PTL

\* No later change of reference state rebuilds the curves.
THEOREM CurvesAreForGood == Spec => BuiltForGood
  <1>1. TypeInv /\ CurveInv /\ [Next]_vars => [stamp # None => UNCHANGED <<curves, stamp>>]_vars
    <2> SUFFICES ASSUME TypeInv, CurveInv, Next, stamp # None
                 PROVE  UNCHANGED <<curves, stamp>>
      BY DEF vars
    <2>1. holder = Nobody /\ \A t \in Threads : ~At(t, Building)
      BY ReferenceAssumption DEF CurveInv, StampEnds, Exclusive, Nobody
    <2>2. \A t \in Threads : ~Add(t) /\ ~Stamp(t)
      BY <2>1 DEF Add, Stamp, At, Building
    <2> QED
      BY <2>2 DEF Next, Step, SetCopy, SetOwn, Create, Ask, AskDome, SetThrow, SetOffset, SetAnchor, Ensure, AddThrow,
                  ReadCurve, Solve, ReadDome, Curves
  <1> QED
    BY <1>1, SpecCurves, PTL DEF Spec, BuiltForGood

-----------------------------------------------------------------------------
(* The offsets.                                                             *)

\* An increment computed from a fluid in the same frame brings the point to zero; the
\* default removes the offset, and "RESET" adds nothing.
LEMMA ShiftedIsDue ==
    ASSUME NEW o \in Offsets, NEW c \in Offsets, NEW r \in References, Frame(c) = Frame(o)
    PROVE  Frame(Shifted(o, Delta(r, c), r)) = IF r = "RESET" THEN Frame(o) ELSE Due(r)
  <1>1. Frame(o) \in Int /\ (r \in Points => Point[r] \in Int)
    BY FrameType, ReferenceAssumption
  <1> DEFINE d == Delta(r, c)
  <1>2. d \in Int /\ d = IF r \in Points THEN -(Point[r] + Frame(o)) ELSE 0
    BY DeltaType DEF Delta
  <1>3. Due(r) = IF r \in Points THEN -Point[r] ELSE 0
    BY DEF Due
  <1> HIDE DEF d
  <1>4. CASE ~o.enabled
    <2>1. Frame(Shifted(o, d, r)) = d /\ Frame(o) = 0
      BY <1>4 DEF Shifted, Frame
    <2> QED
      BY <1>1, <1>2, <1>3, <2>1, ReferenceAssumption DEF d
  <1>5. CASE o.enabled /\ r = "DEF"
    BY <1>3, <1>5, ReferenceAssumption DEF Shifted, Frame, d
  <1>6. CASE o.enabled /\ r # "DEF"
    <2>1. Frame(Shifted(o, d, r)) = Frame(o) + d
      BY <1>6 DEF Shifted, Frame
    <2> QED
      BY <1>1, <1>2, <1>3, <1>6, <2>1, ReferenceAssumption DEF d, References
  <1> QED
    BY <1>4, <1>5, <1>6 DEF Offsets

\* While no two changes overlap, the increment of a change under way was computed in
\* the frame it will be added to.
CopiesAreCurrent ==
    \A t \in Threads : At(t, {"copied"}) /\ force # "unknown" => Frame(call[t].copy) = Frame(library.offset)

OffsetInv == InForceAsSet /\ CopiesAreCurrent

LEMMA OffsetInit == Init => OffsetInv
  BY ReferenceAssumption DEF Init, OffsetInv, InForceAsSet, CopiesAreCurrent, At, Idle, Fresh, Frame, Due

LEMMA OffsetStep ==
    ASSUME TypeInv, OffsetInv, [Next]_vars
    PROVE  OffsetInv'
  <1>t. /\ call \in [Threads -> Calls] /\ state \in [Threads -> States]
        /\ library \in [offset : Offsets, anchor : Int] /\ library.offset \in Offsets
        /\ force \in References \cup {"unknown"} /\ owes \in [Threads -> References \cup {"unknown"}]
    BY DEF TypeInv, TypeOK, Calls, States
  <1> USE DEF OffsetInv, At
  <1>q. ASSUME NEW t \in Threads, \A u \in Threads \ {t} : call'[u] = call[u], call'[t].at # "copied",
               UNCHANGED <<library, force, owes, state>>
        PROVE  OffsetInv'
    BY <1>q DEF InForceAsSet, CopiesAreCurrent
  <1>1. ASSUME NEW t \in Threads, NEW r \in References, SetCopy(t, r)
        PROVE  OffsetInv'
    <2>1. call'[t].copy = library.offset /\ \A u \in Threads \ {t} : call'[u] = call[u]
      BY <1>t, <1>1, CopyLemma DEF SetCopy
    <2>2. UNCHANGED <<library, owes, state>>
      BY <1>1 DEF SetCopy
    <2>3. force' # "unknown" => force' = force /\ \A u \in Threads \ {t} : call[u].at # "copied"
      BY <1>1 DEF SetCopy, Overlaps, Setting
    <2> QED
      BY <2>1, <2>2, <2>3 DEF InForceAsSet, CopiesAreCurrent
  <1>2. ASSUME NEW t \in Threads, SetThrow(t) \/ AddThrow(t) \/ ReadDome(t)
        PROVE  OffsetInv'
    <2>1. call'[t].at = "idle" /\ \A u \in Threads \ {t} : call'[u] = call[u]
      BY <1>t, <1>2, ReturnLemma DEF SetThrow, AddThrow, ReadDome
    <2> QED
      BY <1>2, <1>q, <2>1 DEF SetThrow, AddThrow, ReadDome, Fluids
  <1>3. ASSUME NEW t \in Threads, SetOffset(t)
        PROVE  OffsetInv'
    <2>0. call[t].want \in References /\ call[t].copy \in Offsets
      BY <1>t, <1>3 DEF SetOffset, TypeInv, WantFits, Calls
    <2>1. call'[t].at = "offset" /\ \A u \in Threads \ {t} : call'[u] = call[u]
      BY <1>t, <1>3, GotoLemma DEF SetOffset, Places
    <2>2. CASE force' = "unknown"
      BY <1>3, <2>2 DEF SetOffset, InForceAsSet, CopiesAreCurrent
    <2>3. CASE force' # "unknown"
      <3>1. force # "unknown" /\ force' = After(force, call[t].want)
            /\ \A u \in Threads \ {t} : call[u].at # "copied"
        BY <1>3, <2>3 DEF SetOffset, Overlaps, Setting
      <3>2. Frame(call[t].copy) = Frame(library.offset) /\ Frame(library.offset) = Due(force)
        BY <1>3, <3>1 DEF SetOffset, CopiesAreCurrent, InForceAsSet
      <3>3. library'.offset = Shifted(library.offset, Delta(call[t].want, call[t].copy), call[t].want)
        BY <1>t, <1>3 DEF SetOffset
      <3>4. Frame(library'.offset) = Due(force')
        BY <1>t, <2>0, <3>1, <3>2, <3>3, ShiftedIsDue DEF After
      <3> QED
        BY <1>3, <2>1, <3>1, <3>4 DEF SetOffset, InForceAsSet, CopiesAreCurrent
    <2> QED
      BY <2>2, <2>3
  <1>4. ASSUME NEW t \in Threads, SetAnchor(t)
        PROVE  OffsetInv'
    <2>1. call'[t].at = "idle" /\ \A u \in Threads \ {t} : call'[u] = call[u]
      BY <1>t, <1>4, ReturnLemma DEF SetAnchor
    <2>2. library'.offset = library.offset
      BY <1>t, <1>4 DEF SetAnchor
    <2> QED
      BY <1>4, <2>1, <2>2 DEF SetAnchor, InForceAsSet, CopiesAreCurrent
  <1>5. ASSUME NEW t \in Threads, NEW b \in {"HEOS", "SVDSBTL"}, Create(t, b)
        PROVE  OffsetInv'
    <2>1. /\ call'[t].at = "idle" /\ \A u \in Threads \ {t} : call'[u] = call[u]
          /\ state'[t].own = library.offset /\ \A u \in Threads \ {t} : state'[u] = state[u]
          /\ owes'[t] \in {"unknown", force} /\ \A u \in Threads \ {t} : owes'[u] = owes[u]
      BY <1>t, <1>5 DEF Create, Idle
    <2> QED
      BY <1>5, <2>1 DEF Create, InForceAsSet, CopiesAreCurrent
  <1>6. ASSUME NEW t \in Threads, NEW r \in References, SetOwn(t, r)
        PROVE  OffsetInv'
    <2> DEFINE own == Shifted(state[t].own, Delta(r, state[t].own), r)
    <2>1. /\ state'[t].own = own /\ \A u \in Threads \ {t} : state'[u] = state[u]
          /\ owes'[t] = After(owes[t], r) /\ \A u \in Threads \ {t} : owes'[u] = owes[u]
      BY <1>t, <1>6 DEF SetOwn, States
    <2>2. Frame(own) = IF r = "RESET" THEN Frame(state[t].own) ELSE Due(r)
      BY <1>t, ShiftedIsDue DEF States
    <2>3. owes'[t] # "unknown" => Frame(state'[t].own) = Due(owes'[t])
      BY <2>1, <2>2 DEF After, InForceAsSet
    <2> QED
      BY <1>6, <2>1, <2>3 DEF SetOwn, InForceAsSet, CopiesAreCurrent
  <1>7. ASSUME NEW t \in Threads, Ask(t) \/ AskDome(t)
        PROVE  OffsetInv'
    <2>1. call'[t].at \in {"ensure", "dome"} /\ \A u \in Threads \ {t} : call'[u] = call[u]
      <3>1. CASE Ask(t)
        BY <1>t, <3>1 DEF Ask, Calls
      <3>2. CASE AskDome(t)
        BY <1>t, <3>2 DEF AskDome, Calls
      <3> QED
        BY <1>7, <3>1, <3>2
    <2> QED
      BY <1>7, <1>q, <2>1 DEF Ask, AskDome, Fluids
  <1>8. ASSUME NEW t \in Threads, Ensure(t) \/ Add(t) \/ Stamp(t)
        PROVE  OffsetInv'
    <2>1. PICK p \in {"curve", "dome", "H", "S", "U", "stamp"} : Goto(t, p)
      <3>1. CASE Ensure(t)
        BY <3>1 DEF Ensure, TypeInv, WantFits
      <3>2. CASE Add(t)
        BY <3>2 DEF Add, Kinds, Following
      <3>3. CASE Stamp(t)
        BY <3>3 DEF Stamp, TypeInv, WantFits, Building
      <3> QED
        BY <1>8, <3>1, <3>2, <3>3
    <2>2. call'[t].at # "copied" /\ \A u \in Threads \ {t} : call'[u] = call[u]
      BY <1>t, <2>1, GotoLemma DEF Places
    <2> QED
      BY <1>8, <1>q, <2>2 DEF Ensure, Add, Stamp, Fluids
  <1>9. ASSUME NEW t \in Threads, NEW k \in Kinds, ReadCurve(t, k)
        PROVE  OffsetInv'
    <2>1. call'[t].at # "copied" /\ \A u \in Threads \ {t} : call'[u] = call[u]
      <3>1. CASE curves[k] = None
        BY <1>t, <1>9, <3>1, ReturnLemma DEF ReadCurve
      <3>2. CASE curves[k] # None
        <4>1. curves[k] \in Int
          BY <3>2 DEF TypeInv, TypeOK
        <4> QED
          BY <1>t, <1>9, <3>2, <4>1, SeenLemma DEF ReadCurve
      <3> QED
        BY <3>1, <3>2
    <2> QED
      BY <1>9, <1>q, <2>1 DEF ReadCurve, Fluids
  <1>10. ASSUME NEW t \in Threads, Solve(t)
         PROVE  OffsetInv'
    <2>1. call'[t].at # "copied" /\ \A u \in Threads \ {t} : call'[u] = call[u]
      BY <1>t, <1>10 DEF Solve, Return, Idle, Calls
    <2> QED
      BY <1>10, <1>q, <2>1 DEF Solve, Fluids
  <1>11. CASE UNCHANGED vars
    BY <1>11 DEF vars, InForceAsSet, CopiesAreCurrent
  <1> QED
    BY <1>1, <1>2, <1>3, <1>4, <1>5, <1>6, <1>7, <1>8, <1>9, <1>10, <1>11 DEF Next, Step

\* For any points and any history of changes, failed ones included: as long as no two
\* changes of the library overlap, it is in the reference state set last, and each state
\* in its own.
THEOREM ReferencesAreInForce == Spec => []InForceAsSet
  <1>1. Init => TypeInv /\ OffsetInv
    BY TypeInit, OffsetInit
  <1>2. (TypeInv /\ OffsetInv) /\ [Next]_vars => (TypeInv /\ OffsetInv)'
    BY TypeStep, OffsetStep
  <1>3. OffsetInv => InForceAsSet
    BY DEF OffsetInv
  <1> QED
    BY <1>1, <1>2, <1>3, PTL DEF Spec
-----------------------------------------------------------------------------
(* The anchor points.                                                       *)

\* Outside the two halves of a change the library's anchors are in its own frame: of
\* changes that overlap, the last second half computes them from the final offset.
AnchorsFollow == (\A t \in Threads : ~At(t, {"offset"})) => library.anchor = Frame(library.offset)

AnchorInv == AnchorsFollow /\ AnchorsInOwnFrame

LEMMA AnchorInit == Init => AnchorInv
  BY DEF Init, AnchorInv, AnchorsFollow, AnchorsInOwnFrame, Fresh, Frame

\* Every step of a thread leaves the calls of the others alone.
LEMMA OthersKeepTheirCalls ==
    ASSUME call \in [Threads -> Calls], NEW t \in Threads,
           \/ \E r \in References : SetCopy(t, r) \/ SetOwn(t, r)
           \/ \E b \in {"HEOS", "SVDSBTL"} : Create(t, b)
           \/ Ask(t) \/ AskDome(t) \/ Step(t)
    PROVE  \A u \in Threads \ {t} : call'[u] = call[u]
  <1> USE DEF Goto, Return
  <1>1. CASE \E r \in References : SetCopy(t, r) \/ SetOwn(t, r)
    BY <1>1 DEF SetCopy, SetOwn
  <1>2. CASE \E b \in {"HEOS", "SVDSBTL"} : Create(t, b)
    BY <1>2 DEF Create
  <1>3. CASE Ask(t) \/ AskDome(t)
    BY <1>3 DEF Ask, AskDome
  <1>4. CASE SetThrow(t) \/ SetOffset(t) \/ SetAnchor(t)
    BY <1>4 DEF SetThrow, SetOffset, SetAnchor
  <1>5. CASE Ensure(t) \/ Add(t) \/ AddThrow(t) \/ Stamp(t)
    BY <1>5 DEF Ensure, Add, AddThrow, Stamp
  <1>6. CASE (\E k \in Kinds : ReadCurve(t, k)) \/ Solve(t) \/ ReadDome(t)
    BY <1>6 DEF ReadCurve, Solve, ReadDome
  <1> QED
    BY <1>1, <1>2, <1>3, <1>4, <1>5, <1>6 DEF Step

LEMMA AnchorStep ==
    ASSUME TypeInv, AnchorInv, [Next]_vars
    PROVE  AnchorInv'
  <1>t. /\ call \in [Threads -> Calls] /\ state \in [Threads -> States]
        /\ library \in [offset : Offsets, anchor : Int] /\ owes \in [Threads -> References \cup {"unknown"}]
    BY DEF TypeInv, TypeOK, Calls, States
  <1> USE DEF AnchorInv, At
  <1>q. ASSUME NEW t \in Threads, \A u \in Threads \ {t} : call'[u] = call[u], call[t].at # "offset",
               UNCHANGED library
        PROVE  AnchorsFollow'
    BY <1>q DEF AnchorsFollow
  <1>s. ASSUME UNCHANGED <<state, owes>>
        PROVE  AnchorsInOwnFrame'
    BY <1>s DEF AnchorsInOwnFrame
  <1>1. ASSUME NEW t \in Threads, NEW r \in References, SetCopy(t, r)
        PROVE  AnchorInv'
    BY <1>t, <1>1, <1>q, <1>s, OthersKeepTheirCalls DEF SetCopy
  <1>2. ASSUME NEW t \in Threads, SetThrow(t) \/ AddThrow(t) \/ ReadDome(t) \/ Ask(t) \/ AskDome(t) \/ Ensure(t)
                                  \/ Add(t) \/ Stamp(t) \/ Solve(t) \/ \E k \in Kinds : ReadCurve(t, k)
        PROVE  AnchorInv'
    <2>1. call[t].at # "offset" /\ UNCHANGED <<library, state, owes>>
      BY <1>2 DEF SetThrow, AddThrow, ReadDome, Ask, AskDome, Ensure, Add, Stamp, Solve, ReadCurve, Fluids, Kinds
    <2>2. \A u \in Threads \ {t} : call'[u] = call[u]
      BY <1>t, <1>2, OthersKeepTheirCalls DEF Step
    <2> QED
      BY <1>q, <1>s, <2>1, <2>2
  <1>3. ASSUME NEW t \in Threads, SetOffset(t)
        PROVE  AnchorInv'
    <2>1. call'[t].at = "offset"
      BY <1>t, <1>3, GotoLemma DEF SetOffset, Places
    <2> QED
      BY <1>3, <1>s, <2>1 DEF SetOffset, AnchorsFollow
  <1>4. ASSUME NEW t \in Threads, SetAnchor(t)
        PROVE  AnchorInv'
    <2>1. library'.anchor = Frame(library.offset) /\ library'.offset = library.offset
      BY <1>t, <1>4 DEF SetAnchor
    <2> QED
      BY <1>4, <1>s, <2>1 DEF SetAnchor, AnchorsFollow
  <1>5. ASSUME NEW t \in Threads, NEW b \in {"HEOS", "SVDSBTL"}, Create(t, b)
        PROVE  AnchorInv'
    <2>1. /\ state'[t].own = library.offset /\ state'[t].anchor = library.anchor
          /\ \A u \in Threads \ {t} : state'[u] = state[u] /\ owes'[u] = owes[u]
          /\ (\E u \in Threads : Setting(u)) => owes'[t] = "unknown"
          /\ call[t].at = "idle" /\ UNCHANGED library
      BY <1>t, <1>5 DEF Create
    <2>2. owes'[t] # "unknown" => library.anchor = Frame(library.offset)
      BY <2>1 DEF AnchorsFollow, Setting
    <2>3. AnchorsInOwnFrame'
      BY <2>1, <2>2 DEF AnchorsInOwnFrame
    <2> QED
      BY <1>t, <1>5, <1>q, <2>1, <2>3, OthersKeepTheirCalls
  <1>6. ASSUME NEW t \in Threads, NEW r \in References, SetOwn(t, r)
        PROVE  AnchorInv'
    <2> DEFINE own == Shifted(state[t].own, Delta(r, state[t].own), r)
    <2>1. state'[t].own = own /\ state'[t].anchor = Frame(own) /\ UNCHANGED <<library, call>>
          /\ \A u \in Threads \ {t} : state'[u] = state[u] /\ owes'[u] = owes[u]
      BY <1>t, <1>6 DEF SetOwn, States
    <2> HIDE DEF own
    <2> QED
      BY <2>1 DEF AnchorsFollow, AnchorsInOwnFrame
  <1>7. CASE UNCHANGED vars
    BY <1>7 DEF vars, AnchorsFollow, AnchorsInOwnFrame
  <1> QED
    BY <1>1, <1>2, <1>3, <1>4, <1>5, <1>6, <1>7 DEF Next, Step

\* The anchors of a state made outside a change of the library are in the state's own
\* frame, and remain so through whatever it is told and whatever the library does later.
THEOREM AnchorsAreOwn == Spec => []AnchorsInOwnFrame
  <1>1. Init => TypeInv /\ AnchorInv
    BY TypeInit, AnchorInit
  <1>2. (TypeInv /\ AnchorInv) /\ [Next]_vars => (TypeInv /\ AnchorInv)'
    BY TypeStep, AnchorStep
  <1>3. AnchorInv => AnchorsInOwnFrame
    BY DEF AnchorInv
  <1> QED
    BY <1>1, <1>2, <1>3, PTL DEF Spec
====
