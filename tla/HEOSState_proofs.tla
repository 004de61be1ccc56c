---- MODULE HEOSState_proofs ----
(***************************************************************************)
(* Every history of calls on one HEOS state, for any choice of input       *)
(* pairs, of those with guesses, and of the phases the callers impose.     *)
(***************************************************************************)
EXTENDS HEOSState, TLAPS

Stages == {"idle", "flash", "solve", "bounds", "root", "legacy", "post"}
Ops == [stage : Stages, pair : AllPairs \cup {"direct", "superanc", "none"}, region : Phases \cup {"edge", "outside", "none"},
        q : {"zero", "one", "mid", "bad", "none"}, guess : BOOLEAN,
        entry : Phases \cup {"none"}, outcome : {"none", "ok", "failed"}]

\* The call under way keeps what was asked of it.
SameCall == /\ op' \in Ops
            /\ op'.pair = op.pair /\ op'.region = op.region /\ op'.q = op.q
            /\ op'.guess = op.guess /\ op'.entry = op.entry

\* Going on to the next stage, and throwing, change nothing else of the call.
LEMMA GotoLemma ==
    ASSUME op \in Ops, NEW s \in Stages, Goto(s)
    PROVE  SameCall /\ op'.stage = s /\ op'.outcome = op.outcome
  BY DEF Ops, Goto, Stages, SameCall

LEMMA ThrowLemma ==
    ASSUME op \in Ops, Throw
    PROVE  SameCall /\ op'.stage = "idle" /\ op'.outcome = "failed"
  BY DEF Ops, Throw, Stages, SameCall

\* A call that has succeeded is a call.
LEMMA DoneLemma ==
    ASSUME op \in Ops, op' = [op EXCEPT !.stage = "idle", !.outcome = "ok"]
    PROVE  op' \in Ops /\ op'.stage = "idle"
<1> DEFINE done == [op EXCEPT !.stage = "idle"]
<1>1. done \in Ops /\ done.stage = "idle"
  BY DEF Ops, Stages
<1>2. op' = [done EXCEPT !.outcome = "ok"]
  OBVIOUS
<1> HIDE DEF done
<1> QED BY <1>1, <1>2 DEF Ops

\* Setting one member of the values gives values.
LEMMA ExceptLemma ==
    ASSUME NEW w \in [Fields -> FieldValues], NEW f \in Fields, NEW a \in FieldValues
    PROVE  [w EXCEPT ![f] = a] \in [Fields -> FieldValues]
  OBVIOUS

\* The values a step leaves behind are values of the six members.
LEMMA ValuesLemma ==
    /\ Cleared \in [Fields -> FieldValues]
    /\ \A q \in FieldValues : AllSet(q) \in [Fields -> FieldValues]
    /\ \A rho, T \in FieldValues : Direct(rho, T) \in [Fields -> FieldValues]
    /\ \A pair, q, guess : Inputs(pair, q, guess) \in [Fields -> FieldValues]
<1>1. Cleared \in [Fields -> FieldValues]
  BY DEF Cleared, FieldValues
<1>2. \A q \in FieldValues : AllSet(q) \in [Fields -> FieldValues]
  BY DEF AllSet, FieldValues
<1>3. ASSUME NEW rho \in FieldValues, NEW T \in FieldValues
      PROVE  Direct(rho, T) \in [Fields -> FieldValues]
  <2> DEFINE p == IF rho = "exact" /\ T = "exact" THEN "exact" ELSE "wrong"
             w1 == [Cleared EXCEPT !["rho"] = rho]
             w2 == [w1 EXCEPT !["T"] = T]
             w3 == [w2 EXCEPT !["p"] = p]
             w4 == [w3 EXCEPT !["der"] = p]
  <2>0. p \in FieldValues /\ "rho" \in Fields /\ "T" \in Fields /\ "p" \in Fields /\ "der" \in Fields
    BY DEF Fields, FieldValues
  <2>d. Direct(rho, T) = w4
    BY DEF Direct
  <2> HIDE DEF p
  <2>1. w1 \in [Fields -> FieldValues]
    BY <1>1, <1>3, <2>0, ExceptLemma
  <2> HIDE DEF w1
  <2>2. w2 \in [Fields -> FieldValues]
    BY <1>3, <2>0, <2>1, ExceptLemma
  <2> HIDE DEF w2
  <2>3. w3 \in [Fields -> FieldValues]
    BY <2>0, <2>2, ExceptLemma
  <2> HIDE DEF w3
  <2>4. w4 \in [Fields -> FieldValues]
    BY <2>0, <2>3, ExceptLemma
  <2> QED BY <2>4, <2>d
<1>4. \A pair, q, guess : Inputs(pair, q, guess) \in [Fields -> FieldValues]
  BY DEF Inputs, FieldValues
<1> QED BY <1>1, <1>2, <1>3, <1>4

LEMMA CaloricLemma ==
    ASSUME v \in [Fields -> FieldValues]
    PROVE  Caloric \in FieldValues \cup {"throws"}
  BY DEF Caloric, Fields, FieldValues

\* A density, a temperature and a caloric value a solver has found.
Found(rho, T, x) == [Direct(rho, T) EXCEPT !.Q = "flag", !.x = x]

LEMMA FoundLemma ==
    ASSUME NEW rho \in FieldValues, NEW T \in FieldValues, NEW x \in FieldValues
    PROVE  Found(rho, T, x) \in [Fields -> FieldValues]
<1> DEFINE w == Direct(rho, T)
<1>1. w \in [Fields -> FieldValues]
  BY ValuesLemma
<1> HIDE DEF w
<1>2. [w EXCEPT !.Q = "flag", !.x = x] \in [Fields -> FieldValues]
  BY <1>1 DEF Fields, FieldValues
<1> QED BY <1>2 DEF w, Found

-----------------------------------------------------------------------------
(* Type correctness.  TypeOK alone is not inductive: the phase of some steps is   *)
(* the region of the call, and what keeps a region without a phase ("outside",    *)
(* "edge") away from them is where the calls with such a region are stopped.      *)

RegionOfPair ==
    op.stage # "idle" => op.pair \in AllPairs /\ op.region \in RegionsOf(op.pair)

\* A temperature and a caloric property with no solution reach the density solver,
\* which throws, or stay in the phase the caller has imposed.
OutsideUnsolved ==
    /\ op.pair = "HT" /\ op.stage = "flash" => v.p = "unset"
    /\ op.pair = "HT" /\ op.region = "outside" /\ op.stage = "solve" =>
          \/ imposed # "none"
          \/ v.p = "unset" /\ phase \in Single

TypeInv == TypeOK /\ RegionOfPair /\ OutsideUnsolved

LEMMA RegionLemma ==
    /\ \A pair \in AllPairs : RegionsOf(pair) \subseteq Phases \cup {"edge", "outside"}
    /\ \A pair \in AllPairs \ {"PT"} : "edge" \notin RegionsOf(pair)
    /\ "outside" \notin RegionsOf("DT") /\ "critical" \notin RegionsOf("DT")
  BY DEF RegionsOf, AllPairs, Phases, Single

\* Every step of a flash starts in a call, keeps it, and goes on.
LEMMA FlashLemma ==
    ASSUME op \in Ops, Flash
    PROVE  /\ op.stage # "idle"
           /\ SameCall
           /\ op'.stage \in {"idle", "solve", "bounds", "root", "legacy", "post"}
           /\ op'.outcome \in {op.outcome, "failed"}
           /\ asked' = asked /\ declared' = declared /\ always' = always
           /\ op'.stage = "solve" /\ op.pair = "HT" => TImposed \/ TImposedTwophase \/ TDetermine
<1>1. CASE PTCritical
  BY <1>1, GotoLemma, ThrowLemma DEF PTCritical, At, Histories, Stages
<1>2. CASE PTDetermine
  BY <1>2, GotoLemma, ThrowLemma DEF PTDetermine, At, Histories, Stages
<1>3. CASE PTRefuse
  BY <1>3, GotoLemma, ThrowLemma DEF PTRefuse, At, Histories, Stages
<1>4. CASE PTImposed
  BY <1>4, GotoLemma, ThrowLemma DEF PTImposed, At, Histories, Stages
<1>5. CASE PTSolve
  BY <1>5, GotoLemma, ThrowLemma DEF PTSolve, At, Histories, Stages
<1>6. CASE TImposed
  BY <1>6, GotoLemma, ThrowLemma DEF TImposed, At, Histories, Stages
<1>7. CASE TImposedRefuse
  BY <1>7, GotoLemma, ThrowLemma DEF TImposedRefuse, At, Histories, Stages
<1>8. CASE TImposedTwophase
  BY <1>8, GotoLemma, ThrowLemma DEF TImposedTwophase, At, Histories, Stages
<1>9. CASE TDetermine
  BY <1>9, GotoLemma, ThrowLemma DEF TDetermine, At, Histories, Stages
<1>10. CASE TKnown
  BY <1>10, GotoLemma, ThrowLemma DEF TKnown, At, Histories, Stages
<1>11. CASE TPressure
  BY <1>11, GotoLemma, ThrowLemma DEF TPressure, At, Histories, Stages
<1>12. CASE TSolve
  BY <1>12, GotoLemma, ThrowLemma DEF TSolve, At, Histories, Stages
<1>13. CASE PDetermine
  BY <1>13, GotoLemma, ThrowLemma DEF PDetermine, At, Histories, Stages
<1>14. CASE PRefuse
  BY <1>14, GotoLemma, ThrowLemma DEF PRefuse, At, Histories, Stages
<1>15. CASE DPSolve
  BY <1>15, GotoLemma, ThrowLemma DEF DPSolve, At, Histories, Stages
<1>16. CASE HPImpose
  BY <1>16, GotoLemma, ThrowLemma DEF HPImpose, At, Histories, Stages
<1>17. CASE HPBounds
  BY <1>17, GotoLemma, ThrowLemma DEF HPBounds, At, Histories, Stages
<1>18. CASE HPRoot
  BY <1>18, GotoLemma, ThrowLemma DEF HPRoot, At, Histories, Stages
<1>19. CASE QTFlash
  BY <1>19, GotoLemma, ThrowLemma DEF QTFlash, At, Histories, Stages
<1>20. CASE QSCritical
  BY <1>20, GotoLemma, ThrowLemma DEF QSCritical, At, Histories, Stages
<1>21. CASE HQRefuse
  BY <1>21, GotoLemma, ThrowLemma DEF HQRefuse, At, Histories, Stages
<1>22. CASE XQImpose
  BY <1>22, GotoLemma, ThrowLemma DEF XQImpose, At, Histories, Stages
<1>23. CASE XQSolve
  BY <1>23, GotoLemma, ThrowLemma DEF XQSolve, At, Histories, Stages
<1>24. CASE XQGuess
  BY <1>24, GotoLemma, ThrowLemma DEF XQGuess, At, Histories, Stages
<1>25. CASE XYHappy
  BY <1>25, GotoLemma, ThrowLemma DEF XYHappy, XYSolved, At, Histories, Stages
<1>26. CASE XYLegacy
  BY <1>26, GotoLemma, ThrowLemma DEF XYLegacy, At, Histories, Stages
<1>27. CASE PTGuess
  BY <1>27, GotoLemma, ThrowLemma DEF PTGuess, At, Histories, Stages
<1>28. CASE QTGuess
  BY <1>28, GotoLemma, ThrowLemma DEF QTGuess, At, Histories, Stages
<1> QED
  BY <1>1, <1>2, <1>3, <1>4, <1>5, <1>6, <1>7, <1>8, <1>9, <1>10, <1>11, <1>12, <1>13, <1>14, <1>15, <1>16, <1>17, <1>18, <1>19, <1>20, <1>21, <1>22, <1>23, <1>24, <1>25, <1>26, <1>27, <1>28 DEF Flash

LEMMA PhaseStep ==
    ASSUME TypeInv, Flash
    PROVE  /\ phase' \in Phases \cup {"unknown", "none"}
           /\ imposed' \in Phases \cup {"none"}
           /\ sat' \in {"unset", "exact", "wrong"}
<1>0. /\ phase \in Phases \cup {"unknown", "none"} /\ imposed \in Phases \cup {"none"}
      /\ sat \in {"unset", "exact", "wrong"}
      /\ op.stage # "idle" => op.region \in Phases \cup {"edge", "outside"}
      /\ op.stage # "idle" /\ op.pair # "PT" => op.region # "edge"
      /\ op.stage # "idle" /\ op.pair = "DT" => op.region # "outside"
  BY RegionLemma DEF TypeInv, TypeOK, RegionOfPair
<1>1. CASE PTCritical
  BY <1>0, <1>1 DEF PTCritical, At, Phases, Single
<1>2. CASE PTDetermine
  BY <1>0, <1>2 DEF PTDetermine, At, Phases, Single
<1>3. CASE PTRefuse
  BY <1>0, <1>3 DEF PTRefuse, At, Phases, Single
<1>4. CASE PTImposed
  BY <1>0, <1>4 DEF PTImposed, At, Phases, Single
<1>5. CASE PTSolve
  BY <1>0, <1>5 DEF PTSolve, At, Phases, Single
<1>6. CASE TImposed
  BY <1>0, <1>6 DEF TImposed, At, Phases, Single
<1>7. CASE TImposedRefuse
  BY <1>0, <1>7 DEF TImposedRefuse, At, Phases, Single
<1>8. CASE TImposedTwophase
  BY <1>0, <1>8 DEF TImposedTwophase, At, Phases, Single
<1>9. CASE TDetermine
  BY <1>0, <1>9 DEF TDetermine, At, Phases, Single
<1>10. CASE TKnown
  BY <1>0, <1>10 DEF TKnown, TRecalculated, TypeInv, OutsideUnsolved, At, Phases, Single
<1>11. CASE TPressure
  BY <1>0, <1>11 DEF TPressure, TRecalculated, At, Phases, Single
<1>12. CASE TSolve
  BY <1>0, <1>12 DEF TSolve, TRecalculated, At, Phases, Single
<1>13. CASE PDetermine
  BY <1>0, <1>13 DEF PDetermine, PGuesses, At, Phases, Single
<1>14. CASE PRefuse
  BY <1>0, <1>14 DEF PRefuse, At, Phases, Single
<1>15. CASE DPSolve
  BY <1>0, <1>15 DEF DPSolve, At, Phases, Single
<1>16. CASE HPImpose
  BY <1>0, <1>16 DEF HPImpose, At, Phases, Single
<1>17. CASE HPBounds
  BY <1>0, <1>17 DEF HPBounds, At, Phases, Single
<1>18. CASE HPRoot
  BY <1>0, <1>18 DEF HPRoot, At, Phases, Single
<1>19. CASE QTFlash
  BY <1>0, <1>19 DEF QTFlash, At, Phases, Single
<1>20. CASE QSCritical
  BY <1>0, <1>20 DEF QSCritical, At, Phases, Single
<1>21. CASE HQRefuse
  BY <1>0, <1>21 DEF HQRefuse, At, Phases, Single
<1>22. CASE XQImpose
  BY <1>0, <1>22 DEF XQImpose, At, Phases, Single
<1>23. CASE XQSolve
  BY <1>0, <1>23 DEF XQSolve, At, Phases, Single
<1>24. CASE XQGuess
  BY <1>0, <1>24 DEF XQGuess, At, Phases, Single
<1>25. CASE XYHappy
  BY <1>0, <1>25 DEF XYHappy, XYSolved, At, Phases, Single
<1>26. CASE XYLegacy
  BY <1>0, <1>26 DEF XYLegacy, At, Phases, Single
<1>27. CASE PTGuess
  BY <1>0, <1>27 DEF PTGuess, At, Phases, Single
<1>28. CASE QTGuess
  BY <1>0, <1>28 DEF QTGuess, At, Phases, Single
<1> QED
  BY <1>1, <1>2, <1>3, <1>4, <1>5, <1>6, <1>7, <1>8, <1>9, <1>10, <1>11, <1>12, <1>13, <1>14, <1>15, <1>16, <1>17, <1>18, <1>19, <1>20, <1>21, <1>22, <1>23, <1>24, <1>25, <1>26, <1>27, <1>28 DEF Flash

LEMMA ValueStep ==
    ASSUME TypeOK, Flash
    PROVE  v' \in [Fields -> FieldValues]
<1>0. v \in [Fields -> FieldValues] /\ sat \in FieldValues
  BY DEF TypeOK, FieldValues
<1>1. CASE PTCritical
  BY <1>0, <1>1, ValuesLemma, ExceptLemma DEF PTCritical, Fields, FieldValues
<1>2. CASE PTDetermine
  BY <1>0, <1>2, ValuesLemma, ExceptLemma DEF PTDetermine, Fields, FieldValues
<1>3. CASE PTRefuse
  BY <1>0, <1>3, ValuesLemma, ExceptLemma DEF PTRefuse, Fields, FieldValues
<1>4. CASE PTImposed
  BY <1>0, <1>4, ValuesLemma, ExceptLemma DEF PTImposed, Fields, FieldValues
<1>5. CASE PTSolve
  <2>1. \/ \E rho \in {"exact", "wrong"} : v' = [Direct(rho, "exact") EXCEPT !.Q = "flag"]
        \/ v' = v
        \/ v' = Direct("wrong", "exact")
    BY <1>5 DEF PTSolve
  <2>2. \A rho \in {"exact", "wrong"} : [Direct(rho, "exact") EXCEPT !.Q = "flag"] \in [Fields -> FieldValues]
    BY ValuesLemma, ExceptLemma DEF Fields, FieldValues
  <2>3. Direct("wrong", "exact") \in [Fields -> FieldValues]
    BY ValuesLemma DEF FieldValues
  <2> QED BY ONLY <1>0, <2>1, <2>2, <2>3
<1>6. CASE TImposed
  BY <1>0, <1>6, ValuesLemma, ExceptLemma DEF TImposed, Fields, FieldValues
<1>7. CASE TImposedRefuse
  BY <1>0, <1>7, ValuesLemma, ExceptLemma DEF TImposedRefuse, Fields, FieldValues
<1>8. CASE TImposedTwophase
  BY <1>0, <1>8, ValuesLemma, ExceptLemma DEF TImposedTwophase, Fields, FieldValues
<1>9. CASE TDetermine
  <2>1. \/ v' = [v EXCEPT !.Q = "exact", !.p = "exact", !.rho = "exact"]
        \/ v' = [v EXCEPT !.Q = "flag"]
    BY <1>9 DEF TDetermine
  <2> QED BY <1>0, <2>1, ExceptLemma DEF Fields, FieldValues
<1>10. CASE TKnown
  BY <1>0, <1>10, ValuesLemma, ExceptLemma DEF TKnown, Fields, FieldValues
<1>11. CASE TPressure
  BY <1>0, <1>11, ValuesLemma, ExceptLemma DEF TPressure, Fields, FieldValues
<1>12. CASE TSolve
  <2>1. \/ \E rho \in {"exact", "wrong"} : v' = Found(rho, "exact", rho)
        \/ v' = v
        \/ v' = [Direct("wrong", "exact") EXCEPT !.x = "wrong"]
    BY <1>12 DEF TSolve, Found
  <2>2. [Direct("wrong", "exact") EXCEPT !.x = "wrong"] \in [Fields -> FieldValues]
    BY ValuesLemma, ExceptLemma DEF Fields, FieldValues
  <2>3. \A rho \in {"exact", "wrong"} : Found(rho, "exact", rho) \in [Fields -> FieldValues]
    BY FoundLemma DEF FieldValues
  <2> QED BY ONLY <1>0, <2>1, <2>2, <2>3
<1>13. CASE PDetermine
  <2>1. \/ v' = [v EXCEPT !.T = "exact", !.Q = "exact", !.rho = "exact"]
        \/ v' = [v EXCEPT !.Q = "flag"]
        \/ v' = v
    BY <1>13 DEF PDetermine
  <2> QED BY <1>0, <2>1, ExceptLemma DEF Fields, FieldValues
<1>14. CASE PRefuse
  BY <1>0, <1>14, ValuesLemma, ExceptLemma DEF PRefuse, Fields, FieldValues
<1>15. CASE DPSolve
  BY <1>0, <1>15, ValuesLemma, ExceptLemma DEF DPSolve, Fields, FieldValues
<1>16. CASE HPImpose
  BY <1>0, <1>16, ValuesLemma, ExceptLemma DEF HPImpose, Fields, FieldValues
<1>17. CASE HPBounds
  BY <1>0, <1>17, ValuesLemma, ExceptLemma DEF HPBounds, Fields, FieldValues
<1>18. CASE HPRoot
  <2>1. \/ \E r \in {"exact", "wrong"} : v' = Found(r, r, "exact")
        \/ v' = v
        \/ v' = Direct("wrong", "wrong")
    BY <1>18 DEF HPRoot, Found
  <2> QED BY <1>0, <2>1, ValuesLemma, FoundLemma, ExceptLemma DEF Fields, FieldValues
<1>19. CASE QTFlash
  BY <1>0, <1>19, ValuesLemma, ExceptLemma DEF QTFlash, Fields, FieldValues
<1>20. CASE QSCritical
  BY <1>0, <1>20, ValuesLemma, ExceptLemma DEF QSCritical, Fields, FieldValues
<1>21. CASE HQRefuse
  BY <1>0, <1>21, ValuesLemma, ExceptLemma DEF HQRefuse, Fields, FieldValues
<1>22. CASE XQImpose
  BY <1>0, <1>22, ValuesLemma, ExceptLemma DEF XQImpose, Fields, FieldValues
<1>23. CASE XQSolve
  BY <1>0, <1>23, ValuesLemma, ExceptLemma DEF XQSolve, XQSolved, Fields, FieldValues
<1>24. CASE XQGuess
  BY <1>0, <1>24, ValuesLemma, ExceptLemma DEF XQGuess, Fields, FieldValues
<1>25. CASE XYHappy
  <2>1. \/ v' = [AllSet("exact") EXCEPT !.x = "exact"]
        \/ v' = Found("exact", "exact", "exact")
        \/ v' = Restored
    BY <1>25 DEF XYHappy, XYSolved, Found
  <2>2. Restored \in [Fields -> FieldValues]
    BY DEF Restored, Fields, FieldValues
  <2>3. [AllSet("exact") EXCEPT !.x = "exact"] \in [Fields -> FieldValues]
    BY ValuesLemma, ExceptLemma DEF Fields, FieldValues
  <2>4. Found("exact", "exact", "exact") \in [Fields -> FieldValues]
    BY FoundLemma DEF FieldValues
  <2> QED BY ONLY <2>1, <2>2, <2>3, <2>4
<1>26. CASE XYLegacy
  BY <1>0, <1>26, ValuesLemma, ExceptLemma DEF XYLegacy, Fields, FieldValues
<1>27. CASE PTGuess
  <2>1. \/ \E rho \in {"exact", "wrong"} : v' = [Direct(rho, "exact") EXCEPT !.Q = "flag"]
        \/ v' = v
        \/ v' = Direct("wrong", "exact")
    BY <1>27 DEF PTGuess
  <2>2. \A rho \in {"exact", "wrong"} : [Direct(rho, "exact") EXCEPT !.Q = "flag"] \in [Fields -> FieldValues]
    BY ValuesLemma, ExceptLemma DEF Fields, FieldValues
  <2>3. Direct("wrong", "exact") \in [Fields -> FieldValues]
    BY ValuesLemma DEF FieldValues
  <2> QED BY ONLY <1>0, <2>1, <2>2, <2>3
<1>28. CASE QTGuess
  BY <1>0, <1>28, ValuesLemma, ExceptLemma DEF QTGuess, Fields, FieldValues
<1> QED
  BY <1>1, <1>2, <1>3, <1>4, <1>5, <1>6, <1>7, <1>8, <1>9, <1>10, <1>11, <1>12, <1>13, <1>14, <1>15, <1>16, <1>17, <1>18, <1>19, <1>20, <1>21, <1>22, <1>23, <1>24, <1>25, <1>26, <1>27, <1>28 DEF Flash

LEMMA TypeInvStep ==
    ASSUME TypeInv, [Next]_vars
    PROVE  TypeInv'
<1> USE HEOSAssumption
<1>0. op \in Ops /\ v \in [Fields -> FieldValues]
  BY DEF TypeInv, TypeOK, Ops, Stages
<1>1. CASE Flash
  <2>1. TypeOK'
    BY <1>0, <1>1, FlashLemma, PhaseStep, ValueStep DEF TypeInv, TypeOK, SameCall, Ops, Stages
  <2>2. RegionOfPair'
    BY <1>0, <1>1, FlashLemma DEF TypeInv, RegionOfPair, SameCall
  <2>3. OutsideUnsolved'
    <3>1. op'.pair = op.pair /\ op'.region = op.region /\ op'.stage # "flash"
      BY <1>0, <1>1, FlashLemma DEF SameCall
    <3>2. SUFFICES ASSUME op.pair = "HT", op.region = "outside", op'.stage = "solve"
                   PROVE  imposed' # "none" \/ (v'.p = "unset" /\ phase' \in Single)
      BY <3>1 DEF OutsideUnsolved
    <3>3. CASE TImposed \/ TImposedTwophase
      BY <3>3 DEF TImposed, TImposedTwophase
    <3>4. CASE TDetermine
      <4>1. v.p = "unset"
        BY <3>2, <3>4 DEF TDetermine, At, TypeInv, OutsideUnsolved
      <4> QED
        BY <1>0, <3>2, <3>4, <4>1 DEF TDetermine, Single, Fields
    <3> QED BY <1>0, <1>1, <3>2, <3>3, <3>4, FlashLemma
  <2> QED BY <2>1, <2>2, <2>3 DEF TypeInv
<1>2. ASSUME NEW ph \in Imposable, Specify(ph) PROVE TypeInv'
  BY <1>2 DEF Specify, TypeInv, TypeOK, RegionOfPair, OutsideUnsolved, Phases
<1>3. CASE Unspecify
  BY <1>3 DEF Unspecify, TypeInv, TypeOK, RegionOfPair, OutsideUnsolved, Phases
<1>4. CASE Read
  <2>1. v' \in [Fields -> FieldValues]
    BY <1>0, <1>4, CaloricLemma, ExceptLemma DEF Read, Fields
  <2> QED BY <1>4, <2>1 DEF Read, Histories, TypeInv, TypeOK, RegionOfPair, OutsideUnsolved
<1>5. ASSUME NEW pair \in Pairs, NEW region \in RegionsOf(pair), NEW q \in QualitiesOf(pair),
             NEW guess \in {FALSE} \cup {pair \in Guessed}, Begin(pair, region, q, guess)
      PROVE  TypeInv'
  <2>1. /\ op' \in Ops /\ op'.pair = pair /\ op'.region = region /\ op'.stage \in {"idle", "flash"}
        /\ op'.outcome = IF q = "bad" THEN "failed" ELSE "none"
    BY <1>5, RegionLemma DEF Begin, InForce, Ops, Stages, QualitiesOf, TypeInv, TypeOK, Phases, Single
  <2>2. TypeOK'
    BY <1>5, <2>1, ValuesLemma DEF Begin, Started, TypeInv, TypeOK, Ops, Stages, Aged
  <2>3. pair = "HT" => v'.p = "unset"
    BY <1>5 DEF Begin, Inputs, Given, Fields
  <2> QED BY <2>1, <2>2, <2>3 DEF TypeInv, RegionOfPair, OutsideUnsolved
<1>6. CASE PostUpdate
  <2>1. op' \in Ops /\ op'.stage = "idle"
    BY <1>0, <1>6, ThrowLemma, DoneLemma DEF PostUpdate, SameCall
  <2> QED BY <1>6, <2>1 DEF PostUpdate, TypeInv, TypeOK, RegionOfPair, OutsideUnsolved, Ops, Stages, Histories
<1>7. CASE UNCHANGED vars
  BY <1>7 DEF vars, TypeInv, TypeOK, RegionOfPair, OutsideUnsolved, Caloric
<1>8. ASSUME NEW region \in RegionsOf("DT"), DirectDT(region)
      PROVE  TypeInv'
  <2>1. op' \in Ops /\ op'.stage = "idle"
    BY <1>8, RegionLemma DEF DirectDT, Direction, Ops, Stages, AllPairs, TypeInv, TypeOK
  <2>2. v' \in [Fields -> FieldValues]
    BY <1>8, ValuesLemma DEF DirectDT, FieldValues
  <2> QED BY <1>8, <2>1, <2>2 DEF DirectDT, Started, Aged, TypeInv, TypeOK, RegionOfPair, OutsideUnsolved, Ops, Stages
<1>9. ASSUME NEW region \in RegionsOf("QT"), NEW q \in QualitiesOf("QT"), SuperancQT(region, q)
      PROVE  TypeInv'
  <2>0. \E outcome \in {"ok", "failed"} : op' = Direction("superanc", region, q, outcome)
    BY <1>9 DEF SuperancQT
  <2>1. op' \in Ops /\ op'.stage = "idle"
    BY <2>0, RegionLemma DEF Direction, Ops, Stages, AllPairs, QualitiesOf, TypeInv, TypeOK, Given
  <2>2. v' \in [Fields -> FieldValues]
    <3>1. \E a, b \in FieldValues : \/ v' = [AllSet(a) EXCEPT !.rho = b]
                                   \/ v' = [Cleared EXCEPT !.Q = a, !.T = b]
      <4>1. CASE region = "twophase"
        BY <1>9, <4>1 DEF SuperancQT, FieldValues
      <4>2. CASE region # "twophase"
        BY <1>9, <4>2 DEF SuperancQT, FieldValues
      <4> QED BY <4>1, <4>2
    <3>2. \A a, b \in FieldValues : /\ [AllSet(a) EXCEPT !.rho = b] \in [Fields -> FieldValues]
                                   /\ [Cleared EXCEPT !.Q = a, !.T = b] \in [Fields -> FieldValues]
      BY ValuesLemma, ExceptLemma DEF Fields
    <3> QED BY <3>1, <3>2
  <2> QED BY <1>9, <2>1, <2>2 DEF SuperancQT, Started, Aged, TypeInv, TypeOK, RegionOfPair, OutsideUnsolved, Ops, Stages, Phases
<1> QED
  BY <1>1, <1>2, <1>3, <1>4, <1>5, <1>6, <1>7, <1>8, <1>9 DEF Next

-----------------------------------------------------------------------------
(* The caller who has been refused.                                        *)

\* Nothing of the refused call, and nothing a read has computed since, is a number.
RefusedIsEmpty ==
    op.q = "bad" /\ op.pair \in AllPairs /\ ~op.guess =>
        /\ op.stage = "idle"
        /\ v.T = "unset" /\ v.rho = "unset" /\ v.Q = "unset"
        /\ v.x \in {"unset", "nan"}

LEMMA RefusedStep ==
    ASSUME TypeInv, RefusedIsEmpty, [Next]_vars
    PROVE  RefusedIsEmpty'
<1>0. op \in Ops /\ v \in [Fields -> FieldValues]
  BY DEF TypeInv, TypeOK, Ops, Stages
<1>1. CASE Flash
  BY <1>0, <1>1, FlashLemma DEF RefusedIsEmpty, SameCall
<1>2. CASE \E ph \in Imposable : Specify(ph)
  BY <1>2 DEF Specify, RefusedIsEmpty
<1>3. CASE Unspecify
  BY <1>3 DEF Unspecify, RefusedIsEmpty
<1>4. CASE Read
  BY <1>0, <1>4 DEF Read, RefusedIsEmpty, Caloric, Fields
<1>5. ASSUME NEW pair \in Pairs, NEW region \in RegionsOf(pair), NEW q \in QualitiesOf(pair),
             NEW guess \in {FALSE} \cup {pair \in Guessed}, Begin(pair, region, q, guess)
      PROVE  RefusedIsEmpty'
  BY <1>5 DEF Begin, Inputs, Fields, RefusedIsEmpty
<1>6. CASE PostUpdate
  BY <1>0, <1>6 DEF PostUpdate, RefusedIsEmpty, Throw, Ops
<1>7. CASE UNCHANGED vars
  BY <1>7 DEF vars, RefusedIsEmpty
<1>8. CASE \E region \in RegionsOf("DT") : DirectDT(region)
  BY <1>8 DEF DirectDT, Direction, RefusedIsEmpty, AllPairs
<1>9. CASE \E region \in RegionsOf("QT"), q \in QualitiesOf("QT") : SuperancQT(region, q)
  BY <1>9 DEF SuperancQT, Direction, RefusedIsEmpty, AllPairs
<1> QED
  BY <1>1, <1>2, <1>3, <1>4, <1>5, <1>6, <1>7, <1>8, <1>9 DEF Next

-----------------------------------------------------------------------------
(* The phase a solve imposes on itself.                                    *)

\* Only the pressure and caloric solve has its own phase imposed between two steps,
\* and only until it has tried the bounds and the root.
GuessUnderWay ==
    op.pair = "HP" /\ (op.stage \in {"bounds", "root"} \/ (op.stage = "idle" /\ op.outcome = "failed"))

OwnPhaseOnly ==
    (op.stage # "idle" \/ ~declared) /\ op.pair \notin {"DQ", "HQ", "QS"} /\ ~GuessUnderWay
        => imposed \in {"none", op.entry}

\* What the steps of a flash do to the imposed phase.
LEMMA ImposedLemma ==
    ASSUME op \in Ops, Flash
    PROVE  /\ imposed' \in {imposed, "none"} \/ HPImpose \/ XQImpose \/ XQGuess
           /\ op.pair = "HP" /\ op.stage \in {"bounds", "root"} => HPBounds \/ HPRoot
<1>1. CASE PTCritical
  BY <1>1 DEF PTCritical, At
<1>2. CASE PTDetermine
  BY <1>2 DEF PTDetermine, At
<1>3. CASE PTRefuse
  BY <1>3 DEF PTRefuse, At
<1>4. CASE PTImposed
  BY <1>4 DEF PTImposed, At
<1>5. CASE PTSolve
  BY <1>5 DEF PTSolve, At
<1>6. CASE TImposed
  BY <1>6 DEF TImposed, At
<1>7. CASE TImposedRefuse
  BY <1>7 DEF TImposedRefuse, At
<1>8. CASE TImposedTwophase
  BY <1>8 DEF TImposedTwophase, At
<1>9. CASE TDetermine
  BY <1>9 DEF TDetermine, At
<1>10. CASE TKnown
  BY <1>10 DEF TKnown, At
<1>11. CASE TPressure
  BY <1>11 DEF TPressure, At
<1>12. CASE TSolve
  BY <1>12 DEF TSolve, At
<1>13. CASE PDetermine
  BY <1>13 DEF PDetermine, At
<1>14. CASE PRefuse
  BY <1>14 DEF PRefuse, At
<1>15. CASE DPSolve
  BY <1>15 DEF DPSolve, At
<1>16. CASE HPImpose
  BY <1>16 DEF HPImpose, At
<1>17. CASE HPBounds
  BY <1>17 DEF HPBounds, At
<1>18. CASE HPRoot
  BY <1>18 DEF HPRoot, At
<1>19. CASE QTFlash
  BY <1>19 DEF QTFlash, At
<1>20. CASE QSCritical
  BY <1>20 DEF QSCritical, At
<1>21. CASE HQRefuse
  BY <1>21 DEF HQRefuse, At
<1>22. CASE XQImpose
  BY <1>22 DEF XQImpose, At
<1>23. CASE XQSolve
  BY <1>23 DEF XQSolve, At
<1>24. CASE XQGuess
  BY <1>24 DEF XQGuess, At
<1>25. CASE XYHappy
  BY <1>25 DEF XYHappy, XYSolved, At
<1>26. CASE XYLegacy
  BY <1>26 DEF XYLegacy, At
<1>27. CASE PTGuess
  BY <1>27 DEF PTGuess, At
<1>28. CASE QTGuess
  BY <1>28 DEF QTGuess, At
<1> QED
  BY <1>1, <1>2, <1>3, <1>4, <1>5, <1>6, <1>7, <1>8, <1>9, <1>10, <1>11, <1>12, <1>13, <1>14, <1>15, <1>16, <1>17, <1>18, <1>19, <1>20, <1>21, <1>22, <1>23, <1>24, <1>25, <1>26, <1>27, <1>28 DEF Flash

LEMMA GuessStep ==
    ASSUME TypeInv, OwnPhaseOnly, [Next]_vars
    PROVE  OwnPhaseOnly'
<1>0. op \in Ops
  BY DEF TypeInv, TypeOK, Ops, Stages
<1>1. CASE Flash
  <2>1. /\ op.stage # "idle" /\ op'.pair = op.pair /\ op'.entry = op.entry
    BY <1>0, <1>1, FlashLemma DEF SameCall
  <2>2. CASE HPImpose
    BY <1>0, <2>1, <2>2, GotoLemma DEF HPImpose, At, Stages, OwnPhaseOnly, GuessUnderWay
  <2>3. CASE XQImpose \/ XQGuess
    BY <2>1, <2>3 DEF XQImpose, XQGuess, At, OwnPhaseOnly
  <2>4. CASE HPBounds
    BY <1>0, <2>1, <2>4, GotoLemma, ThrowLemma DEF HPBounds, At, Stages, OwnPhaseOnly, GuessUnderWay
  <2>5. CASE HPRoot
    BY <2>5 DEF HPRoot, OwnPhaseOnly
  <2>6. CASE imposed' \in {imposed, "none"} /\ ~HPBounds /\ ~HPRoot
    BY <1>0, <1>1, <2>1, <2>6, ImposedLemma DEF OwnPhaseOnly, GuessUnderWay
  <2> QED BY <1>0, <1>1, <2>2, <2>3, <2>4, <2>5, <2>6, ImposedLemma
<1>2. CASE \E ph \in Imposable : Specify(ph)
  BY <1>2 DEF Specify, OwnPhaseOnly
<1>3. CASE Unspecify
  BY <1>3 DEF Unspecify, OwnPhaseOnly
<1>4. CASE Read
  BY <1>4 DEF Read, Histories, OwnPhaseOnly, GuessUnderWay
<1>5. ASSUME NEW pair \in Pairs, NEW region \in RegionsOf(pair), NEW q \in QualitiesOf(pair),
             NEW guess \in {FALSE} \cup {pair \in Guessed}, Begin(pair, region, q, guess)
      PROVE  OwnPhaseOnly'
  BY <1>5 DEF Begin, InForce, OwnPhaseOnly, TypeInv, TypeOK
<1>6. CASE PostUpdate
  BY <1>0, <1>6 DEF PostUpdate, Throw, Ops, OwnPhaseOnly, GuessUnderWay, Histories
<1>7. CASE UNCHANGED vars
  BY <1>7 DEF vars, OwnPhaseOnly, GuessUnderWay
<1>8. CASE \E region \in RegionsOf("DT") : DirectDT(region)
  BY <1>8 DEF DirectDT, Direction, Started, OwnPhaseOnly
<1>9. CASE \E region \in RegionsOf("QT"), q \in QualitiesOf("QT") : SuperancQT(region, q)
  BY <1>9 DEF SuperancQT, Direction, Started, OwnPhaseOnly
<1> QED
  BY <1>1, <1>2, <1>3, <1>4, <1>5, <1>6, <1>7, <1>8, <1>9 DEF Next

-----------------------------------------------------------------------------
(* The caller who goes round the phase determination.                      *)

\* The density and the temperature are the call's, and there is no quality with which
\* a two-phase value could be made of old saturation states.
DirectIsOwn ==
    op.pair = "direct" =>
        /\ op.stage = "idle"
        /\ v.T = "exact" /\ v.rho = "exact" /\ v.der = "exact" /\ v.Q = "unset"
        /\ v.x \in {"unset", "exact", "nan"}

LEMMA DirectStep ==
    ASSUME TypeInv, DirectIsOwn, [Next]_vars
    PROVE  DirectIsOwn'
<1> USE HEOSAssumption
<1>0. op \in Ops /\ v \in [Fields -> FieldValues]
  BY DEF TypeInv, TypeOK, Ops, Stages
<1>1. CASE Flash
  BY <1>0, <1>1, FlashLemma DEF DirectIsOwn, SameCall
<1>2. CASE \E ph \in Imposable : Specify(ph)
  BY <1>2 DEF Specify, DirectIsOwn
<1>3. CASE Unspecify
  BY <1>3 DEF Unspecify, DirectIsOwn
<1>4. CASE Read
  BY <1>0, <1>4 DEF Read, Histories, DirectIsOwn, Caloric, Fields
<1>5. ASSUME NEW pair \in Pairs, NEW region \in RegionsOf(pair), NEW q \in QualitiesOf(pair),
             NEW guess \in {FALSE} \cup {pair \in Guessed}, Begin(pair, region, q, guess)
      PROVE  DirectIsOwn'
  BY <1>5 DEF Begin, DirectIsOwn, AllPairs
<1>6. CASE PostUpdate
  BY <1>0, <1>6 DEF PostUpdate, DirectIsOwn, Throw, Ops
<1>7. CASE UNCHANGED vars
  BY <1>7 DEF vars, DirectIsOwn
<1>8. CASE \E region \in RegionsOf("DT") : DirectDT(region)
  BY <1>8 DEF DirectDT, Direction, Direct, Cleared, Fields, DirectIsOwn
<1>9. CASE \E region \in RegionsOf("QT"), q \in QualitiesOf("QT") : SuperancQT(region, q)
  <2>1. op'.pair = "superanc"
    BY <1>9 DEF SuperancQT, Direction
  <2> QED BY <2>1 DEF DirectIsOwn
<1> QED
  BY <1>1, <1>2, <1>3, <1>4, <1>5, <1>6, <1>7, <1>8, <1>9 DEF Next

-----------------------------------------------------------------------------
(* The result of a successful update is that of its own inputs.            *)

\* The call is of the kind whose answer is promised.
Trusted ==
    /\ op.entry = "none" \/ Fits(op.entry, op.region)
    /\ op.region # "outside"
    /\ ~(op.pair = "DT" /\ op.entry = "twophase")

\* A flash starts with the inputs, and nothing else, and the phase in force is the
\* imposed one, but for a density solve with a guess.
StartsClean ==
    op.stage = "flash" =>
        /\ \A f \in Fields : v[f] = IF f \in Given[op.pair] THEN "exact" ELSE "unset"
        /\ op.entry = imposed \/ (op.pair = "PT" /\ op.guess)

\* Between its steps, what each flash has established.
PTUnderWay ==
    op.stage = "solve" /\ op.pair = "PT" =>
        /\ op.entry = imposed
        /\ op.region # "critical"
        /\ IF imposed = "none" THEN phase = op.region /\ phase \in Single ELSE phase = imposed

TUnderWay ==
    op.stage = "solve" /\ op.pair \in {"DT", "HT"} /\ Trusted =>
        /\ v.T = "exact"
        /\ IF op.pair = "HT" THEN v.x = "exact" ELSE v.x = "unset" /\ v.rho = "exact"
        /\ \/ /\ op.region = "twophase" /\ phase = "twophase" /\ sat = "exact"
              /\ v.Q = "exact" /\ v.p = "exact" /\ v.rho = "exact"
           \/ /\ op.region \in Single /\ phase \in Single /\ v.p = "unset"
              /\ imposed # "none" => imposed = op.region /\ phase = op.region

PUnderWay ==
    op.pair \in {"DP", "HP"} /\ op.stage \in {"solve", "bounds", "root"} /\ Trusted =>
        /\ op.region \in Single
        /\ op.stage = "solve" => op.entry = imposed /\ phase \in PGuesses(op.region)
        /\ op.stage # "solve" => \/ imposed = "none" \/ Fits(imposed, op.region)
                                 \/ imposed = "gas" /\ op.region = "sc"

XUnderWay ==
    /\ op.stage = "solve" /\ op.pair \in {"DQ", "HQ", "QS"} => v.x \in {"unset", "exact"}
    /\ op.stage = "legacy" => \A f \in Given[op.pair] : v[f] = "exact"

\* What the flash hands to post_update.
FlashRight == op.stage = "post" /\ Trusted => Right

AnswerInv ==
    /\ StartsClean /\ PTUnderWay /\ TUnderWay /\ PUnderWay /\ XUnderWay
    /\ FlashRight /\ AnswersTheCall

\* When the state describes the point.
LEMMA RightLemma ==
    ASSUME v'.T = "exact", v'.p = "exact", v'.rho = "exact", PhaseRight',
           \/ phase' = "twophase" /\ v'.Q = "exact" /\ sat' = "exact" /\ v'.x \in {"unset", "exact"}
           \/ phase' \in Single /\ (v'.x = "exact" \/ (v'.x = "unset" /\ v'.der # "wrong"))
    PROVE  Right'
<1>1. CASE phase' = "twophase" /\ v'.Q = "exact" /\ sat' = "exact" /\ v'.x \in {"unset", "exact"}
  <2>1. Caloric' = "exact"
    BY <1>1 DEF Caloric, Single
  <2> QED BY <1>1, <2>1 DEF Right
<1>2. CASE phase' \in Single /\ (v'.x = "exact" \/ (v'.x = "unset" /\ v'.der # "wrong"))
  <2>1. Caloric' = "exact" /\ phase' # "twophase"
    BY <1>2 DEF Caloric, Single
  <2> QED BY <1>2, <2>1 DEF Right
<1> QED BY <1>1, <1>2

\* What a solver leaves that has found both the density and the temperature.
LEMMA SolvedLemma ==
    /\ LET w == [Direct("exact", "exact") EXCEPT !.Q = "flag"]
       IN  w.T = "exact" /\ w.p = "exact" /\ w.rho = "exact" /\ w.der = "exact" /\ w.x = "unset"
    /\ LET w == Found("exact", "exact", "exact")
       IN  w.T = "exact" /\ w.p = "exact" /\ w.rho = "exact" /\ w.der = "exact" /\ w.x = "exact"
<1> DEFINE d == Direct("exact", "exact")
<1>1. d \in [Fields -> FieldValues]
  BY ValuesLemma DEF FieldValues
<1>2. d.T = "exact" /\ d.p = "exact" /\ d.rho = "exact" /\ d.der = "exact" /\ d.x = "unset"
  BY DEF Direct, Cleared, Fields
<1> HIDE DEF d
<1>3. LET w == [d EXCEPT !.Q = "flag"]
      IN  w.T = "exact" /\ w.p = "exact" /\ w.rho = "exact" /\ w.der = "exact" /\ w.x = "unset"
  BY <1>1, <1>2
<1>4. LET w == [d EXCEPT !.Q = "flag", !.x = "exact"]
      IN  w.T = "exact" /\ w.p = "exact" /\ w.rho = "exact" /\ w.der = "exact" /\ w.x = "exact"
  BY <1>1, <1>2 DEF Fields
<1> QED BY <1>3, <1>4 DEF d, Found

LEMMA SaturatedLemma ==
    /\ LET w == AllSet("exact")
       IN  w.T = "exact" /\ w.p = "exact" /\ w.rho = "exact" /\ w.Q = "exact" /\ w.x = "unset"
    /\ \A x \in FieldValues :
        LET w == [AllSet("exact") EXCEPT !.x = x]
        IN  w.T = "exact" /\ w.p = "exact" /\ w.rho = "exact" /\ w.Q = "exact" /\ w.x = x
<1> DEFINE d == AllSet("exact")
<1>1. d \in [Fields -> FieldValues]
  BY ValuesLemma DEF FieldValues
<1>2. d.T = "exact" /\ d.p = "exact" /\ d.rho = "exact" /\ d.Q = "exact" /\ d.x = "unset"
  BY DEF AllSet, Fields
<1> HIDE DEF d
<1>3. \A x \in FieldValues :
        LET w == [d EXCEPT !.x = x]
        IN  w.T = "exact" /\ w.p = "exact" /\ w.rho = "exact" /\ w.Q = "exact" /\ w.x = x
  BY <1>1, <1>2 DEF Fields
<1> QED BY <1>2, <1>3 DEF d

\* A solver's state outside the dome, and a state in it, answer the call.
LEMMA SingleAnswer ==
    ASSUME PhaseRight', phase' \in Single,
           \/ v' = [Direct("exact", "exact") EXCEPT !.Q = "flag"]
           \/ v' = Found("exact", "exact", "exact")
    PROVE  Right'
<1>1. v'.T = "exact" /\ v'.p = "exact" /\ v'.rho = "exact" /\ v'.der = "exact" /\ v'.x \in {"unset", "exact"}
  BY SolvedLemma
<1> QED BY <1>1, RightLemma

LEMMA DomeAnswer ==
    ASSUME PhaseRight', phase' = "twophase", sat' = "exact",
           \/ v' = AllSet("exact")
           \/ \E x \in {"unset", "exact"} : v' = [AllSet("exact") EXCEPT !.x = x]
    PROVE  Right'
<1>1. v'.T = "exact" /\ v'.p = "exact" /\ v'.rho = "exact" /\ v'.Q = "exact" /\ v'.x \in {"unset", "exact"}
  <2>1. CASE v' = AllSet("exact")
    BY <2>1, SaturatedLemma
  <2>2. ASSUME NEW x \in {"unset", "exact"}, v' = [AllSet("exact") EXCEPT !.x = x]
        PROVE  v'.T = "exact" /\ v'.p = "exact" /\ v'.rho = "exact" /\ v'.Q = "exact" /\ v'.x = x
    <3>1. x \in FieldValues
      BY DEF FieldValues
    <3> QED BY <2>2, <3>1, SaturatedLemma
  <2> QED BY <2>1, <2>2
<1> QED BY <1>1, RightLemma

\* A step that ends the call with an exception, hands its result on, or goes on.
LEMMA FailedLemma ==
    ASSUME op \in Ops, Throw
    PROVE  AnswerInv'
<1>1. op'.stage = "idle" /\ op'.outcome = "failed"
  BY ThrowLemma
<1> QED BY <1>1 DEF AnswerInv, StartsClean, PTUnderWay, TUnderWay, PUnderWay, XUnderWay, FlashRight, AnswersTheCall, Answered

LEMMA PostLemma ==
    ASSUME op \in Ops, Goto("post"), Trusted => Right'
    PROVE  AnswerInv'
<1>1. SameCall /\ op'.stage = "post"
  BY GotoLemma DEF Stages
<1>2. Trusted' => Trusted
  BY <1>1 DEF SameCall, Trusted
<1> QED
  BY <1>1, <1>2 DEF AnswerInv, StartsClean, PTUnderWay, TUnderWay, PUnderWay, XUnderWay, FlashRight, AnswersTheCall, Answered

LEMMA MidLemma ==
    ASSUME op \in Ops, NEW s \in {"solve", "bounds", "root", "legacy"}, Goto(s),
           PTUnderWay', TUnderWay', PUnderWay', XUnderWay'
    PROVE  AnswerInv'
<1>1. op'.stage = s
  BY GotoLemma DEF Stages
<1> QED BY <1>1 DEF AnswerInv, StartsClean, FlashRight, AnswersTheCall, Answered

\* What the phase in force is when it is trusted.
LEMMA TrustLemma ==
    ASSUME Trusted
    PROVE  /\ op.region # "outside"
           /\ op.entry \in {"none", op.region} \/ op.region = "critical"
              \/ (op.region = "edge" /\ op.entry \in {"liquid", "gas"})
           /\ op.pair = "DT" => op.entry # "twophase"
  BY DEF Trusted, Fits

\* The call of every step of a flash.
LEMMA CallLemma ==
    ASSUME TypeInv, Flash
    PROVE  /\ op \in Ops /\ v \in [Fields -> FieldValues]
           /\ op.pair \in AllPairs /\ op.region \in RegionsOf(op.pair)
           /\ SameCall
           /\ Trusted' <=> Trusted
<1>1. op \in Ops /\ v \in [Fields -> FieldValues]
  BY DEF TypeInv, TypeOK, Ops, Stages
<1>2. op.stage # "idle" /\ SameCall
  BY <1>1, FlashLemma
<1> QED BY <1>1, <1>2 DEF TypeInv, RegionOfPair, Trusted, SameCall

\* By pressure and temperature.
LEMMA PTAnswer ==
    ASSUME TypeInv, AnswerInv, Flash,
           PTCritical \/ PTDetermine \/ PTRefuse \/ PTImposed \/ PTSolve \/ PTGuess
    PROVE  AnswerInv'
<1>0. op \in Ops /\ SameCall /\ op.pair = "PT" /\ op.region \in Single \cup {"edge", "outside"}
  <2>1. op.pair = "PT"
    BY DEF PTCritical, PTDetermine, PTRefuse, PTImposed, PTSolve, PTGuess, At
  <2> QED BY <2>1, CallLemma DEF RegionsOf, AllPairs
<1>1. CASE PTCritical
  <2>1. v'.T = "exact" /\ v'.p = "exact" /\ v'.rho = "exact" /\ v'.x = "unset" /\ v'.der = "unset"
    BY <1>1 DEF PTCritical, AllSet, Fields
  <2>2. PhaseRight' /\ phase' \in Single
    BY <1>0, <1>1 DEF PTCritical, PhaseRight, SameCall, Single
  <2>3. Right'
    BY <2>1, <2>2, RightLemma
  <2> QED BY <1>0, <1>1, <2>3, PostLemma DEF PTCritical
<1>2. CASE PTDetermine \/ PTImposed
  <2>1. Goto("solve") /\ op'.stage = "solve"
    BY <1>0, <1>2, GotoLemma DEF PTDetermine, PTImposed, Stages
  <2>2. op.entry = imposed /\ imposed' = imposed
    BY <1>2 DEF PTDetermine, PTImposed, At, AnswerInv, StartsClean
  <2>3. PTUnderWay'
    BY <1>0, <1>2, <2>2 DEF PTDetermine, PTImposed, PTUnderWay, SameCall, Single
  <2>4. TUnderWay' /\ PUnderWay' /\ XUnderWay'
    BY <1>0, <2>1 DEF TUnderWay, PUnderWay, XUnderWay, SameCall
  <2> QED BY <1>0, <2>1, <2>3, <2>4, MidLemma
<1>3. CASE PTRefuse
  BY <1>0, <1>3, FailedLemma DEF PTRefuse
<1>4. CASE PTSolve
  <2>1. CASE Throw
    BY <1>0, <2>1, FailedLemma
  <2>2. CASE ~Throw
    <3> DEFINE used == IF imposed # "none" THEN imposed ELSE phase
    <3>1. PICK rho \in IF Fits(used, op.region) THEN {"exact"} ELSE {"exact", "wrong"} :
            v' = [Direct(rho, "exact") EXCEPT !.Q = "flag"] /\ Goto("post")
      BY <1>4, <2>2 DEF PTSolve
    <3>2. /\ op.entry = imposed /\ op.region # "critical" /\ phase' = phase
          /\ IF imposed = "none" THEN phase = op.region /\ phase \in Single ELSE phase = imposed
      BY <1>0, <1>4 DEF PTSolve, At, AnswerInv, PTUnderWay
    <3>3. ASSUME Trusted PROVE Right'
      <4>1. op.region # "outside" /\ (op.entry \in {"none", op.region}
                                     \/ (op.region = "edge" /\ op.entry \in {"liquid", "gas"}))
        BY <3>2, <3>3, TrustLemma
      <4>2. Fits(used, op.region) /\ phase \in Single
        <5>1. imposed # "edge"
          BY DEF TypeInv, TypeOK, Phases, Single
        <5>2. CASE imposed = "none"
          BY <3>2, <5>2 DEF Fits
        <5>3. CASE imposed # "none"
          <6>1. imposed \in {op.region, "liquid", "gas"} /\ Fits(imposed, op.region) /\ phase = imposed
            BY <3>2, <4>1, <5>3 DEF Fits
          <6> QED BY <1>0, <4>1, <5>1, <5>3, <6>1 DEF Single
        <5> QED BY <5>2, <5>3
      <4>3. PhaseRight'
        BY <1>0, <3>2, <4>1 DEF PhaseRight, SameCall
      <4>4. rho = "exact"
        BY <3>1, <4>2
      <4> QED BY <3>1, <3>2, <4>2, <4>3, <4>4, SingleAnswer
    <3> QED BY <1>0, <3>1, <3>3, PostLemma
  <2> QED BY <2>1, <2>2
<1>5. CASE PTGuess
  <2>1. CASE Throw
    BY <1>0, <2>1, FailedLemma
  <2>2. CASE ~Throw
    <3>1. PICK rho \in IF op.entry \in {"liquid", "gas"} /\ ~Fits(op.entry, op.region)
                       THEN {"exact", "wrong"} ELSE {"exact"} :
            /\ v' = [Direct(rho, "exact") EXCEPT !.Q = "flag"] /\ Goto("post")
            /\ phase' \in IF op.region \in {"sc", "scliq"} \/ (rho = "exact" /\ op.region \in {"liquid", "gas"})
                          THEN {op.region} ELSE {"liquid", "gas"}
      BY <1>5, <2>2 DEF PTGuess
    <3>2. op.guess
      BY <1>5 DEF PTGuess
    <3>3. ASSUME Trusted PROVE Right'
      <4>1. rho = "exact" /\ op.region # "outside"
        BY <3>1, <3>3 DEF Trusted
      <4>2. phase' \in Single
        BY <3>1 DEF Single
      <4>3. PhaseRight'
        BY <1>0, <3>1, <3>2, <4>1 DEF PhaseRight, SameCall, Single
      <4> QED BY <3>1, <4>1, <4>2, <4>3, SingleAnswer
    <3> QED BY <1>0, <3>1, <3>3, PostLemma
  <2> QED BY <2>1, <2>2
<1> QED BY <1>1, <1>2, <1>3, <1>4, <1>5

\* By temperature, with a density or a caloric property: the first step.
LEMMA TFirstAnswer ==
    ASSUME TypeInv, AnswerInv, Flash,
           TImposed \/ TImposedRefuse \/ TImposedTwophase \/ TDetermine
    PROVE  AnswerInv'
<1>0. /\ op \in Ops /\ SameCall /\ op.pair \in {"DT", "HT"} /\ v \in [Fields -> FieldValues]
      /\ op.region \in {"liquid", "gas", "scliq", "sc", "twophase", "outside"}
      /\ (Trusted' <=> Trusted) /\ op.stage = "flash"
  <2>1. op.pair \in {"DT", "HT"} /\ op.stage = "flash"
    BY DEF TImposed, TImposedRefuse, TImposedTwophase, TDetermine, At
  <2> QED BY <2>1, CallLemma DEF RegionsOf
<1>1. /\ v.T = "exact" /\ v.p = "unset" /\ op.entry = imposed
      /\ IF op.pair = "HT" THEN v.x = "exact" ELSE v.x = "unset" /\ v.rho = "exact"
  BY <1>0 DEF AnswerInv, StartsClean, Fields, Given
<1>2. CASE TImposedRefuse
  BY <1>0, <1>2, FailedLemma DEF TImposedRefuse
<1>3. CASE ~TImposedRefuse
  <2>1. Goto("solve") /\ op'.stage = "solve" /\ imposed' = imposed
    BY <1>0, <1>3, GotoLemma DEF TImposed, TImposedTwophase, TDetermine, Stages
  <2>2. PTUnderWay' /\ PUnderWay' /\ XUnderWay'
    BY <1>0, <2>1 DEF PTUnderWay, PUnderWay, XUnderWay, SameCall
  <2>3. ASSUME Trusted PROVE TUnderWay'
    <3>0. op.region # "outside" /\ imposed \in {"none", op.region} /\ (op.pair = "DT" => imposed # "twophase")
      BY <1>0, <1>1, <2>3, TrustLemma
    <3>1. CASE TImposed
      <4>1. v' = [v EXCEPT !.Q = "flag"] /\ phase' = imposed /\ imposed = op.region
            /\ imposed \in {"liquid", "gas", "scliq", "sc"}
        BY <1>0, <3>0, <3>1 DEF TImposed, TSupercritical
      <4>2. v'.T = v.T /\ v'.p = v.p /\ v'.x = v.x /\ v'.rho = v.rho
        BY <1>0, <4>1
      <4> QED BY <1>0, <1>1, <2>1, <4>1, <4>2 DEF TUnderWay, SameCall, Single
    <3>2. CASE TImposedTwophase
      <4>1. op.region = "twophase" /\ op.pair = "HT" /\ phase' = "twophase" /\ sat' = "exact"
            /\ v' = [v EXCEPT !.Q = "exact", !.p = "exact", !.rho = "exact"]
        BY <1>0, <3>0, <3>2 DEF TImposedTwophase
      <4>2. v'.T = v.T /\ v'.x = v.x /\ v'.p = "exact" /\ v'.rho = "exact" /\ v'.Q = "exact"
        BY <1>0, <4>1 DEF Fields
      <4> QED BY <1>0, <1>1, <2>1, <4>1, <4>2 DEF TUnderWay, SameCall
    <3>3. CASE TDetermine
      <4>1. CASE op.region = "twophase"
        <5>1. phase' = "twophase" /\ sat' = "exact"
              /\ v' = [v EXCEPT !.Q = "exact", !.p = "exact", !.rho = "exact"]
          BY <3>3, <4>1 DEF TDetermine
        <5>2. v'.T = v.T /\ v'.x = v.x /\ v'.p = "exact" /\ v'.rho = "exact" /\ v'.Q = "exact"
          BY <1>0, <5>1 DEF Fields
        <5> QED BY <1>0, <1>1, <2>1, <4>1, <5>1, <5>2 DEF TUnderWay, SameCall
      <4>2. CASE op.region # "twophase"
        <5>1. phase' \in {"liquid", "gas", "sc", "scliq"} /\ v' = [v EXCEPT !.Q = "flag"] /\ imposed = "none"
          BY <1>0, <3>0, <3>3, <4>2 DEF TDetermine
        <5>2. v'.T = v.T /\ v'.p = v.p /\ v'.x = v.x /\ v'.rho = v.rho
          BY <1>0, <5>1
        <5> QED BY <1>0, <1>1, <2>1, <3>0, <4>2, <5>1, <5>2 DEF TUnderWay, SameCall, Single
      <4> QED BY <4>1, <4>2
    <3> QED BY <1>3, <3>1, <3>2, <3>3
  <2>4. TUnderWay'
    BY <1>0, <2>3 DEF TUnderWay
  <2> QED BY <1>0, <2>1, <2>2, <2>4, MidLemma
<1> QED BY <1>2, <1>3

\* The second step.
LEMMA TSecondAnswer ==
    ASSUME TypeInv, AnswerInv, Flash, TKnown \/ TPressure \/ TSolve
    PROVE  AnswerInv'
<1>0. /\ op \in Ops /\ SameCall /\ op.pair \in {"DT", "HT"} /\ v \in [Fields -> FieldValues]
      /\ op.stage = "solve"
  <2>1. op.pair \in {"DT", "HT"} /\ op.stage = "solve"
    BY DEF TKnown, TPressure, TSolve, At
  <2> QED BY <2>1, CallLemma
<1>1. CASE Throw
  BY <1>0, <1>1, FailedLemma
<1>2. CASE ~Throw
  <2>1. Goto("post") /\ phase' = TRecalculated
    BY <1>2 DEF TKnown, TPressure, TSolve
  <2>2. ASSUME Trusted PROVE Right'
    <3>0. /\ v.T = "exact"
          /\ IF op.pair = "HT" THEN v.x = "exact" ELSE v.x = "unset" /\ v.rho = "exact"
      BY <1>0, <2>2 DEF AnswerInv, TUnderWay
    <3>1. CASE /\ op.region = "twophase" /\ phase = "twophase" /\ sat = "exact"
               /\ v.Q = "exact" /\ v.p = "exact" /\ v.rho = "exact"
      <4>1. phase' = "twophase" /\ UNCHANGED <<v, sat>>
        BY <2>1, <3>1 DEF TKnown, TPressure, TSolve, TRecalculated, Single
      <4>2. PhaseRight'
        BY <1>0, <3>1, <4>1 DEF PhaseRight, SameCall
      <4> QED BY <3>0, <3>1, <4>1, <4>2, RightLemma
    <3>2. CASE /\ op.region \in Single /\ phase \in Single /\ v.p = "unset"
               /\ imposed # "none" => imposed = op.region /\ phase = op.region
      <4>1. phase' = op.region /\ phase' \in Single /\ ~TKnown
        BY <2>1, <3>2, <1>0 DEF TRecalculated, Single, TKnown
      <4>2. PhaseRight'
        BY <1>0, <4>1 DEF PhaseRight, SameCall
      <4>3. CASE TPressure
        <5>1. v' = [v EXCEPT !.p = v.rho, !.Q = "flag", !.der = v.rho] /\ op.pair = "DT"
          BY <4>3 DEF TPressure, At
        <5>2. v'.T = "exact" /\ v'.p = "exact" /\ v'.rho = "exact" /\ v'.x = "unset" /\ v'.der = "exact"
          BY <1>0, <3>0, <5>1 DEF Fields
        <5> QED BY <4>1, <4>2, <5>2, RightLemma
      <4>4. CASE TSolve
        <5>1. v' = Found("exact", "exact", "exact")
          BY <1>2, <3>2, <4>4 DEF TSolve, Found, Fits
        <5> QED BY <4>1, <4>2, <5>1, SingleAnswer
      <4> QED BY <4>1, <4>3, <4>4
    <3> QED BY <1>0, <2>2, <3>1, <3>2 DEF AnswerInv, TUnderWay
  <2> QED BY <1>0, <2>1, <2>2, PostLemma
<1> QED BY <1>1, <1>2

\* By pressure, with a density or a caloric property.
LEMMA PAnswer ==
    ASSUME TypeInv, AnswerInv, Flash, PDetermine \/ PRefuse \/ DPSolve \/ HPImpose \/ HPBounds \/ HPRoot
    PROVE  AnswerInv'
<1>0. /\ op \in Ops /\ SameCall /\ op.pair \in {"DP", "HP"} /\ v \in [Fields -> FieldValues]
      /\ op.region \in {"liquid", "gas", "scliq", "sc", "twophase", "outside"}
      /\ (Trusted' <=> Trusted)
  <2>1. op.pair \in {"DP", "HP"}
    BY DEF PDetermine, PRefuse, DPSolve, HPImpose, HPBounds, HPRoot, At
  <2> QED BY <2>1, CallLemma DEF RegionsOf
<1>1. CASE Throw
  BY <1>0, <1>1, FailedLemma
<1>2. ASSUME NEW s \in {"solve", "bounds", "root"}, Goto(s), Trusted => PUnderWay'
      PROVE  AnswerInv'
  <2>1. op'.stage = s
    BY <1>0, <1>2, GotoLemma DEF Stages
  <2>2. PTUnderWay' /\ TUnderWay' /\ XUnderWay'
    BY <1>0, <2>1 DEF PTUnderWay, TUnderWay, XUnderWay, SameCall
  <2>3. PUnderWay'
    BY <1>0, <1>2 DEF PUnderWay
  <2> QED BY <1>0, <1>2, <2>2, <2>3, MidLemma
<1>3. CASE PDetermine
  <2>1. op.stage = "flash" /\ op.entry = imposed /\ v.p = "exact"
        /\ (IF op.pair = "HP" THEN v.x = "exact" ELSE v.x = "unset" /\ v.rho = "exact")
    BY <1>0, <1>3 DEF PDetermine, At, AnswerInv, StartsClean, Fields, Given
  <2>2. CASE op.region = "twophase"
    <3>1. phase' = "twophase" /\ sat' = "exact" /\ Goto("post")
          /\ v' = [v EXCEPT !.T = "exact", !.Q = "exact", !.rho = "exact"]
      BY <1>3, <2>2 DEF PDetermine
    <3>2. v'.T = "exact" /\ v'.p = "exact" /\ v'.rho = "exact" /\ v'.Q = "exact" /\ v'.x = v.x
      BY <1>0, <2>1, <3>1 DEF Fields
    <3>3. PhaseRight'
      BY <1>0, <2>2, <3>1 DEF PhaseRight, SameCall
    <3>4. Right'
      BY <2>1, <3>1, <3>2, <3>3, RightLemma
    <3> QED BY <1>0, <3>1, <3>4, PostLemma
  <2>3. CASE op.region # "twophase"
    <3>1. phase' \in PGuesses(op.region) /\ Goto("solve") /\ imposed' = imposed
      BY <1>3, <2>3 DEF PDetermine
    <3>2. op'.stage = "solve"
      BY <1>0, <3>1, GotoLemma DEF Stages
    <3>3. ASSUME Trusted PROVE PUnderWay'
      <4>1. op.region \in Single
        BY <1>0, <2>3, <3>3 DEF Trusted, Single
      <4> QED BY <1>0, <2>1, <3>1, <3>2, <4>1 DEF PUnderWay, SameCall
    <3> QED BY <3>1, <3>3, <1>2
  <2> QED BY <2>2, <2>3
<1>4. CASE PRefuse
  BY <1>1, <1>4 DEF PRefuse
<1>5. CASE DPSolve /\ ~Throw
  <2>1. v' = [Direct("exact", "exact") EXCEPT !.Q = "flag"] /\ phase' = op.region /\ Goto("post")
    BY <1>5 DEF DPSolve
  <2>2. ASSUME Trusted PROVE Right'
    <3>1. op.region \in Single
      BY <1>0, <1>5, <2>2 DEF AnswerInv, PUnderWay, DPSolve, At
    <3>2. PhaseRight'
      BY <1>0, <2>1 DEF PhaseRight, SameCall
    <3> QED BY <2>1, <3>1, <3>2, SingleAnswer
  <2> QED BY <1>0, <2>1, <2>2, PostLemma
<1>6. CASE HPImpose
  <2>1. op.stage = "solve" /\ imposed' = (IF phase \in {"liquid", "gas"} THEN phase ELSE imposed)
        /\ Goto("bounds")
    BY <1>6 DEF HPImpose, At
  <2>2. op'.stage = "bounds"
    BY <1>0, <2>1, GotoLemma DEF Stages
  <2>3. ASSUME Trusted PROVE PUnderWay'
    <3>1. op.region \in Single /\ op.entry = imposed /\ phase \in PGuesses(op.region)
      BY <1>0, <2>1, <2>3 DEF AnswerInv, PUnderWay
    <3>2. imposed' = "none" \/ Fits(imposed', op.region) \/ (imposed' = "gas" /\ op.region = "sc")
      <4>1. CASE phase \in {"liquid", "gas"}
        BY <1>0, <2>1, <3>1, <4>1 DEF PGuesses, Single, Fits
      <4>2. CASE phase \notin {"liquid", "gas"}
        BY <2>1, <2>3, <3>1, <4>2 DEF Trusted
      <4> QED BY <4>1, <4>2
    <3> QED BY <1>0, <2>2, <3>1, <3>2 DEF PUnderWay, SameCall
  <2> QED BY <2>1, <2>3, <1>2
<1>7. CASE HPBounds /\ ~Throw
  <2>1. op.stage = "bounds" /\ imposed' = imposed /\ Goto("root")
    BY <1>7 DEF HPBounds, At
  <2>2. op'.stage = "root"
    BY <1>0, <2>1, GotoLemma DEF Stages
  <2>3. ASSUME Trusted PROVE PUnderWay'
    BY <1>0, <2>1, <2>2, <2>3 DEF AnswerInv, PUnderWay, SameCall
  <2> QED BY <2>1, <2>3, <1>2
<1>8. CASE HPRoot /\ ~Throw
  <2>1. PICK r \in IF imposed = "none" \/ Fits(imposed, op.region) \/ (imposed = "gas" /\ op.region = "sc")
                   THEN {"exact"} ELSE {"exact", "wrong"} :
          v' = Found(r, r, "exact") /\ phase' = op.region /\ Goto("post")
    BY <1>8 DEF HPRoot, Found
  <2>2. ASSUME Trusted PROVE Right'
    <3>1. op.region \in Single /\ r = "exact"
      BY <1>0, <1>8, <2>1, <2>2 DEF AnswerInv, PUnderWay, HPRoot, At
    <3>2. PhaseRight'
      BY <1>0, <2>1 DEF PhaseRight, SameCall
    <3> QED BY <2>1, <3>1, <3>2, SingleAnswer
  <2> QED BY <1>0, <2>1, <2>2, PostLemma
<1> QED BY <1>1, <1>3, <1>4, <1>5, <1>6, <1>7, <1>8

\* By quality.
LEMMA QAnswer ==
    ASSUME TypeInv, AnswerInv, Flash,
           QTFlash \/ QTGuess \/ QSCritical \/ HQRefuse \/ XQImpose \/ XQSolve \/ XQGuess
    PROVE  AnswerInv'
<1>0. /\ op \in Ops /\ SameCall /\ v \in [Fields -> FieldValues] /\ (Trusted' <=> Trusted)
  BY CallLemma
<1>1. CASE Throw
  BY <1>0, <1>1, FailedLemma
<1>2. CASE (QTFlash \/ QTGuess) /\ ~Throw
  <2>1. v' = AllSet("exact") /\ phase' = "twophase" /\ sat' = "exact" /\ Goto("post") /\ op.region = "twophase"
    BY <1>2 DEF QTFlash, QTGuess
  <2>2. PhaseRight'
    BY <1>0, <2>1 DEF PhaseRight, SameCall
  <2> QED BY <1>0, <2>1, <2>2, DomeAnswer, PostLemma
<1>3. CASE QSCritical
  <2>1. v' = [v EXCEPT !.p = "exact", !.T = "exact", !.rho = "exact"] /\ phase' = "critical"
        /\ op.region = "critical" /\ Goto("post") /\ op.pair = "QS" /\ op.stage = "flash"
    BY <1>3 DEF QSCritical, At
  <2>2. v.x = "exact"
    BY <2>1 DEF AnswerInv, StartsClean, Fields, Given
  <2>3. v'.T = "exact" /\ v'.p = "exact" /\ v'.rho = "exact" /\ v'.x = "exact"
    BY <1>0, <2>1, <2>2 DEF Fields
  <2>4. PhaseRight' /\ phase' \in Single
    BY <1>0, <2>1 DEF PhaseRight, SameCall, Single
  <2> QED BY <1>0, <2>1, <2>3, <2>4, RightLemma, PostLemma
<1>4. CASE HQRefuse
  BY <1>1, <1>4 DEF HQRefuse
<1>5. CASE XQImpose
  <2>1. Goto("solve") /\ v' = v /\ op.pair \in {"DQ", "HQ", "QS"} /\ op.stage = "flash"
    BY <1>5 DEF XQImpose, At
  <2>2. op'.stage = "solve"
    BY <1>0, <2>1, GotoLemma DEF Stages
  <2>3. v.x \in {"unset", "exact"}
    BY <2>1 DEF AnswerInv, StartsClean, Fields
  <2>4. PTUnderWay' /\ TUnderWay' /\ PUnderWay' /\ XUnderWay'
    BY <1>0, <2>1, <2>2, <2>3 DEF PTUnderWay, TUnderWay, PUnderWay, XUnderWay, SameCall
  <2> QED BY <1>0, <2>1, <2>4, MidLemma
<1>6. CASE XQSolve /\ ~Throw
  <2>1. v' = [AllSet("exact") EXCEPT !.x = v.x] /\ phase' = "twophase" /\ sat' = "exact" /\ Goto("post")
        /\ op.region = "twophase"
    BY <1>6 DEF XQSolve, XQSolved
  <2>2. v.x \in {"unset", "exact"}
    BY <1>6 DEF XQSolve, At, AnswerInv, XUnderWay
  <2>3. PhaseRight'
    BY <1>0, <2>1 DEF PhaseRight, SameCall
  <2> QED BY <1>0, <2>1, <2>2, <2>3, DomeAnswer, PostLemma
<1>7. CASE XQGuess /\ ~Throw
  <2>1. v' = [AllSet("exact") EXCEPT !.x = v.x] /\ phase' = "twophase" /\ sat' = "exact" /\ Goto("post")
        /\ op.region = "twophase" /\ op.stage = "flash"
    BY <1>7 DEF XQGuess, At
  <2>2. v.x \in {"unset", "exact"}
    BY <2>1 DEF AnswerInv, StartsClean, Fields
  <2>3. PhaseRight'
    BY <1>0, <2>1 DEF PhaseRight, SameCall
  <2> QED BY <1>0, <2>1, <2>2, <2>3, DomeAnswer, PostLemma
<1> QED BY <1>1, <1>2, <1>3, <1>4, <1>5, <1>6, <1>7

\* By a density and a caloric property, or by two caloric properties.
LEMMA XYAnswer ==
    ASSUME TypeInv, AnswerInv, Flash, XYHappy \/ XYLegacy
    PROVE  AnswerInv'
<1>0. /\ op \in Ops /\ SameCall /\ (Trusted' <=> Trusted) /\ op.pair \in {"DH", "HS"}
      /\ op.region \in {"liquid", "gas", "scliq", "sc", "twophase", "outside"}
  <2>1. op.pair \in {"DH", "HS"}
    BY DEF XYHappy, XYLegacy, At
  <2> QED BY <2>1, CallLemma DEF RegionsOf
<1>1. CASE Throw
  BY <1>0, <1>1, FailedLemma
<1>2. CASE XYHappy /\ XYSolved
  <2>1. phase' = op.region /\ op.region \in Single \cup {"twophase"} /\ Goto("post")
    BY <1>0, <1>2 DEF XYSolved, Single
  <2>2. PhaseRight'
    BY <1>0, <2>1 DEF PhaseRight, SameCall
  <2>3. Right'
    <3>1. CASE op.region = "twophase"
      BY <1>2, <2>1, <2>2, <3>1, DomeAnswer DEF XYSolved
    <3>2. CASE op.region # "twophase"
      <4>1. v' = Found("exact", "exact", "exact")
        BY <1>2, <3>2 DEF XYSolved, Found
      <4> QED BY <2>1, <2>2, <3>2, <4>1, SingleAnswer
    <3> QED BY <3>1, <3>2
  <2> QED BY <1>0, <2>1, <2>3, PostLemma
<1>3. CASE XYHappy /\ ~XYSolved
  <2>1. v' = Restored /\ Goto("legacy")
    BY <1>3 DEF XYHappy
  <2>2. op'.stage = "legacy"
    BY <1>0, <2>1, GotoLemma DEF Stages
  <2>3. Given[op.pair] \subseteq Fields
    BY <1>0 DEF Given, Fields
  <2>4. XUnderWay'
    BY <1>0, <2>1, <2>2, <2>3 DEF XUnderWay, Restored, SameCall
  <2>5. PTUnderWay' /\ TUnderWay' /\ PUnderWay'
    BY <1>0, <2>2 DEF PTUnderWay, TUnderWay, PUnderWay, SameCall
  <2> QED BY <1>0, <2>1, <2>4, <2>5, MidLemma
<1>4. CASE XYLegacy /\ ~Throw
  <2>1. \A f \in Given[op.pair] : v[f] = "exact"
    BY <1>4 DEF XYLegacy, At, AnswerInv, XUnderWay
  <2>2. /\ op.region # "outside" /\ phase' = op.region /\ Goto("post")
        /\ IF op.region = "twophase"
           THEN v' = AllSet("exact") /\ sat' = "exact"
           ELSE v' = [Direct("exact", "exact") EXCEPT !.Q = "flag"]
    <3> DEFINE found == IF \A f \in Given[op.pair] : v[f] = "exact" THEN "exact" ELSE "wrong"
    <3>1. found = "exact"
      BY <2>1
    <3>2. /\ op.region # "outside" /\ phase' = op.region /\ Goto("post")
          /\ IF op.region = "twophase"
             THEN v' = [f \in Fields |-> IF f \in {"x", "der"} THEN "unset" ELSE found] /\ sat' = found
             ELSE v' = [Direct(found, found) EXCEPT !.Q = "flag"]
      BY <1>4 DEF XYLegacy
    <3> HIDE DEF found
    <3>3. [f \in Fields |-> IF f \in {"x", "der"} THEN "unset" ELSE "exact"] = AllSet("exact")
      BY DEF AllSet, Fields
    <3> QED BY <3>1, <3>2, <3>3
  <2>3. PhaseRight' /\ op.region \in Single \cup {"twophase"}
    BY <1>0, <2>2 DEF PhaseRight, SameCall, Single
  <2>4. Right'
    <3>1. CASE op.region = "twophase"
      BY <2>2, <2>3, <3>1, DomeAnswer
    <3>2. CASE op.region # "twophase"
      BY <2>2, <2>3, <3>2, SingleAnswer
    <3> QED BY <3>1, <3>2
  <2> QED BY <1>0, <2>2, <2>4, PostLemma
<1> QED BY <1>1, <1>2, <1>3, <1>4

LEMMA AnswerStep ==
    ASSUME TypeInv, AnswerInv, [Next]_vars
    PROVE  AnswerInv'
<1> USE HEOSAssumption
<1>0. op \in Ops /\ v \in [Fields -> FieldValues]
  BY DEF TypeInv, TypeOK, Ops, Stages
<1>i. ASSUME op'.stage = "idle", AnswersTheCall' PROVE AnswerInv'
  BY <1>i DEF AnswerInv, StartsClean, PTUnderWay, TUnderWay, PUnderWay, XUnderWay, FlashRight
<1>1. CASE Flash
  BY <1>1, PTAnswer, TFirstAnswer, TSecondAnswer, PAnswer, QAnswer, XYAnswer DEF Flash
<1>2. CASE (\E ph \in Imposable : Specify(ph)) \/ Unspecify
  <2>1. op'.stage = "idle" /\ declared' = TRUE
    BY <1>2 DEF Specify, Unspecify
  <2> QED BY <2>1, <1>i DEF AnswersTheCall, Answered
<1>3. CASE Read
  <2>1. op'.stage = "idle" /\ UNCHANGED <<phase, sat, op, declared>>
    BY <1>3 DEF Read, Histories
  <2>2. ASSUME Right PROVE Right'
    <3>1. v' = [v EXCEPT !.x = "exact"] /\ Caloric = "exact"
      BY <1>3, <2>2 DEF Read, Right
    <3>2. v'.T = v.T /\ v'.p = v.p /\ v'.rho = v.rho /\ v'.Q = v.Q /\ v'.x = "exact"
      BY <1>0, <3>1 DEF Fields
    <3>3. Caloric' = "exact"
      BY <3>2 DEF Caloric
    <3> QED BY <2>1, <2>2, <3>2, <3>3 DEF Right, PhaseRight
  <2>3. AnswersTheCall'
    BY <2>1, <2>2 DEF AnswerInv, AnswersTheCall, Answered
  <2> QED BY <2>1, <2>3, <1>i
<1>4. ASSUME NEW pair \in Pairs, NEW region \in RegionsOf(pair), NEW q \in QualitiesOf(pair),
             NEW guess \in {FALSE} \cup {pair \in Guessed}, Begin(pair, region, q, guess)
      PROVE  AnswerInv'
  <2>1. /\ op'.stage = IF q = "bad" THEN "idle" ELSE "flash"
        /\ op'.pair = pair /\ op'.entry = InForce(pair, guess) /\ op'.guess = guess
        /\ op'.outcome # "ok" /\ imposed' = imposed /\ v' = Inputs(pair, q, guess)
    BY <1>4 DEF Begin
  <2>2. StartsClean'
    <3>1. SUFFICES ASSUME q # "bad" PROVE StartsClean'
      BY <2>1 DEF StartsClean
    <3>2. \A f \in Fields : v'[f] = IF f \in Given[pair] THEN "exact" ELSE "unset"
      BY <2>1, <3>1 DEF Inputs
    <3>3. InForce(pair, guess) = imposed \/ (pair = "PT" /\ guess)
      BY DEF InForce
    <3> QED BY <2>1, <3>2, <3>3 DEF StartsClean
  <2> QED BY <2>1, <2>2 DEF AnswerInv, PTUnderWay, TUnderWay, PUnderWay, XUnderWay, FlashRight, AnswersTheCall, Answered
<1>5. CASE PostUpdate
  <2>1. CASE Throw
    BY <1>0, <2>1, FailedLemma
  <2>2. CASE ~Throw
    <3>1. op' = [op EXCEPT !.stage = "idle", !.outcome = "ok"] /\ op.stage = "post"
          /\ UNCHANGED <<imposed, phase, v, sat, declared>>
      BY <1>5, <2>2 DEF PostUpdate, Histories
    <3>2. op'.stage = "idle" /\ op'.pair = op.pair /\ op'.region = op.region /\ op'.entry = op.entry
          /\ op'.guess = op.guess
      BY <1>0, <3>1 DEF Ops
    <3>3. Right => Right'
      BY <3>1, <3>2 DEF Right, PhaseRight, Caloric
    <3>4. AnswersTheCall'
      BY <3>1, <3>2, <3>3 DEF AnswerInv, FlashRight, AnswersTheCall, Trusted
    <3> QED BY <3>2, <3>4, <1>i
  <2> QED BY <2>1, <2>2
<1>6. CASE UNCHANGED vars
  BY <1>6 DEF vars, AnswerInv, StartsClean, PTUnderWay, TUnderWay, PUnderWay, XUnderWay, FlashRight, AnswersTheCall,
              Answered, Trusted, Right, PhaseRight, Caloric
<1>7. CASE \E region \in RegionsOf("DT") : DirectDT(region)
  <2>1. op'.stage = "idle" /\ op'.pair = "direct"
    BY <1>7 DEF DirectDT, Direction
  <2> QED BY <2>1, <1>i DEF AnswersTheCall, Answered
<1>8. ASSUME NEW region \in RegionsOf("QT"), NEW q \in QualitiesOf("QT"), SuperancQT(region, q)
      PROVE  AnswerInv'
  <2>1. PICK outcome \in {"ok", "failed"} : op' = Direction("superanc", region, q, outcome)
                                            /\ (outcome = "ok" => region = "twophase")
    BY <1>8 DEF SuperancQT
  <2>2. op'.stage = "idle" /\ op'.outcome = outcome /\ op'.q = q /\ op'.region = region
    BY <2>1 DEF Direction
  <2>3. ASSUME outcome = "ok", q # "bad" PROVE Right'
    <3>1. region = "twophase"
      BY <2>1, <2>3
    <3>2. v' = [AllSet("exact") EXCEPT !.rho = "exact"] /\ sat' = "exact" /\ phase' = "twophase"
      BY <1>8, <2>3, <3>1 DEF SuperancQT
    <3>3. AllSet("exact") \in [Fields -> FieldValues]
      BY ValuesLemma DEF FieldValues
    <3>4. v'.T = "exact" /\ v'.p = "exact" /\ v'.rho = "exact" /\ v'.Q = "exact" /\ v'.x = "unset"
      BY <3>2, <3>3, SaturatedLemma DEF Fields
    <3>5. PhaseRight'
      BY <2>2, <3>1, <3>2 DEF PhaseRight
    <3> QED BY <3>2, <3>4, <3>5, RightLemma
  <2>4. AnswersTheCall'
    BY <2>2, <2>3 DEF AnswersTheCall, Answered
  <2> QED BY <2>2, <2>4, <1>i
<1> QED
  BY <1>1, <1>2, <1>3, <1>4, <1>5, <1>6, <1>7, <1>8 DEF Next

-----------------------------------------------------------------------------
(* The caller who declares the phase before every update.                  *)

\* Between the updates of such a caller the imposed phase is what was asked, and the
\* phase in force in an update is what had been asked when it began.
DeclaredInv ==
    /\ declared => op.stage = "idle" /\ imposed = asked
    /\ always /\ ~declared /\ ~(op.pair = "PT" /\ op.guess) => op.entry = asked

LEMMA StartedKeeps ==
    ASSUME DeclaredInv, Started, op'.entry = imposed
    PROVE  DeclaredInv'
<1>1. ~declared' /\ (always' => always /\ declared) /\ asked' = asked
  BY DEF Started
<1>2. always' => op'.entry = asked'
  BY <1>1 DEF DeclaredInv
<1> QED
  BY <1>1, <1>2 DEF DeclaredInv

LEMMA DeclaredStep ==
    ASSUME TypeInv, DeclaredInv, [Next]_vars
    PROVE  DeclaredInv'
<1>0. op \in Ops
  BY DEF TypeInv, TypeOK, Ops, Stages
<1>1. CASE Flash
  <2>1. op.stage # "idle" /\ SameCall /\ UNCHANGED <<asked, declared, always>>
    BY <1>0, <1>1, FlashLemma
  <2> QED BY <2>1 DEF DeclaredInv, SameCall
<1>2. CASE (\E ph \in Imposable : Specify(ph)) \/ Unspecify
  BY <1>2 DEF Specify, Unspecify, DeclaredInv
<1>3. CASE Read
  BY <1>3 DEF Read, Histories, DeclaredInv
<1>4. ASSUME NEW pair \in Pairs, NEW region \in RegionsOf(pair), NEW q \in QualitiesOf(pair),
             NEW guess \in {FALSE} \cup {pair \in Guessed}, Begin(pair, region, q, guess)
      PROVE  DeclaredInv'
  <2>1. op'.pair = pair /\ op'.guess = guess /\ op'.entry = InForce(pair, guess) /\ Started
    BY <1>4 DEF Begin
  <2>2. ~(pair = "PT" /\ guess) => InForce(pair, guess) = imposed
    BY DEF InForce
  <2> QED BY <2>1, <2>2 DEF Started, DeclaredInv
<1>5. CASE PostUpdate
  <2>1. op'.pair = op.pair /\ op'.guess = op.guess /\ op'.entry = op.entry /\ op'.stage = "idle"
        /\ UNCHANGED <<imposed, asked, declared, always>> /\ op.stage = "post"
    BY <1>0, <1>5 DEF PostUpdate, Throw, Histories, Ops
  <2> QED BY <2>1 DEF DeclaredInv
<1>6. CASE UNCHANGED vars
  BY <1>6 DEF vars, DeclaredInv
<1>7. CASE \E region \in RegionsOf("DT") : DirectDT(region)
  <2>1. op'.stage = "idle" /\ op'.pair # "PT" /\ op'.entry = imposed /\ Started
    BY <1>7 DEF DirectDT, Direction
  <2> QED BY <2>1, StartedKeeps
<1>8. CASE \E region \in RegionsOf("QT"), q \in QualitiesOf("QT") : SuperancQT(region, q)
  <2>1. PICK region \in RegionsOf("QT"), q \in QualitiesOf("QT") : SuperancQT(region, q)
    BY <1>8
  <2>2. PICK outcome : op' = Direction("superanc", region, q, outcome)
    BY <2>1 DEF SuperancQT
  <2>3. Started
    BY <2>1 DEF SuperancQT
  <2>4. op'.stage = "idle" /\ op'.pair # "PT" /\ op'.entry = imposed
    BY <2>2 DEF Direction
  <2> QED BY <2>3, <2>4, StartedKeeps
<1> QED
  BY <1>1, <1>2, <1>3, <1>4, <1>5, <1>6, <1>7, <1>8 DEF Next

-----------------------------------------------------------------------------
LEMMA Initially ==
    ASSUME Init
    PROVE  TypeInv /\ RefusedIsEmpty /\ OwnPhaseOnly /\ DirectIsOwn
  BY ValuesLemma DEF Init, TypeInv, TypeOK, RegionOfPair, OutsideUnsolved, RefusedIsEmpty, OwnPhaseOnly, DirectIsOwn

\* The members of the state have their types, and the region of a call is that of its
\* pair, through every history of calls, reads, imposed phases and failed solves.
THEOREM StateIsTyped == Spec => []TypeOK
<1>1. TypeInv => TypeOK
  BY DEF TypeInv
<1> QED
  BY <1>1, Initially, TypeInvStep, PTL DEF Spec

\* A quality that update has refused is never read as a number.
THEOREM RefusedNeverRead == Spec => []RefusedQualityReadsNothing
<1>1. TypeInv /\ RefusedIsEmpty => RefusedQualityReadsNothing
  BY DEF TypeInv, TypeOK, RefusedIsEmpty, RefusedQualityReadsNothing, Caloric, Fields
<1>2. TypeInv /\ RefusedIsEmpty /\ [Next]_vars => (TypeInv /\ RefusedIsEmpty)'
  BY TypeInvStep, RefusedStep
<1> QED
  BY <1>1, <1>2, Initially, PTL DEF Spec

\* A phase that a solve imposes to guide itself is withdrawn on every path out of it.
THEOREM GuessIsWithdrawn == Spec => []WithdrawsItsGuess
<1>1. OwnPhaseOnly => WithdrawsItsGuess
  BY DEF OwnPhaseOnly, GuessUnderWay, WithdrawsItsGuess
<1>2. TypeInv /\ OwnPhaseOnly /\ [Next]_vars => (TypeInv /\ OwnPhaseOnly)'
  BY TypeInvStep, GuessStep
<1> QED
  BY <1>1, <1>2, Initially, PTL DEF Spec

\* After a direct update a caloric read is of this call's point, or no number.
THEOREM DirectReadsAreOwn == Spec => []DirectNeverMisreads
<1>1. TypeInv /\ DirectIsOwn => DirectNeverMisreads
  BY DEF TypeInv, TypeOK, DirectIsOwn, DirectNeverMisreads, Caloric, Fields
<1>2. TypeInv /\ DirectIsOwn /\ [Next]_vars => (TypeInv /\ DirectIsOwn)'
  BY TypeInvStep, DirectStep
<1> QED
  BY <1>1, <1>2, Initially, PTL DEF Spec

LEMMA AnswersInitially == Init => AnswerInv /\ DeclaredInv
  BY DEF Init, AnswerInv, StartsClean, PTUnderWay, TUnderWay, PUnderWay, XUnderWay, FlashRight, AnswersTheCall,
         Answered, DeclaredInv

\* After any history of updates, failed updates, reads, imposed and withdrawn phases, an
\* update that succeeds under no imposed phase, or the right one, leaves the state of its
\* own inputs: nothing an earlier call or a failed solver left behind is in the result.
THEOREM CallsAreAnswered == Spec => []AnswersTheCall
<1>1. AnswerInv => AnswersTheCall
  BY DEF AnswerInv
<1>2. TypeInv /\ AnswerInv /\ [Next]_vars => (TypeInv /\ AnswerInv)'
  BY TypeInvStep, AnswerStep
<1> QED
  BY <1>1, <1>2, Initially, AnswersInitially, PTL DEF Spec

\* A caller who says or unsays the phase before every update, and now imposes none, gets
\* the phase and the properties of the point, although the quality pairs and the bounds
\* of the pressure solve leave a phase of their own imposed.
THEOREM DeclaredCallsAreAnswered == Spec => []DeclaredAnswers
<1>1. AnswerInv /\ DeclaredInv => DeclaredAnswers
  <2> SUFFICES ASSUME AnswerInv, DeclaredInv, always, ~(op.pair = "PT" /\ op.guess),
                      Answered, asked = "none", op.region # "outside"
               PROVE  Right
    BY DEF DeclaredAnswers, UnimposedAnswers
  <2>1. op.entry = "none"
    BY DEF DeclaredInv, Answered
  <2> QED BY <2>1 DEF AnswerInv, AnswersTheCall
<1>2. TypeInv /\ AnswerInv /\ DeclaredInv /\ [Next]_vars => (TypeInv /\ AnswerInv /\ DeclaredInv)'
  BY TypeInvStep, AnswerStep, DeclaredStep
<1> QED
  BY <1>1, <1>2, Initially, AnswersInitially, PTL DEF Spec
====
