---- MODULE HEOSState ----
(***************************************************************************)
(* The state of one HelmholtzEOSMixtureBackend of a pure fluid with its    *)
(* superancillary: what a sequence of specify_phase, unspecify_phase,      *)
(* update, update_with_guesses and property reads does to _phase,          *)
(* imposed_phase_index, _T, _p, _rhomolar, _Q, the cached caloric values   *)
(* and derivatives, and the two saturation sub-states SatL and SatV.       *)
(*                                                                         *)
(* A number is abstracted to where it comes from: "exact" belongs to the   *)
(* point of the latest update, "wrong" is a solver's trial value or was    *)
(* left behind by an earlier call, "unset" is not a valid number.  Where   *)
(* a point lies (its region) is a choice of the call; whether a solver     *)
(* converges is a choice of the step.  A flash is cut into steps where an  *)
(* exception can leave the function with the state half changed.           *)
(*                                                                         *)
(* The pairs with S or U for H differ in no step, and stand behind H: HT,  *)
(* HP, DH, HS.  "scliq" is the supercritical liquid (T < Tc, p > pc), "sc" *)
(* the supercritical fluid and gas (T > Tc).                               *)
(***************************************************************************)

CONSTANTS
    Pairs,       \* input pairs the callers use
    Guessed,     \* those of them also called through update_with_guesses
    Imposable    \* phases the callers impose

AllPairs == {"PT", "DT", "HT", "DP", "HP", "DH", "HS", "QT", "PQ", "DQ", "HQ", "QS"}
Single == {"liquid", "gas", "scliq", "sc", "critical"}    \* isHomogeneousPhase
Phases == Single \cup {"twophase"}

ASSUME HEOSAssumption ==
    /\ Pairs \subseteq AllPairs
    /\ Guessed \subseteq Pairs \cap {"PT", "QT", "PQ", "DQ", "HQ", "QS"}
    /\ Imposable \subseteq Phases

VARIABLES
    imposed,   \* imposed_phase_index
    phase,     \* _phase
    v,         \* _T, _p, _rhomolar, _Q, _hmolar (x) and the cached derivatives (der)
    sat,       \* SatL and SatV
    op,        \* the update under way: the function it is in, and what was asked of it
    asked,     \* history: the phase the caller last imposed
    declared,  \* history: the caller has imposed or unimposed a phase since the last update
    always     \* history: and had done so before every update so far

vars == <<imposed, phase, v, sat, op, asked, declared, always>>

Fields == {"T", "p", "rho", "Q", "x", "der"}
FieldValues == {"unset", "exact", "wrong", "bad", "flag", "nan"}

\* The members each pair of inputs sets.
Given == [PT |-> {"p", "T"}, DT |-> {"rho", "T"}, HT |-> {"x", "T"}, DP |-> {"rho", "p"},
          HP |-> {"x", "p"}, DH |-> {"rho", "x"}, HS |-> {"x"}, QT |-> {"Q", "T"},
          PQ |-> {"p", "Q"}, DQ |-> {"rho", "Q"}, HQ |-> {"x", "Q"}, QS |-> {"x", "Q"}]

\* Where a point may lie: "edge" is the saturation curve, "outside" has no solution.
RegionsOf(pair) ==
    CASE pair = "PT" -> Single \cup {"edge", "outside"}
      [] pair = "DT" -> {"liquid", "gas", "scliq", "sc", "twophase"}
      [] pair \in {"HT", "DP", "HP", "DH", "HS"} ->
             {"liquid", "gas", "scliq", "sc", "twophase", "outside"}
      [] pair = "QS" -> {"twophase", "critical", "outside"}
      [] OTHER -> {"twophase", "outside"}

QualitiesOf(pair) == IF "Q" \in Given[pair] THEN {"zero", "one", "mid", "bad"} ELSE {"none"}

-----------------------------------------------------------------------------
(* The values a step leaves behind.                                        *)

Cleared == [f \in Fields |-> "unset"]

\* A solved state: _T, _p and _rhomolar of the point, and this quality.
AllSet(q) == [f \in Fields |-> IF f = "Q" THEN q ELSE IF f \in {"x", "der"} THEN "unset" ELSE "exact"]

\* update_DmolarT_direct: clear, then _rhomolar and _T, and the pressure from them.
Direct(rho, T) ==
    LET p == IF rho = "exact" /\ T = "exact" THEN "exact" ELSE "wrong"
    IN  [Cleared EXCEPT !.rho = rho, !.T = T, !.p = p, !.der = p]

\* Mutant of Inputs: the range of the quality is checked after it is assigned.
Inputs_checkLate(pair, q, guess) ==
    [f \in Fields |->
        IF f \notin Given[pair] THEN "unset"
        ELSE IF f = "Q" /\ q = "bad" THEN "bad" ELSE "exact"]

\* The inputs after pre_update has cleared everything.  update refuses a quality
\* out of range before it assigns anything, update_with_guesses after it has.
Inputs(pair, q, guess) ==
    [f \in Fields |->
        IF f \notin Given[pair] \/ (q = "bad" /\ ~guess) THEN "unset"
        ELSE IF f = "Q" /\ q = "bad" THEN "bad" ELSE "exact"]

\* From the next call on, what SatL and SatV hold belongs to an earlier point.
Aged(s) == IF s = "unset" THEN "unset" ELSE "wrong"

\* calc_hmolar through the cache: how the next read of a caloric property ends.
Caloric ==
    CASE v.x # "unset" -> v.x
      [] v.x = "unset" /\ phase = "twophase" ->
             IF v.Q = "unset" \/ sat = "unset" THEN "nan"
             ELSE IF v.Q = "exact" /\ sat = "exact" THEN "exact" ELSE "wrong"
      [] v.x = "unset" /\ phase \in Single ->
             IF v.T = "unset" \/ v.rho = "unset" THEN "nan"
             ELSE IF v.T = "exact" /\ v.rho = "exact" /\ v.der # "wrong" THEN "exact" ELSE "wrong"
      [] OTHER -> "throws"

\* The imposed phase is right for a point of this region.
Fits(ph, region) ==
    ph = region \/ region = "critical" \/ (region = "edge" /\ ph \in {"liquid", "gas"})

Goto(stage) == op' = [op EXCEPT !.stage = stage]
Throw == op' = [op EXCEPT !.stage = "idle", !.outcome = "failed"]
At(stage, pairs) == op.stage = stage /\ op.pair \in pairs
Histories == <<asked, declared, always>>

Init ==
    /\ imposed = "none"
    /\ phase = "unknown"
    /\ v = Cleared
    /\ sat = "unset"
    /\ op = [stage |-> "idle", pair |-> "none", region |-> "none", q |-> "none",
             guess |-> FALSE, entry |-> "none", outcome |-> "none"]
    /\ asked = "none"
    /\ declared = TRUE
    /\ always = TRUE

-----------------------------------------------------------------------------
(* What a caller does between updates.                                     *)

\* specify_phase writes _phase as well as the imposed phase.
Specify(ph) ==
    /\ op.stage = "idle"
    /\ imposed' = ph
    /\ phase' = ph
    /\ asked' = ph
    /\ declared' = TRUE
    /\ UNCHANGED <<v, sat, op, always>>

Unspecify ==
    /\ op.stage = "idle"
    /\ imposed' = "none"
    /\ asked' = "none"
    /\ declared' = TRUE
    /\ UNCHANGED <<phase, v, sat, op, always>>

\* A caloric property is read: computed once, then kept until the next clear.
Read ==
    /\ op.stage = "idle"
    /\ v' = IF Caloric = "throws" THEN v ELSE [v EXCEPT !.x = Caloric]
    /\ UNCHANGED <<imposed, phase, sat, op, Histories>>

\* The histories when an update starts.
Started == declared' = FALSE /\ always' = (always /\ declared) /\ asked' = asked

\* A density solve with a guess minds liquid or gas in _phase, of whatever call left it.
InForce(pair, guess) ==
    IF guess /\ pair = "PT" /\ imposed = "none" /\ phase \in {"liquid", "gas"} THEN phase ELSE imposed

\* update and update_with_guesses up to the call of the flash routine.  Clearing
\* touches neither _phase nor the saturation sub-states.
Begin(pair, region, q, guess) ==
    /\ op.stage = "idle"
    /\ v' = Inputs(pair, q, guess)
    /\ sat' = Aged(sat)
    /\ op' = [stage |-> IF q = "bad" THEN "idle" ELSE "flash", pair |-> pair, region |-> region, q |-> q,
              guess |-> guess, entry |-> InForce(pair, guess), outcome |-> IF q = "bad" THEN "failed" ELSE "none"]
    /\ Started
    /\ UNCHANGED <<imposed, phase>>

\* post_update: pressure, temperature, density and quality must be valid numbers.
PostUpdate ==
    /\ op.stage = "post"
    /\ IF "unset" \in {v.T, v.p, v.rho, v.Q} \/ phase = "unknown"
       THEN Throw
       ELSE op' = [op EXCEPT !.stage = "idle", !.outcome = "ok"]
    /\ UNCHANGED <<imposed, phase, v, sat, Histories>>

-----------------------------------------------------------------------------
(* Updates that go round the flash routines.                               *)

\* What is known of a direct update once it has returned.
Direction(pair, region, q, outcome) ==
    [stage |-> "idle", pair |-> pair, region |-> region, q |-> q, guess |-> FALSE,
     entry |-> imposed, outcome |-> outcome]

\* Mutant of DirectDT: the members are overwritten without a clear before.
DirectDT_noClear(region) ==
    /\ op.stage = "idle"
    /\ v' = [v EXCEPT !.rho = "exact", !.T = "exact", !.p = "exact"]
    /\ sat' = Aged(sat)
    /\ op' = Direction("direct", region, "none", "ok")
    /\ Started
    /\ UNCHANGED <<imposed, phase>>

\* update_DmolarT_direct and update_TDmolarP_unchecked: the phase stays the one of an
\* earlier call, and there is no quality.
DirectDT(region) ==
    /\ op.stage = "idle"
    /\ v' = Direct("exact", "exact")
    /\ sat' = Aged(sat)
    /\ op' = Direction("direct", region, "none", "ok")
    /\ Started
    /\ UNCHANGED <<imposed, phase>>

\* update_QT_pure_superanc: the quality is assigned and never checked, and the members
\* assigned before a throw stay.
SuperancQT(region, q) ==
    /\ op.stage = "idle"
    /\ Started
    /\ LET quality == IF q = "bad" THEN "bad" ELSE "exact"
       IN  IF region = "twophase"
           THEN /\ v' = [AllSet(quality) EXCEPT !.rho = IF q = "bad" THEN "wrong" ELSE "exact"]
                /\ sat' = "exact"
                /\ phase' = "twophase"
                /\ op' \in {Direction("superanc", region, q, outcome) :
                                outcome \in {"ok"} \cup IF q = "bad" THEN {"failed"} ELSE {}}
           ELSE /\ v' = [Cleared EXCEPT !.Q = quality, !.T = "exact"]
                /\ sat' = Aged(sat)
                /\ op' = Direction("superanc", region, q, "failed")
                /\ UNCHANGED phase
    /\ UNCHANGED imposed

-----------------------------------------------------------------------------
(* Pressure and temperature.                                               *)

PTCritical ==
    /\ At("flash", {"PT"}) /\ ~op.guess
    /\ op.region = "critical"
    /\ v' = AllSet("flag")
    /\ phase' = "critical"
    /\ Goto("post")
    /\ UNCHANGED <<imposed, sat, Histories>>

\* p- or T-phase determination; just above pc only the former writes _Q.
PTDetermine ==
    /\ At("flash", {"PT"}) /\ ~op.guess
    /\ op.region \in Single \ {"critical"}
    /\ imposed = "none"
    /\ phase' = op.region
    /\ \E q \in {"flag"} \cup (IF op.region = "scliq" THEN {"unset"} ELSE {}) : v' = [v EXCEPT !.Q = q]
    /\ Goto("solve")
    /\ UNCHANGED <<imposed, sat, Histories>>

\* On the saturation curve the determination by T throws at once, and the one
\* by p after it has set the phase and both saturation states.
PTRefuse ==
    /\ At("flash", {"PT"}) /\ ~op.guess
    /\ op.region \in {"edge", "outside"}
    /\ imposed = "none"
    /\ \/ UNCHANGED <<phase, sat>>
       \/ op.region = "edge" /\ phase' = "twophase" /\ sat' = "exact"
    /\ Throw
    /\ UNCHANGED <<imposed, v, Histories>>

PTImposed ==
    /\ At("flash", {"PT"}) /\ ~op.guess
    /\ op.region # "critical"
    /\ imposed # "none"
    /\ phase' = imposed
    /\ Goto("solve")
    /\ UNCHANGED <<imposed, v, sat, Histories>>

\* solver_rho_Tp looks for the density of the imposed phase, or of _phase.  Each
\* trial is an update_DmolarT_direct of this very state.
PTSolve ==
    /\ At("solve", {"PT"})
    /\ LET used == IF imposed # "none" THEN imposed ELSE phase
       IN  \/ \E rho \in IF Fits(used, op.region) THEN {"exact"} ELSE {"exact", "wrong"} :
                /\ v' = [Direct(rho, "exact") EXCEPT !.Q = "flag"]
                /\ Goto("post")
           \/ /\ v' \in {v, Direct("wrong", "exact")}
              /\ Throw
    /\ UNCHANGED <<imposed, phase, sat, Histories>>

\* PT_flash_with_guesses: the solver starts at the caller's density, and tries again
\* elsewhere when what it found does not look like the phase in force.  The phase is
\* told afterwards from the density found.
PTGuess ==
    /\ At("flash", {"PT"}) /\ op.guess
    /\ \/ \E rho \in IF op.entry \in {"liquid", "gas"} /\ ~Fits(op.entry, op.region)
                      THEN {"exact", "wrong"} ELSE {"exact"} :
            /\ op.region # "outside"
            /\ v' = [Direct(rho, "exact") EXCEPT !.Q = "flag"]
            /\ phase' \in IF op.region \in {"sc", "scliq"} \/ (rho = "exact" /\ op.region \in {"liquid", "gas"})
                          THEN {op.region} ELSE {"liquid", "gas"}
            /\ Goto("post")
       \/ /\ v' \in {v, Direct("wrong", "exact")}
          /\ Throw
          /\ UNCHANGED phase
    /\ UNCHANGED <<imposed, sat, Histories>>

-----------------------------------------------------------------------------
(* Temperature and density or a caloric property (DHSU_T_flash).           *)

TSupercritical == op.region = "sc"

\* An imposed phase is taken as it is, with a marker for the quality.
TImposed ==
    /\ At("flash", {"DT", "HT"})
    /\ imposed # "none"
    /\ TSupercritical \/ imposed \in {"liquid", "gas", "scliq"}
    /\ phase' = imposed
    /\ v' = [v EXCEPT !.Q = "flag"]
    /\ Goto("solve")
    /\ UNCHANGED <<imposed, sat, Histories>>

TImposedRefuse ==
    /\ At("flash", {"DT", "HT"})
    /\ imposed \in {"sc", "critical"}
    /\ ~TSupercritical
    /\ phase' = imposed
    /\ Throw
    /\ UNCHANGED <<imposed, v, sat, Histories>>

\* Imposed two-phase: the quality comes from a temporary backend; SatL and SatV are
\* set unless the density is given, and the density is computed again from them.
TImposedTwophase ==
    /\ At("flash", {"DT", "HT"})
    /\ imposed = "twophase"
    /\ ~TSupercritical
    /\ phase' = imposed
    /\ sat' = IF op.pair = "DT" THEN sat ELSE "exact"
    /\ v' = IF op.region = "twophase" THEN [v EXCEPT !.Q = "exact", !.p = "exact", !.rho = sat']
            ELSE [v EXCEPT !.Q = "flag"]
    /\ Goto("solve")
    /\ UNCHANGED <<imposed, Histories>>

\* Mutant of TDetermine: the saturation states are left as they were in the dome.
TDetermine_keepSat ==
    /\ At("flash", {"DT", "HT"})
    /\ imposed = "none"
    /\ IF op.region = "twophase"
       THEN /\ phase' = "twophase"
            /\ v' = [v EXCEPT !.Q = "exact", !.p = "exact", !.rho = "exact"]
            /\ UNCHANGED sat
       ELSE /\ phase' \in (CASE op.region = "scliq" -> {"liquid"}
                             [] op.region = "outside" -> {"liquid", "gas", "sc"}
                             [] OTHER -> {op.region})
            /\ v' = [v EXCEPT !.Q = "flag"]
            /\ UNCHANGED sat
    /\ Goto("solve")
    /\ UNCHANGED <<imposed, Histories>>

\* T_phase_determination with the superancillary.  Below Tc the phase is told by the
\* quality alone; a caloric input builds the saturation states and clears them
\* again outside the dome, a density sets them only inside.
TDetermine ==
    /\ At("flash", {"DT", "HT"})
    /\ imposed = "none"
    /\ IF op.region = "twophase"
       THEN /\ phase' = "twophase"
            /\ v' = [v EXCEPT !.Q = "exact", !.p = "exact", !.rho = "exact"]
            /\ sat' = "exact"
       ELSE /\ phase' \in (CASE op.region = "scliq" -> {"liquid"}
                             [] op.region = "outside" -> {"liquid", "gas", "sc"}
                             [] OTHER -> {op.region})
            /\ v' = [v EXCEPT !.Q = "flag"]
            /\ sat' = IF op.pair = "HT" /\ phase' # "sc" THEN "unset" ELSE sat
    /\ Goto("solve")
    /\ UNCHANGED <<imposed, Histories>>

\* A phase is recalculated from p, T and rho, unless the caller imposed it.
TRecalculated == IF phase # "twophase" /\ imposed = "none" THEN op.region ELSE phase

\* Nothing to solve for: the pressure is known, or a caloric input is two-phase.
TKnown ==
    /\ At("solve", {"DT", "HT"})
    /\ v.p # "unset" \/ (op.pair = "HT" /\ phase \notin Single)
    /\ phase' = TRecalculated
    /\ Goto("post")
    /\ UNCHANGED <<imposed, v, sat, Histories>>

TPressure ==
    /\ At("solve", {"DT"})
    /\ v.p = "unset"
    /\ v' = [v EXCEPT !.p = v.rho, !.Q = "flag", !.der = v.rho]
    /\ phase' = TRecalculated
    /\ Goto("post")
    /\ UNCHANGED <<imposed, sat, Histories>>

\* solver_for_rho_given_T_oneof_HSU, whose trials are updates of this state.
TSolve ==
    /\ At("solve", {"HT"})
    /\ v.p = "unset"
    /\ phase \in Single
    /\ \/ /\ op.region # "outside"
          /\ \E rho \in IF imposed = "none" \/ TSupercritical \/ Fits(imposed, op.region)
                        THEN {"exact"} ELSE {"exact", "wrong"} :
                v' = [Direct(rho, "exact") EXCEPT !.Q = "flag", !.x = rho]
          /\ phase' = TRecalculated
          /\ Goto("post")
       \/ /\ v' \in {v, [Direct("wrong", "exact") EXCEPT !.x = "wrong"]}
          /\ Throw
          /\ UNCHANGED phase
    /\ UNCHANGED <<imposed, sat, Histories>>

-----------------------------------------------------------------------------
(* Pressure and density or a caloric property (DP_flash, HSU_P_flash).     *)

\* What p_phase_determination calls a homogeneous point, before it is recalculated.
PGuesses(region) ==
    CASE region = "scliq" -> {"scliq", "sc"}
      [] region = "sc" -> {"scliq", "sc", "gas"}
      [] region = "outside" -> Single \ {"critical"}
      [] OTHER -> {region}

\* Below the triple-point pressure a gas is told without the saturation states.
PDetermine ==
    /\ At("flash", {"DP", "HP"})
    /\ IF op.region = "twophase"
       THEN /\ phase' = "twophase"
            /\ v' = [v EXCEPT !.T = "exact", !.Q = "exact", !.rho = "exact"]
            /\ sat' = "exact"
            /\ Goto("post")
       ELSE /\ phase' \in PGuesses(op.region)
            /\ \/ sat' = (IF phase' \in {"liquid", "gas"} THEN "unset" ELSE sat) /\ v' = [v EXCEPT !.Q = "flag"]
               \/ phase' = "gas" /\ UNCHANGED <<sat, v>>
            /\ Goto("solve")
    /\ UNCHANGED <<imposed, Histories>>

PRefuse ==
    /\ At("flash", {"DP", "HP"})
    /\ op.region = "outside"
    /\ Throw
    /\ UNCHANGED <<imposed, phase, v, sat, Histories>>

\* Halley, then a bracketed solve, over T at the density given.
DPSolve ==
    /\ At("solve", {"DP"})
    /\ \/ /\ op.region # "outside"
          /\ v' = [Direct("exact", "exact") EXCEPT !.Q = "flag"]
          /\ phase' = op.region
          /\ Goto("post")
       \/ /\ v' \in {v, Direct("exact", "wrong")}
          /\ Throw
          /\ UNCHANGED phase
    /\ UNCHANGED <<imposed, sat, Histories>>

\* The residual of the caloric solve imposes a subcritical phase on this state.
HPImpose ==
    /\ At("solve", {"HP"})
    /\ imposed' = IF phase \in {"liquid", "gas"} THEN phase ELSE imposed
    /\ Goto("bounds")
    /\ UNCHANGED <<phase, v, sat, Histories>>

\* The residual at both bounds, each a nested update with p and a trial T, before
\* the try block whose handlers withdraw the imposed phase.
HPBounds ==
    /\ At("bounds", {"HP"})
    /\ v' \in {v, Direct("wrong", "wrong")}
    /\ phase' \in IF imposed # "none" THEN {imposed} ELSE Single
    /\ Goto("root") \/ Throw
    /\ UNCHANGED <<imposed, sat, Histories>>

\* Mutant of HPRoot: a failed solve does not withdraw the imposed phase.
HPRoot_keepImposed ==
    /\ At("root", {"HP"})
    /\ \/ /\ op.region # "outside"
          /\ v' = [Direct("exact", "exact") EXCEPT !.Q = "flag", !.x = "exact"]
          /\ phase' = op.region
          /\ Goto("post")
       \/ /\ v' \in {v, Direct("wrong", "wrong")}
          /\ Throw
          /\ UNCHANGED phase
    /\ UNCHANGED <<imposed, sat, Histories>>

\* Bracketed solve over T, then a Newton solve; both outcomes withdraw the phase.
HPRoot ==
    /\ At("root", {"HP"})
    /\ imposed' = "none"
    /\ \/ /\ op.region # "outside"
          /\ \E r \in IF imposed = "none" \/ Fits(imposed, op.region) \/ (imposed = "gas" /\ op.region = "sc")
                      THEN {"exact"} ELSE {"exact", "wrong"} :
                v' = [Direct(r, r) EXCEPT !.Q = "flag", !.x = "exact"]
          /\ phase' = op.region
          /\ Goto("post")
       \/ /\ v' \in {v, Direct("wrong", "wrong")}
          /\ Throw
          /\ UNCHANGED phase
    /\ UNCHANGED <<sat, Histories>>

-----------------------------------------------------------------------------
(* Quality with temperature or pressure (QT_flash, PQ_flash).              *)

QTFlash ==
    /\ At("flash", {"QT", "PQ"}) /\ ~op.guess
    /\ IF op.region = "twophase"
       THEN /\ v' = AllSet("exact")
            /\ phase' = "twophase"
            /\ sat' = "exact"
            /\ Goto("post")
       ELSE Throw /\ UNCHANGED <<phase, v, sat>>    \* above the numerical critical point
    /\ UNCHANGED <<imposed, Histories>>

\* With guesses, a Newton solve over the saturation states, at a bubble or dew point.
QTGuess ==
    /\ At("flash", {"QT", "PQ"}) /\ op.guess
    /\ IF op.q = "mid" THEN Throw /\ UNCHANGED <<phase, v, sat>>
       ELSE \/ /\ op.region = "twophase"
               /\ v' = AllSet("exact")
               /\ phase' = "twophase"
               /\ sat' = "exact"
               /\ Goto("post")
            \/ /\ sat' = "wrong"
               /\ Throw
               /\ UNCHANGED <<phase, v>>
    /\ UNCHANGED <<imposed, Histories>>

-----------------------------------------------------------------------------
(* Quality with density or a caloric property (DQ_, HQ_, QS_flash).        *)

QSCritical ==
    /\ At("flash", {"QS"})
    /\ op.region = "critical"
    /\ ~op.guess
    /\ v' = [v EXCEPT !.p = "exact", !.T = "exact", !.rho = "exact"]
    /\ phase' = "critical"
    /\ Goto("post")
    /\ UNCHANGED <<imposed, sat, Histories>>

HQRefuse ==
    /\ At("flash", {"HQ"})
    /\ ~op.guess
    /\ op.q # "one"
    /\ Throw
    /\ UNCHANGED <<imposed, phase, v, sat, Histories>>

\* The two-phase region is imposed, and never withdrawn.
XQImpose ==
    /\ At("flash", {"DQ", "HQ", "QS"})
    /\ ~op.guess
    /\ op.pair = "HQ" => op.q = "one"
    /\ op.pair = "QS" => op.region # "critical"
    /\ imposed' = "twophase"
    /\ phase' = "twophase"
    /\ Goto("solve")
    /\ UNCHANGED <<v, sat, Histories>>

\* The values after the temperature has been found: the inputs, which the nested
\* updates have overwritten, are put back.
XQSolved == [AllSet("exact") EXCEPT !.x = v.x]

\* At a quality of 0 or 1 the superancillary gives the temperature; in between, for
\* a density, Brent over nested QT updates of this state.  Their last trial stays
\* behind when Brent fails.
XQSolve ==
    /\ At("solve", {"DQ", "HQ", "QS"})
    /\ imposed' = imposed
    /\ \/ /\ op.region = "twophase"
          /\ op.q = "mid" => op.pair = "DQ"
          /\ v' = XQSolved
          /\ phase' = "twophase"
          /\ sat' = "exact"
          /\ Goto("post")
       \/ /\ UNCHANGED <<phase, v, sat>>     \* no root, or more than one
          /\ Throw
       \/ /\ op.q = "mid"
          /\ op.pair = "DQ"
          /\ v' = AllSet("wrong")
          /\ phase' = "twophase"
          /\ sat' = "wrong"
          /\ Throw
    /\ UNCHANGED Histories

\* With a guess the temperature is resolved first, and the phase imposed after it.
XQGuess ==
    /\ At("flash", {"DQ", "HQ", "QS"})
    /\ op.guess
    /\ IF op.region = "twophase" /\ op.q # "mid"
       THEN /\ imposed' = "twophase"
            /\ phase' = "twophase"
            /\ v' = [AllSet("exact") EXCEPT !.x = v.x]
            /\ sat' = "exact"
            /\ Goto("post")
       ELSE Throw /\ UNCHANGED <<imposed, phase, v, sat>>
    /\ UNCHANGED Histories

-----------------------------------------------------------------------------
(* Density with a caloric property, and enthalpy with entropy (HSU_D_flash, *)
(* HS_flash): superancillary brackets first, then the ancillary search.     *)

\* A solved state.  The check that it reproduces the inputs has cached x.  In the
\* dome the phase is withdrawn only if an earlier bracket was tried.
XYSolved ==
    /\ op.region # "outside"
    /\ phase' = op.region
    /\ IF op.region = "twophase"
       THEN /\ v' = [AllSet("exact") EXCEPT !.x = "exact"]
            /\ sat' = "exact"
            /\ imposed' \in {imposed, "none"}
       ELSE /\ v' = [Direct("exact", "exact") EXCEPT !.Q = "flag", !.x = "exact"]
            /\ imposed' = "none"
            /\ UNCHANGED sat
    /\ Goto("post")

\* What the failed solves leave: the inputs put back, everything else of a trial.
Restored == [f \in Fields |-> IF f \in Given[op.pair] THEN "exact" ELSE "wrong"]

\* Mutant of XYHappy: the inputs are not restored before the second path.
XYHappy_noRestore ==
    /\ At("flash", {"DH", "HS"})
    /\ \/ XYSolved
       \/ /\ v' = Direct("wrong", "wrong")
          /\ imposed' = "none"
          /\ phase' \in {"liquid", "gas", "scliq", "sc", "twophase"}
          /\ sat' \in {sat, "wrong"}
          /\ Goto("legacy")
    /\ UNCHANGED Histories

XYHappy ==
    /\ At("flash", {"DH", "HS"})
    /\ \/ XYSolved
       \/ /\ v' = Restored
          /\ imposed' = "none"
          /\ phase' \in {phase, "liquid", "gas", "scliq", "sc", "twophase"}
          /\ sat' \in {sat, "wrong"}
          /\ Goto("legacy")
    /\ UNCHANGED Histories

\* The second path solves for the inputs it finds in the state, evaluates the state
\* once more at the solution, and withdraws the phase its residual imposed.
XYLegacy ==
    /\ At("legacy", {"DH", "HS"})
    /\ imposed' = "none"
    /\ \/ /\ op.region # "outside"
          /\ LET found == IF \A f \in Given[op.pair] : v[f] = "exact" THEN "exact" ELSE "wrong"
             IN  IF op.region = "twophase"
                 THEN /\ v' = [f \in Fields |-> IF f \in {"x", "der"} THEN "unset" ELSE found]
                      /\ sat' = found
                 ELSE /\ v' = [Direct(found, found) EXCEPT !.Q = "flag"]
                      /\ UNCHANGED sat
          /\ phase' = op.region
          /\ Goto("post")
       \/ /\ v' \in {v, Direct("wrong", "wrong"), AllSet("wrong")}
          /\ phase' \in {phase, "twophase"}
          /\ sat' \in {sat, "wrong"}
          /\ Throw
    /\ UNCHANGED Histories

-----------------------------------------------------------------------------
Flash ==
    \/ PTCritical \/ PTDetermine \/ PTRefuse \/ PTImposed \/ PTSolve \/ PTGuess
    \/ TImposed \/ TImposedRefuse \/ TImposedTwophase \/ TDetermine
    \/ TKnown \/ TPressure \/ TSolve
    \/ PDetermine \/ PRefuse \/ DPSolve \/ HPImpose \/ HPBounds \/ HPRoot
    \/ QTFlash \/ QTGuess \/ QSCritical \/ HQRefuse \/ XQImpose \/ XQSolve \/ XQGuess
    \/ XYHappy \/ XYLegacy

Next ==
    \/ \E ph \in Imposable : Specify(ph)
    \/ Unspecify
    \/ Read
    \/ \E pair \in Pairs :
         \E region \in RegionsOf(pair), q \in QualitiesOf(pair), guess \in {FALSE} \cup {pair \in Guessed} :
            Begin(pair, region, q, guess)
    \/ \E region \in RegionsOf("DT") : DirectDT(region)
    \/ \E region \in RegionsOf("QT"), q \in QualitiesOf("QT") : SuperancQT(region, q)
    \/ Flash
    \/ PostUpdate

Spec == Init /\ [][Next]_vars

-----------------------------------------------------------------------------
TypeOK ==
    /\ imposed \in Phases \cup {"none"}
    /\ phase \in Phases \cup {"unknown", "none"}
    /\ v \in [Fields -> FieldValues]
    /\ sat \in {"unset", "exact", "wrong"}
    /\ op \in [stage : {"idle", "flash", "solve", "bounds", "root", "legacy", "post"},
               pair : AllPairs \cup {"direct", "superanc", "none"}, region : Phases \cup {"edge", "outside", "none"},
               q : {"zero", "one", "mid", "bad", "none"}, guess : BOOLEAN,
               entry : Phases \cup {"none"}, outcome : {"none", "ok", "failed"}]
    /\ asked \in Phases \cup {"none"}
    /\ declared \in BOOLEAN
    /\ always \in BOOLEAN

\* An update that tells the phase has just succeeded, and the phase has not been
\* touched since.
Answered == op.stage = "idle" /\ op.outcome = "ok" /\ ~declared /\ op.pair # "direct" /\ op.q # "bad"

\* The phase is the one of the point.
PhaseRight ==
    \/ phase = op.region
    \/ op.region = "edge" /\ phase = op.entry
    \/ op.guess /\ op.region \in {"edge", "critical"} /\ phase \in {"liquid", "gas"}

\* The state describes the point of the latest update, and a caloric property read
\* from it, computed or cached, is that of the point.
Right ==
    /\ v.T = "exact" /\ v.p = "exact" /\ v.rho = "exact"
    /\ PhaseRight
    /\ phase = "twophase" => v.Q = "exact" /\ sat = "exact"
    /\ Caloric = "exact"

\* The result of a successful update is that of its own inputs, whatever earlier
\* updates, failed ones and reads left in the state, as long as the phase in force
\* when it started was none or the right one.  The exception is a right two-phase imposed
\* on a density and a temperature: TImposedTwophase takes the outputs from saturation
\* states that this pair never sets (FlashRoutines.cpp:3876).
AnswersTheCall ==
    Answered /\ (op.entry = "none" \/ Fits(op.entry, op.region)) /\ op.region # "outside"
             /\ ~(op.pair = "DT" /\ op.entry = "twophase")
        => Right

\* A caller who has imposed no phase gets the phase and the properties of the point:
\* "if unspecified, CoolProp will determine the phase".
UnimposedAnswers ==
    Answered /\ asked = "none" /\ op.region # "outside" => Right

\* A caller who says or unsays the phase right before every update, and now imposes
\* none, gets the phase and the properties of the point, after any history of such
\* calls.  A density solve with a guess still minds the phase of the update before.
DeclaredAnswers ==
    always /\ ~(op.pair = "PT" /\ op.guess) => UnimposedAnswers

\* After update has refused a quality out of range, no caloric property can be
\* read as a number: neither the cache nor the saturation states of an earlier
\* call meet the refused quality.
RefusedQualityReadsNothing ==
    op.stage = "idle" /\ op.q = "bad" /\ op.pair \in AllPairs /\ ~op.guess /\ ~declared
        => Caloric \in {"nan", "throws"}

\* After an update by density and temperature that goes round the phase determination,
\* a caloric property is either that of the equation of state at this call's point or
\* no number at all, whatever phase and saturation states earlier calls have left, and
\* whatever phase is imposed afterwards.
DirectNeverMisreads ==
    op.stage = "idle" /\ op.pair = "direct" => Caloric \in {"exact", "nan", "throws"}

\* A phase that a caloric solve imposes on the state to guide itself is gone when it
\* has returned, on every path of its nested tries, the throwing ones included; the
\* exceptions are the quality pairs and the bounds of the pressure solve.
WithdrawsItsGuess ==
    op.stage = "idle" /\ ~declared /\ op.pair \notin {"DQ", "HQ", "QS"}
        /\ ~(op.pair = "HP" /\ op.outcome = "failed")
        => imposed \in {"none", op.entry}
====
