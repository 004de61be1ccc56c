---- MODULE SVDSBTLPoint ----
(***************************************************************************)
(* One SVDSBTL state: update, the outputs read after it, and the batch     *)
(* fast_evaluate.  Every input is routed by resolve_point_ to the surface, *)
(* to a blend of saturated liquid and vapour, or, near the critical point, *)
(* to a patch source; the first answer that is available is taken, from a  *)
(* superancillary, a spline surrogate of it or the source state.  The      *)
(* patch source is an AbstractState that every call updates in place, so   *)
(* what it holds is part of the state.  The source is another, but is read *)
(* right after its updates only, so just their failures are kept.          *)
(*                                                                         *)
(* A call is split at each update of such an object and at each use of the *)
(* saturation providers.  A number is abstracted to the input it belongs   *)
(* to and to where it comes from.  Molar inputs and outputs, converted by  *)
(* a factor, are their mass-based siblings here.                           *)
(***************************************************************************)
EXTENDS Naturals, Sequences

CONSTANTS
    Inputs,       \* records [pair, place, id]: an input pair and where its point lies
    Batches,      \* sequences of inputs of one pair that has a surface
    Backends,     \* pairs: of what backends the source and the patch source are
    Reads,        \* outputs read one by one
    Outputs       \* what batches ask for, sequences of properties

Pairs == {"HmassP", "PSmass", "PT", "DmassT", "PQ", "QT"}
Properties == {"T", "h", "s", "d", "u", "w", "cp"}

(* Where a point lies.  "region": in a region of the atlas, "near" and "edge": in one but    *)
(* within the thin band at its boundary, and outside or inside the true dome; "dome": inside *)
(* it; "sat": on the saturation curve; "outside": above the critical pressure and beyond     *)
(* every region; "patch", "band", "patchdome": in the box of the critical patch, on one      *)
(* phase, on one phase but so close to saturation that IF97 refuses its (p, T), and inside   *)
(* the dome; "badQ": a quality out of [0, 1].                                                *)
Patchable == {"patch", "band", "patchdome"}
Places == Patchable \cup {"region", "near", "edge", "dome", "sat", "outside", "badQ"}

\* A quality puts the point into the dome, if its pressure or temperature has one; a pressure
\* and a temperature never are inside it, and no others are on its boundary without belonging
\* to a side.
PlacesOf(pair) ==
    CASE pair \in {"PQ", "QT"} -> {"dome", "outside", "badQ"}
      [] pair = "PT" -> Places \ {"dome", "patchdome", "badQ"}
      [] OTHER -> Places \ {"sat", "badQ"}

ASSUME PointAssumption ==
    /\ Inputs \subseteq [pair : Pairs, place : Places, id : Nat]
    /\ \A x \in Inputs : x.place \in PlacesOf(x.pair)
    /\ Backends \subseteq {"HEOS", "REFPROP", "IF97"} \X {"HEOS", "REFPROP", "IF97"}
    /\ \A outs \in Outputs : outs \in Seq(Properties) /\ Len(outs) > 0
    /\ Reads \subseteq Properties \ {"cp"}
    /\ \A xs \in Batches : /\ xs \in Seq(Inputs) /\ Len(xs) > 0
                           /\ \A k \in DOMAIN xs : xs[k].pair = xs[1].pair /\ xs[k].pair \notin {"PQ", "QT"}

VARIABLES
    source_backend_, patch_backend,   \* chosen when the state is made
    surfaces_,                        \* pairs whose surface is resident
    patch_source_,                    \* what the patch source holds
    superanc_,                        \* "untried", "null", "plain" (no caloric curves), "caloric"
    surrogate_,                       \* "untried", "null", "built"
    active_eval_,                     \* the point of the last update
    cached,                           \* the outputs the base class has cached
    pt,                               \* the point being resolved
    call,                             \* the call in progress, or the last one
    disturbed                         \* history: a batch has moved the patch source since the last patched update

providers == <<superanc_, surrogate_>>
backends == <<source_backend_, patch_backend>>
vars == <<backends, surfaces_, patch_source_, providers, active_eval_, cached, pt, call, disturbed>>

NoInput == [pair |-> "none", place |-> "none", id |-> 0]

\* A number, or what an object holds: the input it belongs to and how it came about.
Value(x, how) == [of |-> x, how |-> how]
Nothing == Value(NoInput, "nothing")
NaN == Value(NoInput, "nan")
Thrown(e) == Value(NoInput, e)

NoPair == [L |-> Nothing, V |-> Nothing]
NoPoint == [kind |-> "Invalid", input |-> NoInput, threw |-> FALSE, T |-> Nothing, h |-> NoPair, s |-> NoPair, d |-> NoPair]
NoCall == [fn |-> "none", stage |-> "idle", xs |-> <<>>, outs |-> <<>>, end |-> "d", nan |-> FALSE,
           value |-> Nothing, values |-> <<>>, failed |-> FALSE, rows |-> <<>>]
Empty == [q \in {} |-> Nothing]

\* Without the option prebuild.
Init ==
    /\ \E b \in Backends : source_backend_ = b[1] /\ patch_backend = b[2]
    /\ surfaces_ = {"HmassP", "PT"}
    /\ patch_source_ = Nothing
    /\ superanc_ = "untried" /\ surrogate_ = "untried"
    /\ active_eval_ = NoPoint /\ cached = Empty
    /\ pt = NoPoint /\ call = NoCall /\ disturbed = FALSE

-----------------------------------------------------------------------------
(* The control of a call. *)
At(stage) == call.stage = stage
Goto(stage) == call' = [call EXCEPT !.stage = stage, !.nan = FALSE]

\* The input at work, and the point an output is read from.
X == IF call.fn = "read" THEN active_eval_.input ELSE call.xs[Len(call.rows) + 1]
E == IF call.fn = "read" THEN active_eval_ ELSE pt
SetE(point) ==
    IF call.fn = "read" THEN active_eval_' = point /\ UNCHANGED pt ELSE pt' = point /\ UNCHANGED active_eval_

\* A row of a batch is finished, and the next one begun.
NaNs == [o \in DOMAIN call.outs |-> NaN]
Row(status, values, threw) ==
    /\ call' = [call EXCEPT !.rows = Append(@, [status |-> status, values |-> values, threw |-> threw]),
                            !.values = <<>>, !.failed = FALSE, !.nan = FALSE,
                            !.stage = IF Len(call.rows) + 1 < Len(call.xs) THEN "route" ELSE "idle"]
    /\ pt' = NoPoint

\* The point is resolved, with what is known of it: update keeps it, and fills the slots of
\* the base class; a batch goes on to its outputs, or fills the row with NaN.
Resolved(kind, T, known) ==
    LET point == [known EXCEPT !.kind = kind, !.input = X, !.T = T]
    IN  IF call.fn = "update"
        THEN /\ active_eval_' = point
             /\ pt' = NoPoint
             /\ Goto("idle")
        ELSE /\ IF kind \in {"OutOfRange", "TwoPhaseDisallowed"} THEN Row(kind, NaNs, point.threw)
                ELSE pt' = point /\ Goto("batch")
             /\ UNCHANGED active_eval_

\* resolve_point_ throws, which it does for two-phase inputs only: the point before stays.
Refused ==
    /\ pt' = NoPoint
    /\ call' = [call EXCEPT !.stage = "idle", !.value = Thrown("ValueError")]
    /\ UNCHANGED active_eval_

\* resolve_point_ goes on.
On(stage) == Goto(stage) /\ UNCHANGED <<active_eval_, pt>>
OnAfterThrow(stage) ==
    /\ Goto(stage)
    /\ pt' = [NoPoint EXCEPT !.threw = TRUE]
    /\ UNCHANGED active_eval_

\* The patch source is updated.
Holds(how) == patch_source_' = Value(X, how)

-----------------------------------------------------------------------------
(* The saturation providers: superanc_ and sat_surrogate_handle_ remember that they were    *)
(* asked before they have an answer.                                                        *)
SatStages == {"satpoint", "dtdome", "reclassify", "missed", "ptsat", "endpoint"}

AskSuperanc ==
    /\ call.stage \in SatStages
    /\ superanc_ = "untried"
    /\ \/ source_backend_ # "HEOS" /\ superanc_' = "null" /\ UNCHANGED call
       \/ source_backend_ = "HEOS" /\ superanc_' \in {"null", "caloric"} /\ UNCHANGED call
       \/ source_backend_ = "HEOS" /\ superanc_' = "plain" /\ call' = [call EXCEPT !.nan = TRUE]
    /\ UNCHANGED <<backends, surfaces_, patch_source_, surrogate_, active_eval_, cached, pt, disturbed>>

\* The surrogate is sampled from the source, and is none if a sample is refused or unusable.
Surrogates == {"null", "built"}

AskSurrogate ==
    /\ call.stage \in SatStages
    /\ superanc_ = "null" /\ surrogate_ = "untried"
    /\ surrogate_' \in Surrogates
    /\ UNCHANGED <<backends, surfaces_, patch_source_, superanc_, active_eval_, cached, pt, call, disturbed>>

\* A stage that consults the providers, and what sat_T_from_p_ and sat_eval_ can tell it:
\* h and s ("caloric") or T, p and d ("plain"), or NaN.
Consults(stage) ==
    /\ At(stage)
    /\ superanc_ # "untried" /\ (superanc_ = "null" => surrogate_ # "untried")
    /\ UNCHANGED <<backends, surfaces_, patch_source_, providers, disturbed>>

Sat(what) ==
    /\ ~call.nan
    /\ X.place # "outside"
    /\ \/ superanc_ \in {"caloric", what}
       \/ superanc_ = "null" /\ surrogate_ = "built"

Liquid == Value(X, "L")
Vapour == Value(X, "V")
Saturated == [L |-> Liquid, V |-> Vapour]

\* A stage that updates the source.
Source(stage) ==
    /\ At(stage)
    /\ UNCHANGED <<backends, surfaces_, patch_source_, providers, disturbed>>

-----------------------------------------------------------------------------
(* Entering a call. *)
Lazy == {"DmassT", "PSmass"}

\* ensure_surface_: loaded from a cache, or sampled from the source, unless that fails, as
\* it always does for densities of IF97.
EnsureSurface(pair) ==
    IF pair \in Lazy \ surfaces_
    THEN /\ ~(pair = "DmassT" /\ source_backend_ = "IF97")
         /\ surfaces_' = surfaces_ \cup {pair}
    ELSE UNCHANGED surfaces_

EnsureThrows(pair) == pair \in Lazy \ surfaces_ /\ UNCHANGED surfaces_

Called(fn, xs, outs) == [NoCall EXCEPT !.fn = fn, !.xs = xs, !.outs = outs, !.stage = "route"]
CalledInVain(fn) == [NoCall EXCEPT !.fn = fn, !.value = Thrown("ValueError")]

\* Mutant of Update: the base class is not cleared.
Update_keepsCache(x) ==
    /\ At("idle")
    /\ \/ EnsureSurface(x.pair) /\ call' = Called("update", <<x>>, <<>>)
       \/ EnsureThrows(x.pair) /\ call' = CalledInVain("update")
    /\ UNCHANGED <<backends, patch_source_, providers, active_eval_, cached, pt, disturbed>>

\* update: the base class is cleared, and the point before stays until the new one is resolved.
Update(x) ==
    /\ At("idle")
    /\ \/ EnsureSurface(x.pair) /\ call' = Called("update", <<x>>, <<>>) /\ cached' = Empty
       \/ EnsureThrows(x.pair) /\ call' = CalledInVain("update") /\ UNCHANGED cached
    /\ UNCHANGED <<backends, patch_source_, providers, active_eval_, pt, disturbed>>

\* fast_evaluate takes the pairs that have a surface, at least one input and one output.
FastEvaluate(xs, outs) ==
    /\ At("idle")
    /\ \/ EnsureSurface(xs[1].pair) /\ call' = Called("fast", xs, outs)
       \/ EnsureThrows(xs[1].pair) /\ call' = CalledInVain("fast")
    /\ UNCHANGED <<backends, patch_source_, providers, active_eval_, cached, pt, disturbed>>

\* An output of the state, which the base class may have cached.
Read(p) ==
    /\ At("idle")
    /\ active_eval_.kind # "Invalid"
    /\ LET asked == [NoCall EXCEPT !.fn = "read", !.outs = <<p>>]
       IN  call' = IF p \in DOMAIN cached THEN [asked EXCEPT !.value = cached[p]] ELSE [asked EXCEPT !.stage = "eval"]
    /\ UNCHANGED <<backends, surfaces_, patch_source_, providers, active_eval_, cached, pt, disturbed>>

-----------------------------------------------------------------------------
(* resolve_point_ *)
Steady == UNCHANGED <<backends, surfaces_, patch_source_, providers, cached, disturbed>>

\* Two-phase inputs, the critical patch and densities below the critical temperature
\* are told apart before the atlas.
Route ==
    /\ At("route")
    /\ IF X.place = "badQ" THEN Refused
       ELSE On(IF X.pair \in {"PQ", "QT"} THEN "satpoint"
               ELSE IF X.place \in Patchable THEN "patch"
               ELSE IF X.pair = "DmassT" /\ X.place # "outside" THEN "dtdome"
               ELSE "atlas")
    /\ Steady

SaturationPoint ==
    /\ Consults("satpoint")
    /\ IF Sat("plain") THEN Resolved("DomeBlend", Value(X, "sat"), pt) ELSE On("satsource")
    /\ UNCHANGED cached

\* A source has no saturation states beyond the critical point.
SaturationSource ==
    /\ Source("satsource")
    /\ \/ X.place # "outside" /\ Resolved("DomeBlend", Value(X, "sat"), pt)
       \/ Refused
    /\ UNCHANGED cached

NeedsPolish == patch_backend = "IF97" /\ X.pair \in {"HmassP", "PSmass"} /\ X.place # "patchdome"

\* IF97 refuses (p, T) close to saturation.
Accepts == ~(patch_backend = "IF97" /\ X.place = "band")

\* T is known without the surface or the patch if it is an input.
InputT == IF X.pair \in {"PT", "DmassT"} THEN Value(X, "input") ELSE Nothing

PatchedAt(object) == Resolved("Patched", IF InputT = Nothing THEN object ELSE InputT, pt)

Patch ==
    /\ At("patch")
    /\ disturbed' = (call.fn = "fast")
    /\ \/ /\ X.pair = "PT" => Accepts
          /\ Holds(IF NeedsPolish THEN "seed" ELSE "state")
          /\ IF NeedsPolish THEN On("polish") ELSE PatchedAt(patch_source_')
       \/ Holds("half") /\ Resolved("OutOfRange", InputT, [NoPoint EXCEPT !.threw = TRUE])
    /\ UNCHANGED <<backends, surfaces_, providers, cached>>

\* polish_patch_state_ and its twin for entropies: temperatures around the seed are tried
\* until one gives back the input, or the tries are given up.
Polish ==
    /\ At("polish")
    /\ \/ Holds("state") /\ PatchedAt(patch_source_')
       \/ Holds("probe") /\ On("restore")
    /\ UNCHANGED <<backends, surfaces_, providers, cached, disturbed>>

\* Mutant of Restore: the seed is not restored.
Restore_not ==
    /\ At("restore")
    /\ PatchedAt(patch_source_)
    /\ UNCHANGED <<backends, surfaces_, patch_source_, providers, cached, disturbed>>

\* restore_seed swallows the exception of its own update.
Restore ==
    /\ At("restore")
    /\ IF Accepts THEN Holds("seed") ELSE Holds("half")
    /\ PatchedAt(patch_source_')
    /\ UNCHANGED <<backends, surfaces_, providers, cached, disturbed>>

\* A density below the critical temperature is compared with those of saturation; any
\* exception here leads to the atlas.
InDome == X.place = "dome"

DensityDome ==
    /\ Consults("dtdome")
    /\ IF ~Sat("plain") THEN On("dtsource")
       ELSE IF InDome THEN On("dtpressure") ELSE On("atlas")
    /\ UNCHANGED cached

DensitySource ==
    /\ Source("dtsource")
    /\ \/ IF InDome THEN On("dtpressure") ELSE On("atlas")
       \/ OnAfterThrow("atlas")
    /\ UNCHANGED cached

DensityPressure ==
    /\ Source("dtpressure")
    /\ \/ Resolved("DomeBlend", Value(X, "input"), [pt EXCEPT !.d = Saturated])
       \/ OnAfterThrow("atlas")
    /\ UNCHANGED cached

\* The atlas: a region may span the dome of a density.
Atlas ==
    /\ At("atlas")
    /\ \/ /\ X.place \in {"region", "near", "edge"} \/ (X.pair = "DmassT" /\ InDome)
          /\ IF X.place \in {"near", "edge"} /\ X.pair \in {"HmassP", "PSmass"} THEN On("reclassify")
             ELSE Resolved("SinglePhase", InputT, pt)
       \/ /\ X.place \in {"dome", "sat", "outside"}
          /\ IF X.pair \in {"HmassP", "PSmass"} THEN On("missed")
             ELSE IF X.pair = "PT" THEN On("ptsat")
             ELSE Resolved("OutOfRange", InputT, pt)
    /\ Steady

\* The endpoints of the caloric input of a pair, which its quality follows from.
Own == IF X.pair = "HmassP" THEN "h" ELSE "s"

DomeOf(known) == Resolved("DomeBlend", Value(X, "sat"), known)

\* try_fast_dome_reclassify_: the boundary of a region may reach into the dome.
Reclassify ==
    /\ Consults("reclassify")
    /\ IF Sat("caloric") /\ X.place = "edge" THEN DomeOf([pt EXCEPT ![Own] = Saturated])
       ELSE Resolved("SinglePhase", InputT, pt)
    /\ UNCHANGED cached

\* Enthalpies and entropies that no region has.
\* Mutant of Missed: without a provider the source is not asked.
Missed_noFallback ==
    /\ Consults("missed")
    /\ IF Sat("caloric") /\ InDome THEN DomeOf([pt EXCEPT ![Own] = Saturated])
       ELSE Resolved("OutOfRange", InputT, pt)
    /\ UNCHANGED cached

Missed ==
    /\ Consults("missed")
    /\ IF ~Sat("caloric") THEN On("missedsource")
       ELSE IF InDome THEN DomeOf([pt EXCEPT ![Own] = Saturated])
       ELSE Resolved("OutOfRange", InputT, pt)
    /\ UNCHANGED cached

MissedSource ==
    /\ Source("missedsource")
    /\ \/ IF InDome THEN DomeOf([pt EXCEPT !.h = Saturated, !.s = Saturated, !.d = Saturated])
          ELSE On("nowhere")
       \/ OnAfterThrow("nowhere")
    /\ UNCHANGED cached

Nowhere ==
    /\ At("nowhere")
    /\ Resolved("OutOfRange", InputT, pt)
    /\ Steady

\* A pressure and temperature that no region has: on the saturation curve, or out of range.
Outcome == Resolved(IF X.place = "sat" THEN "TwoPhaseDisallowed" ELSE "OutOfRange", InputT, pt)

OnSaturation ==
    /\ Consults("ptsat")
    /\ IF Sat("plain") THEN Outcome ELSE On("ptsource")
    /\ UNCHANGED cached

OnSaturationSource ==
    /\ Source("ptsource")
    /\ \/ Outcome
       \/ OnAfterThrow("nowhere")
    /\ UNCHANGED cached

-----------------------------------------------------------------------------
(* evaluate_property_, for an output of the state or the next one of a row. *)
Given(pair) ==
    CASE pair = "DmassT" -> {"d"} [] pair = "HmassP" -> {"h"} [] pair = "PSmass" -> {"s"} [] OTHER -> {}

Tabulated(pair) ==
    CASE pair = "HmassP" -> {"d", "T", "s", "u", "w"} [] pair = "PSmass" -> {"d", "T", "h", "u", "w"}
      [] pair = "PT" -> {"d", "h", "s", "u", "w"} [] pair = "DmassT" -> {"h", "s", "u", "w"} [] OTHER -> {}

Shortcut(o) == o \in Given(X.pair) \/ (o = "T" /\ E.T # Nothing)

\* Endpoints a blend needs and that the point does not have yet.
Needed(o) == CASE o \in {"d", "s", "h"} -> {o} [] o = "u" -> {"d", "h"} [] OTHER -> {}
Lacking(o) == {e \in Needed(o) : E[e].L = Nothing \/ E[e].V = Nothing}

Blend(ends) ==
    IF ends.L.how = "L" /\ ends.V.how = "V" /\ ends.L.of = ends.V.of THEN Value(ends.L.of, "blend")
    ELSE Value(NoInput, "mixed")

Blended(o) ==
    CASE o \in {"d", "s", "h"} -> Blend(E[o])
      [] o = "u" -> IF Blend(E.d) = Blend(E.h) THEN Blend(E.d) ELSE Value(NoInput, "mixed")
      [] o = "w" -> Thrown("NotImplementedError")
      [] OTHER -> Thrown("ValueError")

Outcomes(o) ==
    CASE Shortcut(o) -> {IF o = "T" THEN E.T ELSE Value(X, "input")}
      [] ~Shortcut(o) /\ E.kind = "SinglePhase" ->
             {IF o \in Tabulated(X.pair) THEN Value(X, "surface") ELSE Thrown("ValueError")}
      [] ~Shortcut(o) /\ E.kind = "DomeBlend" -> {Blended(o)}
      [] ~Shortcut(o) /\ E.kind = "Patched" -> {patch_source_} \cup (IF o \in {"w", "cp"} THEN {Thrown("ValueError")} ELSE {})
      [] OTHER -> {NaN}

Errors == {Thrown("ValueError"), Thrown("NotImplementedError")}

Wanted == call.outs[Len(call.values) + 1]

\* Mutant of Answer: a failed row keeps what it got.
Answer_keepsRow(o, v) ==
    IF call.fn = "read"
    THEN /\ call' = [call EXCEPT !.stage = "idle", !.value = v]
         /\ UNCHANGED <<cached, pt>>
    ELSE LET values == Append(call.values, IF v \in Errors THEN NaN ELSE v)
             failed == call.failed \/ v = Thrown("ValueError")
         IN  /\ IF Len(values) < Len(call.outs)
                THEN call' = [call EXCEPT !.stage = "eval", !.values = values, !.failed = failed] /\ UNCHANGED pt
                ELSE Row(IF failed THEN "internal_error" ELSE "ok", values, failed \/ pt.threw)
             /\ UNCHANGED cached

\* An output is answered.  A read throws on, and the base class caches what it gets; in a
\* row an exception is a NaN, and one of another type than NotImplementedError fails the row.
Answer(o, v) ==
    IF call.fn = "read"
    THEN /\ call' = [call EXCEPT !.stage = "idle", !.value = v]
         /\ cached' = IF v \in Errors \/ o \notin {"h", "s", "u", "w"} THEN cached
                      ELSE [q \in DOMAIN cached \cup {o} |-> IF q = o THEN v ELSE cached[q]]
         /\ UNCHANGED pt
    ELSE LET values == Append(call.values, IF v \in Errors THEN NaN ELSE v)
             failed == call.failed \/ v = Thrown("ValueError")
         IN  /\ IF Len(values) < Len(call.outs)
                THEN call' = [call EXCEPT !.stage = "eval", !.values = values, !.failed = failed] /\ UNCHANGED pt
                ELSE IF failed THEN Row("internal_error", NaNs, TRUE)
                ELSE Row("ok", values, pt.threw)
             /\ UNCHANGED cached

\* The outputs a surface serves are evaluated at once, if it tabulates them all.
Batch ==
    /\ At("batch")
    /\ LET served == {o \in {call.outs[k] : k \in DOMAIN call.outs} : ~Shortcut(o)}
       IN  IF E.kind = "SinglePhase" /\ ~(served \subseteq Tabulated(X.pair)) THEN Row("internal_error", NaNs, TRUE)
           ELSE Goto("eval") /\ UNCHANGED pt
    /\ UNCHANGED active_eval_
    /\ Steady

Eval ==
    /\ At("eval")
    /\ LET o == Wanted
       IN  IF ~Shortcut(o) /\ E.kind = "DomeBlend" /\ Lacking(o) # {}
           THEN /\ \E e \in Lacking(o) : /\ "d" \in Lacking(o) => e = "d"
                                         /\ call' = [call EXCEPT !.stage = "endpoint", !.end = e, !.nan = FALSE]
                /\ UNCHANGED <<cached, pt>>
           ELSE \E v \in Outcomes(o) : Answer(o, v)
    /\ UNCHANGED <<backends, surfaces_, patch_source_, providers, active_eval_, disturbed>>

\* ensure_dome_rho_endpoints_ and its siblings for entropies and enthalpies.
Endpoint ==
    /\ Consults("endpoint")
    /\ IF Sat(IF call.end = "d" THEN "plain" ELSE "caloric")
       THEN SetE([E EXCEPT ![call.end] = Saturated]) /\ Goto("eval")
       ELSE UNCHANGED <<active_eval_, pt>> /\ Goto("endliquid")
    /\ UNCHANGED cached

EndpointThrows == Answer(Wanted, Thrown("ValueError")) /\ UNCHANGED active_eval_

EndLiquid ==
    /\ Source("endliquid")
    /\ \/ SetE([E EXCEPT ![call.end].L = Liquid]) /\ Goto("endvapour") /\ UNCHANGED cached
       \/ EndpointThrows

EndVapour ==
    /\ Source("endvapour")
    /\ \/ SetE([E EXCEPT ![call.end].V = Vapour]) /\ Goto("eval") /\ UNCHANGED cached
       \/ EndpointThrows

-----------------------------------------------------------------------------
Call ==
    \/ \E x \in Inputs : Update(x)
    \/ \E xs \in Batches, outs \in Outputs : FastEvaluate(xs, outs)
    \/ \E p \in Reads : Read(p)

Step ==
    \/ AskSuperanc \/ AskSurrogate
    \/ Route \/ SaturationPoint \/ SaturationSource \/ Patch \/ Polish \/ Restore
    \/ DensityDome \/ DensitySource \/ DensityPressure
    \/ Atlas \/ Reclassify \/ Missed \/ MissedSource \/ Nowhere
    \/ OnSaturation \/ OnSaturationSource
    \/ Batch \/ Eval \/ Endpoint \/ EndLiquid \/ EndVapour

Next == Call \/ Step

Spec == Init /\ [][Next]_vars

-----------------------------------------------------------------------------
(* Properties. *)

\* An output read is that of the point of the last update, from wherever it comes: input,
\* surface, blend of two endpoints of the same point, patch or cache.  The one exception is
\* a patched point after a batch has moved the patch source, which the header admits.
ReadsOwn ==
    /\ At("idle") /\ call.fn = "read" /\ call.value \notin Errors \cup {NaN}
    /\ ~(active_eval_.kind = "Patched" /\ disturbed)
    => call.value.of = active_eval_.input

\* A row of a batch is either all of it that of its own input, but for the speed of sound in
\* two phases, or it is all NaN with a status that says so, whatever its neighbours did.
RowsAreOwnOrBlank ==
    \A k \in DOMAIN call.rows : \A o \in DOMAIN call.outs :
        LET v == call.rows[k].values[o]
        IN  IF call.rows[k].status # "ok" THEN v = NaN
            ELSE \/ v.of = call.xs[k]
                 \/ v = NaN /\ call.outs[o] = "w" /\ call.xs[k].place \in {"dome", "edge"}

Kinds(x) ==
    CASE x.place \in Patchable -> {"Patched"} [] x.place = "dome" -> {"DomeBlend"}
      [] x.place \in {"region", "near"} -> {"SinglePhase"} [] x.place = "edge" -> {"SinglePhase", "DomeBlend"}
      [] x.place = "sat" -> {"TwoPhaseDisallowed"} [] OTHER -> {"OutOfRange"}

Statuses(x) ==
    IF Kinds(x) \cap {"OutOfRange", "TwoPhaseDisallowed"} = {} THEN {"ok"} ELSE Kinds(x)

\* Whichever providers there are, and whether or not they had been asked before, an input is
\* taken for what it is as long as no update of a source fails on the way: a point in the dome
\* is never read off a surface, one outside never blended, and the status of a row tells so.
RoutedByPlace ==
    /\ active_eval_.kind # "Invalid" /\ ~active_eval_.threw => active_eval_.kind \in Kinds(active_eval_.input)
    /\ \A k \in DOMAIN call.rows : ~call.rows[k].threw => call.rows[k].status \in Statuses(call.xs[k])

\* What a patched point is read from is a state of its input, polished or, as the comment in
\* polish_patch_state_ has it, the backward seed: never a half-mutated one at a failed probe.
\* The exception: IF97 takes no (p, T) so close to saturation, that of the seed included, so
\* there the polish gives up in the middle.
PatchIsAState ==
    At("idle") /\ active_eval_.kind = "Patched" /\ ~disturbed /\ ~(patch_backend = "IF97" /\ active_eval_.input.place = "band")
        => patch_source_ \in {Value(active_eval_.input, "state"), Value(active_eval_.input, "seed")}
====
