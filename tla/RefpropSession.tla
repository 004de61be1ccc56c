---- MODULE RefpropSession ----
(***************************************************************************)
(* The REFPROP backend: states that share one external library, which has  *)
(* one set of fluids loaded at a time (class REFPROPMixtureBackend).       *)
(*                                                                         *)
(* LoadedREFPROPRef says what the code believes to be loaded.  A state     *)
(* with other fluids loads its own before it calls the library, if the     *)
(* function it runs looks at all.  The code has no lock, so calls come one *)
(* after the other: a call is a step, with every load and throw on its     *)
(* way.  What the library computes is external; of a composition the model *)
(* tells whether it is set, and of an update whether it is of two phases.  *)
(* cached_component_string of a state is the string of its own fluids from *)
(* its first load on.                                                      *)
(***************************************************************************)
EXTENDS Naturals, FiniteSets

CONSTANTS
    States,         \* state objects, saturation shims included
    Fluids,         \* what a state may be made for
    Single,         \* those of one name: pure fluids and predefined mixtures
    Predefined,     \* those of a .MIX file, which gives their composition
    Estimated,      \* those with estimated interaction parameters (-117)
    Missing,        \* those no file is found for
    MaxCount,       \* bound of instance_counter
    None

ASSUME RefpropAssumption ==
    /\ IsFiniteSet(States)
    /\ Predefined \subseteq Single /\ Single \subseteq Fluids
    /\ MaxCount \in Nat
    /\ None \notin Fluids
    /\ None \notin [names : Fluids, set : BOOLEAN, sat : BOOLEAN]

VARIABLES
    library,            \* external: the shared library, and the fluids it holds
    LoadedREFPROPRef,
    instance_counter,
    supported,          \* _REFPROP_supported
    path,               \* whether the configured path leads to REFPROP
    dontEstimate,       \* REFPROP_DONT_ESTIMATE_INTERACTION_PARAMETERS
    state,
    refused,            \* history: a load has failed since one succeeded
    last                \* history: the last look into the library

vars == <<library, LoadedREFPROPRef, instance_counter, supported, path, dontEstimate, state, refused, last>>
settings == <<supported, path, dontEstimate>>
session == <<library, LoadedREFPROPRef, refused>>

Live == {s \in States : state[s] # None}
Unlooked == [fn |-> "none", own |-> TRUE]
Looked(fn, f) == [fn |-> fn, own |-> library'.fluids = f]

\* set is _mole_fractions_set; sat tells that saturation densities are kept.
New(f, set) == [names |-> f, set |-> set, sat |-> FALSE]

Init ==
    /\ library = [dll |-> FALSE, fluids |-> None]
    /\ LoadedREFPROPRef = None
    /\ instance_counter = 0
    /\ supported = TRUE /\ path = "good" /\ dontEstimate = FALSE
    /\ state = [s \in States |-> None]
    /\ refused = FALSE
    /\ last = Unlooked

(* The library *)

\* REFPROP_supported(): a library that could not be loaded once is never tried again.
REFPROP_supported == library.dll \/ (supported /\ path = "good")
Tried == supported' = (supported /\ (library.dll \/ path = "good"))
\* Also version(), whose SETUPdll with N = -1 is taken to leave the loaded fluids alone.
Supported ==
    /\ library' = [library EXCEPT !.dll = REFPROP_supported]
    /\ Tried
    /\ last' = Unlooked
    /\ UNCHANGED <<LoadedREFPROPRef, instance_counter, path, dontEstimate, state, refused>>

\* Mutant of Unload: the name of the fluids that were loaded is left.
Unload_keepsName ==
    /\ library' = [dll |-> FALSE, fluids |-> None]
    /\ refused' = FALSE
    /\ UNCHANGED LoadedREFPROPRef
Unload ==
    /\ library' = [dll |-> FALSE, fluids |-> None]
    /\ LoadedREFPROPRef' = None
    /\ refused' = FALSE

\* REFPROP_SETREF loads the library from the default place.
REFPROP_SETREF ==
    /\ library' = [library EXCEPT !.dll = TRUE]
    /\ last' = Unlooked
    /\ UNCHANGED <<LoadedREFPROPRef, instance_counter, settings, state, refused>>

\* set_config_string: a new path unloads the library under the states that live.
SetPath(p) ==
    /\ path' = p
    /\ Unload
    /\ last' = [fn |-> "config", own |-> TRUE]
    /\ UNCHANGED <<instance_counter, supported, dontEstimate, state>>

SetEstimation(b) ==
    /\ dontEstimate' = b
    /\ last' = Unlooked
    /\ UNCHANGED <<session, instance_counter, supported, path, state>>

(* set_REFPROP_fluids *)

Loadable(f) == path = "good" /\ REFPROP_supported /\ f \notin Missing /\ ~(dontEstimate /\ f \in Estimated)

Load(f) ==
    /\ Loadable(f)
    /\ library' = [dll |-> TRUE, fluids |-> f]
    /\ LoadedREFPROPRef' = f
    /\ refused' = FALSE

\* A fluid that is not found leaves in the library what was there or nothing; one whose
\* parameters are estimated is loaded when the code refuses it, before its name is
\* noted, except for a predefined mixture.
Refuse(f) ==
    \/ /\ path = "bad" \/ ~REFPROP_supported
       /\ UNCHANGED session
    \/ /\ path = "good" /\ REFPROP_supported /\ f \in Missing
       /\ \E left \in {library.fluids, None} : library' = [dll |-> TRUE, fluids |-> left]
       /\ refused' = TRUE
       /\ UNCHANGED LoadedREFPROPRef
    \/ /\ path = "good" /\ REFPROP_supported /\ f \notin Missing /\ dontEstimate /\ f \in Estimated
       /\ library' = [dll |-> TRUE, fluids |-> f]
       /\ refused' = (f \notin Predefined)
       /\ LoadedREFPROPRef' = IF f \in Predefined THEN f ELSE LoadedREFPROPRef

\* check_loaded_fluid() of a state: its fluids are believed to be loaded, or it loads them.
Check(f) == IF LoadedREFPROPRef = f THEN UNCHANGED session ELSE Load(f)
CheckThrows(f) == LoadedREFPROPRef # f /\ Refuse(f)

\* The state after the check: loading a predefined mixture sets its composition.
Checked(r) == [r EXCEPT !.set = @ \/ (LoadedREFPROPRef # r.names /\ r.names \in Predefined)]

(* The life of a state *)

\* REFPROPBackend, for a single name, counts itself twice: its base's default
\* constructor does, and construct() does once more.
Construct(s, f) ==
    /\ state[s] = None /\ instance_counter + 2 <= MaxCount
    /\ Load(f)
    /\ instance_counter' = instance_counter + (IF f \in Single THEN 2 ELSE 1)
    /\ state' = [state EXCEPT ![s] = New(f, f \in Single)]
    /\ last' = Unlooked
    /\ UNCHANGED settings

\* When construct() throws, the base of a REFPROPBackend is destroyed and counted down.
ConstructThrow(f) ==
    /\ ~Loadable(f)
    /\ IF f \in Single /\ instance_counter = 0 THEN Unload ELSE Refuse(f)
    /\ Tried
    /\ last' = Unlooked
    /\ UNCHANGED <<instance_counter, path, dontEstimate, state>>

Destroy(s) ==
    /\ state[s] # None
    /\ state' = [state EXCEPT ![s] = None]
    /\ instance_counter' = instance_counter - 1
    /\ IF instance_counter = 1 THEN Unload ELSE UNCHANGED session
    /\ last' = Unlooked
    /\ UNCHANGED settings

\* Mutant of BuildShim: the default constructor does not count.
BuildShim_uncounted(s, t) ==
    LET r == Checked(state[s])
    IN  /\ state[s] # None /\ r.sat
        /\ state[t] = None
        /\ Check(r.names)
        /\ state' = [state EXCEPT ![s] = r, ![t] = New(r.names, TRUE)]
        /\ last' = Looked("checked", r.names)
        /\ UNCHANGED <<instance_counter, settings>>

\* build_saturation_shim: a state of its own, linked to the fluids its host has loaded
\* and set directly at the density and composition of one of the host's phases.
BuildShim(s, t) ==
    LET r == Checked(state[s])
    IN  /\ state[s] # None /\ r.sat
        /\ state[t] = None /\ instance_counter + 2 <= MaxCount
        /\ Check(r.names)
        /\ instance_counter' = instance_counter + 1
        /\ state' = [state EXCEPT ![s] = r, ![t] = New(r.names, TRUE)]
        /\ last' = Looked("checked", r.names)
        /\ UNCHANGED settings

(* Composition *)

\* set_mole_fractions stores them and clears what depends on them, for which it asks
\* the library.
set_mole_fractions(s) ==
    /\ state[s] # None
    /\ Check(state[s].names)
    /\ state' = [state EXCEPT ![s].set = TRUE]
    /\ last' = Looked("checked", state[s].names)
    /\ UNCHANGED <<instance_counter, settings>>
SetMoleFractionsThrow(s) ==
    /\ state[s] # None
    /\ CheckThrows(state[s].names) /\ Tried
    /\ state' = [state EXCEPT ![s].set = TRUE]
    /\ last' = Unlooked
    /\ UNCHANGED <<instance_counter, path, dontEstimate>>

\* set_mass_fractions asks the library for molar masses before anything is checked.
set_mass_fractions(s) ==
    /\ state[s] # None
    /\ Check(state[s].names)
    /\ state' = [state EXCEPT ![s].set = TRUE]
    /\ last' = [fn |-> "unchecked", own |-> library.fluids = state[s].names]
    /\ UNCHANGED <<instance_counter, settings>>

(* Updates *)

\* A state whose check succeeds becomes r.
Updated(s, r) ==
    /\ Check(state[s].names)
    /\ state' = [state EXCEPT ![s] = r]
    /\ last' = Looked("checked", state[s].names)
    /\ UNCHANGED <<instance_counter, settings>>

\* clear(): what the state keeps, but not its composition.
Clear(r) == [r EXCEPT !.sat = FALSE]

\* update: it clears, then one flash fills everything, or fails; the saturation
\* densities are kept if the point is in two phases.
update(s) ==
    /\ state[s] # None
    /\ LET r == Clear(Checked(state[s]))
       IN  \/ /\ r.set
              /\ \E sat \in BOOLEAN : Updated(s, [r EXCEPT !.sat = sat])
           \/ Updated(s, r)

\* update_Qmass_pair, for the two pairs the library takes: it asks for no composition,
\* nothing is cleared, and a failed flash leaves everything.
update_Qmass_pair(s) ==
    /\ state[s] # None
    /\ LET r == Checked(state[s])
       IN Updated(s, r) \/ Updated(s, [r EXCEPT !.sat = TRUE])

\* update_with_guesses and update_DmolarT_direct keep no saturation densities.
update_with_guesses(s) ==
    /\ state[s] # None
    /\ Updated(s, Clear(Checked(state[s])))
update_DmolarT_direct(s) ==
    /\ state[s] # None
    /\ Updated(s, Clear(Checked(state[s])))

(* Outputs *)

\* The outputs that check first.
ReadChecked(s) ==
    /\ state[s] # None
    /\ Updated(s, Checked(state[s]))

\* A call that throws in its check; only SetMoleFractionsThrow has changed the state by then.
Throw(s) ==
    /\ state[s] # None
    /\ CheckThrows(state[s].names) /\ Tried
    /\ last' = Unlooked
    /\ UNCHANGED <<instance_counter, path, dontEstimate, state>>

\* The outputs that do not check: name, critical density, virial coefficients, PIP, mass
\* fractions, molar masses of the phases, and the interaction parameters, which these
\* functions also set.
ReadUnchecked(s) ==
    /\ state[s] # None
    /\ last' = [fn |-> "unchecked", own |-> library.fluids = state[s].names]
    /\ UNCHANGED <<session, instance_counter, settings, state>>

Next ==
    \/ Supported \/ REFPROP_SETREF
    \/ \E p \in {"good", "bad"} : SetPath(p)
    \/ \E b \in BOOLEAN : SetEstimation(b)
    \/ \E f \in Fluids : ConstructThrow(f) \/ \E s \in States : Construct(s, f)
    \/ \E s \in States :
          \/ Destroy(s) \/ \E t \in States : BuildShim(s, t)
          \/ set_mole_fractions(s) \/ SetMoleFractionsThrow(s) \/ set_mass_fractions(s)
          \/ update(s) \/ update_Qmass_pair(s) \/ update_with_guesses(s) \/ update_DmolarT_direct(s)
          \/ ReadChecked(s) \/ ReadUnchecked(s) \/ Throw(s)

Spec == Init /\ [][Next]_vars

\* Every variable keeps its type, and what is loaded is loaded into a library.
TypeOK ==
    /\ library \in [dll : BOOLEAN, fluids : Fluids \cup {None}]
    /\ library.fluids # None => library.dll
    /\ LoadedREFPROPRef \in Fluids \cup {None}
    /\ instance_counter \in Nat
    /\ supported \in BOOLEAN /\ path \in {"good", "bad"} /\ dontEstimate \in BOOLEAN /\ refused \in BOOLEAN
    /\ last \in [fn : {"none", "config", "checked", "unchecked"}, own : BOOLEAN]
    /\ state \in [States -> {None} \cup [names : Fluids, set : BOOLEAN, sat : BOOLEAN]]

\* A function that checks what is loaded (check_loaded_fluid) finds its own fluids in the
\* library, whatever other states have loaded, refused or destroyed meanwhile and whatever
\* path the user has set, as long as no load that failed stands after the last that did not.
ReadsOwnFluids == last.fn = "checked" /\ ~refused => last.own

\* A destructor, or a constructor that throws, unloads the library only when no state is
\* left, saturation shims included: one that lived on would call through null pointers.
UnloadsUnused ==
    [][library.dll /\ ~library'.dll /\ last'.fn # "config" => \A s \in States : state'[s] = None]_vars
====
