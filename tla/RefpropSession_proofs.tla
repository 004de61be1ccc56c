---- MODULE RefpropSession_proofs ----
(***************************************************************************)
(* Proofs about the REFPROP backend.  What is believed to be loaded is     *)
(* loaded unless a load has failed since (Believed), and no fewer states   *)
(* are counted than are alive (Counted).                                   *)
(***************************************************************************)
EXTENDS RefpropSession, FiniteSetTheorems, TLAPS

Believed == ~refused => library.fluids = LoadedREFPROPRef
Counted == Cardinality(Live) <= instance_counter
IInv == TypeOK /\ Believed /\ Counted /\ ReadsOwnFluids

Session ==
    /\ library.fluids # None => library.dll
    /\ library \in [dll : BOOLEAN, fluids : Fluids \cup {None}]
    /\ LoadedREFPROPRef \in Fluids \cup {None}
    /\ refused \in BOOLEAN
    /\ Believed

\* A load, a refusal and an unload keep what is known of the session, and the library
\* stays in the process through the first two.
LEMMA SessionKept ==
    ASSUME Session, NEW f \in Fluids, Load(f) \/ Refuse(f) \/ Unload \/ UNCHANGED session
    PROVE  /\ Session'
           /\ Load(f) \/ Refuse(f) \/ UNCHANGED session => (library.dll => library'.dll)
<1>1. CASE Load(f)
    BY <1>1 DEF Session, Load, Believed
<1>2. CASE Refuse(f)
    <2>1. CASE UNCHANGED session
        BY <2>1 DEF Session, Believed, session
    <2>2. CASE /\ \E left \in {library.fluids, None} : library' = [dll |-> TRUE, fluids |-> left]
               /\ refused' = TRUE
               /\ UNCHANGED LoadedREFPROPRef
        BY <2>2 DEF Session, Believed
    <2>3. CASE /\ library' = [dll |-> TRUE, fluids |-> f]
               /\ refused' = (f \notin Predefined)
               /\ LoadedREFPROPRef' = IF f \in Predefined THEN f ELSE LoadedREFPROPRef
        BY <2>3 DEF Session, Believed
    <2> QED
        BY <1>2, <2>1, <2>2, <2>3 DEF Refuse
<1>3. CASE Unload
    <2>1. Session'
        BY <1>3 DEF Session, Unload, Believed
    <2>2. Load(f) \/ Refuse(f) \/ UNCHANGED session => (library.dll => library'.dll)
        BY DEF Load, Refuse, session
    <2> QED
        BY <2>1, <2>2
<1>4. CASE UNCHANGED session
    BY <1>4 DEF Session, Believed, session
<1> QED
    BY <1>1, <1>2, <1>3, <1>4

\* A check that does not throw ends with the state's own fluids loaded.
LEMMA CheckFinds ==
    ASSUME Session, NEW f \in Fluids, Check(f)
    PROVE  /\ Session'
           /\ library.dll => library'.dll
           /\ ~refused' => library'.fluids = f
           /\ (library'.fluids = f) \in BOOLEAN
<1>1. Load(f) \/ UNCHANGED session
    BY DEF Check
<1>2. Session' /\ (library.dll => library'.dll)
    BY <1>1, SessionKept
<1>3. ~refused' => library'.fluids = f
    <2>1. CASE LoadedREFPROPRef = f
        BY <2>1 DEF Check, session, Session, Believed
    <2>2. CASE LoadedREFPROPRef # f
        BY <2>2 DEF Check, Load
    <2> QED
        BY <2>1, <2>2
<1> QED
    BY <1>2, <1>3

Record == [names : Fluids, set : BOOLEAN, sat : BOOLEAN]

\* The states alive are finitely many; one more or one less moves the count by one.
LEMMA LiveCounts ==
    ASSUME NEW s \in States, state \in [States -> {None} \cup Record], state' \in [States -> {None} \cup Record],
           \A t \in States \ {s} : state'[t] = None <=> state[t] = None
    PROVE  /\ Cardinality(Live) \in Nat
           /\ state[s] # None => Cardinality(Live) >= 1
           /\ (state'[s] = None <=> state[s] = None) => Cardinality(Live') = Cardinality(Live)
           /\ state[s] = None /\ state'[s] # None => Cardinality(Live') = Cardinality(Live) + 1
           /\ state[s] # None /\ state'[s] = None => Cardinality(Live') = Cardinality(Live) - 1
<1>1. IsFiniteSet(States)
    BY RefpropAssumption
<1>2. IsFiniteSet(Live)
    BY <1>1, FS_Subset DEF Live
<1>3. Cardinality(Live) \in Nat
    BY <1>2, FS_CardinalityType
<1>4. state[s] # None => Cardinality(Live) >= 1
    BY <1>2, <1>3, FS_EmptySet DEF Live
<1>5. (state'[s] = None <=> state[s] = None) => Cardinality(Live') = Cardinality(Live)
    <2>1. SUFFICES ASSUME state'[s] = None <=> state[s] = None PROVE Live' = Live
        OBVIOUS
    <2> QED
        BY <2>1 DEF Live
<1>6. state[s] = None /\ state'[s] # None => Cardinality(Live') = Cardinality(Live) + 1
    <2>1. SUFFICES ASSUME state[s] = None, state'[s] # None PROVE Cardinality(Live') = Cardinality(Live) + 1
        OBVIOUS
    <2>2. Live' = Live \cup {s} /\ s \notin Live
        BY <2>1 DEF Live
    <2> QED
        BY <2>2, <1>2, FS_AddElement
<1>7. state[s] # None /\ state'[s] = None => Cardinality(Live') = Cardinality(Live) - 1
    <2>1. SUFFICES ASSUME state[s] # None, state'[s] = None PROVE Cardinality(Live') = Cardinality(Live) - 1
        OBVIOUS
    <2>2. Live' = Live \ {s} /\ s \in Live
        BY <2>1 DEF Live
    <2> QED
        BY <2>2, <1>2, FS_RemoveElement
<1> QED
    BY <1>3, <1>4, <1>5, <1>6, <1>7

Unloads == library.dll /\ ~library'.dll /\ last'.fn # "config" => \A s \in States : state'[s] = None
Rest ==
    /\ instance_counter \in Nat
    /\ supported \in BOOLEAN /\ path \in {"good", "bad"} /\ dontEstimate \in BOOLEAN
    /\ last \in [fn : {"none", "config", "checked", "unchecked"}, own : BOOLEAN]
    /\ state \in [States -> {None} \cup Record]

LEMMA Parts == IInv <=> Session /\ Rest /\ Counted /\ ReadsOwnFluids
    BY DEF IInv, Session, Rest, TypeOK, Record
LEMMA PartsNext == IInv' <=> Session' /\ Rest' /\ Counted' /\ ReadsOwnFluids'
    BY DEF IInv, Session, Rest, TypeOK, Record

LEMMA LookTyped ==
    ASSUME NEW a, NEW b
    PROVE  [fn |-> "checked", own |-> a = b] \in [fn : {"none", "config", "checked", "unchecked"}, own : BOOLEAN]
<1>1. (a = b) \in BOOLEAN
    OBVIOUS
<1> QED
    BY <1>1

\* A live state's record, before and after its check.
LEMMA RecordsKept ==
    ASSUME Rest, NEW s \in States, state[s] # None
    PROVE  /\ state[s] \in Record /\ state[s].names \in Fluids
           /\ Checked(state[s]) \in Record /\ Checked(state[s]).names = state[s].names
           /\ Clear(Checked(state[s])) \in Record
<1>1. state[s] \in Record
    BY DEF Rest
<1>2. Checked(state[s]) \in Record /\ Checked(state[s]).names = state[s].names
    BY <1>1 DEF Checked, Record
<1> QED
    BY <1>1, <1>2 DEF Clear, Record

\* A step that leaves the states and their count alone keeps the rest.
LEMMA OthersKept ==
    ASSUME Rest, Counted, UNCHANGED <<state, instance_counter>>
    PROVE  Counted'
    BY DEF Counted, Live

\* A step that gives a live state another record.
LEMMA RecordChanged ==
    ASSUME Rest, Counted, NEW s \in States, state[s] # None, NEW r \in Record,
           state' = [state EXCEPT ![s] = r], UNCHANGED instance_counter
    PROVE  state' \in [States -> {None} \cup Record] /\ Counted'
<1>1. None \notin Record
    BY RefpropAssumption DEF Record
<1>2. state' \in [States -> {None} \cup Record]
    BY DEF Rest
<1>3. (state'[s] = None <=> state[s] = None) /\ \A t \in States \ {s} : state'[t] = None <=> state[t] = None
    BY <1>1 DEF Rest
<1>4. Cardinality(Live') = Cardinality(Live)
    BY <1>2, <1>3, LiveCounts DEF Rest
<1> QED
    BY <1>2, <1>4 DEF Counted

\* A call whose check succeeds.
LEMMA CallKeeps ==
    ASSUME IInv, NEW s \in States, state[s] # None, NEW r \in Record, Updated(s, r)
    PROVE  IInv' /\ Unloads
<1>1. Session /\ Rest /\ Counted /\ state[s].names \in Fluids
    BY Parts, RecordsKept
<1>2. Session' /\ (library.dll => library'.dll) /\ (~refused' => library'.fluids = state[s].names)
    BY <1>1, CheckFinds DEF Updated
<1>3. state' \in [States -> {None} \cup Record] /\ Counted'
    BY <1>1, RecordChanged DEF Updated
<1>4. last' = [fn |-> "checked", own |-> library'.fluids = state[s].names]
    BY DEF Updated, Looked
<1>5. Rest'
    <2>1. last' \in [fn : {"none", "config", "checked", "unchecked"}, own : BOOLEAN]
        BY <1>4, LookTyped
    <2> QED
        BY <1>1, <1>3, <2>1 DEF Rest, Updated, settings
<1>6. ReadsOwnFluids'
    BY <1>2, <1>4 DEF ReadsOwnFluids
<1>7. Unloads
    BY <1>2 DEF Unloads
<1> QED
    BY <1>2, <1>3, <1>5, <1>6, <1>7, PartsNext

\* A step that leaves states and count alone and ends no look of its own.
LEMMA QuietKeeps ==
    ASSUME IInv, Session', UNCHANGED <<state, instance_counter>>, supported' \in BOOLEAN,
           path' \in {"good", "bad"}, dontEstimate' \in BOOLEAN, last' \in [fn : {"none", "config", "unchecked"}, own : BOOLEAN]
    PROVE  IInv'
<1>1. Rest'
    BY Parts DEF Rest
<1>2. Counted'
    BY Parts, OthersKept
<1>3. ReadsOwnFluids'
    BY DEF ReadsOwnFluids
<1> QED
    BY <1>1, <1>2, <1>3, PartsNext

LEMMA InitHolds == Init => IInv
<1> SUFFICES ASSUME Init PROVE IInv
    OBVIOUS
<1>1. Session /\ Rest
    BY DEF Init, Session, Rest, Believed, Unlooked
<1>2. Live = {}
    BY DEF Init, Live
<1>3. Counted
    BY <1>2, FS_EmptySet DEF Init, Counted
<1>4. ReadsOwnFluids
    BY DEF Init, ReadsOwnFluids, Unlooked
<1> QED
    BY <1>1, <1>3, <1>4, Parts

LEMMA StepHolds == IInv /\ [Next]_vars => IInv' /\ (Unloads \/ UNCHANGED vars)
<1> SUFFICES ASSUME IInv, [Next]_vars PROVE IInv' /\ (Unloads \/ UNCHANGED vars)
    OBVIOUS
<1> USE DEF Unlooked
<1>0. Session /\ Rest /\ Counted /\ ReadsOwnFluids
    BY Parts
<1>1. CASE Supported
    <2>1. Session'
        BY <1>0, <1>1 DEF Supported, Session, Believed, REFPROP_supported
    <2>2. IInv'
        BY <1>0, <1>1, <2>1, QuietKeeps DEF Supported, Tried, Rest
    <2>3. Unloads
        BY <1>0, <1>1 DEF Supported, REFPROP_supported, Unloads, Session
    <2> QED
        BY <2>2, <2>3
<1>2. CASE REFPROP_SETREF
    <2>1. Session'
        BY <1>0, <1>2 DEF REFPROP_SETREF, Session, Believed
    <2>2. IInv'
        BY <1>0, <1>2, <2>1, QuietKeeps DEF REFPROP_SETREF, Rest, settings
    <2>3. Unloads
        BY <1>0, <1>2 DEF REFPROP_SETREF, Unloads, Session
    <2> QED
        BY <2>2, <2>3
<1>3. ASSUME NEW p \in {"good", "bad"}, SetPath(p) PROVE IInv' /\ Unloads
    <2>1. Session'
        BY <1>3 DEF SetPath, Unload, Session, Believed
    <2>2. IInv'
        BY <1>0, <1>3, <2>1, QuietKeeps DEF SetPath, Rest
    <2>3. Unloads
        BY <1>3 DEF SetPath, Unloads
    <2> QED
        BY <2>2, <2>3
<1>4. ASSUME NEW b \in BOOLEAN, SetEstimation(b) PROVE IInv' /\ Unloads
    <2>1. Session'
        BY <1>0, <1>4 DEF SetEstimation, Session, Believed, session
    <2>2. IInv'
        BY <1>0, <1>4, <2>1, QuietKeeps DEF SetEstimation, Rest
    <2>3. Unloads
        BY <1>4 DEF SetEstimation, Unloads, session
    <2> QED
        BY <2>2, <2>3
<1>5. ASSUME NEW f \in Fluids, ConstructThrow(f) PROVE IInv' /\ Unloads
    <2>1. Session'
        BY <1>0, <1>5, SessionKept DEF ConstructThrow
    <2>2. IInv'
        BY <1>0, <1>5, <2>1, QuietKeeps DEF ConstructThrow, Tried, Rest
    <2>3. CASE Refuse(f)
        BY <1>0, <1>5, <2>2, <2>3, SessionKept DEF Unloads
    <2>4. CASE instance_counter = 0
        <3>1. \A s \in States : state[s] = None
            <4>1. SUFFICES ASSUME NEW s \in States, state[s] # None PROVE FALSE
                OBVIOUS
            <4>2. Cardinality(Live) \in Nat /\ Cardinality(Live) >= 1
                BY <1>0, <1>5, <4>1, LiveCounts DEF ConstructThrow, Rest
            <4> QED
                BY <1>0, <2>4, <4>2 DEF Counted
        <3> QED
            <4>1. state' = state
                BY <1>5 DEF ConstructThrow
            <4> QED
                BY <2>2, <3>1, <4>1 DEF Unloads
    <2> QED
        BY <1>5, <2>2, <2>3, <2>4 DEF ConstructThrow
<1>6. ASSUME NEW f \in Fluids, NEW s \in States, Construct(s, f) PROVE IInv' /\ Unloads
    <2>1. Session' /\ (library.dll => library'.dll)
        BY <1>0, <1>6, SessionKept DEF Construct
    <2>2. New(f, f \in Single) \in Record /\ None \notin Record
        BY <1>6, RefpropAssumption DEF New, Record
    <2>3. state' \in [States -> {None} \cup Record]
        BY <1>0, <1>6, <2>2 DEF Construct, Rest
    <2>4. /\ state[s] = None /\ state'[s] # None
          /\ \A t \in States \ {s} : state'[t] = None <=> state[t] = None
        BY <1>0, <1>6, <2>2 DEF Construct, Rest
    <2>5. Cardinality(Live) \in Nat /\ Cardinality(Live') = Cardinality(Live) + 1
        BY <1>0, <2>3, <2>4, LiveCounts DEF Rest
    <2>6. instance_counter \in Nat /\ instance_counter' \in {instance_counter + 1, instance_counter + 2}
        BY <1>0, <1>6 DEF Construct, Rest
    <2>7. Counted'
        BY <1>0, <2>5, <2>6 DEF Counted
    <2>8. Rest'
        BY <1>0, <1>6, <2>3, <2>6 DEF Construct, Rest, settings
    <2>9. ReadsOwnFluids' /\ Unloads
        BY <1>6, <2>1 DEF Construct, ReadsOwnFluids, Unloads
    <2> QED
        BY <2>1, <2>7, <2>8, <2>9, PartsNext
<1>7. ASSUME NEW s \in States, Destroy(s) PROVE IInv' /\ Unloads
    <2>1. Session' /\ (instance_counter # 1 => UNCHANGED session)
        <3>1. Unload \/ UNCHANGED session
            BY <1>7 DEF Destroy
        <3>2. state[s].names \in Fluids
            BY <1>0, <1>7, RecordsKept DEF Destroy
        <3> QED
            BY <1>0, <1>7, <3>1, <3>2, SessionKept DEF Destroy
    <2>2. state' \in [States -> {None} \cup Record]
        BY <1>0, <1>7 DEF Destroy, Rest
    <2>3. /\ state[s] # None /\ state'[s] = None
          /\ \A t \in States \ {s} : state'[t] = None <=> state[t] = None
        BY <1>0, <1>7 DEF Destroy, Rest
    <2>4. Cardinality(Live) \in Nat /\ Cardinality(Live) >= 1 /\ Cardinality(Live') = Cardinality(Live) - 1
        BY <1>0, <2>2, <2>3, LiveCounts DEF Rest
    <2>5. instance_counter \in Nat /\ instance_counter' = instance_counter - 1 /\ instance_counter >= 1
        BY <1>0, <1>7, <2>4 DEF Destroy, Rest, Counted
    <2>6. Counted'
        BY <1>0, <2>4, <2>5 DEF Counted
    <2>7. Rest'
        BY <1>0, <1>7, <2>2, <2>5 DEF Destroy, Rest, settings
    <2>8. ReadsOwnFluids'
        BY <1>7 DEF Destroy, ReadsOwnFluids
    <2>9. Unloads
        <3>1. CASE instance_counter # 1
            BY <2>1, <3>1 DEF Unloads, session
        <3>2. CASE instance_counter = 1
            <4>1. IsFiniteSet(Live')
                BY RefpropAssumption, FS_Subset DEF Live
            <4>2. Cardinality(Live') = 0
                BY <1>0, <2>4, <3>2 DEF Counted
            <4>3. Live' = {}
                BY <4>1, <4>2, FS_EmptySet
            <4> QED
                BY <4>3 DEF Live, Unloads
        <3> QED
            BY <3>1, <3>2
    <2> QED
        BY <2>1, <2>6, <2>7, <2>8, <2>9, PartsNext
<1>8. ASSUME NEW s \in States, NEW t \in States, BuildShim(s, t) PROVE IInv' /\ Unloads
    <2> DEFINE r == Checked(state[s])
    <2>1. state[s] # None /\ state[t] = None /\ s # t
        BY <1>8 DEF BuildShim
    <2>2. r \in Record /\ r.names \in Fluids
        BY <1>0, <2>1, RecordsKept
    <2>3. New(r.names, TRUE) \in Record /\ None \notin Record
        BY <2>2, RefpropAssumption DEF New, Record
    <2>4. Session' /\ (library.dll => library'.dll) /\ (~refused' => library'.fluids = r.names)
        BY <1>0, <1>8, <2>2, CheckFinds DEF BuildShim
    <2>5. state' = [state EXCEPT ![s] = r, ![t] = New(r.names, TRUE)]
        BY <1>8 DEF BuildShim
    <2> HIDE DEF r
    <2>6. state' \in [States -> {None} \cup Record]
        BY <1>0, <2>2, <2>3, <2>5 DEF Rest
    <2>7. /\ state'[t] # None
          /\ \A u \in States \ {t} : state'[u] = None <=> state[u] = None
        BY <1>0, <2>1, <2>2, <2>3, <2>5 DEF Rest
    <2>8. Cardinality(Live) \in Nat /\ Cardinality(Live') = Cardinality(Live) + 1
        BY <1>0, <2>1, <2>6, <2>7, LiveCounts DEF Rest
    <2>9. instance_counter \in Nat /\ instance_counter' = instance_counter + 1
        BY <1>0, <1>8 DEF BuildShim, Rest
    <2>10. Counted'
        BY <1>0, <2>8, <2>9 DEF Counted
    <2>11. last' = [fn |-> "checked", own |-> library'.fluids = r.names]
        BY <1>8 DEF BuildShim, Looked, r
    <2>12. Rest'
        <3>1. last' \in [fn : {"none", "config", "checked", "unchecked"}, own : BOOLEAN]
            BY <2>11, LookTyped
        <3>2. UNCHANGED settings
            BY <1>8 DEF BuildShim
        <3> QED
            BY <1>0, <2>6, <2>9, <3>1, <3>2 DEF Rest, settings
    <2>13. ReadsOwnFluids' /\ Unloads
        BY <2>4, <2>11 DEF ReadsOwnFluids, Unloads
    <2> QED
        BY <2>4, <2>10, <2>12, <2>13, PartsNext
<1>9. ASSUME NEW s \in States, state[s] # None,
             set_mole_fractions(s) \/ update(s) \/ update_Qmass_pair(s) \/ update_with_guesses(s)
             \/ update_DmolarT_direct(s) \/ ReadChecked(s)
      PROVE IInv' /\ Unloads
    <2>1. /\ state[s] \in Record /\ Checked(state[s]) \in Record /\ Clear(Checked(state[s])) \in Record
        BY <1>0, <1>9, RecordsKept
    <2>2. PICK r \in Record : Updated(s, r)
        <3>1. CASE set_mole_fractions(s)
            <4>1. [state[s] EXCEPT !.set = TRUE] \in Record
                BY <2>1 DEF Record
            <4>2. state' = [state EXCEPT ![s] = [state[s] EXCEPT !.set = TRUE]]
                BY <1>0, <3>1 DEF set_mole_fractions, Rest
            <4> QED
                BY <3>1, <4>1, <4>2 DEF set_mole_fractions, Updated
        <3>2. CASE update(s)
            <4>1. \A sat \in BOOLEAN : [Clear(Checked(state[s])) EXCEPT !.sat = sat] \in Record
                BY <2>1 DEF Record
            <4> QED
                BY <2>1, <3>2, <4>1 DEF update
        <3>3. CASE update_Qmass_pair(s)
            <4>1. [Checked(state[s]) EXCEPT !.sat = TRUE] \in Record
                BY <2>1 DEF Record
            <4> QED
                BY <2>1, <3>3, <4>1 DEF update_Qmass_pair
        <3>4. CASE update_with_guesses(s) \/ update_DmolarT_direct(s) \/ ReadChecked(s)
            BY <2>1, <3>4 DEF update_with_guesses, update_DmolarT_direct, ReadChecked
        <3> QED
            BY <1>9, <3>1, <3>2, <3>3, <3>4
    <2> QED
        BY <1>9, <2>2, CallKeeps
<1>10. ASSUME NEW s \in States, SetMoleFractionsThrow(s) PROVE IInv' /\ Unloads
    <2>1. state[s] # None /\ state[s] \in Record /\ state[s].names \in Fluids
        BY <1>0, <1>10, RecordsKept DEF SetMoleFractionsThrow
    <2>2. Session' /\ (library.dll => library'.dll)
        BY <1>0, <1>10, <2>1, SessionKept DEF SetMoleFractionsThrow, CheckThrows
    <2>3. [state[s] EXCEPT !.set = TRUE] \in Record
        BY <2>1 DEF Record
    <2>4. state' = [state EXCEPT ![s] = [state[s] EXCEPT !.set = TRUE]]
        BY <1>0, <1>10 DEF SetMoleFractionsThrow, Rest
    <2>5. state' \in [States -> {None} \cup Record] /\ Counted'
        BY <1>0, <1>10, <2>1, <2>3, <2>4, RecordChanged DEF SetMoleFractionsThrow
    <2>6. Rest'
        BY <1>0, <1>10, <2>5 DEF SetMoleFractionsThrow, Tried, Rest
    <2>7. ReadsOwnFluids' /\ Unloads
        BY <1>10, <2>2 DEF SetMoleFractionsThrow, ReadsOwnFluids, Unloads
    <2> QED
        BY <2>2, <2>5, <2>6, <2>7, PartsNext
<1>11. ASSUME NEW s \in States, set_mass_fractions(s) PROVE IInv' /\ Unloads
    <2>1. state[s] # None /\ state[s] \in Record /\ state[s].names \in Fluids
        BY <1>0, <1>11, RecordsKept DEF set_mass_fractions
    <2>2. Session' /\ (library.dll => library'.dll)
        BY <1>0, <1>11, <2>1, CheckFinds DEF set_mass_fractions
    <2>3. [state[s] EXCEPT !.set = TRUE] \in Record
        BY <2>1 DEF Record
    <2>4. state' = [state EXCEPT ![s] = [state[s] EXCEPT !.set = TRUE]]
        BY <1>0, <1>11 DEF set_mass_fractions, Rest
    <2>5. state' \in [States -> {None} \cup Record] /\ Counted'
        BY <1>0, <1>11, <2>1, <2>3, <2>4, RecordChanged DEF set_mass_fractions
    <2>6. Rest'
        BY <1>0, <1>11, <2>5 DEF set_mass_fractions, settings, Rest
    <2>7. ReadsOwnFluids' /\ Unloads
        BY <1>11, <2>2 DEF set_mass_fractions, ReadsOwnFluids, Unloads
    <2> QED
        BY <2>2, <2>5, <2>6, <2>7, PartsNext
<1>12. ASSUME NEW s \in States, Throw(s) PROVE IInv' /\ Unloads
    <2>1. state[s].names \in Fluids
        BY <1>0, <1>12, RecordsKept DEF Throw
    <2>2. Session' /\ (library.dll => library'.dll)
        BY <1>0, <1>12, <2>1, SessionKept DEF Throw, CheckThrows
    <2>3. IInv'
        BY <1>0, <1>12, <2>2, QuietKeeps DEF Throw, Tried, Rest
    <2> QED
        BY <2>2, <2>3 DEF Unloads
<1>13. ASSUME NEW s \in States, ReadUnchecked(s) PROVE IInv' /\ Unloads
    <2>1. Session'
        BY <1>0, <1>13 DEF ReadUnchecked, Session, Believed, session
    <2>2. IInv'
        BY <1>0, <1>13, <2>1, QuietKeeps DEF ReadUnchecked, Rest, settings
    <2>3. Unloads
        BY <1>13 DEF ReadUnchecked, Unloads, session
    <2> QED
        BY <2>2, <2>3
<1>14. CASE UNCHANGED vars
    <2>1. Session' /\ Rest' /\ ReadsOwnFluids'
        BY <1>0, <1>14 DEF vars, Session, Believed, Rest, ReadsOwnFluids
    <2>2. Counted'
        BY <1>0, <1>14, OthersKept DEF vars
    <2> QED
        BY <1>14, <2>1, <2>2, PartsNext
<1>15. CASE Next
    <2>1. ASSUME NEW s \in States,
                 set_mole_fractions(s) \/ update(s) \/ update_Qmass_pair(s) \/ update_with_guesses(s)
                 \/ update_DmolarT_direct(s) \/ ReadChecked(s)
          PROVE  state[s] # None
        BY <2>1 DEF set_mole_fractions, update, update_Qmass_pair, update_with_guesses, update_DmolarT_direct, ReadChecked
    <2> QED
        BY <1>15, <1>1, <1>2, <1>3, <1>4, <1>5, <1>6, <1>7, <1>8, <1>9, <1>10, <1>11, <1>12, <1>13, <2>1 DEF Next
<1> QED
    BY <1>14, <1>15

\* A function that checks what is loaded finds its own fluids in the library, however
\* many states share it, as long as no failed load stands after the last good one.
THEOREM CheckedReadsAreOwn == Spec => []ReadsOwnFluids
<1>1. IInv => ReadsOwnFluids
    BY DEF IInv
<1> QED
    BY <1>1, InitHolds, StepHolds, PTL DEF Spec

\* Destructors and constructors that throw never unload the library under a state: the
\* counter is never below the number of states alive, though it may stay above it.
THEOREM NeverUnloadedInUse == Spec => UnloadsUnused
<1>1. IInv /\ [Next]_vars => [library.dll /\ ~library'.dll /\ last'.fn # "config" => \A s \in States : state'[s] = None]_vars
    BY StepHolds DEF Unloads
<1> QED
    BY <1>1, InitHolds, StepHolds, PTL DEF Spec, UnloadsUnused
====
