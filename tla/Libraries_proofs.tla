---- MODULE Libraries_proofs ----
(***************************************************************************)
(* The libraries for any listings, any identifiers and components, and any *)
(* number of calls: every identifier of a fluid leads to a fluid, those of *)
(* the fluid just registered to that fluid, and the names in the lists to  *)
(* one of their kind; and a mixture has what it was told last.             *)
(***************************************************************************)
EXTENDS MixtureLibraries, WellFoundedInduction, TLAPS

KeyMaps(S) == UNION {[ks -> S] : ks \in SUBSET Keys}

TypeInv ==
    /\ heos \in [fluids : Seq(Entries), json : Seq(Entries), keys : KeyMaps(Nat), names : Seq(Keys)]
    /\ pcsaft \in [fluids : Seq(Entries), keys : KeyMaps(Nat), undefined : BOOLEAN]
    /\ cubics \in [fluids : KeyMaps(Entries), aliases : KeyMaps(Keys), json : KeyMaps(Entries)]
    /\ incomp \in [fluids : Seq(Entries), keys : KeyMaps(Nat), pure : Seq(Keys), solution : Seq(Keys)]

\* No two identifiers of a library lead to one fluid.
OneEach(keys) == \A j, k \in DOMAIN keys : keys[j] = keys[k] => j = k

\* The parts of KeysLead that hold whatever was added last, and OneEach.
Sound ==
    /\ Leads(heos.keys, heos.fluids) /\ heos.json = heos.fluids
    /\ Leads(pcsaft.keys, pcsaft.fluids)
    /\ Leads(incomp.keys, incomp.fluids) /\ OneEach(incomp.keys)
    /\ cubics.json = cubics.fluids
    /\ \A a \in DOMAIN cubics.aliases : cubics.aliases[a] \in DOMAIN cubics.fluids

AddedFound == added # None => \A k \in Sought(added) : Found(k) = added

IInv == TypeInv /\ Sound /\ AddedFound

-----------------------------------------------------------------------------
(* The operators. *)

\* A map of keys, and what Put makes of it.
LEMMA KeyMapType ==
    ASSUME NEW S, NEW f \in KeyMaps(S)
    PROVE  DOMAIN f \subseteq Keys /\ f \in [DOMAIN f -> S]
BY DEF KeyMaps

LEMMA PutType ==
    ASSUME NEW S, NEW f \in KeyMaps(S), NEW ks \in SUBSET Keys, NEW v \in S
    PROVE  Put(f, ks, v) \in KeyMaps(S)
<1>1. DOMAIN f \subseteq Keys /\ f \in [DOMAIN f -> S]
  BY KeyMapType
<1>2. Put(f, ks, v) \in [DOMAIN f \cup ks -> S]
  BY <1>1 DEF Put
<1>3. DOMAIN f \cup ks \in SUBSET Keys
  BY <1>1
<1> QED
  BY <1>2, <1>3 DEF KeyMaps

\* The least of a set of indices is one of them.
LEMMA FirstIn ==
    ASSUME NEW S \in SUBSET Nat, S # {}
    PROVE  First(S) \in S /\ \A j \in S : First(S) <= j
<1> DEFINE R == {ss \in Nat \X Nat : ss[1] < ss[2]}
<1>1. OpToRel(<, Nat) = R
  BY Zenon DEF OpToRel
<1>2. IsWellFoundedOn(R, Nat)
  BY <1>1, NatLessThanWellFounded, Zenon
<1>3. PICK i \in S : \A j \in S : <<j, i>> \notin R
  BY <1>2, WFMin
<1>4. \A j \in S : i <= j
  <2> TAKE j \in S
  <2>1. i \in Nat /\ j \in Nat /\ <<j, i>> \in Nat \X Nat
    OBVIOUS
  <2>2. ~ (j < i)
    BY <1>3, <2>1
  <2> QED BY <2>1, <2>2
<1> QED BY <1>4 DEF First

LEMMA EntryType ==
    ASSUME NEW e \in Entries
    PROVE  /\ e.cas \in Keys /\ e.name \in Keys /\ Upper[e.name] \in Keys /\ e.aliases \in Seq(Keys)
           /\ \A i \in DOMAIN e.aliases : e.aliases[i] \in Keys
           /\ Names(e) \subseteq Keys
<1>1. e.cas \in Keys /\ e.name \in Keys /\ e.aliases \in Seq(Keys) /\ Upper \in [Keys -> Keys]
  BY FluidAssumption
<1>2. \A i \in DOMAIN e.aliases : e.aliases[i] \in Keys
  BY <1>1
<1>3. ToSet(e.aliases) \subseteq Keys
  BY <1>2 DEF ToSet
<1> QED
  BY <1>1, <1>2, <1>3 DEF Names

LEMMA KeysOfType ==
    ASSUME NEW e \in Entries
    PROVE  KeysOf(e) \in SUBSET Keys
BY EntryType DEF KeysOf

\* The alias that is found taken is a key.
LEMMA AliasTakenIn ==
    ASSUME NEW e \in Entries, NEW keys,
           Names(e) \cap DOMAIN keys # {}
    PROVE  AliasTaken(e, keys) \in DOMAIN keys
<1> DEFINE S == {i \in DOMAIN e.aliases : {e.aliases[i], Upper[e.aliases[i]]} \cap DOMAIN keys # {}}
<1>1. PICK k \in Names(e) : k \in DOMAIN keys
  OBVIOUS
<1>2. \E i \in DOMAIN e.aliases : k \in {e.aliases[i], Upper[e.aliases[i]]}
  BY <1>1 DEF Names, ToSet
<1>3. S # {}
  BY <1>1, <1>2
<1>4. S \in SUBSET Nat
  BY EntryType
<1>5. First(S) \in S
  BY <1>3, <1>4, FirstIn
<1> QED
  BY <1>5 DEF AliasTaken

\* The index of an entry is that of a fluid that is there, or the next.
LEMMA IndexOfType ==
    ASSUME NEW e \in Entries, NEW fluids \in Seq(Entries), NEW keys \in KeyMaps(Nat), Leads(keys, fluids)
    PROVE  /\ IndexOf(e, fluids, keys) \in 1 .. Len(fluids) + 1
           /\ IndexOf(e, fluids, keys) \in Nat
<1>1. CASE Identifiers(e) \cap DOMAIN keys = {}
  BY <1>1 DEF IndexOf
<1>2. CASE Identifiers(e) \cap DOMAIN keys # {}
  <2>1. Names(e) \cap DOMAIN keys # {} => AliasTaken(e, keys) \in DOMAIN keys
    BY AliasTakenIn
  <2>2. \E k \in DOMAIN keys : IndexOf(e, fluids, keys) = keys[k]
    BY <1>2, <2>1 DEF IndexOf, Identifiers
  <2>3. \A k \in DOMAIN keys : keys[k] \in 1 .. Len(fluids)
    BY DEF Leads
  <2> QED BY <2>2, <2>3
<1> QED BY <1>1, <1>2

-----------------------------------------------------------------------------
(* The invariant. *)

LEMMA InitInv == Init => IInv
<1> SUFFICES ASSUME Init PROVE IInv
  OBVIOUS
<1>1. Nothing = [k \in {} |-> 0] /\ DOMAIN Nothing = {}
  BY DEF Nothing
<1>2. \A S : Nothing \in KeyMaps(S)
  <2> TAKE S
  <2>1. Nothing \in [{} -> S]
    BY <1>1
  <2> QED BY <2>1 DEF KeyMaps
<1>3. <<>> \in Seq(Entries) /\ <<>> \in Seq(Keys)
  OBVIOUS
<1>4. TypeInv
  BY <1>2, <1>3 DEF Init, TypeInv
<1>5. Sound
  BY <1>1 DEF Init, Sound, Leads, OneEach
<1> QED BY <1>4, <1>5 DEF IInv, Init, AddedFound

\* An append keeps what a sequence has.
LEMMA Appended ==
    ASSUME NEW S, NEW s \in Seq(S), NEW e \in S
    PROVE  /\ Append(s, e) \in Seq(S)
           /\ DOMAIN Append(s, e) = DOMAIN s \cup {Len(s) + 1}
           /\ Append(s, e)[Len(s) + 1] = e
           /\ Len(s) + 1 \in Nat /\ DOMAIN s = 1 .. Len(s)
OBVIOUS

\* A fluid put at an index, or after the last.
Placed(fluids, e, index) ==
    IF index > Len(fluids) THEN Append(fluids, e) ELSE [fluids EXCEPT ![index] = e]

\* Fluids that are registered under an index and a set of keys.
LEMMA Registering ==
    ASSUME NEW fluids \in Seq(Entries), NEW keys \in KeyMaps(Nat), Leads(keys, fluids),
           NEW e \in Entries, NEW ks \in SUBSET Keys, NEW index \in 1 .. Len(fluids) + 1
    PROVE  /\ Placed(fluids, e, index) \in Seq(Entries)
           /\ Put(keys, ks, index) \in KeyMaps(Nat)
           /\ Leads(Put(keys, ks, index), Placed(fluids, e, index))
           /\ \A k \in ks : k \in DOMAIN Put(keys, ks, index) /\ Placed(fluids, e, index)[Put(keys, ks, index)[k]] = e
<1> DEFINE after == Placed(fluids, e, index)
<1>1. index \in Nat
  OBVIOUS
<1>2. /\ Put(keys, ks, index) \in KeyMaps(Nat)
      /\ DOMAIN Put(keys, ks, index) = DOMAIN keys \cup ks
      /\ \A k \in ks : Put(keys, ks, index)[k] = index
      /\ \A k \in DOMAIN keys \ ks : Put(keys, ks, index)[k] = keys[k]
  <2>1. Put(keys, ks, index) \in KeyMaps(Nat)
    BY <1>1, PutType
  <2> QED BY <2>1 DEF Put
<1>3. after \in Seq(Entries) /\ DOMAIN after = DOMAIN fluids \cup {index} /\ after[index] = e
  <2>1. CASE index > Len(fluids)
    BY <2>1, Appended DEF Placed
  <2>2. CASE ~ (index > Len(fluids))
    <3>1. index \in DOMAIN fluids /\ DOMAIN fluids = 1 .. Len(fluids)
      BY <2>2
    <3> QED BY <2>2, <3>1 DEF Placed
  <2> QED BY <2>1, <2>2
<1> HIDE DEF after
<1>4. Leads(Put(keys, ks, index), after)
  BY <1>2, <1>3 DEF Leads
<1> QED BY <1>2, <1>3, <1>4 DEF after

\* What a step changes besides the libraries does not matter, if it registers nothing.
LEMMA QuietStep ==
    ASSUME IInv, UNCHANGED <<libraries, lib>>, added' = None \/ added' = added
    PROVE  IInv'
<1>1. TypeInv' /\ Sound'
  BY DEF IInv, TypeInv, Sound, libraries, Leads
<1>2. CASE added' = None
  BY <1>1, <1>2 DEF IInv, AddedFound
<1>3. CASE added' = added
  <2>1. \A k : Found(k)' = Found(k)
    BY DEF Found, libraries
  <2>2. \A e : Sought(e)' = Sought(e)
    BY DEF Sought, KeysOf, Names
  <2> QED BY <1>1, <1>3, <2>1, <2>2 DEF IInv, AddedFound
<1> QED BY <1>2, <1>3

LEMMA ReadHEOSThrowInv ==
    ASSUME IInv, NEW e \in Entries, ReadHEOSThrow(e)
    PROVE  IInv'
<1>1. heos' = [heos EXCEPT !.names = Append(@, e.name)] /\ Append(heos.names, e.name) \in Seq(Keys)
  BY EntryType DEF ReadHEOSThrow, IInv, TypeInv
<1>2. TypeInv'
  BY <1>1 DEF ReadHEOSThrow, IInv, TypeInv
<1>3. Sound'
  BY <1>1 DEF ReadHEOSThrow, IInv, TypeInv, Sound, Leads, OneEach
<1> QED BY <1>2, <1>3 DEF IInv, AddedFound, ReadHEOSThrow

LEMMA AddHEOSInv ==
    ASSUME IInv, NEW e \in Entries, AddHEOS(e)
    PROVE  IInv'
<1> DEFINE index == IndexOf(e, heos.fluids, heos.keys)
           new == index > Len(heos.fluids)
           after == Placed(heos.fluids, e, index)
           keys == Put(heos.keys, KeysOf(e), index)
           names == IF new THEN Append(heos.names, e.name) ELSE heos.names
<1>1. /\ heos.fluids \in Seq(Entries) /\ heos.keys \in KeyMaps(Nat) /\ heos.names \in Seq(Keys)
      /\ Leads(heos.keys, heos.fluids) /\ heos.json = heos.fluids
  BY DEF IInv, TypeInv, Sound
<1>2. heos' = [fluids |-> after, json |-> after, keys |-> keys, names |-> names]
  BY <1>1 DEF AddHEOS, Placed
<1>3. index \in 1 .. Len(heos.fluids) + 1 /\ KeysOf(e) \in SUBSET Keys
  BY <1>1, IndexOfType, KeysOfType
<1>4. names \in Seq(Keys)
  BY <1>1, EntryType
<1> HIDE DEF index
<1>5. after \in Seq(Entries)
  BY <1>1, <1>3, Registering
<1>6. keys \in KeyMaps(Nat)
  BY <1>1, <1>3, Registering
<1>7. Leads(keys, after)
  BY <1>1, <1>3, Registering
<1>8. \A k \in KeysOf(e) : k \in DOMAIN keys /\ after[keys[k]] = e
  BY <1>1, <1>3, Registering
<1> HIDE DEF after, keys, names
<1>9. TypeInv'
  <2>1. heos' \in [fluids : Seq(Entries), json : Seq(Entries), keys : KeyMaps(Nat), names : Seq(Keys)]
    BY <1>2, <1>4, <1>5, <1>6
  <2>2. UNCHANGED <<pcsaft, cubics, incomp>>
    BY DEF AddHEOS
  <2> QED BY <2>1, <2>2 DEF IInv, TypeInv
<1>10. Sound'
  BY <1>2, <1>7 DEF AddHEOS, IInv, Sound, Leads, OneEach
<1>11. AddedFound'
  <2>1. lib = "HEOS" /\ lib' = lib /\ added' = e
    BY DEF AddHEOS, Adding, Registered
  <2>2. Sought(e)' = KeysOf(e)
    BY <2>1 DEF Sought, KeysOf, Names
  <2>3. \A k \in KeysOf(e) : Found(k)' = e
    BY <1>2, <1>8, <2>1 DEF Found
  <2> QED BY <2>1, <2>2, <2>3 DEF AddedFound
<1> QED BY <1>9, <1>10, <1>11 DEF IInv

LEMMA AddPCSAFTInv ==
    ASSUME IInv, NEW e \in Entries, AddPCSAFT(e)
    PROVE  IInv'
<1> DEFINE index == Len(pcsaft.fluids) + 1
           after == Placed(pcsaft.fluids, e, index)
           keys == Put(pcsaft.keys, KeysOf(e), index)
<1>1. pcsaft.fluids \in Seq(Entries) /\ pcsaft.keys \in KeyMaps(Nat) /\ Leads(pcsaft.keys, pcsaft.fluids)
  BY DEF IInv, TypeInv, Sound
<1>2. pcsaft' = [pcsaft EXCEPT !.fluids = after, !.keys = keys]
  <2>1. index > Len(pcsaft.fluids)
    BY <1>1
  <2>2. after = Append(pcsaft.fluids, e)
    BY <2>1 DEF Placed
  <2> QED BY <2>2 DEF AddPCSAFT
<1>3. index \in 1 .. Len(pcsaft.fluids) + 1 /\ KeysOf(e) \in SUBSET Keys
  BY <1>1, KeysOfType
<1> HIDE DEF index
<1>4. after \in Seq(Entries)
  BY <1>1, <1>3, Registering
<1>5. keys \in KeyMaps(Nat)
  BY <1>1, <1>3, Registering
<1>6. Leads(keys, after)
  BY <1>1, <1>3, Registering
<1>7. \A k \in KeysOf(e) : k \in DOMAIN keys /\ after[keys[k]] = e
  BY <1>1, <1>3, Registering
<1> HIDE DEF after, keys
<1>8. /\ pcsaft' \in [fluids : Seq(Entries), keys : KeyMaps(Nat), undefined : BOOLEAN]
      /\ pcsaft'.fluids = after /\ pcsaft'.keys = keys
  BY <1>2, <1>4, <1>5 DEF IInv, TypeInv
<1>9. TypeInv' /\ Sound'
  <2>1. UNCHANGED <<heos, cubics, incomp>>
    BY DEF AddPCSAFT
  <2> QED BY <2>1, <1>6, <1>8 DEF IInv, TypeInv, Sound, Leads, OneEach
<1>10. AddedFound'
  <2>1. lib = "PCSAFT" /\ lib' = lib /\ added' = e
    BY DEF AddPCSAFT, Adding, Registered
  <2>2. Sought(e)' = KeysOf(e)
    BY <2>1 DEF Sought, KeysOf, Names
  <2>3. \A k \in KeysOf(e) : Found(k)' = e
    BY <1>7, <1>8, <2>1 DEF Found
  <2> QED BY <2>1, <2>2, <2>3 DEF AddedFound
<1> QED BY <1>9, <1>10 DEF IInv

LEMMA OverwritePCSAFTInv ==
    ASSUME IInv, NEW e \in Entries, OverwritePCSAFT(e)
    PROVE  IInv'
<1>1. pcsaft' = [pcsaft EXCEPT !.undefined = TRUE] /\ UNCHANGED <<heos, cubics, incomp>> /\ added' = None
  BY DEF OverwritePCSAFT
<1>2. TypeInv' /\ Sound'
  BY <1>1 DEF IInv, TypeInv, Sound, Leads, OneEach
<1> QED BY <1>1, <1>2 DEF IInv, AddedFound

LEMMA AddCubicInv ==
    ASSUME IInv, NEW e \in Entries, AddCubic(e)
    PROVE  IInv'
<1> DEFINE name == Upper[e.name]
           new == name \notin DOMAIN cubics.fluids \/ overwrite
           fresh == ToSet(e.aliases) \ DOMAIN cubics.aliases
           fluids == IF new THEN Put(cubics.fluids, {name}, e) ELSE cubics.fluids
           aliases == Put(cubics.aliases, fresh, name)
<1>1. /\ cubics.fluids \in KeyMaps(Entries) /\ cubics.aliases \in KeyMaps(Keys) /\ cubics.json = cubics.fluids
      /\ \A a \in DOMAIN cubics.aliases : cubics.aliases[a] \in DOMAIN cubics.fluids
  BY DEF IInv, TypeInv, Sound
<1>2. cubics' = [fluids |-> fluids, aliases |-> aliases, json |-> fluids]
  BY <1>1 DEF AddCubic
<1>3. name \in Keys /\ {name} \in SUBSET Keys /\ fresh \in SUBSET Keys
  BY EntryType DEF Names
<1> HIDE DEF name
<1>4. fluids \in KeyMaps(Entries)
  BY <1>1, <1>3, PutType
<1>5. aliases \in KeyMaps(Keys)
  BY <1>1, <1>3, PutType
<1>6. DOMAIN cubics.fluids \cup {name} \subseteq DOMAIN fluids
  BY DEF Put
<1>7. \A a \in DOMAIN aliases : aliases[a] \in DOMAIN fluids
  BY <1>1, <1>6 DEF Put
<1>8. new => name \in DOMAIN fluids /\ fluids[name] = e
  BY DEF Put
<1> HIDE DEF fluids, aliases
<1>9. TypeInv' /\ Sound'
  <2>1. UNCHANGED <<heos, pcsaft, incomp>>
    BY DEF AddCubic
  <2>2. cubics' \in [fluids : KeyMaps(Entries), aliases : KeyMaps(Keys), json : KeyMaps(Entries)]
    BY <1>2, <1>4, <1>5
  <2> QED BY <2>1, <2>2, <1>2, <1>7 DEF IInv, TypeInv, Sound, Leads, OneEach
<1>10. AddedFound'
  <2>1. lib = "CUBIC" /\ lib' = lib /\ added' = IF new THEN e ELSE None
    BY DEF AddCubic, Adding, name
  <2>2. CASE new
    <3>1. Sought(e)' = {e.name}
      BY <2>1 DEF Sought
    <3>2. Found(e.name)' = e
      BY <1>2, <1>8, <2>1, <2>2 DEF Found, name
    <3> QED BY <2>1, <2>2, <3>1, <3>2 DEF AddedFound
  <2>3. CASE ~ new
    BY <2>1, <2>3 DEF AddedFound
  <2> QED BY <2>2, <2>3
<1> QED BY <1>9, <1>10 DEF IInv

LEMMA ReplaceIncompInv ==
    ASSUME IInv, NEW e \in Entries, ReplaceIncomp(e)
    PROVE  IInv'
<1> DEFINE index == incomp.keys[e.name]
           after == [incomp.fluids EXCEPT ![index] = e]
<1>1. incomp.fluids \in Seq(Entries) /\ incomp.keys \in KeyMaps(Nat) /\ Leads(incomp.keys, incomp.fluids)
  BY DEF IInv, TypeInv, Sound
<1>2. incomp' = [incomp EXCEPT !.fluids = after] /\ e.name \in DOMAIN incomp.keys
  BY DEF ReplaceIncomp
<1>3. index \in DOMAIN incomp.fluids
  BY <1>1, <1>2 DEF Leads
<1> HIDE DEF index
<1>4. after \in Seq(Entries) /\ DOMAIN after = DOMAIN incomp.fluids /\ after[index] = e
  BY <1>1, <1>3
<1> HIDE DEF after
<1>5. /\ incomp' \in [fluids : Seq(Entries), keys : KeyMaps(Nat), pure : Seq(Keys), solution : Seq(Keys)]
      /\ incomp'.fluids = after /\ incomp'.keys = incomp.keys
  BY <1>2, <1>4 DEF IInv, TypeInv
<1>6. TypeInv' /\ Sound'
  <2>1. UNCHANGED <<heos, pcsaft, cubics>>
    BY DEF ReplaceIncomp
  <2> QED BY <2>1, <1>4, <1>5 DEF IInv, TypeInv, Sound, Leads, OneEach
<1>7. AddedFound'
  <2>1. lib = "INCOMP" /\ lib' = lib /\ added' = e
    BY DEF ReplaceIncomp, Adding, Registered
  <2>2. Sought(e)' = {e.name}
    BY <2>1 DEF Sought, KeysOf
  <2>3. Found(e.name)' = e
    BY <1>2, <1>4, <1>5, <2>1 DEF Found, index
  <2> QED BY <2>1, <2>2, <2>3 DEF AddedFound
<1> QED BY <1>6, <1>7 DEF IInv

\* A listed name changes neither the fluids nor their keys.
LEMMA ListedType ==
    ASSUME TypeInv, NEW e \in Entries
    PROVE  /\ Listed(e) \in [fluids : Seq(Entries), keys : KeyMaps(Nat), pure : Seq(Keys), solution : Seq(Keys)]
           /\ Listed(e).fluids = incomp.fluids /\ Listed(e).keys = incomp.keys
<1>1. Append(incomp.pure, e.name) \in Seq(Keys) /\ Append(incomp.solution, e.name) \in Seq(Keys)
  BY EntryType DEF TypeInv
<1> QED BY <1>1 DEF Listed, TypeInv

\* A new fluid in a library whose fluids and keys are those there are.
LEMMA PublishedType ==
    ASSUME TypeInv, Sound, NEW e \in Entries,
           NEW library \in [fluids : Seq(Entries), keys : KeyMaps(Nat), pure : Seq(Keys), solution : Seq(Keys)],
           library.fluids = incomp.fluids, library.keys = incomp.keys
    PROVE  /\ Published(e, library) \in [fluids : Seq(Entries), keys : KeyMaps(Nat), pure : Seq(Keys), solution : Seq(Keys)]
           /\ Leads(Published(e, library).keys, Published(e, library).fluids)
           /\ e.name \notin DOMAIN incomp.keys => OneEach(Published(e, library).keys)
           /\ e.name \in DOMAIN Published(e, library).keys
           /\ Published(e, library).fluids[Published(e, library).keys[e.name]] = e
<1> DEFINE index == Len(incomp.fluids) + 1
           after == Placed(incomp.fluids, e, index)
           keys == Put(incomp.keys, {e.name}, index)
<1>1. /\ incomp.fluids \in Seq(Entries) /\ incomp.keys \in KeyMaps(Nat)
      /\ Leads(incomp.keys, incomp.fluids) /\ OneEach(incomp.keys)
  BY DEF TypeInv, Sound
<1>2. index \in 1 .. Len(incomp.fluids) + 1 /\ {e.name} \in SUBSET Keys
  BY <1>1, EntryType
<1>3. Published(e, library) = [library EXCEPT !.fluids = after, !.keys = keys]
  <2>1. index > Len(incomp.fluids)
    BY <1>1
  <2>2. after = Append(incomp.fluids, e)
    BY <2>1 DEF Placed
  <2> QED BY <2>2 DEF Published
<1> HIDE DEF index
<1>4. after \in Seq(Entries)
  BY <1>1, <1>2, Registering
<1>5. keys \in KeyMaps(Nat)
  BY <1>1, <1>2, Registering
<1>6. Leads(keys, after)
  BY <1>1, <1>2, Registering
<1>7. e.name \in DOMAIN keys /\ after[keys[e.name]] = e
  <2> DEFINE ks == {e.name}
  <2>1. ks \in SUBSET Keys /\ e.name \in ks /\ keys = Put(incomp.keys, ks, index)
    BY <1>2
  <2> HIDE DEF ks, keys, after
  <2>2. \A k \in ks : k \in DOMAIN Put(incomp.keys, ks, index) /\ Placed(incomp.fluids, e, index)[Put(incomp.keys, ks, index)[k]] = e
    BY <1>1, <1>2, <2>1, Registering
  <2> QED BY <2>1, <2>2 DEF after
<1>9. e.name \notin DOMAIN incomp.keys => OneEach(keys)
  <2>1. \A k \in DOMAIN incomp.keys : incomp.keys[k] \in 1 .. Len(incomp.fluids)
    BY <1>1 DEF Leads
  <2>2. \A k \in DOMAIN incomp.keys : incomp.keys[k] # index
    BY <1>1, <2>1 DEF index
  <2>3. /\ DOMAIN keys = DOMAIN incomp.keys \cup {e.name} /\ keys[e.name] = index
        /\ \A k \in DOMAIN incomp.keys \ {e.name} : keys[k] = incomp.keys[k]
    BY DEF Put
  <2> HIDE DEF keys
  <2> QED BY <1>1, <2>2, <2>3 DEF OneEach
<1> HIDE DEF after, keys
<1>8. /\ Published(e, library) \in [fluids : Seq(Entries), keys : KeyMaps(Nat), pure : Seq(Keys), solution : Seq(Keys)]
      /\ Published(e, library).fluids = after /\ Published(e, library).keys = keys
  BY <1>3, <1>4, <1>5
<1> QED BY <1>6, <1>7, <1>8, <1>9

LEMMA AddIncompInv ==
    ASSUME IInv, NEW e \in Entries, AddIncomp(e)
    PROVE  IInv'
<1> DEFINE library == Published(e, Listed(e))
<1>1. /\ incomp' = library
      /\ library \in [fluids : Seq(Entries), keys : KeyMaps(Nat), pure : Seq(Keys), solution : Seq(Keys)]
      /\ Leads(library.keys, library.fluids) /\ OneEach(library.keys)
      /\ e.name \in DOMAIN library.keys /\ library.fluids[library.keys[e.name]] = e
  BY ListedType, PublishedType DEF AddIncomp, IInv
<1> HIDE DEF library
<1>2. TypeInv' /\ Sound'
  <2>1. UNCHANGED <<heos, pcsaft, cubics>>
    BY DEF AddIncomp
  <2> QED BY <1>1, <2>1 DEF IInv, TypeInv, Sound, Leads, OneEach
<1>3. lib = "INCOMP" /\ lib' = lib /\ added' = e
  BY DEF AddIncomp, Adding, Registered
<1>4. Sought(e)' = {e.name}
  BY <1>3 DEF Sought, KeysOf
<1>5. Found(e.name)' = e
  BY <1>1, <1>3 DEF Found
<1> QED BY <1>2, <1>3, <1>4, <1>5 DEF IInv, AddedFound

LEMMA AddIncompThrowInv ==
    ASSUME IInv, NEW e \in Entries, AddIncompThrow(e)
    PROVE  IInv'
<1>1. /\ incomp' \in [fluids : Seq(Entries), keys : KeyMaps(Nat), pure : Seq(Keys), solution : Seq(Keys)]
      /\ Leads(incomp'.keys, incomp'.fluids) /\ OneEach(incomp'.keys)
  <2>1. /\ incomp.fluids \in Seq(Entries) /\ incomp.keys \in KeyMaps(Nat)
        /\ Leads(incomp.keys, incomp.fluids) /\ OneEach(incomp.keys) /\ e.name \notin DOMAIN incomp.keys
    BY DEF IInv, TypeInv, Sound, AddIncompThrow
  <2>2. CASE incomp' = [incomp EXCEPT !.fluids = Append(@, e)]
    <3>1. Append(incomp.fluids, e) \in Seq(Entries) /\ Leads(incomp.keys, Append(incomp.fluids, e))
      BY <2>1, Appended DEF Leads
    <3> QED BY <2>1, <2>2, <3>1 DEF IInv, TypeInv
  <2>3. CASE incomp' = Published(e, incomp)
    BY <2>1, <2>3, PublishedType DEF IInv, TypeInv
  <2> QED BY <2>2, <2>3 DEF AddIncompThrow
<1>2. UNCHANGED <<heos, pcsaft, cubics>> /\ added' = None
  BY DEF AddIncompThrow
<1> QED BY <1>1, <1>2 DEF IInv, TypeInv, Sound, Leads, OneEach, AddedFound

-----------------------------------------------------------------------------
(* The theorem. *)

LEMMA StepInv ==
    ASSUME IInv, [Next]_vars
    PROVE  IInv'
<1>1. CASE SetOverwrite
  BY <1>1, QuietStep DEF SetOverwrite, libraries
<1>2. ASSUME NEW listing \in Listings, Call(listing) PROVE IInv'
  BY <1>2, QuietStep DEF Call, libraries
<1>3. CASE LoadThrow
  BY <1>3, QuietStep DEF LoadThrow, libraries
<1>4. CASE Done
  BY <1>4, QuietStep DEF Done, libraries
<1>5. ASSUME NEW e \in Entries, ReadHEOSThrow(e) PROVE IInv'
  BY <1>5, ReadHEOSThrowInv
<1>6. ASSUME NEW e \in Entries, RefuseHEOS(e) PROVE IInv'
  BY <1>6, QuietStep DEF RefuseHEOS, Adding, libraries
<1>7. ASSUME NEW e \in Entries, AddHEOS(e) PROVE IInv'
  BY <1>7, AddHEOSInv
<1>8. ASSUME NEW e \in Entries, RefusePCSAFT(e) PROVE IInv'
  BY <1>8, QuietStep DEF RefusePCSAFT, Adding, libraries
<1>9. ASSUME NEW e \in Entries, OverwritePCSAFT(e) PROVE IInv'
  BY <1>9, OverwritePCSAFTInv
<1>10. ASSUME NEW e \in Entries, AddPCSAFT(e) PROVE IInv'
  BY <1>10, AddPCSAFTInv
<1>11. ASSUME NEW e \in Entries, AddCubic(e) PROVE IInv'
  BY <1>11, AddCubicInv
<1>12. ASSUME NEW e \in Entries, RefuseIncomp(e) PROVE IInv'
  BY <1>12, QuietStep DEF RefuseIncomp, Adding, libraries
<1>13. ASSUME NEW e \in Entries, ReplaceIncomp(e) PROVE IInv'
  BY <1>13, ReplaceIncompInv
<1>14. ASSUME NEW e \in Entries, AddIncomp(e) PROVE IInv'
  BY <1>14, AddIncompInv
<1>15. ASSUME NEW e \in Entries, AddIncompThrow(e) PROVE IInv'
  BY <1>15, AddIncompThrowInv
<1>16. CASE UNCHANGED vars
  BY <1>16, QuietStep DEF vars, libraries
<1> QED
  BY <1>1, <1>2, <1>3, <1>4, <1>5, <1>6, <1>7, <1>8, <1>9, <1>10, <1>11, <1>12, <1>13, <1>14, <1>15, <1>16 DEF Next

\* Every identifier leads to a fluid and those of the fluid just registered to
\* that fluid (add_one and add_many of the four libraries), whatever the
\* listings hold and whatever was refused, replaced or cut short before.
THEOREM IdentifiersLead == Spec => []KeysLead
<1>1. Init => IInv
  BY InitInv
<1>2. IInv /\ [Next]_vars => IInv'
  BY StepInv
<1>3. IInv => KeysLead
  BY DEF IInv, Sound, AddedFound, KeysLead
<1> QED BY <1>1, <1>2, <1>3, PTL DEF Spec

-----------------------------------------------------------------------------
(* What an identifier finds. *)

Keeps == \A k \in Keys : Found(k) # None /\ Found(k)' # Found(k) => Found(k)' = added' /\ Replaceable(k)

\* A step that leaves the fluids and their keys alone keeps what is found.
LEMMA SameFound ==
    ASSUME UNCHANGED lib, UNCHANGED <<heos.fluids, heos.keys, pcsaft.fluids, pcsaft.keys, cubics, incomp.fluids, incomp.keys>>
    PROVE  Keeps
BY DEF Keeps, Found

\* A new index is given only to an entry none of whose identifiers is taken.
LEMMA NewIndex ==
    ASSUME NEW e \in Entries, NEW fluids \in Seq(Entries), NEW keys \in KeyMaps(Nat), Leads(keys, fluids),
           IndexOf(e, fluids, keys) > Len(fluids)
    PROVE  Identifiers(e) \cap DOMAIN keys = {}
<1> SUFFICES ASSUME Identifiers(e) \cap DOMAIN keys # {} PROVE FALSE
  OBVIOUS
<1>1. Names(e) \cap DOMAIN keys # {} => AliasTaken(e, keys) \in DOMAIN keys
  BY AliasTakenIn
<1>2. \E k \in DOMAIN keys : IndexOf(e, fluids, keys) = keys[k]
  BY <1>1 DEF IndexOf, Identifiers
<1>3. \A k \in DOMAIN keys : keys[k] \in 1 .. Len(fluids)
  BY DEF Leads
<1> QED BY <1>2, <1>3

LEMMA AddHEOSKeeps ==
    ASSUME IInv, NEW e \in Entries, AddHEOS(e)
    PROVE  Keeps
<1> DEFINE index == IndexOf(e, heos.fluids, heos.keys)
           after == Placed(heos.fluids, e, index)
           keys == Put(heos.keys, KeysOf(e), index)
<1>1. /\ heos.fluids \in Seq(Entries) /\ heos.keys \in KeyMaps(Nat) /\ Leads(heos.keys, heos.fluids)
      /\ lib = "HEOS" /\ lib' = lib /\ added' = e
  BY DEF IInv, TypeInv, Sound, AddHEOS, Adding, Registered
<1>2. heos'.fluids = after /\ heos'.keys = keys
  BY DEF AddHEOS, Placed
<1>3. index \in 1 .. Len(heos.fluids) + 1
  BY <1>1, IndexOfType
<1>4. index > Len(heos.fluids) => Identifiers(e) \cap DOMAIN heos.keys = {}
  BY <1>1, NewIndex
<1>5. index <= Len(heos.fluids) => overwrite
  BY <1>1, <1>3 DEF AddHEOS
<1>6. KeysOf(e) \subseteq Identifiers(e)
  BY <1>1 DEF KeysOf, Identifiers
<1> HIDE DEF index
<1>7. /\ \A k \in DOMAIN heos.keys : k \in DOMAIN keys
      /\ \A k \in DOMAIN heos.keys \ KeysOf(e) : keys[k] = heos.keys[k]
      /\ \A k \in KeysOf(e) : keys[k] = index
  BY DEF Put
<1>8. /\ after[index] = e
      /\ \A i \in 1 .. Len(heos.fluids) : i # index => after[i] = heos.fluids[i]
  BY <1>1, <1>3 DEF Placed
<1>9. \A k \in DOMAIN heos.keys : heos.keys[k] \in 1 .. Len(heos.fluids)
  BY <1>1 DEF Leads
<1> HIDE DEF after, keys
<1>10. ASSUME NEW k \in Keys, Found(k) # None, Found(k)' # Found(k)
       PROVE  Found(k)' = added' /\ Replaceable(k)
  <2>1. k \in DOMAIN heos.keys /\ Found(k) = heos.fluids[heos.keys[k]]
    BY <1>1, <1>10 DEF Found
  <2>2. Found(k)' = after[keys[k]]
    BY <1>1, <1>2, <1>7, <2>1 DEF Found
  <2>3. keys[k] = index
    BY <1>7, <1>8, <1>9, <1>10, <2>1, <2>2
  <2>4. index <= Len(heos.fluids)
    <3>1. CASE k \in KeysOf(e)
      BY <1>3, <1>4, <1>6, <2>1, <3>1
    <3>2. CASE k \notin KeysOf(e)
      BY <1>7, <1>9, <2>1, <2>3, <3>2
    <3> QED BY <3>1, <3>2
  <2> QED BY <1>1, <1>5, <1>8, <2>2, <2>3, <2>4 DEF Replaceable
<1> QED BY <1>10 DEF Keeps

LEMMA AddPCSAFTKeeps ==
    ASSUME IInv, NEW e \in Entries, AddPCSAFT(e)
    PROVE  Keeps
<1>1. /\ pcsaft.fluids \in Seq(Entries) /\ Leads(pcsaft.keys, pcsaft.fluids)
      /\ lib = "PCSAFT" /\ lib' = lib
  BY DEF IInv, TypeInv, Sound, AddPCSAFT, Adding
<1>2. /\ pcsaft'.fluids = Append(pcsaft.fluids, e)
      /\ pcsaft'.keys = Put(pcsaft.keys, KeysOf(e), Len(pcsaft.fluids) + 1)
  BY DEF AddPCSAFT, IInv, TypeInv
<1>3. KeysOf(e) \cap DOMAIN pcsaft.keys = {}
  BY <1>1 DEF AddPCSAFT, Known, KeysOf, Identifiers
<1>4. \A k \in DOMAIN pcsaft.keys : k \in DOMAIN pcsaft'.keys /\ pcsaft'.keys[k] = pcsaft.keys[k]
  BY <1>2, <1>3 DEF Put
<1>5. \A i \in DOMAIN pcsaft.fluids : pcsaft'.fluids[i] = pcsaft.fluids[i]
  BY <1>1, <1>2
<1>6. \A k \in DOMAIN pcsaft.keys : pcsaft'.fluids[pcsaft'.keys[k]] = pcsaft.fluids[pcsaft.keys[k]]
  BY <1>1, <1>4, <1>5 DEF Leads
<1> QED BY <1>1, <1>4, <1>6 DEF Keeps, Found

LEMMA AddCubicKeeps ==
    ASSUME IInv, NEW e \in Entries, AddCubic(e)
    PROVE  Keeps
<1> DEFINE name == Upper[e.name]
           new == name \notin DOMAIN cubics.fluids \/ overwrite
           fluids == IF new THEN Put(cubics.fluids, {name}, e) ELSE cubics.fluids
           aliases == Put(cubics.aliases, ToSet(e.aliases) \ DOMAIN cubics.aliases, name)
<1>1. /\ cubics'.fluids = fluids /\ cubics'.aliases = aliases
      /\ lib = "CUBIC" /\ lib' = lib /\ (new => added' = e)
  BY DEF AddCubic, Adding
<1>2. \A a \in DOMAIN cubics.aliases : cubics.aliases[a] \in DOMAIN cubics.fluids
  BY DEF IInv, Sound
<1> HIDE DEF name
<1>3. \A a \in DOMAIN cubics.aliases : a \in DOMAIN aliases /\ aliases[a] = cubics.aliases[a]
  BY DEF Put
<1>4. /\ \A n \in DOMAIN cubics.fluids : n \in DOMAIN fluids
      /\ \A n \in DOMAIN fluids : n \in DOMAIN cubics.fluids \/ (n = name /\ new /\ fluids[n] = e)
      /\ \A n \in DOMAIN cubics.fluids : fluids[n] = cubics.fluids[n] \/ (n = name /\ new /\ fluids[n] = e)
  <2>1. CASE new
    <3>1. fluids = Put(cubics.fluids, {name}, e)
      BY <2>1
    <3> HIDE DEF new, fluids
    <3> QED BY <2>1, <3>1 DEF Put
  <2>2. CASE ~new
    BY <2>2
  <2> QED BY <2>1, <2>2
<1> HIDE DEF fluids, aliases, new
<1>5. ASSUME NEW k \in Keys, Found(k) # None, Found(k)' # Found(k)
      PROVE  Found(k)' = added' /\ Replaceable(k)
  <2>1. CASE Upper[k] \in DOMAIN cubics.fluids
    <3>1. Found(k) = cubics.fluids[Upper[k]] /\ Found(k)' = fluids[Upper[k]]
      BY <1>1, <1>4, <2>1 DEF Found
    <3>2. Upper[k] = name /\ new /\ Found(k)' = e
      BY <1>4, <1>5, <2>1, <3>1
    <3> QED BY <1>1, <2>1, <3>2 DEF Replaceable, new
  <2>2. CASE Upper[k] \notin DOMAIN cubics.fluids
    <3>1. Upper[k] \in DOMAIN cubics.aliases /\ Found(k) = cubics.fluids[cubics.aliases[Upper[k]]]
      BY <1>1, <1>5, <2>2 DEF Found
    <3>2. Replaceable(k)
      BY <1>1, <2>2 DEF Replaceable
    <3>3. CASE Upper[k] \in DOMAIN fluids
      BY <1>1, <1>4, <2>2, <3>2, <3>3 DEF Found
    <3>4. CASE Upper[k] \notin DOMAIN fluids
      <4>1. Found(k)' = fluids[cubics.aliases[Upper[k]]]
        BY <1>1, <1>3, <3>1, <3>4 DEF Found
      <4> QED BY <1>1, <1>2, <1>4, <1>5, <3>1, <3>2, <4>1
    <3> QED BY <3>3, <3>4
  <2> QED BY <2>1, <2>2
<1> QED BY <1>5 DEF Keeps

LEMMA ReplaceIncompKeeps ==
    ASSUME IInv, NEW e \in Entries, ReplaceIncomp(e)
    PROVE  Keeps
<1>1. /\ incomp.fluids \in Seq(Entries) /\ Leads(incomp.keys, incomp.fluids) /\ OneEach(incomp.keys)
      /\ lib = "INCOMP" /\ lib' = lib /\ added' = e /\ e.name \in DOMAIN incomp.keys
  BY DEF IInv, TypeInv, Sound, ReplaceIncomp, Adding, Registered
<1>2. /\ incomp'.keys = incomp.keys
      /\ incomp'.fluids = [incomp.fluids EXCEPT ![incomp.keys[e.name]] = e]
  BY DEF ReplaceIncomp, IInv, TypeInv
<1>3. incomp.keys[e.name] \in DOMAIN incomp.fluids
  BY <1>1 DEF Leads
<1>4. \A k \in DOMAIN incomp.keys \ {e.name} : incomp'.fluids[incomp'.keys[k]] = incomp.fluids[incomp.keys[k]]
  BY <1>1, <1>2 DEF OneEach, Leads
<1>5. incomp'.fluids[incomp'.keys[e.name]] = e
  BY <1>2, <1>3
<1> QED BY <1>1, <1>2, <1>4, <1>5 DEF Keeps, Found, Replaceable

\* A new incompressible, whole or cut short, changes none that is there.
LEMMA GrownIncompKeeps ==
    ASSUME IInv, NEW e \in Entries, lib' = lib, e.name \notin DOMAIN incomp.keys,
           incomp'.fluids = Append(incomp.fluids, e),
           incomp'.keys \in {incomp.keys, Put(incomp.keys, {e.name}, Len(incomp.fluids) + 1)},
           UNCHANGED <<heos, pcsaft, cubics>>
    PROVE  Keeps
<1>1. incomp.fluids \in Seq(Entries) /\ Leads(incomp.keys, incomp.fluids)
  BY DEF IInv, TypeInv, Sound
<1>2. \A k \in DOMAIN incomp.keys : k \in DOMAIN incomp'.keys /\ incomp'.keys[k] = incomp.keys[k]
  BY DEF Put
<1>3. \A i \in DOMAIN incomp.fluids : incomp'.fluids[i] = incomp.fluids[i]
  BY <1>1
<1>4. \A k \in DOMAIN incomp.keys : incomp'.fluids[incomp'.keys[k]] = incomp.fluids[incomp.keys[k]]
  BY <1>1, <1>2, <1>3 DEF Leads
<1> QED BY <1>2, <1>4 DEF Keeps, Found

LEMMA StepKeeps ==
    ASSUME IInv, Next
    PROVE  Keeps
<1>1. CASE SetOverwrite
  BY <1>1, SameFound DEF SetOverwrite, libraries
<1>2. ASSUME NEW listing \in Listings, Call(listing) PROVE Keeps
  BY <1>2, SameFound DEF Call, libraries
<1>3. CASE LoadThrow
  BY <1>3, SameFound DEF LoadThrow, libraries
<1>4. CASE Done
  BY <1>4, SameFound DEF Done, libraries
<1>5. ASSUME NEW e \in Entries, ReadHEOSThrow(e) PROVE Keeps
  BY <1>5, SameFound DEF ReadHEOSThrow, Adding, IInv, TypeInv
<1>6. ASSUME NEW e \in Entries, RefuseHEOS(e) PROVE Keeps
  BY <1>6, SameFound DEF RefuseHEOS, Adding, libraries
<1>7. ASSUME NEW e \in Entries, RefusePCSAFT(e) PROVE Keeps
  BY <1>7, SameFound DEF RefusePCSAFT, Adding, libraries
<1>8. ASSUME NEW e \in Entries, OverwritePCSAFT(e) PROVE Keeps
  BY <1>8, SameFound DEF OverwritePCSAFT, Adding, IInv, TypeInv
<1>9. ASSUME NEW e \in Entries, RefuseIncomp(e) PROVE Keeps
  BY <1>9, SameFound DEF RefuseIncomp, Adding, libraries
<1>10. ASSUME NEW e \in Entries, AddIncomp(e) PROVE Keeps
  BY <1>10, GrownIncompKeeps, ListedType DEF AddIncomp, Adding, Published, IInv
<1>11. ASSUME NEW e \in Entries, AddIncompThrow(e) PROVE Keeps
  BY <1>11, GrownIncompKeeps DEF AddIncompThrow, Adding, Published, IInv, TypeInv
<1> QED
  BY <1>1, <1>2, <1>3, <1>4, <1>5, <1>6, <1>7, <1>8, <1>9, <1>10, <1>11,
     AddHEOSKeeps, AddPCSAFTKeeps, AddCubicKeeps, ReplaceIncompKeeps DEF Next

\* No add changes what an identifier finds, unless it is allowed to, and then
\* to the fluid just added (add_one and add_many of the four libraries).
THEOREM AddsKeep == Spec => KeepsWhatItHad
<1>1. Init => IInv
  BY InitInv
<1>2. IInv /\ [Next]_vars => IInv'
  BY StepInv
<1>3. IInv /\ [Next]_vars => [Keeps]_vars
  BY StepKeeps
<1> QED BY <1>1, <1>2, <1>3, PTL DEF Spec, KeepsWhatItHad, Keeps

-----------------------------------------------------------------------------
(* The lists of fluids. *)

\* A name that is listed leads to a fluid, and is listed once, but for those of entries
\* that could not be read.
NamesLead ==
    /\ \A i \in DOMAIN heos.names : heos.names[i] \notin spoilt => heos.names[i] \in DOMAIN heos.keys
    /\ \A i, j \in DOMAIN heos.names : i # j /\ heos.names[i] = heos.names[j] => heos.names[i] \in spoilt

\* A list of incompressibles holds names of its own kind, each of them once.
KindList(list, pure) ==
    /\ NoneTwice(list)
    /\ \A i \in DOMAIN list : list[i] \in DOMAIN incomp.keys /\ incomp.fluids[incomp.keys[list[i]]].pure = pure

KindsLead == KindList(incomp.pure, TRUE) /\ KindList(incomp.solution, FALSE)

ListInv == NamesLead /\ KindsLead

LEMMA ListInit == Init => ListInv
  BY DEF Init, ListInv, NamesLead, KindsLead, KindList, NoneTwice

\* A name put at the end of a list.
LEMMA LastOfAppend ==
    ASSUME NEW S, NEW s \in Seq(S), NEW x \in S
    PROVE  /\ DOMAIN Append(s, x) = DOMAIN s \cup {Len(s) + 1} /\ Len(s) + 1 \notin DOMAIN s
           /\ Append(s, x)[Len(s) + 1] = x
           /\ \A i \in DOMAIN s : Append(s, x)[i] = s[i]
  OBVIOUS

LEMMA ReadHEOSThrowLists ==
    ASSUME IInv, NamesLead, NEW e \in Entries, ReadHEOSThrow(e)
    PROVE  NamesLead'
<1> DEFINE names == Append(heos.names, e.name)
<1>1. heos.names \in Seq(Keys) /\ e.name \in Keys
  BY EntryType DEF IInv, TypeInv
<1>2. heos'.names = names /\ heos'.keys = heos.keys /\ spoilt' = spoilt \cup {e.name}
  BY DEF ReadHEOSThrow, IInv, TypeInv
<1>3. /\ DOMAIN names = DOMAIN heos.names \cup {Len(heos.names) + 1}
      /\ names[Len(heos.names) + 1] = e.name /\ \A i \in DOMAIN heos.names : names[i] = heos.names[i]
  BY <1>1, LastOfAppend
<1> HIDE DEF names
<1> QED BY <1>2, <1>3 DEF NamesLead

LEMMA AddHEOSLists ==
    ASSUME IInv, NamesLead, NEW e \in Entries, AddHEOS(e)
    PROVE  NamesLead'
<1> DEFINE index == IndexOf(e, heos.fluids, heos.keys)
           new == index > Len(heos.fluids)
           names == Append(heos.names, e.name)
<1>1. /\ heos.fluids \in Seq(Entries) /\ heos.keys \in KeyMaps(Nat) /\ Leads(heos.keys, heos.fluids)
      /\ heos.names \in Seq(Keys) /\ e.name \in Keys
  BY EntryType DEF IInv, TypeInv, Sound
<1>2. heos'.keys = Put(heos.keys, KeysOf(e), index) /\ spoilt' = spoilt
      /\ heos'.names = IF new THEN names ELSE heos.names
  BY DEF AddHEOS, Registered
<1>3. new => e.name \notin DOMAIN heos.keys
  BY <1>1, NewIndex DEF Identifiers
<1>4. e.name \in KeysOf(e)
  BY DEF KeysOf
<1> HIDE DEF new, index
<1>5. DOMAIN heos'.keys = DOMAIN heos.keys \cup KeysOf(e)
  BY <1>2 DEF Put
<1>6. /\ DOMAIN names = DOMAIN heos.names \cup {Len(heos.names) + 1}
      /\ names[Len(heos.names) + 1] = e.name /\ \A i \in DOMAIN heos.names : names[i] = heos.names[i]
  BY <1>1, LastOfAppend
<1> HIDE DEF names
<1>7. CASE new
  <2>1. \A i \in DOMAIN heos.names : heos.names[i] = e.name => heos.names[i] \in spoilt
    BY <1>3, <1>7 DEF NamesLead
  <2> QED BY <1>2, <1>4, <1>5, <1>6, <1>7, <2>1 DEF NamesLead
<1>8. CASE ~new
  BY <1>2, <1>5, <1>8 DEF NamesLead
<1> QED BY <1>7, <1>8

\* A replaced incompressible is of its predecessor's kind, and no other name led to it.
LEMMA ReplaceIncompLists ==
    ASSUME IInv, KindsLead, NEW e \in Entries, ReplaceIncomp(e)
    PROVE  KindsLead'
<1>1. /\ incomp.fluids \in Seq(Entries) /\ Leads(incomp.keys, incomp.fluids) /\ OneEach(incomp.keys)
      /\ e.name \in DOMAIN incomp.keys /\ incomp.fluids[incomp.keys[e.name]].pure = e.pure
  BY DEF IInv, TypeInv, Sound, ReplaceIncomp
<1>2. /\ incomp'.keys = incomp.keys /\ incomp'.pure = incomp.pure /\ incomp'.solution = incomp.solution
      /\ incomp'.fluids = [incomp.fluids EXCEPT ![incomp.keys[e.name]] = e]
  BY DEF ReplaceIncomp, IInv, TypeInv
<1>3. incomp.keys[e.name] \in DOMAIN incomp.fluids
  BY <1>1 DEF Leads
<1>4. \A k \in DOMAIN incomp.keys : incomp'.fluids[incomp.keys[k]].pure = incomp.fluids[incomp.keys[k]].pure
  BY <1>1, <1>2, <1>3 DEF OneEach, Leads
<1> QED BY <1>2, <1>4 DEF KindsLead, KindList

\* An incompressible added under a new name: what was there leads where it did, and the
\* new name, if it is in the map, to the new fluid.
LEMMA GrownIncompLeads ==
    ASSUME IInv, NEW e \in Entries, e.name \notin DOMAIN incomp.keys,
           incomp'.fluids = Append(incomp.fluids, e),
           incomp'.keys \in {incomp.keys, Put(incomp.keys, {e.name}, Len(incomp.fluids) + 1)}
    PROVE  /\ \A k \in DOMAIN incomp.keys :
                k \in DOMAIN incomp'.keys /\ incomp'.fluids[incomp'.keys[k]] = incomp.fluids[incomp.keys[k]]
           /\ incomp'.keys # incomp.keys =>
                e.name \in DOMAIN incomp'.keys /\ incomp'.fluids[incomp'.keys[e.name]] = e
<1>1. incomp.fluids \in Seq(Entries) /\ Leads(incomp.keys, incomp.fluids)
  BY DEF IInv, TypeInv, Sound
<1>2. \A k \in DOMAIN incomp.keys : k \in DOMAIN incomp'.keys /\ incomp'.keys[k] = incomp.keys[k]
  BY DEF Put
<1>3. /\ \A i \in DOMAIN incomp.fluids : incomp'.fluids[i] = incomp.fluids[i]
      /\ incomp'.fluids[Len(incomp.fluids) + 1] = e
  BY <1>1
<1>4. incomp'.keys # incomp.keys => e.name \in DOMAIN incomp'.keys /\ incomp'.keys[e.name] = Len(incomp.fluids) + 1
  BY DEF Put
<1> QED BY <1>1, <1>2, <1>3, <1>4 DEF Leads

LEMMA AddIncompLists ==
    ASSUME IInv, KindsLead, NEW e \in Entries, AddIncomp(e)
    PROVE  KindsLead'
<1>1. incomp.pure \in Seq(Keys) /\ incomp.solution \in Seq(Keys) /\ e.name \in Keys /\ e.pure \in BOOLEAN
      /\ e.name \notin DOMAIN incomp.keys
  BY EntryType, FluidAssumption DEF IInv, TypeInv, AddIncomp
<1>2. /\ incomp'.fluids = Append(incomp.fluids, e)
      /\ incomp'.keys = Put(incomp.keys, {e.name}, Len(incomp.fluids) + 1)
      /\ incomp'.pure = IF e.pure THEN Append(incomp.pure, e.name) ELSE incomp.pure
      /\ incomp'.solution = IF e.pure THEN incomp.solution ELSE Append(incomp.solution, e.name)
  BY DEF AddIncomp, Published, Listed, IInv, TypeInv
<1>3. incomp'.keys # incomp.keys
  BY <1>1, <1>2 DEF Put
<1>4. /\ \A k \in DOMAIN incomp.keys :
           k \in DOMAIN incomp'.keys /\ incomp'.fluids[incomp'.keys[k]] = incomp.fluids[incomp.keys[k]]
      /\ e.name \in DOMAIN incomp'.keys /\ incomp'.fluids[incomp'.keys[e.name]] = e
  BY <1>1, <1>2, <1>3, GrownIncompLeads
<1>6. ASSUME NEW list \in Seq(Keys), KindList(list, e.pure)
      PROVE  /\ NoneTwice(Append(list, e.name))
             /\ \A i \in DOMAIN Append(list, e.name) :
                  /\ Append(list, e.name)[i] \in DOMAIN incomp'.keys
                  /\ incomp'.fluids[incomp'.keys[Append(list, e.name)[i]]].pure = e.pure
  <2> DEFINE longer == Append(list, e.name)
  <2>1. /\ DOMAIN longer = DOMAIN list \cup {Len(list) + 1}
        /\ longer[Len(list) + 1] = e.name /\ \A i \in DOMAIN list : longer[i] = list[i]
    BY <1>1, LastOfAppend
  <2>2. \A i \in DOMAIN list : list[i] # e.name
    BY <1>1, <1>6 DEF KindList
  <2> HIDE DEF longer
  <2>3. NoneTwice(longer)
    BY <1>6, <2>1, <2>2 DEF KindList, NoneTwice
  <2>4. \A i \in DOMAIN longer : longer[i] \in DOMAIN incomp'.keys /\ incomp'.fluids[incomp'.keys[longer[i]]].pure = e.pure
    BY <1>4, <1>6, <2>1 DEF KindList
  <2> QED BY <2>3, <2>4 DEF longer
<1>7. CASE e.pure = TRUE
  <2>1. incomp'.pure = Append(incomp.pure, e.name) /\ incomp'.solution = incomp.solution
    BY <1>2, <1>7
  <2>2. KindList(incomp.pure, TRUE)'
    BY <1>1, <1>6, <1>7, <2>1 DEF KindsLead, KindList
  <2>3. KindList(incomp.solution, FALSE)'
    BY <1>4, <2>1 DEF KindsLead, KindList, NoneTwice
  <2> QED BY <2>2, <2>3 DEF KindsLead
<1>8. CASE e.pure = FALSE
  <2>1. incomp'.solution = Append(incomp.solution, e.name) /\ incomp'.pure = incomp.pure
    BY <1>2, <1>8
  <2>2. KindList(incomp.solution, FALSE)'
    BY <1>1, <1>6, <1>8, <2>1 DEF KindsLead, KindList
  <2>3. KindList(incomp.pure, TRUE)'
    BY <1>4, <2>1 DEF KindsLead, KindList, NoneTwice
  <2> QED BY <2>2, <2>3 DEF KindsLead
<1> QED BY <1>1, <1>7, <1>8

\* What a failed allocation leaves is in no list.
LEMMA AddIncompThrowLists ==
    ASSUME IInv, KindsLead, NEW e \in Entries, AddIncompThrow(e)
    PROVE  KindsLead'
<1>1. /\ e.name \notin DOMAIN incomp.keys /\ incomp'.fluids = Append(incomp.fluids, e)
      /\ incomp'.keys \in {incomp.keys, Put(incomp.keys, {e.name}, Len(incomp.fluids) + 1)}
      /\ incomp'.pure = incomp.pure /\ incomp'.solution = incomp.solution
  BY DEF AddIncompThrow, Published, IInv, TypeInv
<1>2. \A k \in DOMAIN incomp.keys :
        k \in DOMAIN incomp'.keys /\ incomp'.fluids[incomp'.keys[k]] = incomp.fluids[incomp.keys[k]]
  BY <1>1, GrownIncompLeads
<1>3. ASSUME NEW list, NEW pure, KindList(list, pure)
      PROVE  KindList(list, pure)'
  BY <1>2, <1>3 DEF KindList, NoneTwice
<1> QED BY <1>1, <1>3 DEF KindsLead

LEMMA ListStep ==
    ASSUME IInv, ListInv, [Next]_vars
    PROVE  ListInv'
<1>a. UNCHANGED <<heos, spoilt>> => NamesLead'
  BY DEF ListInv, NamesLead
<1>b. UNCHANGED incomp => KindsLead'
  BY DEF ListInv, KindsLead, KindList
<1>1. CASE SetOverwrite \/ (\E listing \in Listings : Call(listing)) \/ LoadThrow \/ Done \/ UNCHANGED vars
  BY <1>1, <1>a, <1>b DEF SetOverwrite, Call, LoadThrow, Done, vars, libraries, ListInv
<1>2. ASSUME NEW e \in Entries,
             RefuseHEOS(e) \/ RefusePCSAFT(e) \/ OverwritePCSAFT(e) \/ AddPCSAFT(e) \/ AddCubic(e) \/ RefuseIncomp(e)
      PROVE  ListInv'
  BY <1>2, <1>a, <1>b
  DEF RefuseHEOS, RefusePCSAFT, OverwritePCSAFT, AddPCSAFT, AddCubic, RefuseIncomp, Registered, libraries, ListInv
<1>3. ASSUME NEW e \in Entries, ReadHEOSThrow(e) PROVE ListInv'
  BY <1>3, <1>b, ReadHEOSThrowLists DEF ReadHEOSThrow, ListInv
<1>4. ASSUME NEW e \in Entries, AddHEOS(e) PROVE ListInv'
  BY <1>4, <1>b, AddHEOSLists DEF AddHEOS, ListInv
<1>5. ASSUME NEW e \in Entries, ReplaceIncomp(e) PROVE ListInv'
  BY <1>5, <1>a, ReplaceIncompLists DEF ReplaceIncomp, Registered, ListInv
<1>6. ASSUME NEW e \in Entries, AddIncomp(e) PROVE ListInv'
  BY <1>6, <1>a, AddIncompLists DEF AddIncomp, Registered, ListInv
<1>7. ASSUME NEW e \in Entries, AddIncompThrow(e) PROVE ListInv'
  BY <1>7, <1>a, AddIncompThrowLists DEF AddIncompThrow, ListInv
<1> QED
  BY <1>1, <1>2, <1>3, <1>4, <1>5, <1>6, <1>7 DEF Next

\* What the invariant says of the lists is what a reader of them is promised.
LEMMA ListsAreFound ==
    ASSUME IInv, ListInv
    PROVE  ListedIsFound
<1>1. ASSUME lib = "HEOS", NEW i \in DOMAIN heos.names, heos.names[i] \notin spoilt
      PROVE  Found(heos.names[i]) # None
  <2>1. heos.names[i] \in DOMAIN heos.keys
    BY <1>1 DEF ListInv, NamesLead
  <2>2. heos.fluids[heos.keys[heos.names[i]]] \in Entries
    BY <2>1 DEF IInv, TypeInv, Sound, Leads
  <2> QED BY <1>1, <2>1, <2>2, FluidAssumption DEF Found
<1>2. ASSUME lib = "INCOMP", NEW k \in DOMAIN incomp.keys
      PROVE  Found(k) # None /\ Found(k) = incomp.fluids[incomp.keys[k]] /\ Found(k).pure \in BOOLEAN
  <2>1. incomp.fluids[incomp.keys[k]] \in Entries
    BY <1>2 DEF IInv, TypeInv, Sound, Leads
  <2> QED BY <1>2, <2>1, FluidAssumption DEF Found
<1>3. NoneTwice(incomp.pure \o incomp.solution)
  <2> DEFINE p == incomp.pure
             s == incomp.solution
  <2>1. p \in Seq(Keys) /\ s \in Seq(Keys)
    BY DEF IInv, TypeInv
  <2>2. /\ \A i, j \in DOMAIN p : p[i] = p[j] => i = j
        /\ \A i, j \in DOMAIN s : s[i] = s[j] => i = j
        /\ \A i \in DOMAIN p, j \in DOMAIN s : p[i] # s[j]
    BY DEF ListInv, KindsLead, KindList, NoneTwice
  <2> HIDE DEF p, s
  <2>3. DOMAIN (p \o s) = 1 .. Len(p) + Len(s) /\ DOMAIN p = 1 .. Len(p) /\ DOMAIN s = 1 .. Len(s)
        /\ Len(p) \in Nat /\ Len(s) \in Nat
    BY <2>1
  <2>4. \A i \in DOMAIN (p \o s) : IF i <= Len(p) THEN i \in DOMAIN p /\ (p \o s)[i] = p[i]
                                   ELSE i - Len(p) \in DOMAIN s /\ (p \o s)[i] = s[i - Len(p)]
    BY <2>1, <2>3
  <2>5. NoneTwice(p \o s)
    BY <2>2, <2>3, <2>4 DEF NoneTwice
  <2> QED BY <2>5 DEF p, s
<1>4. ASSUME lib = "INCOMP"
      PROVE  /\ \A n \in ToSet(incomp.pure) : Found(n) # None /\ Found(n).pure
             /\ \A n \in ToSet(incomp.solution) : Found(n) # None /\ ~Found(n).pure
  BY <1>2, <1>4 DEF ListInv, KindsLead, KindList, ToSet
<1> QED BY <1>1, <1>3, <1>4 DEF ListedIsFound, ListInv, NamesLead

\* The lists of fluids name none twice and none that cannot be had, each in the list of
\* its kind, whatever was refused, replaced or cut short (add_one of the two libraries).
THEOREM ListsLead == Spec => []ListedIsFound
<1>1. Init => IInv /\ ListInv
  BY InitInv, ListInit
<1>2. (IInv /\ ListInv) /\ [Next]_vars => (IInv /\ ListInv)'
  BY StepInv, ListStep
<1>3. IInv /\ ListInv => ListedIsFound
  BY ListsAreFound
<1> QED BY <1>1, <1>2, <1>3, PTL DEF Spec

-----------------------------------------------------------------------------
(* The libraries of mixture parameters.                                     *)

\* The index that Merged takes the value of a key from.
LastOf(keys, k) == Latest({i \in DOMAIN keys : keys[i] = k})

\* The last of a set of places in a sequence is one of them.
LEMMA LatestIn ==
    ASSUME NEW n \in Nat, NEW S \in SUBSET (1 .. n), S # {}
    PROVE  Latest(S) \in S
<1> DEFINE D == {n - i : i \in S}
<1>0. \A i \in S : i \in Nat /\ n - i \in Nat
  OBVIOUS
<1>1. D \in SUBSET Nat /\ D # {}
  BY <1>0
<1>2. First(D) \in D /\ \A d \in D : First(D) <= d
  BY <1>1, FirstIn
<1>3. PICK i \in S : First(D) = n - i
  BY <1>2
<1>4. \A j \in S : n - j \in D
  OBVIOUS
<1>5. \A j \in S : j <= i
  <2> TAKE j \in S
  <2>1. n - i <= n - j
    BY <1>2, <1>3, <1>4
  <2>2. i \in Int /\ j \in Int
    BY <1>0
  <2> QED BY <2>1, <2>2
<1> QED BY <1>3, <1>5 DEF Latest

\* What a merge keeps, and what it takes.
Merges(map, keys, values, merged) ==
    /\ DOMAIN merged = DOMAIN map \cup Range(keys)
    /\ \A k \in DOMAIN map \ Range(keys) : merged[k] = map[k]
    /\ \A k \in Range(keys) :
        LastOf(keys, k) \in DOMAIN keys /\ keys[LastOf(keys, k)] = k /\ merged[k] = values[LastOf(keys, k)]

LEMMA MergedLemma ==
    ASSUME NEW map, NEW n \in Nat, NEW keys, DOMAIN keys = 1 .. n, NEW values
    PROVE  Merges(map, keys, values, Merged(map, keys, values))
<1>1. DOMAIN Merged(map, keys, values) = DOMAIN map \cup Range(keys)
  BY DEF Merged
<1>2. ASSUME NEW k \in DOMAIN map \ Range(keys)
      PROVE  Merged(map, keys, values)[k] = map[k]
  <2>1. {i \in DOMAIN keys : keys[i] = k} = {}
    BY <1>2 DEF Range
  <2> QED BY <2>1 DEF Merged
<1>3. ASSUME NEW k \in Range(keys)
      PROVE  /\ LastOf(keys, k) \in 1 .. n /\ keys[LastOf(keys, k)] = k
             /\ Merged(map, keys, values)[k] = values[LastOf(keys, k)]
  <2> DEFINE own == {i \in DOMAIN keys : keys[i] = k}
  <2>1. own # {} /\ own \in SUBSET (1 .. n)
    BY <1>3 DEF Range
  <2>2. Latest(own) \in own
    BY <2>1, LatestIn
  <2>3. Merged(map, keys, values)[k] = values[Latest(own)]
    BY <2>1 DEF Merged
  <2> QED BY <2>2, <2>3 DEF LastOf
<1> QED BY <1>1, <1>2, <1>3 DEF Merges

\* What is taken of a listing is a listing.
LEMMA TakenType ==
    ASSUME NEW S, NEW entries \in Seq(S), NEW map, NEW keys, DOMAIN keys = DOMAIN entries
    PROVE  Taken(map, keys, entries) \in Seq(S)
<1> DEFINE clashes == {i \in DOMAIN keys : keys[i] \in DOMAIN map \/ \E j \in 1 .. i - 1 : keys[j] = keys[i]}
<1>1. CASE overwrite \/ clashes = {}
  BY <1>1 DEF Taken
<1>2. CASE ~(overwrite \/ clashes = {})
  <2>1. clashes \in SUBSET (1 .. Len(entries)) /\ clashes # {}
    BY <1>2
  <2>5. clashes \in SUBSET Nat
    BY <2>1
  <2>2. First(clashes) \in clashes
    BY <2>1, <2>5, FirstIn
  <2>3. Taken(map, keys, entries) = SubSeq(entries, 1, First(clashes) - 1)
    BY <1>2 DEF Taken
  <2>4. First(clashes) \in 1 .. Len(entries)
    BY <2>1, <2>2
  <2> HIDE DEF clashes
  <2> QED BY <2>3, <2>4
<1> QED BY <1>1, <1>2

GivenFunctions == [name : Functions, id : Int]

LEMMA TakenTypes ==
    /\ \A entries \in Seq(Given) : \A map : TakenPairs(map, entries) \in Seq(Given)
    /\ \A entries \in Seq(GivenFunctions) : \A map : TakenFunctions(map, entries) \in Seq(GivenFunctions)
<1>1. ASSUME NEW entries \in Seq(Given), NEW map PROVE TakenPairs(map, entries) \in Seq(Given)
  <2>1. DOMAIN PairKeys(entries) = DOMAIN entries
    BY DEF PairKeys
  <2> QED BY <2>1, TakenType DEF TakenPairs
<1>2. ASSUME NEW entries \in Seq(GivenFunctions), NEW map
      PROVE  TakenFunctions(map, entries) \in Seq(GivenFunctions)
  <2>1. DOMAIN FunctionKeys(entries) = DOMAIN entries
    BY DEF FunctionKeys
  <2> QED BY <2>1, TakenType DEF TakenFunctions
<1> QED BY <1>1, <1>2

\* The pairs that were told last, each under its own key.
Keyed(old) == \A k \in DOMAIN old : old[k] \in Given /\ Sorted(old[k].pair) = k

PairsAgree(map, old) == DOMAIN map = DOMAIN old /\ \A k \in DOMAIN old : map[k] = PairValue(old[k])

\* The functions that were told last, and besides them only empty dictionaries.
FunctionsAgree(map, old) ==
    /\ DOMAIN old \subseteq DOMAIN map /\ DOMAIN old \subseteq Functions
    /\ \A k \in DOMAIN old : map[k] = [empty |-> FALSE, id |-> old[k].id]
    /\ \A k \in DOMAIN map \ DOMAIN old : map[k] = Ghost

LEMMA PairsRemembered ==
    ASSUME NEW taken \in Seq(Given), NEW map, NEW old, PairsAgree(map, old), Keyed(old)
    PROVE  /\ PairsAgree(WithPairs(map, taken), RememberPairs(old, taken))
           /\ Keyed(RememberPairs(old, taken))
<1> DEFINE keys == PairKeys(taken)
           values == [i \in DOMAIN taken |-> PairValue(taken[i])]
           n == Len(taken)
<1>1. n \in Nat /\ DOMAIN taken = 1 .. n /\ DOMAIN keys = 1 .. n
      /\ \A i \in 1 .. n : taken[i] \in Given /\ keys[i] = Sorted(taken[i].pair) /\ values[i] = PairValue(taken[i])
  BY DEF PairKeys
<1>2. WithPairs(map, taken) = Merged(map, keys, values) /\ RememberPairs(old, taken) = Merged(old, keys, taken)
  BY DEF WithPairs, RememberPairs
<1> HIDE DEF keys, values, n
<1>0. n \in Nat /\ DOMAIN keys = 1 .. n
  BY <1>1
<1>3. Merges(map, keys, values, Merged(map, keys, values)) /\ Merges(old, keys, taken, Merged(old, keys, taken))
  BY <1>0, MergedLemma
<1>5. PairsAgree(Merged(map, keys, values), Merged(old, keys, taken))
  BY <1>1, <1>3 DEF Merges, PairsAgree
<1>6. Keyed(Merged(old, keys, taken))
  BY <1>1, <1>3 DEF Merges, Keyed
<1> QED BY <1>2, <1>5, <1>6

LEMMA FunctionsRemembered ==
    ASSUME NEW taken \in Seq(GivenFunctions), NEW map, NEW old, FunctionsAgree(map, old)
    PROVE  FunctionsAgree(WithFunctions(map, taken), RememberFunctions(old, taken))
<1> DEFINE keys == FunctionKeys(taken)
           values == [i \in DOMAIN taken |-> [empty |-> FALSE, id |-> taken[i].id]]
           n == Len(taken)
<1>e. n \in Nat /\ DOMAIN taken = 1 .. n /\ \A i \in 1 .. n : taken[i] \in GivenFunctions
  OBVIOUS
<1>1. n \in Nat /\ DOMAIN taken = 1 .. n /\ DOMAIN keys = 1 .. n
      /\ \A i \in 1 .. n : /\ keys[i] = taken[i].name /\ keys[i] \in Functions
                           /\ values[i] = [empty |-> FALSE, id |-> taken[i].id]
  BY <1>e DEF FunctionKeys, GivenFunctions
<1>2. /\ WithFunctions(map, taken) = Merged(map, keys, values)
      /\ RememberFunctions(old, taken) = Merged(old, keys, taken)
  BY DEF WithFunctions, RememberFunctions
<1> HIDE DEF keys, values, n
<1>0. n \in Nat /\ DOMAIN keys = 1 .. n
  BY <1>1
<1>3. Merges(map, keys, values, Merged(map, keys, values)) /\ Merges(old, keys, taken, Merged(old, keys, taken))
  BY <1>0, MergedLemma
<1>5. Range(keys) \subseteq Functions
  BY <1>1 DEF Range
<1>6. FunctionsAgree(Merged(map, keys, values), Merged(old, keys, taken))
  BY <1>1, <1>3, <1>5 DEF Merges, FunctionsAgree
<1> QED BY <1>2, <1>6

-----------------------------------------------------------------------------
\* Before the defaults are loaded a library is empty, if users look before they change;
\* from then on it holds for every key what was told last.
PairsInv ==
    /\ Keyed(told.pairs)
    /\ pairs.flag => PairsAgree(pairs.map, told.pairs)
    /\ ~pairs.flag => pairs.map = Nothing /\ told.pairs = RememberPairs(Nothing, DefaultPairs)

FunctionsInv ==
    /\ departures.flag => FunctionsAgree(departures.map, told.functions)
    /\ ~departures.flag =>
        departures.map = Nothing /\ told.functions = RememberFunctions(Nothing, DefaultFunctions)

\* A pair is kept by PC-SAFT in one order only, with what was told last.
KijInv ==
    /\ DOMAIN kij \subseteq Pairs
    /\ \A p \in DOMAIN kij : Sorted(p) \in DOMAIN toldKij
    /\ KijAsTold

MixtureTypes ==
    /\ \E map, flag : pairs = [map |-> map, flag |-> flag] /\ flag \in BOOLEAN
    /\ \E map, flag : departures = [map |-> map, flag |-> flag] /\ flag \in BOOLEAN
    /\ \E ps, fs : told = [pairs |-> ps, functions |-> fs]

MixtureInv == MixtureTypes /\ PairsInv /\ FunctionsInv /\ KijInv /\ MixtureIsAsTold

-----------------------------------------------------------------------------
\* The orders of a pair.
LEMMA SortedLemma ==
    ASSUME NEW p \in Pairs
    PROVE  /\ Reverse2(p) \in Pairs /\ Reverse2(p) # p /\ Reverse2(Reverse2(p)) = p
           /\ Sorted(p) \in Pairs /\ Sorted(p) \in {p, Reverse2(p)} /\ Sorted(Reverse2(p)) = Sorted(p)
           /\ Sorted(Sorted(p)) = Sorted(p)
           /\ \A q \in Pairs : Sorted(q) = Sorted(p) => q \in {p, Reverse2(p)}
<1>1. PICK i \in Components, j \in Components : p = <<i, j>> /\ i # j
  BY DEF Pairs
<1>2. i \in Int /\ j \in Int
  BY MixtureAssumption
<1>3. Reverse2(p) = <<j, i>> /\ Sorted(p) = IF i < j THEN <<i, j>> ELSE <<j, i>>
  BY <1>1 DEF Reverse2, Sorted
<1>4. Reverse2(p) \in Pairs /\ Reverse2(p) # p /\ Reverse2(Reverse2(p)) = p
  BY <1>1, <1>3 DEF Pairs, Reverse2
<1>5. Sorted(Reverse2(p)) = IF j < i THEN <<j, i>> ELSE <<i, j>>
  BY <1>3 DEF Sorted, Reverse2
<1>6. Sorted(Reverse2(p)) = Sorted(p)
  BY <1>1, <1>2, <1>3, <1>5
<1>7. Sorted(p) \in {p, Reverse2(p)}
  BY <1>1, <1>3
<1>8. \A q \in Pairs : Sorted(q) = Sorted(p) => q \in {p, Reverse2(p)}
  <2> TAKE q \in Pairs
  <2>1. PICK k \in Components, l \in Components : q = <<k, l>>
    BY DEF Pairs
  <2>2. Sorted(q) = IF k < l THEN <<k, l>> ELSE <<l, k>>
    BY <2>1 DEF Reverse2, Sorted
  <2> QED BY <1>1, <1>3, <2>1, <2>2
<1> QED BY <1>4, <1>6, <1>7, <1>8

\* A parameter turned into the order of the library and from there into that of the
\* mixture is turned as it is between the two.
LEMMA TurnedTwice ==
    ASSUME NEW p \in Pairs, NEW q \in Pairs, Sorted(q) = Sorted(p), NEW beta \in Int
    PROVE  Turned(Turned(beta, Sorted(q), q), p, Sorted(p)) = Turned(beta, p, q)
<1>1. /\ q \in {p, Reverse2(p)} /\ Reverse2(p) # p /\ Sorted(p) \in {p, Reverse2(p)}
  BY SortedLemma
<1> QED BY <1>1 DEF Turned

\* A record with one of its fields changed.
LEMMA Changed ==
    ASSUME MixtureTypes
    PROVE  /\ \A map : [pairs EXCEPT !.map = map] = [map |-> map, flag |-> pairs.flag]
           /\ \A map : [departures EXCEPT !.map = map] = [map |-> map, flag |-> departures.flag]
           /\ \A ps : [told EXCEPT !.pairs = ps] = [pairs |-> ps, functions |-> told.functions]
           /\ \A fs : [told EXCEPT !.functions = fs] = [pairs |-> told.pairs, functions |-> fs]
           /\ pairs.flag \in BOOLEAN /\ departures.flag \in BOOLEAN
           /\ pairs = [map |-> pairs.map, flag |-> pairs.flag]
           /\ departures = [map |-> departures.map, flag |-> departures.flag]
           /\ told = [pairs |-> told.pairs, functions |-> told.functions]
<1>1. PICK pm, pf : pairs = [map |-> pm, flag |-> pf] /\ pf \in BOOLEAN
  BY DEF MixtureTypes
<1>2. PICK dm, df : departures = [map |-> dm, flag |-> df] /\ df \in BOOLEAN
  BY DEF MixtureTypes
<1>3. PICK tp, tf : told = [pairs |-> tp, functions |-> tf]
  BY DEF MixtureTypes
<1> QED BY <1>1, <1>2, <1>3

\* No entry of the compiled listings is refused when they are loaded, since no key is
\* in them twice and the library is empty.
LEMMA DefaultsAreTaken ==
    /\ TakenPairs(Nothing, DefaultPairs) = DefaultPairs
    /\ TakenFunctions(Nothing, DefaultFunctions) = DefaultFunctions
    /\ DefaultPairs \in Seq(Given) /\ DefaultFunctions \in Seq(GivenFunctions)
<1>1. DefaultPairs \in Seq(Given) /\ DefaultFunctions \in Seq(GivenFunctions) /\ DOMAIN Nothing = {}
  BY MixtureAssumption DEF GivenFunctions, Nothing
<1>2. ASSUME NEW keys, NEW n \in Nat, DOMAIN keys = 1 .. n, NEW entries,
             \A i, j \in DOMAIN keys : keys[i] = keys[j] => i = j
      PROVE  Taken(Nothing, keys, entries) = entries
  <2>1. {i \in DOMAIN keys : keys[i] \in DOMAIN Nothing \/ \E j \in 1 .. i - 1 : keys[j] = keys[i]} = {}
    BY <1>1, <1>2
  <2> QED BY <2>1 DEF Taken
<1>3. TakenPairs(Nothing, DefaultPairs) = DefaultPairs
  <2> DEFINE keys == PairKeys(DefaultPairs)
  <2>1. Len(DefaultPairs) \in Nat /\ DOMAIN keys = 1 .. Len(DefaultPairs)
    BY <1>1 DEF PairKeys
  <2>2. \A i, j \in DOMAIN keys : keys[i] = keys[j] => i = j
    BY MixtureAssumption DEF PairKeys
  <2> HIDE DEF keys
  <2> QED BY <1>2, <2>1, <2>2 DEF TakenPairs, keys
<1>4. TakenFunctions(Nothing, DefaultFunctions) = DefaultFunctions
  <2> DEFINE keys == FunctionKeys(DefaultFunctions)
  <2>1. Len(DefaultFunctions) \in Nat /\ DOMAIN keys = 1 .. Len(DefaultFunctions)
    BY <1>1 DEF FunctionKeys
  <2>2. \A i, j \in DOMAIN keys : keys[i] = keys[j] => i = j
    BY MixtureAssumption DEF FunctionKeys
  <2> HIDE DEF keys
  <2> QED BY <1>2, <2>1, <2>2 DEF TakenFunctions, keys
<1> QED BY <1>1, <1>3, <1>4

LEMMA NothingAgrees ==
    PairsAgree(Nothing, Nothing) /\ Keyed(Nothing) /\ FunctionsAgree(Nothing, Nothing)
  BY DEF Nothing, PairsAgree, Keyed, FunctionsAgree

\* A library that has been looked into is full.
LEMMA LoadedPairsLemma ==
    ASSUME MixtureTypes, PairsInv
    PROVE  LoadedPairs.flag = TRUE /\ PairsAgree(LoadedPairs.map, told.pairs)
           /\ \E map : LoadedPairs = [map |-> map, flag |-> TRUE]
<1>1. CASE pairs.flag = TRUE
  <2>1. LoadedPairs = pairs
    BY <1>1 DEF LoadedPairs
  <2> QED BY <1>1, <2>1, Changed DEF PairsInv
<1>2. CASE pairs.flag = FALSE
  <2>1. pairs.map = Nothing /\ told.pairs = RememberPairs(Nothing, DefaultPairs)
    BY <1>2 DEF PairsInv
  <2>2. LoadedPairs = [map |-> WithPairs(Nothing, DefaultPairs), flag |-> TRUE]
    BY <1>2, <2>1, DefaultsAreTaken DEF LoadedPairs
  <2>3. PairsAgree(WithPairs(Nothing, DefaultPairs), RememberPairs(Nothing, DefaultPairs))
    BY DefaultsAreTaken, NothingAgrees, PairsRemembered
  <2> QED BY <2>1, <2>2, <2>3
<1> QED BY <1>1, <1>2, Changed

LEMMA LoadedFunctionsLemma ==
    ASSUME MixtureTypes, FunctionsInv
    PROVE  LoadedFunctions.flag = TRUE /\ FunctionsAgree(LoadedFunctions.map, told.functions)
           /\ \E map : LoadedFunctions = [map |-> map, flag |-> TRUE]
<1>1. CASE departures.flag = TRUE
  <2>1. LoadedFunctions = departures
    BY <1>1 DEF LoadedFunctions
  <2> QED BY <1>1, <2>1, Changed DEF FunctionsInv
<1>2. CASE departures.flag = FALSE
  <2>1. departures.map = Nothing /\ told.functions = RememberFunctions(Nothing, DefaultFunctions)
    BY <1>2 DEF FunctionsInv
  <2>2. LoadedFunctions = [map |-> WithFunctions(Nothing, DefaultFunctions), flag |-> TRUE]
    BY <1>2, <2>1, DefaultsAreTaken DEF LoadedFunctions
  <2>3. FunctionsAgree(WithFunctions(Nothing, DefaultFunctions), RememberFunctions(Nothing, DefaultFunctions))
    BY DefaultsAreTaken, NothingAgrees, FunctionsRemembered
  <2> QED BY <2>1, <2>2, <2>3
<1> QED BY <1>1, <1>2, Changed

-----------------------------------------------------------------------------
(* The steps.                                                               *)

\* A sequence and its elements.
LEMMA Elements ==
    ASSUME NEW S, NEW s \in Seq(S)
    PROVE  Len(s) \in Nat /\ DOMAIN s = 1 .. Len(s) /\ \A i \in 1 .. Len(s) : s[i] \in S
  OBVIOUS

LEMMA MixtureInitially ==
    ASSUME MixtureInit
    PROVE  MixtureInv
<1>1. MixtureTypes /\ MixtureIsAsTold
  BY DEF MixtureInit, MixtureTypes, MixtureIsAsTold
<1>2. PairsInv
  <2>1. Keyed(RememberPairs(Nothing, DefaultPairs))
    BY DefaultsAreTaken, NothingAgrees, PairsRemembered
  <2> QED BY <2>1 DEF MixtureInit, PairsInv
<1>3. FunctionsInv
  BY DEF MixtureInit, FunctionsInv
<1>4. KijInv
  <2> DEFINE keys == PairKeys(DefaultKij)
             values == [i \in DOMAIN DefaultKij |-> DefaultKij[i].kij]
             n == Len(DefaultKij)
  <2>k. DefaultKij \in Seq([pair : Pairs, kij : Int])
    BY MixtureAssumption
  <2>0. n \in Nat /\ DOMAIN DefaultKij = 1 .. n /\ \A i \in 1 .. n : DefaultKij[i] \in [pair : Pairs, kij : Int]
    BY <2>k, Elements
  <2>1. n \in Nat /\ DOMAIN DefaultKij = 1 .. n /\ DOMAIN keys = 1 .. n
        /\ \A i \in 1 .. n : DefaultKij[i].pair \in Pairs /\ keys[i] = Sorted(DefaultKij[i].pair)
                             /\ values[i] = DefaultKij[i].kij
    BY <2>0 DEF PairKeys
  <2>2. kij = Merged(Nothing, keys, values) /\ toldKij = Merged(Nothing, keys, DefaultKij) /\ DOMAIN Nothing = {}
    BY DEF MixtureInit, RememberPairs, Nothing
  <2> HIDE DEF keys, values, n
  <2>3. /\ DOMAIN kij = Range(keys) /\ DOMAIN toldKij = Range(keys)
        /\ \A k \in Range(keys) : /\ LastOf(keys, k) \in 1 .. n
                                  /\ kij[k] = values[LastOf(keys, k)] /\ toldKij[k] = DefaultKij[LastOf(keys, k)]
    <3>0. n \in Nat /\ DOMAIN keys = 1 .. n
      BY <2>1
    <3>1. Merges(Nothing, keys, values, kij) /\ Merges(Nothing, keys, DefaultKij, toldKij)
      BY <2>2, <3>0, MergedLemma
    <3> QED BY <2>1, <2>2, <3>1 DEF Merges
  <2>4. \A k \in Range(keys) : k \in Pairs /\ Sorted(k) = k
    BY <2>1, SortedLemma DEF Range
  <2>5. \A p \in Pairs : ~({p, Reverse2(p)} \subseteq DOMAIN kij)
    BY <2>3, <2>4, SortedLemma
  <2>6. \A p \in DOMAIN kij : kij[p] = toldKij[Sorted(p)].kij
    BY <2>1, <2>3, <2>4
  <2> QED BY <2>3, <2>4, <2>5, <2>6 DEF KijInv, KijAsTold
<1> QED BY <1>1, <1>2, <1>3, <1>4 DEF MixtureInv

\* Looking for a mixture's departure function registers an empty dictionary at most.
LEMMA GhostAgrees ==
    ASSUME NEW map, NEW old, FunctionsAgree(map, old), NEW f, f \notin DOMAIN map
    PROVE  FunctionsAgree(Merged(map, <<f>>, <<Ghost>>), old)
<1> DEFINE keys == <<f>>
<1>1. 1 \in Nat /\ DOMAIN keys = 1 .. 1 /\ Range(keys) = {f}
  BY DEF Range
<1> HIDE DEF keys
<1>2. Merges(map, keys, <<Ghost>>, Merged(map, keys, <<Ghost>>))
  BY <1>1, MergedLemma
<1>3. LastOf(keys, f) = 1
  BY <1>1, <1>2 DEF Merges
<1>4. /\ DOMAIN Merged(map, keys, <<Ghost>>) = DOMAIN map \cup {f}
      /\ \A k \in DOMAIN map : Merged(map, keys, <<Ghost>>)[k] = map[k]
      /\ Merged(map, keys, <<Ghost>>)[f] = Ghost
  BY <1>1, <1>2, <1>3 DEF Merges
<1> QED BY <1>4 DEF FunctionsAgree, keys

LEMMA SetPairsInv ==
    ASSUME MixtureInv, LooksFirst, NEW entries \in PairListings, SetPairs(entries)
    PROVE  MixtureInv'
<1> DEFINE taken == TakenPairs(pairs.map, entries)
<1>1. pairs.flag = TRUE
  BY Changed DEF SetPairs, MayChange, MixtureInv
<1>2. taken \in Seq(Given)
  BY TakenTypes, MixtureAssumption
<1>3. /\ pairs' = [map |-> WithPairs(pairs.map, taken), flag |-> TRUE]
      /\ told' = [pairs |-> RememberPairs(told.pairs, taken), functions |-> told.functions]
      /\ UNCHANGED <<departures, kij, toldKij>> /\ mixture' = None
  BY <1>1, Changed DEF SetPairs, TellPairs, MixtureInv
<1> HIDE DEF taken
<1>4. /\ PairsAgree(WithPairs(pairs.map, taken), RememberPairs(told.pairs, taken))
      /\ Keyed(RememberPairs(told.pairs, taken))
  BY <1>1, <1>2, PairsRemembered DEF MixtureInv, PairsInv
<1>5. MixtureTypes' /\ PairsInv' /\ FunctionsInv'
  BY <1>3, <1>4 DEF MixtureInv, MixtureTypes, PairsInv, FunctionsInv
<1> QED BY <1>3, <1>5 DEF MixtureInv, KijInv, KijAsTold, MixtureIsAsTold

LEMMA ApplyRuleInv ==
    ASSUME MixtureInv, NEW p \in Pairs, ApplyRule(p)
    PROVE  MixtureInv'
<1> DEFINE given == <<[pair |-> p, beta |-> 0, F |-> 0, function |-> None]>>
           taken == TakenPairs(LoadedPairs.map, given)
<1>1. LoadedPairs.flag = TRUE /\ PairsAgree(LoadedPairs.map, told.pairs)
  BY LoadedPairsLemma DEF MixtureInv
<1>0. PICK map : LoadedPairs = [map |-> map, flag |-> TRUE]
  BY LoadedPairsLemma DEF MixtureInv
<1>2. taken \in Seq(Given)
  <2>1. given \in Seq(Given)
    BY DEF Given
  <2> QED BY <2>1, TakenTypes
<1> HIDE DEF given
<1>3. /\ pairs' = [map |-> WithPairs(LoadedPairs.map, taken), flag |-> TRUE]
      /\ told' = [pairs |-> RememberPairs(told.pairs, taken), functions |-> told.functions]
      /\ UNCHANGED <<departures, kij, toldKij>> /\ mixture' = None
  BY <1>0, <1>1, Changed DEF ApplyRule, TellPairs, MixtureInv, given
<1> HIDE DEF taken
<1>4. /\ PairsAgree(WithPairs(LoadedPairs.map, taken), RememberPairs(told.pairs, taken))
      /\ Keyed(RememberPairs(told.pairs, taken))
  BY <1>1, <1>2, PairsRemembered DEF MixtureInv, PairsInv
<1>5. MixtureTypes' /\ PairsInv' /\ FunctionsInv'
  BY <1>3, <1>4 DEF MixtureInv, MixtureTypes, PairsInv, FunctionsInv
<1> QED BY <1>3, <1>5 DEF MixtureInv, KijInv, KijAsTold, MixtureIsAsTold

\* What set_mixture_binary_pair_data makes of what a pair was told before.
LEMMA GivenAnew ==
    ASSUME NEW g \in Given, NEW p \in Pairs, NEW beta \in Int
    PROVE  [g EXCEPT !.pair = p, !.beta = beta] = [pair |-> p, beta |-> beta, F |-> g.F, function |-> g.function]
<1> DEFINE anew == [g EXCEPT !.pair = p, !.beta = beta]
<1>1. anew \in Given /\ anew.pair = p /\ anew.beta = beta /\ anew.F = g.F /\ anew.function = g.function
  BY DEF Given
<1> HIDE DEF anew
<1>2. anew = [pair |-> p, beta |-> beta, F |-> g.F, function |-> g.function]
  BY <1>1 DEF Given
<1> QED BY <1>2 DEF anew

LEMMA SetPairDataInv ==
    ASSUME MixtureInv, NEW p \in Pairs, NEW beta \in Betas, SetPairData(p, beta)
    PROVE  MixtureInv'
<1>1. LoadedPairs.flag = TRUE /\ PairsAgree(LoadedPairs.map, told.pairs)
  BY LoadedPairsLemma DEF MixtureInv
<1>0. PICK map : LoadedPairs = [map |-> map, flag |-> TRUE]
  BY LoadedPairsLemma DEF MixtureInv
<1>2. UNCHANGED <<departures, kij, toldKij>> /\ mixture' = None
  BY DEF SetPairData
<1>3. CASE p \notin DOMAIN map
  <2>1. pairs' = [map |-> map, flag |-> TRUE] /\ told' = told
    BY <1>0, <1>3 DEF SetPairData
  <2>2. MixtureTypes' /\ PairsInv' /\ FunctionsInv'
    BY <1>0, <1>1, <1>2, <2>1 DEF MixtureInv, MixtureTypes, PairsInv, FunctionsInv
  <2> QED BY <1>2, <2>2 DEF MixtureInv, KijInv, KijAsTold, MixtureIsAsTold
<1>4. CASE p \in DOMAIN map
  <2> DEFINE old == told.pairs
             given == [old[p] EXCEPT !.pair = p, !.beta = beta]
             valued == [map[p] EXCEPT !.beta = beta]
  <2>1. /\ p \in DOMAIN old /\ old[p] \in Given /\ Sorted(p) = p /\ map[p] = PairValue(old[p]) /\ beta \in Int
    <3>1. p \in DOMAIN old /\ map[p] = PairValue(old[p])
      BY <1>0, <1>1, <1>4 DEF PairsAgree
    <3>2. old[p] \in Given /\ Sorted(old[p].pair) = p
      BY <3>1 DEF MixtureInv, PairsInv, Keyed
    <3>3. Sorted(p) = p
      BY <3>2, SortedLemma DEF Given
    <3>4. beta \in Int
      BY MixtureAssumption
    <3> QED BY <3>1, <3>2, <3>3, <3>4
  <2>2. /\ given \in Given /\ given.pair = p
        /\ given = [pair |-> p, beta |-> beta, F |-> old[p].F, function |-> old[p].function]
    <3>1. old[p] = [pair |-> old[p].pair, beta |-> old[p].beta, F |-> old[p].F, function |-> old[p].function]
          /\ old[p].F \in {0, 1} /\ old[p].function \in Functions \cup {None}
      BY <2>1 DEF Given
    <3>2. given = [pair |-> p, beta |-> beta, F |-> old[p].F, function |-> old[p].function]
      BY <2>1, GivenAnew
    <3> QED BY <2>1, <3>1, <3>2 DEF Given
  <2>3. valued = PairValue(given)
    BY <2>1, <2>2 DEF PairValue, Turned
  <2>4. /\ pairs' = [map |-> [map EXCEPT ![p] = valued], flag |-> TRUE]
        /\ told' = [pairs |-> [old EXCEPT ![p] = given], functions |-> told.functions]
    <3>1. pairs' = [LoadedPairs EXCEPT !.map[p].beta = beta]
          /\ told' = [told EXCEPT !.pairs[p] = [@ EXCEPT !.pair = p, !.beta = beta]]
      BY <1>0, <1>4 DEF SetPairData
    <3>2. pairs' = [map |-> [map EXCEPT ![p] = valued], flag |-> TRUE]
      BY <1>0, <3>1
    <3>3. told = [pairs |-> told.pairs, functions |-> told.functions]
      BY Changed DEF MixtureInv
    <3>4. told' = [told EXCEPT !.pairs = [old EXCEPT ![p] = given]]
      BY <3>1, <3>3
    <3> QED BY <3>2, <3>4, Changed DEF MixtureInv
  <2> HIDE DEF given, valued
  <2>5. PairsAgree([map EXCEPT ![p] = valued], [old EXCEPT ![p] = given])
    BY <1>0, <1>1, <1>4, <2>1, <2>3 DEF PairsAgree
  <2>6. Keyed([old EXCEPT ![p] = given])
    BY <2>1, <2>2 DEF Keyed, MixtureInv, PairsInv
  <2>7. MixtureTypes' /\ PairsInv' /\ FunctionsInv'
    BY <1>2, <2>4, <2>5, <2>6 DEF MixtureInv, MixtureTypes, PairsInv, FunctionsInv
  <2> QED BY <1>2, <2>7 DEF MixtureInv, KijInv, KijAsTold, MixtureIsAsTold
<1> QED BY <1>3, <1>4

LEMMA SetFunctionsInv ==
    ASSUME MixtureInv, LooksFirst, NEW entries \in FunctionListings, SetFunctions(entries)
    PROVE  MixtureInv'
<1> DEFINE taken == TakenFunctions(departures.map, entries)
<1>1. departures.flag = TRUE
  BY Changed DEF SetFunctions, MayChange, MixtureInv
<1>2. taken \in Seq(GivenFunctions)
  BY TakenTypes, MixtureAssumption DEF GivenFunctions
<1>3. /\ departures' = [map |-> WithFunctions(departures.map, taken), flag |-> TRUE]
      /\ told' = [pairs |-> told.pairs, functions |-> RememberFunctions(told.functions, taken)]
      /\ UNCHANGED <<pairs, kij, toldKij>> /\ mixture' = None
  BY <1>1, Changed DEF SetFunctions, MixtureInv
<1> HIDE DEF taken
<1>4. FunctionsAgree(WithFunctions(departures.map, taken), RememberFunctions(told.functions, taken))
  BY <1>1, <1>2, FunctionsRemembered DEF MixtureInv, FunctionsInv
<1>5. MixtureTypes' /\ PairsInv' /\ FunctionsInv'
  BY <1>3, <1>4 DEF MixtureInv, MixtureTypes, PairsInv, FunctionsInv
<1> QED BY <1>3, <1>5 DEF MixtureInv, KijInv, KijAsTold, MixtureIsAsTold

LEMMA SetHMXInv ==
    ASSUME MixtureInv, LooksFirst, NEW entries \in PairListings, NEW functions \in FunctionListings,
           SetHMX(entries, functions)
    PROVE  MixtureInv'
<1> DEFINE taken == TakenPairs(pairs.map, entries)
           takenFunctions == IF taken = entries THEN TakenFunctions(departures.map, functions) ELSE <<>>
<1>1. pairs.flag = TRUE /\ departures.flag = TRUE
  BY Changed DEF SetHMX, MayChange, MixtureInv
<1>2. taken \in Seq(Given)
  BY TakenTypes, MixtureAssumption
<1>3. takenFunctions \in Seq(GivenFunctions)
  <2>1. TakenFunctions(departures.map, functions) \in Seq(GivenFunctions) /\ <<>> \in Seq(GivenFunctions)
    <3>1. functions \in Seq(GivenFunctions)
      BY MixtureAssumption DEF GivenFunctions
    <3> QED BY <3>1, TakenTypes
  <2> QED BY <2>1
<1>4. /\ pairs' = [map |-> WithPairs(pairs.map, taken), flag |-> TRUE]
      /\ departures' = [map |-> WithFunctions(departures.map, takenFunctions), flag |-> TRUE]
      /\ told' = [pairs |-> RememberPairs(told.pairs, taken),
                  functions |-> RememberFunctions(told.functions, takenFunctions)]
      /\ UNCHANGED <<kij, toldKij>> /\ mixture' = None
  BY <1>1, Changed DEF SetHMX, MixtureInv
<1> HIDE DEF taken, takenFunctions
<1>5. /\ PairsAgree(WithPairs(pairs.map, taken), RememberPairs(told.pairs, taken))
      /\ Keyed(RememberPairs(told.pairs, taken))
  BY <1>1, <1>2, PairsRemembered DEF MixtureInv, PairsInv
<1>6. FunctionsAgree(WithFunctions(departures.map, takenFunctions), RememberFunctions(told.functions, takenFunctions))
  BY <1>1, <1>3, FunctionsRemembered DEF MixtureInv, FunctionsInv
<1>7. MixtureTypes' /\ PairsInv' /\ FunctionsInv'
  BY <1>4, <1>5, <1>6 DEF MixtureInv, MixtureTypes, PairsInv, FunctionsInv
<1> QED BY <1>4, <1>7 DEF MixtureInv, KijInv, KijAsTold, MixtureIsAsTold

LEMMA MakeThrowInv ==
    ASSUME MixtureInv, NEW p \in Pairs, MakeThrow(p)
    PROVE  MixtureInv'
<1>1. LoadedPairs.flag = TRUE /\ PairsAgree(LoadedPairs.map, told.pairs)
  BY LoadedPairsLemma DEF MixtureInv
<1>0. PICK map : LoadedPairs = [map |-> map, flag |-> TRUE]
  BY LoadedPairsLemma DEF MixtureInv
<1>2. /\ pairs' = [map |-> map, flag |-> TRUE] /\ mixture' = [pair |-> p, made |-> FALSE]
      /\ UNCHANGED <<departures, kij, told, toldKij>> /\ Sorted(p) \notin DOMAIN map
  BY <1>0, <1>1 DEF MakeThrow, Failed
<1>3. MixtureTypes' /\ PairsInv' /\ FunctionsInv'
  BY <1>0, <1>1, <1>2 DEF MixtureInv, MixtureTypes, PairsInv, FunctionsInv
<1>4. MixtureIsAsTold'
  BY <1>0, <1>1, <1>2 DEF MixtureIsAsTold, PairsAgree
<1> QED BY <1>2, <1>3, <1>4 DEF MixtureInv, KijInv, KijAsTold

\* What is told of a function, and what is not.
LEMMA Dictionaries ==
    ASSUME NEW map, NEW old, FunctionsAgree(map, old)
    PROVE  /\ \A f \in DOMAIN old : map[f].empty = FALSE /\ map[f].id = old[f].id
           /\ \A f \in DOMAIN map \ DOMAIN old : map[f].empty = TRUE
<1>1. ASSUME NEW f \in DOMAIN old PROVE map[f].empty = FALSE /\ map[f].id = old[f].id
  <2>1. map[f] = [empty |-> FALSE, id |-> old[f].id]
    BY DEF FunctionsAgree
  <2> QED BY <2>1
<1>2. ASSUME NEW f \in DOMAIN map \ DOMAIN old PROVE map[f].empty = TRUE
  <2>1. map[f] = Ghost
    BY DEF FunctionsAgree
  <2> QED BY <2>1 DEF Ghost
<1> QED BY <1>1, <1>2

LEMMA MakeInv ==
    ASSUME MixtureInv, NEW p \in Pairs, Make(p)
    PROVE  MixtureInv'
<1> DEFINE s == Sorted(p)
           entry == LoadedPairs.map[s]
           given == told.pairs[s]
           functions == LoadedFunctions
           asked == entry.F # 0 /\ entry.function # None
           found == asked /\ functions.flag /\ entry.function \in DOMAIN functions.map
                          /\ ~functions.map[entry.function].empty
<1>1. LoadedPairs.flag = TRUE /\ PairsAgree(LoadedPairs.map, told.pairs)
      /\ functions.flag = TRUE /\ FunctionsAgree(functions.map, told.functions)
  BY LoadedPairsLemma, LoadedFunctionsLemma DEF MixtureInv
<1>0. PICK map : LoadedPairs = [map |-> map, flag |-> TRUE]
  BY LoadedPairsLemma DEF MixtureInv
<1>f. PICK fmap : functions = [map |-> fmap, flag |-> TRUE]
  BY LoadedFunctionsLemma DEF MixtureInv
<1>2. s \in DOMAIN told.pairs /\ given \in Given /\ Sorted(given.pair) = s /\ entry = PairValue(given)
  BY <1>1 DEF Make, PairsAgree, MixtureInv, PairsInv, Keyed
<1>3. /\ entry.beta = Turned(given.beta, s, given.pair) /\ entry.F = given.F
      /\ entry.function = IF given.F = 0 THEN None ELSE given.function
      /\ given.pair \in Pairs /\ given.beta \in Int /\ given.F \in {0, 1} /\ given.function \in Functions \cup {None}
  BY <1>2 DEF PairValue, Given
<1>4. /\ pairs' = [map |-> map, flag |-> TRUE] /\ UNCHANGED <<kij, told, toldKij>>
      /\ departures' = IF ~asked THEN departures
                       ELSE IF functions.flag /\ entry.function \notin DOMAIN functions.map
                            THEN [functions EXCEPT !.map = Merged(@, <<entry.function>>, <<Ghost>>)]
                            ELSE functions
      /\ mixture' = IF entry.F = 0 \/ found
                    THEN [pair |-> p, made |-> TRUE, beta |-> Turned(entry.beta, p, s),
                          function |-> IF found THEN functions.map[entry.function].id ELSE None]
                    ELSE [pair |-> p, made |-> FALSE]
  BY <1>0 DEF Make, Failed
<1> HIDE DEF functions
<1>5. MixtureTypes' /\ FunctionsInv'
  <2> DEFINE f == entry.function
  <2>1. CASE ~asked
    BY <1>4, <2>1 DEF MixtureInv, MixtureTypes, FunctionsInv
  <2>2. CASE asked /\ f \notin DOMAIN fmap
    <3>1. departures' = [map |-> Merged(fmap, <<f>>, <<Ghost>>), flag |-> TRUE]
      BY <1>4, <1>f, <2>2
    <3>2. FunctionsAgree(Merged(fmap, <<f>>, <<Ghost>>), told.functions)
      BY <1>1, <1>f, <2>2, GhostAgrees
    <3>3. PICK merged : departures' = [map |-> merged, flag |-> TRUE] /\ FunctionsAgree(merged, told.functions)
      BY <3>1, <3>2
    <3>4. pairs' = [map |-> map, flag |-> TRUE] /\ told' = told
      BY <1>4
    <3>5. MixtureTypes'
      BY <3>3, <3>4 DEF MixtureInv, MixtureTypes
    <3>6. FunctionsInv'
      BY <3>3, <3>4 DEF FunctionsInv
    <3> QED BY <3>5, <3>6
  <2>3. CASE asked /\ f \in DOMAIN fmap
    <3>1. departures' = [map |-> fmap, flag |-> TRUE]
      BY <1>4, <1>f, <2>3
    <3> QED BY <1>1, <1>f, <1>4, <3>1 DEF MixtureInv, MixtureTypes, FunctionsInv
  <2> HIDE DEF asked, f
  <2> QED BY <2>1, <2>2, <2>3, Zenon
<1>6. PairsInv'
  BY <1>0, <1>1, <1>4 DEF MixtureInv, PairsInv
<1>a. asked <=> given.F # 0 /\ given.function # None
  BY <1>3
<1>b. asked => entry.function = given.function
  BY <1>3
<1>c. functions.map = fmap /\ functions.flag = TRUE /\ FunctionsAgree(fmap, told.functions)
  BY <1>1, <1>f
<1> HIDE DEF asked
<1>d. /\ \A f \in DOMAIN told.functions : fmap[f].empty = FALSE /\ fmap[f].id = told.functions[f].id
      /\ \A f \in DOMAIN fmap \ DOMAIN told.functions : fmap[f].empty = TRUE
  <2>1. FunctionsAgree(fmap, told.functions)
    BY <1>c
  <2> QED BY ONLY <2>1, Dictionaries, Zenon
<1>e. None \notin DOMAIN told.functions /\ DOMAIN told.functions \subseteq DOMAIN fmap
  BY <1>c, MixtureAssumption DEF FunctionsAgree
<1>7. found <=> given.F # 0 /\ given.function \in DOMAIN told.functions
  BY <1>a, <1>b, <1>c, <1>d, <1>e
<1>8. found => functions.map[entry.function].id = told.functions[given.function].id
  BY <1>b, <1>c, <1>d, <1>7
<1>9. Turned(entry.beta, p, s) = Turned(given.beta, p, given.pair)
  BY <1>2, <1>3, TurnedTwice
<1> HIDE DEF found, entry
<1>10. CASE entry.F = 0 \/ found
  <2>1. /\ mixture'.made = TRUE /\ mixture'.pair = p /\ mixture'.beta = Turned(given.beta, p, given.pair)
        /\ mixture'.function = IF found THEN functions.map[entry.function].id ELSE None
    BY <1>4, <1>9, <1>10
  <2>2. mixture'.function # None => mixture'.function = told.functions[given.function].id
    BY <1>8, <2>1
  <2>3. MixtureIsAsTold'
    BY <1>4, <2>1, <2>2 DEF MixtureIsAsTold, Told
  <2> QED BY <1>4, <1>5, <1>6, <2>3 DEF MixtureInv, KijInv, KijAsTold
<1>11. CASE ~(entry.F = 0 \/ found)
  <2>1. mixture'.made = FALSE /\ mixture'.pair = p
    BY <1>4, <1>11
  <2>2. given.F # 0 /\ given.function \notin DOMAIN told.functions
    BY <1>3, <1>7, <1>11
  <2>3. MixtureIsAsTold'
    BY <1>4, <2>1, <2>2 DEF MixtureIsAsTold, Told
  <2> QED BY <1>4, <1>5, <1>6, <2>3 DEF MixtureInv, KijInv, KijAsTold
<1> QED BY <1>10, <1>11

LEMMA SetKijInv ==
    ASSUME MixtureInv, NEW p \in Pairs, NEW value \in Betas, SetKij(p, value)
    PROVE  MixtureInv'
<1> DEFINE there == {p, Reverse2(p)} \cap DOMAIN kij
           key == IF there = {} THEN p ELSE CHOOSE q \in there : TRUE
           given == <<[pair |-> p, kij |-> value]>>
<1>1. UNCHANGED <<pairs, departures, told>> /\ mixture' = None
  BY DEF SetKij
<1>2. MixtureTypes' /\ PairsInv' /\ FunctionsInv' /\ MixtureIsAsTold'
  BY <1>1 DEF MixtureInv, MixtureTypes, PairsInv, FunctionsInv, MixtureIsAsTold
<1>3. CASE ~(there = {} \/ overwrite)
  <2>1. UNCHANGED <<kij, toldKij>>
    BY <1>3 DEF SetKij
  <2> QED BY <1>2, <2>1 DEF MixtureInv, KijInv, KijAsTold
<1>4. CASE there = {} \/ overwrite
  <2>1. kij' = Merged(kij, <<key>>, <<value>>) /\ toldKij' = Merged(toldKij, PairKeys(given), given)
    BY <1>4 DEF SetKij, RememberPairs
  <2>2. key \in {p, Reverse2(p)} /\ (key \in there \/ there = {})
    OBVIOUS
  <2>3. key \in Pairs /\ Sorted(key) = Sorted(p)
    BY <2>2, SortedLemma
  <2> HIDE DEF key
  <2> DEFINE keys == <<key>>
             sorted == PairKeys(given)
  <2>4. DOMAIN keys = 1 .. 1 /\ Range(keys) = {key}
    BY DEF Range
  <2>5. DOMAIN sorted = 1 .. 1 /\ sorted[1] = Sorted(p)
    BY DEF PairKeys
  <2>6. Range(sorted) = {Sorted(p)}
    BY <2>5 DEF Range
  <2> HIDE DEF keys, sorted
  <2>7. /\ DOMAIN kij' = DOMAIN kij \cup {key} /\ \A q \in DOMAIN kij \ {key} : kij'[q] = kij[q]
        /\ kij'[key] = value
    <3>1. Merges(kij, keys, <<value>>, kij')
      BY <2>1, <2>4, MergedLemma DEF keys
    <3>2. LastOf(keys, key) = 1
      BY <2>4, <3>1 DEF Merges
    <3> QED BY <2>4, <3>1, <3>2 DEF Merges
  <2>8. /\ DOMAIN toldKij' = DOMAIN toldKij \cup {Sorted(p)}
        /\ \A k \in DOMAIN toldKij \ {Sorted(p)} : toldKij'[k] = toldKij[k]
        /\ toldKij'[Sorted(p)].kij = value
    <3>1. Merges(toldKij, sorted, given, toldKij')
      BY <2>1, <2>5, MergedLemma DEF sorted
    <3>2. LastOf(sorted, Sorted(p)) = 1
      BY <2>5, <2>6, <3>1 DEF Merges
    <3>3. toldKij'[Sorted(p)] = given[1]
      BY <2>6, <3>1, <3>2 DEF Merges
    <3> QED BY <2>6, <3>1, <3>3 DEF Merges
  <2>9. \A q \in DOMAIN kij : Sorted(q) = Sorted(p) => q = key
    <3> TAKE q \in DOMAIN kij
    <3> HAVE Sorted(q) = Sorted(p)
    <3>1. q \in {p, Reverse2(p)}
      BY SortedLemma DEF MixtureInv, KijInv
    <3>2. ~({p, Reverse2(p)} \subseteq DOMAIN kij)
      BY DEF MixtureInv, KijInv, KijAsTold
    <3> QED BY <2>2, <3>1, <3>2
  <2>10. \A q \in Pairs : ~({q, Reverse2(q)} \subseteq DOMAIN kij')
    <3> TAKE q \in Pairs
    <3>1. ~({q, Reverse2(q)} \subseteq DOMAIN kij) /\ Reverse2(q) \in Pairs /\ Reverse2(q) # q
          /\ Sorted(Reverse2(q)) = Sorted(q)
      BY SortedLemma DEF MixtureInv, KijInv, KijAsTold
    <3> QED BY <2>3, <2>7, <2>9, <3>1
  <2>11. \A q \in DOMAIN kij' : q \in Pairs /\ Sorted(q) \in DOMAIN toldKij' /\ kij'[q] = toldKij'[Sorted(q)].kij
    <3>1. \A q \in DOMAIN kij : q \in Pairs /\ Sorted(q) \in DOMAIN toldKij /\ kij[q] = toldKij[Sorted(q)].kij
      BY DEF MixtureInv, KijInv, KijAsTold
    <3> QED BY <2>3, <2>7, <2>8, <2>9, <3>1
  <2>12. KijInv'
    BY <2>10, <2>11 DEF KijInv, KijAsTold
  <2> QED BY <1>2, <2>12 DEF MixtureInv
<1> QED BY <1>3, <1>4

LEMMA MixtureStep ==
    ASSUME MixtureInv, LooksFirst, [MixtureNext]_<<vars, mixtureVars>>
    PROVE  MixtureInv'
<1>1. CASE UNCHANGED mixtureVars
  BY <1>1 DEF mixtureVars, MixtureInv, MixtureTypes, PairsInv, FunctionsInv, KijInv, KijAsTold, MixtureIsAsTold, Told
<1>2. CASE LookIntoPairs
  <2>1. PairsAgree(LoadedPairs.map, told.pairs)
    BY LoadedPairsLemma DEF MixtureInv
  <2>2. PICK map : LoadedPairs = [map |-> map, flag |-> TRUE]
    BY LoadedPairsLemma DEF MixtureInv
  <2>3. pairs' = [map |-> map, flag |-> TRUE] /\ UNCHANGED <<departures, kij, told, toldKij>> /\ mixture' = None
    BY <1>2, <2>2 DEF LookIntoPairs
  <2> QED BY <2>1, <2>2, <2>3
      DEF MixtureInv, MixtureTypes, PairsInv, FunctionsInv, KijInv, KijAsTold, MixtureIsAsTold
<1>3. ASSUME NEW entries \in PairListings, SetPairs(entries) PROVE MixtureInv'
  BY <1>3, SetPairsInv
<1>4. ASSUME NEW entries \in FunctionListings, SetFunctions(entries) PROVE MixtureInv'
  BY <1>4, SetFunctionsInv
<1>5. ASSUME NEW entries \in PairListings, NEW functions \in FunctionListings, SetHMX(entries, functions)
      PROVE  MixtureInv'
  BY <1>5, SetHMXInv
<1>6. ASSUME NEW p \in Pairs, ApplyRule(p) PROVE MixtureInv'
  BY <1>6, ApplyRuleInv
<1>7. ASSUME NEW p \in Pairs, MakeThrow(p) PROVE MixtureInv'
  BY <1>7, MakeThrowInv
<1>8. ASSUME NEW p \in Pairs, Make(p) PROVE MixtureInv'
  BY <1>8, MakeInv
<1>9. ASSUME NEW p \in Pairs, NEW value \in Betas, SetPairData(p, value) PROVE MixtureInv'
  BY <1>9, SetPairDataInv
<1>10. ASSUME NEW p \in Pairs, NEW value \in Betas, SetKij(p, value) PROVE MixtureInv'
  BY <1>10, SetKijInv
<1>11. UNCHANGED <<vars, mixtureVars>> => UNCHANGED mixtureVars
  OBVIOUS
<1> QED
  BY <1>1, <1>2, <1>3, <1>4, <1>5, <1>6, <1>7, <1>8, <1>9, <1>10, <1>11 DEF MixtureNext

\* For any components, listings and number of calls: if users look into a library before
\* they change it, a mixture has the parameters and the departure function told last, in
\* its own order of the components, and PC-SAFT those it was told.
THEOREM MixturesAreAsTold ==
    ASSUME LooksFirst
    PROVE  MixtureSpec => []ParametersAreAsTold
<1>1. MixtureInit => MixtureInv
  BY MixtureInitially
<1>2. MixtureInv /\ [MixtureNext]_<<vars, mixtureVars>> => MixtureInv'
  BY MixtureStep
<1>3. MixtureInv => ParametersAreAsTold
  BY DEF MixtureInv, KijInv, ParametersAreAsTold
<1> QED BY <1>1, <1>2, <1>3, PTL DEF MixtureSpec

-----------------------------------------------------------------------------
(* What is there is not replaced without the overwrite key. *)

\* Of a listing nothing is taken whose key was there.
LEMMA TakenIsNew ==
    ASSUME ~overwrite, NEW S, NEW entries \in Seq(S), NEW map, NEW keys, DOMAIN keys = DOMAIN entries
    PROVE  \A i \in DOMAIN Taken(map, keys, entries) :
              i \in DOMAIN entries /\ Taken(map, keys, entries)[i] = entries[i] /\ keys[i] \notin DOMAIN map
<1> DEFINE clashes == {i \in DOMAIN keys : keys[i] \in DOMAIN map \/ \E j \in 1 .. i - 1 : keys[j] = keys[i]}
<1>1. CASE clashes = {}
  <2>1. Taken(map, keys, entries) = entries
    BY <1>1 DEF Taken
  <2> QED BY <1>1, <2>1
<1>2. CASE clashes # {}
  <2>1. clashes \in SUBSET (1 .. Len(entries)) /\ clashes \in SUBSET Nat
    OBVIOUS
  <2>2. First(clashes) \in clashes /\ \A j \in clashes : First(clashes) <= j
    BY <1>2, <2>1, FirstIn
  <2>3. Taken(map, keys, entries) = SubSeq(entries, 1, First(clashes) - 1)
    BY <1>2 DEF Taken
  <2>4. First(clashes) \in 1 .. Len(entries)
    BY <2>1, <2>2
  <2>5. \A i \in DOMAIN entries \ clashes : keys[i] \notin DOMAIN map
    OBVIOUS
  <2> HIDE DEF clashes
  <2> DEFINE first == First(clashes)
  <2>6. first \in 1 .. Len(entries) /\ \A j \in clashes : first <= j
    BY <2>2, <2>4
  <2>7. Taken(map, keys, entries) = SubSeq(entries, 1, first - 1)
    BY <2>3
  <2> HIDE DEF first
  <2>8. /\ DOMAIN SubSeq(entries, 1, first - 1) = 1 .. first - 1
        /\ \A i \in 1 .. first - 1 : SubSeq(entries, 1, first - 1)[i] = entries[i]
    BY <2>6
  <2>9. \A i \in 1 .. first - 1 : i \in DOMAIN entries \ clashes
    BY <2>1, <2>6
  <2> QED BY <2>5, <2>7, <2>8, <2>9
<1> QED BY <1>1, <1>2

\* What is remembered of new keys changes nothing.
LEMMA MergedKeeps ==
    ASSUME NEW old, NEW n \in Nat, NEW keys, DOMAIN keys = 1 .. n, NEW values,
           \A i \in DOMAIN keys : keys[i] \notin DOMAIN old
    PROVE  Kept(old, Merged(old, keys, values))
<1>1. Merges(old, keys, values, Merged(old, keys, values))
  BY MergedLemma
<1>2. DOMAIN old \cap Range(keys) = {}
  BY DEF Range
<1> QED BY <1>1, <1>2 DEF Merges, Kept

LEMMA RememberKeeps ==
    ASSUME ~overwrite, NEW map, NEW old, DOMAIN old \subseteq DOMAIN map
    PROVE  /\ \A entries \in Seq(Given) : Kept(old, RememberPairs(old, TakenPairs(map, entries)))
           /\ \A entries \in Seq(GivenFunctions) : Kept(old, RememberFunctions(old, TakenFunctions(map, entries)))
           /\ Kept(old, RememberPairs(old, <<>>)) /\ Kept(old, RememberFunctions(old, <<>>))
<1>1. ASSUME NEW entries \in Seq(Given)
      PROVE  Kept(old, RememberPairs(old, TakenPairs(map, entries)))
  <2> DEFINE taken == TakenPairs(map, entries)
             keys == PairKeys(taken)
  <2>1. DOMAIN PairKeys(entries) = DOMAIN entries /\ \A i \in DOMAIN entries : PairKeys(entries)[i] = Sorted(entries[i].pair)
    BY DEF PairKeys
  <2>2. \A i \in DOMAIN taken :
            i \in DOMAIN entries /\ taken[i] = entries[i] /\ PairKeys(entries)[i] \notin DOMAIN map
    BY <2>1, TakenIsNew DEF TakenPairs
  <2>3. taken \in Seq(Given)
    BY TakenTypes
  <2>4. Len(taken) \in Nat /\ DOMAIN taken = 1 .. Len(taken)
    BY <2>3
  <2> HIDE DEF taken
  <2>5. DOMAIN keys = 1 .. Len(taken) /\ \A i \in DOMAIN keys : keys[i] = Sorted(taken[i].pair)
    BY <2>4 DEF PairKeys
  <2>6. \A i \in DOMAIN keys : keys[i] \notin DOMAIN old
    BY <2>1, <2>2, <2>4, <2>5
  <2> HIDE DEF keys
  <2>7. Kept(old, Merged(old, keys, taken))
    BY <2>4, <2>5, <2>6, MergedKeeps
  <2> QED BY <2>7 DEF RememberPairs, keys, taken
<1>2. ASSUME NEW entries \in Seq(GivenFunctions)
      PROVE  Kept(old, RememberFunctions(old, TakenFunctions(map, entries)))
  <2> DEFINE taken == TakenFunctions(map, entries)
             keys == FunctionKeys(taken)
  <2>1. DOMAIN FunctionKeys(entries) = DOMAIN entries /\ \A i \in DOMAIN entries : FunctionKeys(entries)[i] = entries[i].name
    BY DEF FunctionKeys
  <2>2. \A i \in DOMAIN taken :
            i \in DOMAIN entries /\ taken[i] = entries[i] /\ FunctionKeys(entries)[i] \notin DOMAIN map
    BY <2>1, TakenIsNew DEF TakenFunctions
  <2>3. taken \in Seq(GivenFunctions)
    BY TakenTypes
  <2>4. Len(taken) \in Nat /\ DOMAIN taken = 1 .. Len(taken)
    BY <2>3
  <2> HIDE DEF taken
  <2>5. DOMAIN keys = 1 .. Len(taken) /\ \A i \in DOMAIN keys : keys[i] = taken[i].name
    BY <2>4 DEF FunctionKeys
  <2>6. \A i \in DOMAIN keys : keys[i] \notin DOMAIN old
    BY <2>1, <2>2, <2>4, <2>5
  <2> HIDE DEF keys
  <2>7. Kept(old, Merged(old, keys, taken))
    BY <2>4, <2>5, <2>6, MergedKeeps
  <2> QED BY <2>7 DEF RememberFunctions, keys, taken
<1>3. ASSUME NEW keys, DOMAIN keys = {} PROVE Kept(old, Merged(old, keys, <<>>))
  <2>1. DOMAIN keys = 1 .. 0 /\ 0 \in Nat
    BY <1>3
  <2> QED BY <1>3, <2>1, MergedKeeps
<1>4. DOMAIN PairKeys(<<>>) = {} /\ DOMAIN FunctionKeys(<<>>) = {}
  BY DEF PairKeys, FunctionKeys
<1> QED BY <1>1, <1>2, <1>3, <1>4 DEF RememberPairs, RememberFunctions

LEMMA LeavesWhatIsThere ==
    ASSUME MixtureInv, LooksFirst, [MixtureNext]_<<vars, mixtureVars>>
    PROVE  LeavesFunctions /\ LeavesPairs
<1> SUFFICES ASSUME ~overwrite
             PROVE  Kept(told.functions, told'.functions)
                    /\ (Kept(told.pairs, told'.pairs) \/ \E p \in Pairs, beta \in Betas : SetPairData(p, beta))
  BY DEF LeavesFunctions, LeavesPairs
<1>1. told = [pairs |-> told.pairs, functions |-> told.functions] /\ MixtureTypes
  BY Changed DEF MixtureInv
<1>2. \A old : Kept(old, old)
  BY DEF Kept
<1>3. ASSUME told' = told PROVE Kept(told.functions, told'.functions) /\ Kept(told.pairs, told'.pairs)
  BY <1>2, <1>3
<1>4. ASSUME NEW entries \in PairListings, SetPairs(entries)
      PROVE  Kept(told.functions, told'.functions) /\ Kept(told.pairs, told'.pairs)
  <2>1. pairs.flag = TRUE
    BY <1>1, <1>4, Changed DEF SetPairs, MayChange
  <2>2. told' = [pairs |-> RememberPairs(told.pairs, TakenPairs(pairs.map, entries)), functions |-> told.functions]
    BY <1>1, <1>4, Changed DEF SetPairs, TellPairs
  <2>3. DOMAIN told.pairs \subseteq DOMAIN pairs.map /\ entries \in Seq(Given)
    BY <2>1, MixtureAssumption DEF MixtureInv, PairsInv, PairsAgree
  <2> QED BY <1>2, <2>2, <2>3, RememberKeeps
<1>5. ASSUME NEW entries \in FunctionListings, SetFunctions(entries)
      PROVE  Kept(told.functions, told'.functions) /\ Kept(told.pairs, told'.pairs)
  <2>1. departures.flag = TRUE
    BY <1>1, <1>5, Changed DEF SetFunctions, MayChange
  <2>2. told' = [pairs |-> told.pairs,
                 functions |-> RememberFunctions(told.functions, TakenFunctions(departures.map, entries))]
    BY <1>1, <1>5, Changed DEF SetFunctions
  <2>3. DOMAIN told.functions \subseteq DOMAIN departures.map /\ entries \in Seq(GivenFunctions)
    BY <2>1, MixtureAssumption DEF MixtureInv, FunctionsInv, FunctionsAgree, GivenFunctions
  <2> QED BY <1>2, <2>2, <2>3, RememberKeeps
<1>6. ASSUME NEW entries \in PairListings, NEW functions \in FunctionListings, SetHMX(entries, functions)
      PROVE  Kept(told.functions, told'.functions) /\ Kept(told.pairs, told'.pairs)
  <2> DEFINE taken == TakenPairs(pairs.map, entries)
             takenFunctions == IF taken = entries THEN TakenFunctions(departures.map, functions) ELSE <<>>
  <2>1. pairs.flag = TRUE /\ departures.flag = TRUE
    BY <1>1, <1>6, Changed DEF SetHMX, MayChange
  <2>2. told' = [pairs |-> RememberPairs(told.pairs, taken),
                 functions |-> RememberFunctions(told.functions, takenFunctions)]
    BY <1>6 DEF SetHMX
  <2>3. DOMAIN told.pairs \subseteq DOMAIN pairs.map /\ entries \in Seq(Given)
    BY <2>1, MixtureAssumption DEF MixtureInv, PairsInv, PairsAgree
  <2>4. DOMAIN told.functions \subseteq DOMAIN departures.map /\ functions \in Seq(GivenFunctions)
    BY <2>1, MixtureAssumption DEF MixtureInv, FunctionsInv, FunctionsAgree, GivenFunctions
  <2>5. Kept(told.pairs, RememberPairs(told.pairs, taken))
    BY <2>3, RememberKeeps
  <2>6. Kept(told.functions, RememberFunctions(told.functions, takenFunctions))
    BY <2>4, RememberKeeps
  <2> QED BY <2>2, <2>5, <2>6
<1>7. ASSUME NEW p \in Pairs, ApplyRule(p)
      PROVE  Kept(told.functions, told'.functions) /\ Kept(told.pairs, told'.pairs)
  <2> DEFINE given == <<[pair |-> p, beta |-> 0, F |-> 0, function |-> None]>>
  <2>1. LoadedPairs.flag = TRUE /\ DOMAIN told.pairs \subseteq DOMAIN LoadedPairs.map
    BY LoadedPairsLemma DEF MixtureInv, PairsAgree
  <2>2. given \in Seq(Given)
    BY DEF Given
  <2> HIDE DEF given
  <2>3. told' = [pairs |-> RememberPairs(told.pairs, TakenPairs(LoadedPairs.map, given)), functions |-> told.functions]
    BY <1>1, <1>7, <2>1, Changed DEF ApplyRule, TellPairs, given
  <2> QED BY <1>2, <2>1, <2>2, <2>3, RememberKeeps
<1>8. ASSUME NEW p \in Pairs, NEW beta \in Betas, SetPairData(p, beta)
      PROVE  Kept(told.functions, told'.functions)
  <2>1. told' = told \/ \E given : told' = [told EXCEPT !.pairs[p] = given]
    BY <1>8 DEF SetPairData
  <2>2. told'.functions = told.functions
    BY <1>1, <2>1
  <2> QED BY <1>2, <2>2
<1>9. ASSUME UNCHANGED mixtureVars \/ LookIntoPairs \/ \E p \in Pairs : \/ MakeThrow(p) \/ Make(p)
                                                                        \/ \E value \in Betas : SetKij(p, value)
      PROVE  told' = told
  BY <1>9 DEF mixtureVars, LookIntoPairs, MakeThrow, Make, SetKij
<1>10. UNCHANGED <<vars, mixtureVars>> => UNCHANGED mixtureVars
  OBVIOUS
<1> QED BY <1>3, <1>4, <1>5, <1>6, <1>7, <1>8, <1>9, <1>10 DEF MixtureNext

\* For any components, listings and number of calls: if users look into a library before
\* they change it, no call without the overwrite key replaces a pair or a departure function
\* that the program had or a user had given, but for set_mixture_binary_pair_data.
THEOREM ExistingStays ==
    ASSUME LooksFirst
    PROVE  MixtureSpec => ExistingIsRefused
<1>1. MixtureInit => MixtureInv
  BY MixtureInitially
<1>2. MixtureInv /\ [MixtureNext]_<<vars, mixtureVars>> => MixtureInv'
  BY MixtureStep
<1>3. MixtureInv /\ [MixtureNext]_<<vars, mixtureVars>> => [LeavesFunctions /\ LeavesPairs]_told
  BY LeavesWhatIsThere
<1> QED BY <1>1, <1>2, <1>3, PTL DEF MixtureSpec, ExistingIsRefused

\* The fluid libraries keep their promises beside the mixtures, too.
THEOREM FluidsBesideMixtures == MixtureSpec => [](KeysLead /\ ListedIsFound) /\ KeepsWhatItHad
<1> DEFINE Fluids == IInv /\ ListInv
<1>1. MixtureInit => Fluids
  BY InitInv, ListInit DEF MixtureInit
<1>2. ASSUME [MixtureNext]_<<vars, mixtureVars>>
      PROVE  [Next]_vars \/ UNCHANGED fluidVars
  <2>1. ASSUME NEW p \in Pairs, ApplyRule(p) \/ MakeThrow(p) \/ Make(p)
               \/ \E value \in Betas : SetPairData(p, value) \/ SetKij(p, value)
        PROVE  Begin
    BY <2>1 DEF ApplyRule, MakeThrow, Make, SetPairData, SetKij
  <2>2. ASSUME NEW entries, NEW functions, SetPairs(entries) \/ SetFunctions(functions) \/ SetHMX(entries, functions)
        PROVE  Begin
    BY <2>2 DEF SetPairs, SetFunctions, SetHMX
  <2>3. LookIntoPairs => Begin
    BY DEF LookIntoPairs
  <2>4. Begin => UNCHANGED fluidVars
    BY DEF Begin
  <2> QED BY <1>2, <2>1, <2>2, <2>3, <2>4 DEF MixtureNext
<1>3. Fluids /\ UNCHANGED fluidVars => Fluids'
  <2>1. IInv /\ UNCHANGED fluidVars => IInv'
    BY QuietStep DEF fluidVars, libraries
  <2>2. ListInv /\ UNCHANGED fluidVars => ListInv'
    BY DEF fluidVars, libraries, ListInv, NamesLead, KindsLead, KindList
  <2> QED BY <2>1, <2>2
<1>4. Fluids /\ [MixtureNext]_<<vars, mixtureVars>> => Fluids'
  BY <1>2, <1>3, StepInv, ListStep
<1>5. Fluids => KeysLead /\ ListedIsFound
  BY ListsAreFound DEF IInv, Sound, AddedFound, KeysLead
<1>6. Fluids /\ [MixtureNext]_<<vars, mixtureVars>> => [Keeps]_vars
  <2>1. UNCHANGED fluidVars => Keeps
    BY SameFound DEF fluidVars, libraries
  <2> QED BY <1>2, <2>1, StepKeeps
<1> QED BY <1>1, <1>4, <1>5, <1>6, PTL DEF MixtureSpec, KeepsWhatItHad, Keeps
====
