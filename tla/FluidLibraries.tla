---- MODULE FluidLibraries ----
(***************************************************************************)
(* The four libraries that find a fluid by its identifiers: the            *)
(* multiparameter fluids (HEOS), PC-SAFT, the cubics (SRK and PR) and the  *)
(* incompressibles (INCOMP).  Each is filled on first use from a listing   *)
(* compiled into the program and grown later by add_fluids_as_JSON.        *)
(*                                                                         *)
(* They share nothing but OVERWRITE_FLUIDS, so a behaviour exercises one,  *)
(* or none of them but those of MixtureLibraries.                          *)
(* A listing is added entry by entry; an entry that cannot be read, or     *)
(* that is refused, ends the call and leaves what was added before it.     *)
(* fluid_map is a sequence, since its keys are always 0 .. size - 1: the   *)
(* index of the code is one less.                                          *)
(***************************************************************************)
EXTENDS Integers, SequencesExt

CONSTANTS
    Keys,       \* identifiers: CAS numbers, names and aliases, as written and in upper case
    Upper,      \* upper()
    Entries,    \* the fluids a listing may hold
    Baseline,   \* the listing compiled into each library
    Listings,   \* the listings a user may add
    MaxCalls,   \* bound on the calls
    None        \* no value

Backends == {"HEOS", "PCSAFT", "CUBIC", "INCOMP"}
Exercised == Backends \cup {"mixtures"}

ASSUME FluidAssumption ==
    /\ Upper \in [Keys -> Keys]
    /\ Entries \subseteq [cas : Keys, name : Keys, aliases : Seq(Keys), pure : BOOLEAN, good : BOOLEAN, id : Nat]
    /\ Baseline \in Seq(Entries)
    /\ Listings \subseteq Seq(Entries)
    /\ MaxCalls \in Nat
    /\ None \notin Entries /\ None \notin Nat

VARIABLES
    lib,        \* what is exercised
    overwrite,  \* OVERWRITE_FLUIDS (in MixtureLibraries also its two siblings)
    loaded,     \* library_load_flag, or the guard of the function-local static
    heos,       \* fluid_map, JSONstring_map, string_to_index_map, name_vector
    pcsaft,     \* fluid_map, string_to_index_map, and whether undefined behaviour was met
    cubics,     \* fluid_map, aliases_map, JSONstring_map
    incomp,     \* fluid_map, string_to_index_map, name_vector_pure, name_vector_solution
    job,        \* the listing being added, and what follows it
    calls,      \* history: calls so far
    added,      \* history: the entry the last step registered
    cut,        \* history: the loader dropped an exception
    spoilt      \* history: names of entries that could not be read

vars == <<lib, overwrite, loaded, heos, pcsaft, cubics, incomp, job, calls, added, cut, spoilt>>
libraries == <<heos, pcsaft, cubics, incomp>>

Put(f, ks, v) == [k \in DOMAIN f \cup ks |-> IF k \in ks THEN v ELSE f[k]]
Without(f, ks) == [k \in DOMAIN f \ ks |-> f[k]]
Nothing == [k \in {} |-> 0]

Idle == [at |-> "idle", rest |-> <<>>, then |-> <<>>]

Names(e) == ToSet(e.aliases) \cup {Upper[a] : a \in ToSet(e.aliases)}

\* The keys an entry is registered under in string_to_index_map.
KeysOf(e) == IF lib = "INCOMP" THEN {e.name} ELSE {e.cas, e.name} \cup Names(e)

Identifiers(e) == {e.cas, e.name, Upper[e.name]} \cup Names(e)

First(indices) == CHOOSE i \in indices : \A j \in indices : i <= j

\* The first alias that is taken, or its upper case.
AliasTaken(e, keys) ==
    LET a == e.aliases[First({i \in DOMAIN e.aliases : {e.aliases[i], Upper[e.aliases[i]]} \cap DOMAIN keys # {}})]
    IN  IF a \in DOMAIN keys THEN a ELSE Upper[a]

\* The index under the first of the identifiers that is taken, or the next free one.
IndexOf(e, fluids, keys) ==
    IF Identifiers(e) \cap DOMAIN keys = {} THEN Len(fluids) + 1
    ELSE keys[IF e.cas \in DOMAIN keys THEN e.cas
              ELSE IF e.name \in DOMAIN keys THEN e.name
              ELSE IF Upper[e.name] \in DOMAIN keys THEN Upper[e.name]
              ELSE AliasTaken(e, keys)]

\* get(key) of each library.
Found(k) ==
    CASE lib = "HEOS" -> IF k \in DOMAIN heos.keys THEN heos.fluids[heos.keys[k]] ELSE None
      [] lib = "PCSAFT" -> IF k \in DOMAIN pcsaft.keys THEN pcsaft.fluids[pcsaft.keys[k]] ELSE None
      [] lib = "mixtures" -> None
      [] lib = "INCOMP" -> IF k \in DOMAIN incomp.keys THEN incomp.fluids[incomp.keys[k]] ELSE None
      [] lib = "CUBIC" ->
            IF Upper[k] \in DOMAIN cubics.fluids THEN cubics.fluids[Upper[k]]
            ELSE IF Upper[k] \in DOMAIN cubics.aliases THEN cubics.fluids[cubics.aliases[Upper[k]]] ELSE None

Init ==
    /\ lib \in Exercised
    /\ overwrite = FALSE
    /\ loaded = FALSE
    /\ heos = [fluids |-> <<>>, json |-> <<>>, keys |-> Nothing, names |-> <<>>]
    /\ pcsaft = [fluids |-> <<>>, keys |-> Nothing, undefined |-> FALSE]
    /\ cubics = [fluids |-> Nothing, aliases |-> Nothing, json |-> Nothing]
    /\ incomp = [fluids |-> <<>>, keys |-> Nothing, pure |-> <<>>, solution |-> <<>>]
    /\ job = Idle
    /\ calls = 0
    /\ added = None
    /\ cut = FALSE
    /\ spoilt = {}

SetOverwrite ==
    /\ job = Idle /\ calls < MaxCalls
    /\ overwrite' = ~overwrite
    /\ calls' = calls + 1
    /\ added' = None
    /\ UNCHANGED <<lib, loaded, libraries, job, cut, spoilt>>

\* Validation against the schema, for the libraries that have one: a listing
\* with a faulty entry is refused whole, with an exception by the cubics and
\* in silence by PC-SAFT.
Valid(listing) == lib \in {"PCSAFT", "CUBIC"} => \A i \in DOMAIN listing : listing[i].good

\* add_fluids_as_JSON; with an empty listing it stands for any query.
Call(listing) ==
    LET user == IF Valid(listing) THEN listing ELSE <<>>
    IN  /\ job = Idle /\ calls < MaxCalls /\ lib \in Backends
        /\ calls' = calls + 1
        /\ job' = IF loaded THEN [at |-> "adding", rest |-> user, then |-> <<>>]
                            ELSE [at |-> "loading", rest |-> Baseline, then |-> user]
        /\ added' = None
        /\ UNCHANGED <<lib, overwrite, loaded, libraries, cut, spoilt>>

\* The compiled listing cannot be decoded: the flag stays unset and the next call tries again.
LoadThrow ==
    /\ job.at = "loading" /\ job.rest = Baseline
    /\ job' = Idle
    /\ added' = None
    /\ UNCHANGED <<lib, overwrite, loaded, libraries, calls, cut, spoilt>>

\* The end of a listing, or an exception that the loader prints and drops.
Resume ==
    /\ loaded' = TRUE
    /\ job' = IF job.at = "loading" THEN [at |-> "adding", rest |-> job.then, then |-> <<>>] ELSE Idle

\* A throw from within a listing: load() of HEOS and INCOMP, and every add of
\* PC-SAFT, catch it; the rest of the listing is lost in either case.
Throw ==
    /\ cut' = (cut \/ job.at = "loading")
    /\ IF job.at = "loading" \/ lib = "PCSAFT" THEN Resume
       ELSE job' = Idle /\ UNCHANGED loaded

Done ==
    /\ job.at \in {"loading", "adding"} /\ job.rest = <<>>
    /\ Resume
    /\ UNCHANGED cut
    /\ added' = None
    /\ UNCHANGED <<lib, overwrite, libraries, calls, spoilt>>

\* What every step of a listing has in common.
Adding(backend, e) ==
    /\ lib = backend
    /\ job.rest # <<>> /\ e = Head(job.rest)
    /\ UNCHANGED <<lib, overwrite, calls>>

Registered(e) ==
    /\ job' = [job EXCEPT !.rest = Tail(@)]
    /\ added' = e
    /\ UNCHANGED <<loaded, cut, spoilt>>

\* The name is listed before the entry is read, and stays listed.
ReadHEOSThrow(e) ==
    /\ Adding("HEOS", e)
    /\ ~e.good
    /\ heos' = [heos EXCEPT !.names = Append(@, e.name)]
    /\ spoilt' = spoilt \cup {e.name}
    /\ added' = None
    /\ Throw
    /\ UNCHANGED <<pcsaft, cubics, incomp>>

\* Mutant of RefuseHEOS: the name that was listed on entry is not taken off again.
RefuseHEOS_listed(e) ==
    /\ Adding("HEOS", e)
    /\ e.good /\ IndexOf(e, heos.fluids, heos.keys) <= Len(heos.fluids) /\ ~overwrite
    /\ heos' = [heos EXCEPT !.names = Append(@, e.name)]
    /\ Throw
    /\ added' = None
    /\ UNCHANGED <<pcsaft, cubics, incomp, spoilt>>

RefuseHEOS(e) ==
    /\ Adding("HEOS", e)
    /\ e.good /\ IndexOf(e, heos.fluids, heos.keys) <= Len(heos.fluids) /\ ~overwrite
    /\ Throw
    /\ added' = None
    /\ UNCHANGED <<libraries, spoilt>>

\* JSONFluidLibrary::add_one: a new fluid, or one put in the place of the fluid found.
AddHEOS(e) ==
    LET index == IndexOf(e, heos.fluids, heos.keys)
        new == index > Len(heos.fluids)
    IN  /\ Adding("HEOS", e)
        /\ e.good /\ (new \/ overwrite)
        /\ heos' = [fluids |-> IF new THEN Append(heos.fluids, e) ELSE [heos.fluids EXCEPT ![index] = e],
                    json |-> IF new THEN Append(heos.json, e) ELSE [heos.json EXCEPT ![index] = e],
                    keys |-> Put(heos.keys, KeysOf(e), index),
                    names |-> IF new THEN Append(heos.names, e.name) ELSE heos.names]
        /\ Registered(e)
        /\ UNCHANGED <<pcsaft, cubics, incomp>>

\* Mutant of Known: the aliases are not looked for.
Known_noAliases(e) == {e.cas, e.name, Upper[e.name]} \cap DOMAIN pcsaft.keys # {}

Known(e) == Identifiers(e) \cap DOMAIN pcsaft.keys # {}

RefusePCSAFT(e) ==
    /\ Adding("PCSAFT", e)
    /\ Known(e) /\ ~overwrite
    /\ Throw
    /\ added' = None
    /\ UNCHANGED <<libraries, spoilt>>

\* The fluid found is erased from fluid_map twice, the second time at end(),
\* or its index is read from end() when the name was not what found it: the
\* behaviour is undefined from here on, and the model stops.
OverwritePCSAFT(e) ==
    /\ Adding("PCSAFT", e)
    /\ Known(e) /\ overwrite
    /\ pcsaft' = [pcsaft EXCEPT !.undefined = TRUE]
    /\ job' = [Idle EXCEPT !.at = "undefined"]
    /\ added' = None
    /\ UNCHANGED <<loaded, heos, cubics, incomp, cut, spoilt>>

\* PCSAFTLibraryClass::add_many.
AddPCSAFT(e) ==
    /\ Adding("PCSAFT", e)
    /\ ~Known(e)
    /\ pcsaft' = [pcsaft EXCEPT !.fluids = Append(@, e), !.keys = Put(@, KeysOf(e), Len(pcsaft.fluids) + 1)]
    /\ Registered(e)
    /\ UNCHANGED <<heos, cubics, incomp>>

\* CubicsLibraryClass::add_many: a name that is taken keeps its fluid, without
\* a word, unless OVERWRITE_FLUIDS; an alias keeps its first fluid always.
AddCubic(e) ==
    LET name == Upper[e.name]
        new == name \notin DOMAIN cubics.fluids \/ overwrite
    IN  /\ Adding("CUBIC", e)
        /\ cubics' = [fluids |-> IF new THEN Put(cubics.fluids, {name}, e) ELSE cubics.fluids,
                      aliases |-> Put(cubics.aliases, ToSet(e.aliases) \ DOMAIN cubics.aliases, name),
                      json |-> IF new THEN Put(cubics.json, {name}, e) ELSE cubics.json]
        /\ job' = [job EXCEPT !.rest = Tail(@)]
        /\ added' = IF new THEN e ELSE None
        /\ UNCHANGED <<loaded, heos, pcsaft, incomp, cut, spoilt>>

\* Unreadable, or of the other kind than the fluid it would replace.
RefuseIncomp(e) ==
    /\ Adding("INCOMP", e)
    /\ ~e.good \/ (e.name \in DOMAIN incomp.keys /\ incomp.fluids[incomp.keys[e.name]].pure # e.pure)
    /\ Throw
    /\ added' = None
    /\ UNCHANGED <<libraries, spoilt>>

\* A name that is there has its fluid replaced, whatever OVERWRITE_FLUIDS says.
ReplaceIncomp(e) ==
    /\ Adding("INCOMP", e)
    /\ e.good /\ e.name \in DOMAIN incomp.keys /\ incomp.fluids[incomp.keys[e.name]].pure = e.pure
    /\ incomp' = [incomp EXCEPT !.fluids[incomp.keys[e.name]] = e]
    /\ Registered(e)
    /\ UNCHANGED <<heos, pcsaft, cubics>>

Listed(e) ==
    IF e.pure THEN [incomp EXCEPT !.pure = Append(@, e.name)] ELSE [incomp EXCEPT !.solution = Append(@, e.name)]

Published(e, library) ==
    [library EXCEPT !.fluids = Append(@, e), !.keys = Put(@, {e.name}, Len(incomp.fluids) + 1)]

\* The three writes of a new fluid: fluid_map, string_to_index_map, name vector.
AddIncomp(e) ==
    /\ Adding("INCOMP", e)
    /\ e.good /\ e.name \notin DOMAIN incomp.keys
    /\ incomp' = Published(e, Listed(e))
    /\ Registered(e)
    /\ UNCHANGED <<heos, pcsaft, cubics>>

\* Mutant of AddIncompThrow: the mapping and the list are written before the fluid.
AddIncompThrow_keyFirst(e) ==
    /\ Adding("INCOMP", e)
    /\ e.good /\ e.name \notin DOMAIN incomp.keys
    /\ incomp' \in {[incomp EXCEPT !.keys = Put(@, {e.name}, Len(incomp.fluids) + 1)], Listed(e)}
    /\ Throw
    /\ added' = None
    /\ UNCHANGED <<heos, pcsaft, cubics, spoilt>>

\* An allocation fails after the first or the second of them.
AddIncompThrow(e) ==
    /\ Adding("INCOMP", e)
    /\ e.good /\ e.name \notin DOMAIN incomp.keys
    /\ incomp' \in {[incomp EXCEPT !.fluids = Append(@, e)], Published(e, incomp)}
    /\ Throw
    /\ added' = None
    /\ UNCHANGED <<heos, pcsaft, cubics, spoilt>>

Next ==
    \/ SetOverwrite
    \/ \E listing \in Listings : Call(listing)
    \/ LoadThrow
    \/ Done
    \/ \E e \in Entries :
        \/ ReadHEOSThrow(e) \/ RefuseHEOS(e) \/ AddHEOS(e)
        \/ RefusePCSAFT(e) \/ OverwritePCSAFT(e) \/ AddPCSAFT(e)
        \/ AddCubic(e)
        \/ RefuseIncomp(e) \/ ReplaceIncomp(e) \/ AddIncomp(e) \/ AddIncompThrow(e)

Spec == Init /\ [][Next]_vars

Maps(f, S) == DOMAIN f \subseteq Keys /\ \A k \in DOMAIN f : f[k] \in S

\* The types of the variables.
TypeOK ==
    /\ lib \in Exercised /\ overwrite \in BOOLEAN /\ loaded \in BOOLEAN
    /\ heos.fluids \in Seq(Entries) /\ heos.json \in Seq(Entries) /\ heos.names \in Seq(Keys)
    /\ pcsaft.fluids \in Seq(Entries) /\ pcsaft.undefined \in BOOLEAN
    /\ Maps(cubics.fluids, Entries) /\ Maps(cubics.json, Entries)
    /\ incomp.fluids \in Seq(Entries) /\ incomp.pure \in Seq(Keys) /\ incomp.solution \in Seq(Keys)
    /\ job.at \in {"idle", "loading", "adding", "undefined"}
    /\ job.rest \in Seq(Entries) /\ job.then \in Seq(Entries)
    /\ calls \in Nat /\ added \in Entries \cup {None} /\ cut \in BOOLEAN /\ spoilt \subseteq Keys

Leads(keys, fluids) == \A k \in DOMAIN keys : keys[k] \in DOMAIN fluids

\* The identifiers a user may rely on after an add.  The aliases of a cubic
\* may belong to a fluid added before.
Sought(e) == IF lib = "CUBIC" THEN {e.name} ELSE KeysOf(e)

\* Whatever was refused, replaced or cut short before, every identifier leads
\* to a fluid, get_JSONstring gives the text of the fluid that get gives, and
\* a fluid just registered, in a free place or in another's, is what all its
\* identifiers find: no lookup fails half way or takes one fluid for another.
KeysLead ==
    /\ Leads(heos.keys, heos.fluids) /\ heos.json = heos.fluids
    /\ Leads(pcsaft.keys, pcsaft.fluids)
    /\ Leads(incomp.keys, incomp.fluids)
    /\ cubics.json = cubics.fluids
    /\ \A a \in DOMAIN cubics.aliases : cubics.aliases[a] \in DOMAIN cubics.fluids
    /\ added # None => \A k \in Sought(added) : Found(k) = added

\* Where an identifier may find another fluid than it did.
Replaceable(k) ==
    CASE lib = "HEOS" -> overwrite
      [] lib = "PCSAFT" -> FALSE
      [] lib = "CUBIC" -> overwrite \/ Upper[k] \notin DOMAIN cubics.fluids
      [] lib = "INCOMP" -> k = added'.name

\* No add changes what an identifier finds, unless OVERWRITE_FLUIDS allows it
\* (for an incompressible: unless it has that name; for the alias of a cubic:
\* unless a fluid takes it as its name), and then to the fluid just added.
KeepsWhatItHad ==
    [][\A k \in Keys : Found(k) # None /\ Found(k)' # Found(k) => Found(k)' = added' /\ Replaceable(k)]_vars

NoneTwice(s) == \A i, j \in DOMAIN s : s[i] = s[j] => i = j

\* The lists of fluids name no fluid twice and none that cannot be had, and an
\* incompressible is in the list of its kind, although a refusal, a
\* replacement or a failed allocation may come between the list and the maps.
\* A name whose entry could not be read is the exception: it stays listed.
ListedIsFound ==
    /\ lib = "HEOS" =>
        /\ \A i \in DOMAIN heos.names : heos.names[i] \notin spoilt => Found(heos.names[i]) # None
        /\ \A i, j \in DOMAIN heos.names : i # j /\ heos.names[i] = heos.names[j] => heos.names[i] \in spoilt
    /\ lib = "INCOMP" =>
        /\ NoneTwice(incomp.pure \o incomp.solution)
        /\ \A n \in ToSet(incomp.pure) : Found(n) # None /\ Found(n).pure
        /\ \A n \in ToSet(incomp.solution) : Found(n) # None /\ ~Found(n).pure
====
