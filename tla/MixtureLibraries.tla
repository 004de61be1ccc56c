---- MODULE MixtureLibraries ----
(***************************************************************************)
(* The libraries of mixture parameters: the binary pairs and departure     *)
(* functions of the multiparameter mixtures, each filled from a compiled   *)
(* listing when it is first looked into, and the interaction parameters of *)
(* PC-SAFT, filled when that library is made.  Users add to all of them.   *)
(*                                                                         *)
(* A component is a number, by which CAS numbers are sorted.  A pair's     *)
(* asymmetric parameters (betaT and betaV, whose inverses belong to the    *)
(* components in the other order) are one integer, their logarithm; those  *)
(* without direction need no model.                                        *)
(***************************************************************************)
EXTENDS FluidLibraries

CONSTANTS
    Components,
    Functions,       \* names of departure functions
    DefaultPairs,    \* mixture_binary_pairs_JSON
    DefaultFunctions,\* mixture_departure_functions_JSON
    DefaultKij,      \* mixture_binary_pairs_pcsaft_JSON
    PairListings,    \* the listings a user may set
    FunctionListings,
    Betas,           \* the values a user may set
    LooksFirst,      \* users look into the libraries before they change them
    MixtureCalls     \* bound on the calls that concern mixtures

Pairs == {p \in Components \X Components : p[1] # p[2]}
Reverse2(p) == <<p[2], p[1]>>
Sorted(p) == IF p[1] < p[2] THEN p ELSE Reverse2(p)

\* The value, for a pair in the order p, of a parameter given for it in the order q.
Turned(beta, p, q) == IF p = q THEN beta ELSE -beta

\* An entry of a listing: a key, and what is registered under it.
Given == [pair : Pairs, beta : Int, F : {0, 1}, function : Functions \cup {None}]

ASSUME MixtureAssumption ==
    /\ Components \subseteq Int
    /\ DefaultPairs \in Seq(Given) /\ PairListings \subseteq Seq(Given)
    /\ \A i, j \in DOMAIN DefaultPairs : Sorted(DefaultPairs[i].pair) = Sorted(DefaultPairs[j].pair) => i = j
    /\ DefaultFunctions \in Seq([name : Functions, id : Int]) /\ FunctionListings \subseteq Seq([name : Functions, id : Int])
    /\ \A i, j \in DOMAIN DefaultFunctions : DefaultFunctions[i].name = DefaultFunctions[j].name => i = j
    /\ DefaultKij \in Seq([pair : Pairs, kij : Int])
    /\ Betas \subseteq Int /\ LooksFirst \in BOOLEAN /\ MixtureCalls \in Nat
    /\ None \notin Functions /\ None \notin Int

VARIABLES
    pairs,       \* MixtureBinaryPairLibrary: m_binary_pair_map, m_load_flag
    departures,  \* MixtureDepartureFunctionsLibrary: m_departure_function_map, m_load_flag
    kij,         \* PCSAFTLibraryClass::m_binary_pair_map
    mixture,     \* the mixture just made, or that it could not be made
    told,        \* history: for each pair and function, the entry a call was told last, and took
    toldKij      \* history: the same for PC-SAFT

mixtureVars == <<pairs, departures, kij, mixture, told, toldKij>>
fluidVars == <<lib, overwrite, loaded, libraries, job, added, cut, spoilt>>

Latest(indices) == CHOOSE i \in indices : \A j \in indices : j <= i

PairKeys(entries) == [i \in DOMAIN entries |-> Sorted(entries[i].pair)]
FunctionKeys(entries) == [i \in DOMAIN entries |-> entries[i].name]

\* Mutant of Taken: the entry is in the place of the other before the call throws.
Taken_thenRefused(map, keys, entries) ==
    LET clashes == {i \in DOMAIN keys : keys[i] \in DOMAIN map \/ \E j \in 1 .. i - 1 : keys[j] = keys[i]}
    IN  IF overwrite \/ clashes = {} THEN entries ELSE SubSeq(entries, 1, First(clashes))

\* Of a sequence of entries with these keys, those before the first that is
\* refused because its key is taken.
Taken(map, keys, entries) ==
    LET clashes == {i \in DOMAIN keys : keys[i] \in DOMAIN map \/ \E j \in 1 .. i - 1 : keys[j] = keys[i]}
    IN  IF overwrite \/ clashes = {} THEN entries ELSE SubSeq(entries, 1, First(clashes) - 1)

\* The map after the values of a sequence, of which the last of a key stays.
Merged(map, keys, values) ==
    [k \in DOMAIN map \cup Range(keys) |->
        LET own == {i \in DOMAIN keys : keys[i] = k}
        IN  IF own = {} THEN map[k] ELSE values[Latest(own)]]

\* Mutant of PairValue: the parameters of a swapped pair are stored as they are.
PairValue_unturned(g) == [beta |-> g.beta, F |-> g.F, function |-> IF g.F = 0 THEN None ELSE g.function]

\* The betas are inverted when sorting the pair has swapped it; the function is read only if F is not zero.
PairValue(g) ==
    [beta |-> Turned(g.beta, Sorted(g.pair), g.pair), F |-> g.F, function |-> IF g.F = 0 THEN None ELSE g.function]

TakenPairs(map, entries) == Taken(map, PairKeys(entries), entries)
TakenFunctions(map, entries) == Taken(map, FunctionKeys(entries), entries)
WithPairs(map, taken) == Merged(map, PairKeys(taken), [i \in DOMAIN taken |-> PairValue(taken[i])])
WithFunctions(map, taken) ==
    Merged(map, FunctionKeys(taken), [i \in DOMAIN taken |-> [empty |-> FALSE, id |-> taken[i].id]])

\* load_defaults_if_needed: if the listing is refused half way, the flag stays unset.
LoadedPairs ==
    IF pairs.flag THEN pairs
    ELSE LET taken == TakenPairs(pairs.map, DefaultPairs)
         IN  [map |-> WithPairs(pairs.map, taken), flag |-> taken = DefaultPairs]

LoadedFunctions ==
    IF departures.flag THEN departures
    ELSE LET taken == TakenFunctions(departures.map, DefaultFunctions)
         IN  [map |-> WithFunctions(departures.map, taken), flag |-> taken = DefaultFunctions]

RememberPairs(old, taken) == Merged(old, PairKeys(taken), taken)
RememberFunctions(old, taken) == Merged(old, FunctionKeys(taken), taken)

MixtureInit ==
    /\ Init
    /\ pairs = [map |-> Nothing, flag |-> FALSE]
    /\ departures = [map |-> Nothing, flag |-> FALSE]
    /\ kij = Merged(Nothing, PairKeys(DefaultKij), [i \in DOMAIN DefaultKij |-> DefaultKij[i].kij])
    /\ mixture = None
    /\ told = [pairs |-> RememberPairs(Nothing, DefaultPairs), functions |-> RememberFunctions(Nothing, DefaultFunctions)]
    /\ toldKij = RememberPairs(Nothing, DefaultKij)

Begin ==
    /\ lib = "mixtures" /\ calls < MixtureCalls
    /\ calls' = calls + 1
    /\ UNCHANGED fluidVars

\* get_csv_mixture_binary_pairs, get_mixture_binary_pair_data and the like.
LookIntoPairs ==
    /\ Begin
    /\ pairs' = LoadedPairs
    /\ mixture' = None /\ UNCHANGED <<departures, kij, told, toldKij>>

MayChange(library) == LooksFirst => library.flag

TellPairs(taken) == told' = [told EXCEPT !.pairs = RememberPairs(@, taken)]

\* set_interaction_parameters: load_from_string on whatever the map holds.
SetPairs(entries) ==
    LET taken == TakenPairs(pairs.map, entries)
    IN  /\ Begin /\ MayChange(pairs)
        /\ pairs' = [pairs EXCEPT !.map = WithPairs(@, taken)]
        /\ TellPairs(taken)
        /\ mixture' = None /\ UNCHANGED <<departures, kij, toldKij>>

\* apply_simple_mixing_rule, which does fill the library first: betas of one, no departure function.
ApplyRule(p) ==
    LET filled == LoadedPairs
        taken == IF filled.flag THEN TakenPairs(filled.map, <<[pair |-> p, beta |-> 0, F |-> 0, function |-> None]>>) ELSE <<>>
    IN  /\ Begin
        /\ pairs' = [filled EXCEPT !.map = WithPairs(@, taken)]
        /\ TellPairs(taken)
        /\ mixture' = None /\ UNCHANGED <<departures, kij, toldKij>>

\* set_mixture_binary_pair_data: only in the order in which the pair is
\* stored, and whatever OVERWRITE_BINARY_INTERACTION says.
SetPairData(p, beta) ==
    LET filled == LoadedPairs
        found == filled.flag /\ p \in DOMAIN filled.map
    IN  /\ Begin
        /\ pairs' = IF found THEN [filled EXCEPT !.map[p].beta = beta] ELSE filled
        /\ told' = IF found THEN [told EXCEPT !.pairs[p] = [@ EXCEPT !.pair = p, !.beta = beta]] ELSE told
        /\ mixture' = None /\ UNCHANGED <<departures, kij, toldKij>>

\* set_departure_functions of a JSON string: no default is loaded first.
SetFunctions(entries) ==
    LET taken == TakenFunctions(departures.map, entries)
    IN  /\ Begin /\ MayChange(departures)
        /\ departures' = [departures EXCEPT !.map = WithFunctions(@, taken)]
        /\ told' = [told EXCEPT !.functions = RememberFunctions(@, taken)]
        /\ mixture' = None /\ UNCHANGED <<pairs, kij, toldKij>>

\* set_departure_functions of a HMX.BNC file: the pairs, then, if all were taken, the functions.
SetHMX(entries, functions) ==
    LET taken == TakenPairs(pairs.map, entries)
        takenFunctions == IF taken = entries THEN TakenFunctions(departures.map, functions) ELSE <<>>
    IN  /\ Begin /\ MayChange(pairs) /\ MayChange(departures)
        /\ pairs' = [pairs EXCEPT !.map = WithPairs(@, taken)]
        /\ departures' = [departures EXCEPT !.map = WithFunctions(@, takenFunctions)]
        /\ told' = [pairs |-> RememberPairs(told.pairs, taken), functions |-> RememberFunctions(told.functions, takenFunctions)]
        /\ mixture' = None /\ UNCHANGED <<kij, toldKij>>

Failed(p) == [pair |-> p, made |-> FALSE]

\* MixtureParameters::set_mixture_parameters for the pair of components p:
\* the library refuses to load, or does not have the pair.
MakeThrow(p) ==
    LET filled == LoadedPairs
    IN  /\ Begin
        /\ ~filled.flag \/ Sorted(p) \notin DOMAIN filled.map
        /\ pairs' = filled
        /\ mixture' = Failed(p)
        /\ UNCHANGED <<departures, kij, told, toldKij>>

Ghost == [empty |-> TRUE, id |-> 0]

\* The same, the pair being there.  get_departure_function looks with
\* operator[], which registers an empty dictionary under a name it does not find.
Make(p) ==
    LET filled == LoadedPairs
        entry == filled.map[Sorted(p)]
        functions == LoadedFunctions
        asked == entry.F # 0 /\ entry.function # None
        found == asked /\ functions.flag /\ entry.function \in DOMAIN functions.map /\ ~functions.map[entry.function].empty
    IN  /\ Begin
        /\ filled.flag /\ Sorted(p) \in DOMAIN filled.map
        /\ pairs' = filled
        /\ departures' =
              IF ~asked THEN departures
              ELSE IF functions.flag /\ entry.function \notin DOMAIN functions.map
                   THEN [functions EXCEPT !.map = Merged(@, <<entry.function>>, <<Ghost>>)]
                   ELSE functions
        /\ mixture' = IF entry.F = 0 \/ found
                      THEN [pair |-> p, made |-> TRUE, beta |-> Turned(entry.beta, p, Sorted(p)),
                            function |-> IF found THEN functions.map[entry.function].id ELSE None]
                      ELSE Failed(p)
        /\ UNCHANGED <<kij, told, toldKij>>

\* set_binary_interaction_pcsaft: a pair that is there, in either order, is
\* changed if OVERWRITE_BINARY_INTERACTION; a new one is kept in the order given.
SetKij(p, value) ==
    /\ Begin
    /\ LET there == {p, Reverse2(p)} \cap DOMAIN kij
           free == there = {}
           key == IF free THEN p ELSE CHOOSE q \in there : TRUE
       IN  /\ kij' = IF free \/ overwrite THEN Merged(kij, <<key>>, <<value>>) ELSE kij
           /\ toldKij' = IF free \/ overwrite THEN RememberPairs(toldKij, <<[pair |-> p, kij |-> value]>>) ELSE toldKij
    /\ mixture' = None /\ UNCHANGED <<pairs, departures, told>>

MixtureNext ==
    \/ Next /\ UNCHANGED mixtureVars
    \/ LookIntoPairs
    \/ \E entries \in PairListings : SetPairs(entries)
    \/ \E entries \in FunctionListings : SetFunctions(entries)
    \/ \E entries \in PairListings, functions \in FunctionListings : SetHMX(entries, functions)
    \/ \E p \in Pairs :
        \/ ApplyRule(p) \/ MakeThrow(p) \/ Make(p)
        \/ \E value \in Betas : SetPairData(p, value) \/ SetKij(p, value)

MixtureSpec == MixtureInit /\ [][MixtureNext]_<<vars, mixtureVars>>

Told(p) == told.pairs[Sorted(p)]

\* A mixture has, in its own order of the components, the parameters and the
\* departure function that a user gave for the pair last, in whatever order
\* and with whatever refusals since, or the program's own; and it cannot be
\* made only if the pair or the function was never given.
MixtureIsAsTold ==
    mixture # None =>
        IF mixture.made
        THEN /\ mixture.beta = Turned(Told(mixture.pair).beta, mixture.pair, Told(mixture.pair).pair)
             /\ mixture.function # None => mixture.function = told.functions[Told(mixture.pair).function].id
        ELSE \/ Sorted(mixture.pair) \notin DOMAIN told.pairs
             \/ Told(mixture.pair).F # 0 /\ Told(mixture.pair).function \notin DOMAIN told.functions

\* PC-SAFT finds for a pair, asked in either order, what it was told last.
KijAsTold ==
    \A p \in Pairs :
        /\ ~({p, Reverse2(p)} \subseteq DOMAIN kij)
        /\ p \in DOMAIN kij => kij[p] = toldKij[Sorted(p)].kij

\* Both, of the two kinds of mixtures.
ParametersAreAsTold == MixtureIsAsTold /\ KijAsTold

Kept(old, new) == \A k \in DOMAIN old : new[k] = old[k]

\* As MixtureParameters.h:88 has it: without the overwrite key a departure function that
\* exists in the library, and those compiled into the program do, is not replaced by
\* another of its name.
LeavesFunctions == ~overwrite => Kept(told.functions, told'.functions)
ExistingFunctionIsRefused == [][LeavesFunctions]_told

\* The same of functions and of pairs, and of all that a call adds: a listing refused at one
\* entry has replaced nothing by those before it.  Only set_mixture_binary_pair_data, which
\* adds nothing, changes a pair without the key.
LeavesPairs ==
    ~overwrite => Kept(told.pairs, told'.pairs) \/ \E p \in Pairs, beta \in Betas : SetPairData(p, beta)
ExistingIsRefused == [][LeavesFunctions /\ LeavesPairs]_told
====
