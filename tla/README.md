# CoolProp in TLA+

CoolProp computes thermophysical properties of fluids. Most of it is numerics on real
numbers, which no model checker reaches. Around the numerics there is a good deal of
*state*: objects that are updated again and again and cache what they compute, tables that
threads share, files that processes share, and exceptions that leave any of these half way.
This directory models that part in TLA+, checks it with TLC on small instances and proves
the central invariants with TLAPS for all instances.

Source paths below are relative to the repository; those in `PROJECT.json` carry the prefix
`src/`. `PROJECT.json` maps each definition to the lines it models.

| module | what it is | extends / instantiates |
| --- | --- | --- |
| `SurfaceStore` | what a user of the surface cache may rely on (abstract) | |
| `SVDSurfaceCache` | the LRU cache of sealed surfaces | implements `SurfaceStore` |
| `SVDSurfaceCache_proofs` | structures in step, exact sum, order of eviction, limits, refinement | |
| `HEOSState` | one Helmholtz state object through updates, failures and reads | |
| `HEOSState_proofs` | types, refused qualities, direct updates, withdrawn phases, calls answered | |
| `ReferenceStates` | the reference state of a fluid and the shared caloric saturation curves | |
| `ReferenceStates_proofs` | curves of one frame, safe unlocked reads, reference state and anchors in force | |
| `SVDSBTLPoint` | update, reads and batches of one SVDSBTL state | |
| `SurfaceSampling` | the sampling threads behind a table of a surface | |
| `SVDSBTL_proofs` | rows sampled once, tables filled along them; inputs routed, reads and rows own | extends both above |
| `FluidLibraries` | the four libraries that find a fluid by its identifiers | |
| `MixtureLibraries` | binary pairs, departure functions, PC-SAFT parameters | extends `FluidLibraries` |
| `Libraries_proofs` | identifiers lead to fluids, adds keep what was there, mixtures as told | |
| `RefpropSession` | REFPROP states that share one external library | |
| `RefpropSession_proofs` | own fluids are found, no unload in use | |
| `CApiHandles` | the handle table and the batch calls of the C interface | |
| `CApiHandles_proofs` | handles resolve, states are owned, frees, outputs and batch rows | |
| `AtomicFile` | what `write_bytes_atomic` promises to a reader (abstract) | |
| `SurfacePipeline` | cache in memory, file on disk, build, write; many processes | implements `AtomicFile`, relies on `SurfaceStore` |
| `SurfacePipeline_proofs` | own version's surfaces, temporaries removed, refinement | |
| `MC*` | constants and symmetry for TLC | their component |

## 1. Inventory

For each component: its state, its operations, who it talks to, what is hard, what makes it
correct. Those marked **M** are modelled, **m** in part, the others are not yet.

**M Surface cache** (`src/SBTL/SVDSurfaceCache.cpp`). State: a list of keys in order of use,
a map from key to surface, size and list iterator, a sum of sizes. Operations: `get`, `put`
(with an eviction loop), `clear`, two read-only ones. Called by every SVDSBTL backend of the
process; reads two limits from the live configuration. Hard: three structures kept in step
under two limits at once, limits that change between calls. Correct: the structures agree,
the sum never drifts (it is unsigned), the oldest go first, both limits hold after `put`.

**m Helmholtz state** (`src/Backends/Helmholtz/HelmholtzEOSMixtureBackend.cpp`,
`FlashRoutines.cpp`, `src/AbstractState.cpp`). State: `_T`, `_p`, `_rhomolar`, `_Q`, cached
caloric values and derivatives, `_phase`, `imposed_phase_index`, the saturation sub-states
`SatL` and `SatV`. Operations: `update` by pair of inputs, `update_with_guesses`,
`specify_phase`, `unspecify_phase`, property reads. Hard: the flash routines solve for the
state *by updating the very state they solve for*, impose phases on it to guide themselves,
and may throw at any trial; `clear` resets neither `_phase` nor the sub-states. Correct: the
result of an update depends on its own inputs and the caller's phase alone.

**m C interface** (`src/CoolPropLib.cpp`). State: a map from integer handles to states, the
next number, a mutex; an error code per call. Operations: factory, free, some forty calls on
a handle, three batch loops. Hard: the mutex guards the map but not the objects, which are
used through a reference taken under it; free races with everything; exceptions must not
keep the mutex, and in a batch must not end the loop. Correct: a handle means one state until
it is freed, once; a batch row holds its own result; the error code belongs to its call.

**m Surface files** (`src/CPfilepaths.cpp`, `src/SBTL/SVDSurfaceSerializer.cpp`,
`ensure_surface_` of `src/Backends/SVDSBTL/SVDSBTLBackend.cpp`). State: the file of each path,
temporaries, a per-process salt and counter. Operations: look up, load, build, write a
sibling, rename. Hard: several processes, perhaps of different versions of the library, share
the directory with no lock; kills, full disks, removed and truncated files. Correct: what is
loaded is what this version would build, or nothing; readers see complete files; temporaries
of two writers differ and are removed; every lookup ends.

**m SVDSBTL backend** (same file). State: surfaces per input pair, an atlas, a saturation
model, a lazily built source state, a patch source, the point of the last update. Operations:
`update`, reads, the batch `fast_evaluate`. Hard: a patched point is not copied but read from
the patch source, which every later call moves; the polish moves it through failing probes; any
provider of saturation values may be missing, half built or throw. Correct: outputs and rows
belong to their input, a point is taken for what it is.

**m Surface sampling workers** (`src/SBTL/SVDSurfaceFactory.cpp`). Rows dealt to threads in
chunks, a source object each. Hard: the last chunk; a worker whose source cannot be made.
Correct: each row is sampled by exactly one worker, or the build fails.

**m Reference states and caloric curves** (`include/CoolProp/superancillary/superancillary.h`,
`ensure_HSU_under_lock`; `set_reference_stateS` of `src/CoolProp.cpp`). H, S and U expansions of a
fluid, built on first use under a mutex and stamped with the reference state of the builder;
readers take no lock; the offset of a fluid is copied into each state. Hard: failure between two
of the three builds, readers during the build, callers with another reference state, increments
computed from a copy that is stale by the time they are added. Correct: what is read is complete
and moved into the reader's frame; library and states are in the reference state set last.

**Error and warning outbox** (`src/CoolProp.cpp`). One string each, set by a failing call and
taken by a separate one. Correct: a message is delivered at most once, and not torn.

**Floating-point guard** (`include/CoolProp/FPUGuard.h`). Saves, masks and restores; nests.

**m Fluid and mixture libraries** (`FluidLibrary.cpp`, `MixtureParameters.cpp`, incompressible,
PC-SAFT and cubic libraries). State: fluids, identifiers and lists of names; binary pairs and
departure functions. Loaded on first use, where a throw may be passed on or dropped; grown later
by users. Hard: each library keeps several maps that a refusal, a faulty entry or a replacement
leaves at different stages; asymmetric parameters are inverted when a pair is turned round.
Correct: every identifier leads to its fluid, an add changes nothing else, a mixture has the
parameters given last, and what exists is replaced only with the overwrite key.

**Humid air** (`src/HumidAirProp.cpp`). Thread-local states and a virial cache keyed by
temperature. Hard: `fill_virial_cache` writes values before the temperature they belong to.

**Configuration** (`src/Configuration.cpp`). A process-wide table, read and written with no
lock; in the models it appears as the limits of the surface cache, which may change at any step.

**m REFPROP backend** (`src/Backends/REFPROP/REFPROPMixtureBackend.cpp`). One external library
with one set of loaded fluids for all states; `LoadedREFPROPRef` says which the code believes to
be loaded, `instance_counter` when the library may go. Hard: some functions look before they
call and some do not; a load may be refused after the library has changed; settings unload the
library under live states; shims share their host's fluids. Correct: a call sees its own fluids,
and the library stays while anybody may call it.

**High-level interface** (`src/CoolProp.cpp`): parses, makes one state, loops over inputs.
**`AbstractState` and its factory**: cached elements, a registry filled by static initialization.
**Tabular backends**: tables in files and in a process-wide dictionary, built with no lock.
**Regions and atlas, SVD surface and builder**: immutable once sealed.
**Models, solvers, mixture equilibrium, transport, melting lines, cubics, PC-SAFT, IF97,
incompressibles**: numerics, or state machines of the Helmholtz kind with fewer paths.
**Strings, units, validation, wrappers, web, development tools, vendored code**: no state of
interest, or not this program's.

Interactions: a caller reaches a Helmholtz or SVDSBTL state through the C interface (a handle)
or directly; an SVDSBTL state gets its surfaces through the surface files, which use the
surface cache; both backends, and every surface build, use Helmholtz states as sources, which
use the superancillary; everything reads the configuration and the fluid libraries.

The hazards, each at its line and with the properties that would catch it, are listed in
`PROJECT.json`; those without a property say why.

## 2. The models

### `SVDSurfaceCache`

`entries`, `lru` and `total` are the members; `frame` is the `put` that holds the mutex inside
its eviction loop, with the limits it has read; `config` is the live configuration, which any
thread may set between two steps. `Get`, `Put` and `Clear` are one step each, because they
hold `mutex_` throughout and do nothing visible in between; `Put` stops where it calls
`evict_to_fit_locked_`, whose two reads of the configuration (`ReadMaxEntries`,
`ReadMaxBytes`), iterations (`EvictVictim`) and end (`Release`) are steps. `event` and
`recency` are history variables. A null surface is ignored by `put` and so never arrives.

`SurfaceStore` is what a user sees: a partial function that `put` extends, `get` reads, and
from which anything may vanish. `ImplementsStore` refines it with `stored <- entries`.

### `HEOSState`

Numbers are replaced by where they come from: `exact` (of the point of the latest update),
`wrong` (a trial value of a solver, or left by an earlier call), `unset`, the quality `flag`s
outside 0..1, a refused quality `bad`, a stored `nan`. Where the point of an update lies, its
`region`, is chosen by the call; that a solver finds its root, finds another because the phase
it was told is wrong, or throws, is chosen by the step. The abstraction is finite as it stands,
so these runs bound neither the number of calls nor their order.

`Begin` is `update` or `update_with_guesses` up to the flash routine; a flash is cut into steps
exactly where an exception can leave with the state half changed (`op.stage` is the place);
`PostUpdate` is the validation at the end. `Specify`, `Unspecify` and `Read` are the caller's.
The U and S variants of a pair differ from the H variant in no step and stand behind it.
`asked` and `declared` are history: the caller's phase, and whether it was declared since the
last update.

The direct entry points, which take density and temperature (or quality and
temperature) as they are and go round the phase determination, are actions too; what they leave in
`_phase` and the saturation states is whatever the calls before them left. The guessed updates are
PT, QT, PQ and the quality pairs with density or caloric input, all that the code has.
`always` is history: the caller has declared the phase before every update so far.

Left out: mixtures and pseudo-pure fluids, and fluids without superancillary.

### `ReferenceStates`

A *frame* is the integer by which an offset moves every enthalpy. `library` is the fluid in the
library, `state` the one object of each thread with its copies of the offset (`own`, and `sat` for
its saturation states) and of the anchor points; `curves`, `stamp` and `holder` are the shared
expansions, `m_caloric_alpha0_stamp` and `m_lazy_build_mutex`. A change of the library is two
steps with the other threads between them, as in the code: a copy is taken and the increment
computed from it (`SetCopy`), then added (`SetOffset`, `SetAnchor`). A caloric flash asks
(`Ask`), builds if need be (`Ensure`, `Add` for each curve, `AddThrow`, `Stamp`), reads without the
mutex (`ReadCurve`) and moves its target by the stamp (`Solve`). `force` and `owes` are history.

### `SVDSBTLPoint`

Where an input lies (in a region, within the thin band at its edge, in the dome, on saturation, in
the box of the critical patch, outside) is part of the input, and `PlacesOf` says which places a
pair of inputs can have at all; a value is the input it belongs to and where it comes from. `resolve_point_` and the functions under it are cut at each update of
`patch_source_` and each use of a provider, any of which may throw. `active_eval_` is the point of
the last update, `cached` what the base class keeps, `call.rows` the rows of a batch with their
statuses. `disturbed` is history: a batch has moved the patch source since. An output that lacks an
endpoint is evaluated again after it has been fetched, where the code goes on in place.

### `SurfaceSampling`

`Decide` is the choice between the caller and threads, `Spawn`, `SpawnThrow` and `SpawnEnd` the
loop that deals chunks of `Lo(t) .. Hi(t) - 1`, `Start` and `Work` a worker, `Join` and `Fill` what
follows. Which cells have a value is chosen row by row. The fill works on integers whose samples
make every interpolation exact (`EvenAssumption`): where the code divides in floating point, here a
quotient has no rest, so the model says what the fill computes but for rounding. If a thread cannot be created while others run, the vector of
joinable threads is destroyed and the process terminates (`SpawnThrow`, and
`SVDSurfaceFactory.cpp:182`).

### `FluidLibraries` and `MixtureLibraries`

A behaviour exercises one library (`lib`), since they share only configuration keys. `job` is the
listing being added and what the call does after it, so that an exception can leave at any entry:
what was added stays. `Call` is `add_fluids_as_JSON`, preceded by the load on first use
(`LoadThrow`, `Resume`: the loader prints and drops exceptions, `cut` remembers). The adds of each
library follow the order of its own writes: name list, maps, fluid. `Found` is the lookup.

`MixtureLibraries` adds the pairs and departure functions with their once-flags, the sort of a
pair by CAS number that inverts its asymmetric parameters, the refusal of what exists, and `Make`,
which reads everything a mixture needs. `told` is what calls were told and took.
`LooksFirst` restricts users to those who look into a library before they change it; without it
see finding 2. The functions compiled into the program count as told from the start.

### `RefpropSession`

`library` is external: whether the shared library is in the process and which fluids it holds.
It is assumed that `SETUPdll` with N = -1, by which `version()` (`:313`) asks for a number, leaves
the loaded fluids alone.
The code has no lock, so a call is one step with the load or the throw on its way: `Check` is
`check_loaded_fluid`, `Load` and `Refuse` are the ends of `set_REFPROP_fluids`, `Unload` is
`force_unload_REFPROP`. A refusal because parameters would be estimated comes after the library
has taken the fluids and before their name is noted, except for a predefined mixture. `refused`
is history: a load has failed since one succeeded. `last` is the last look into the library: after
a check, without one, and whether the fluids were the state's own. Functions without a check are
`ReadUnchecked`: the name and CAS number (`:546`, `:594`), interaction parameters (`:610`-`:793`), the
molar masses of `set_mass_fractions` (`:807`) and `calc_mass_fractions` (`:1198`), the critical
density (`:899`), virial coefficients (`:1101`), the PIP (`:1213`), molar masses of the phases
(`:2763`) and `call_THERM0dll` (`:2822`).

### `CApiHandles`

`ASlibrary`, `next_handle` and `ASLib_mutex` are the members of `AbstractStateLibrary`; `live`
is the set of addresses at which a state exists, `point` what each was last updated with, and
`call` where each thread is. An address is reused after `free`, as an allocator does. `Call`
enters a function and resets its error code; `Lock` and the step after it are the critical
section of `add` (`AddInsert`, `AddNumber`), `remove` (`RemoveErase`) or `get` (`GetFind`);
`Update`, `Output` and `BatchOutput` use the state through the reference, with no mutex.
Functions with the same control stand behind one.

`MayUse` is the callers' side of the bargain, which the code cannot enforce: a handle comes
from the factory (or is the -1 of a failed one), and no two threads are in calls on one handle,
unless both free it. Without it a call may use a state another thread has just freed, which is
undefined behaviour.

### `SurfacePipeline`

One cache path. `names` and `data` are the directory and the inodes; a file is the sequence of
its pieces, each piece named by the version of the library that produced it. Each process has a
salt, a counter and its cache in memory (of which `SurfaceStore` is all that is used: `Forget`
is its `Lose`); each thread has one backend (`resident`) and a place in `ensure_surface_`
(`call`). Steps are cut at each system call, since another process may act between any two:
`Exists`, `Open` (with the size), `Read`, `Build`, `OpenTemp`, one `WritePiece` per piece,
`Rename`. `Faults` says which of these happen: a process is killed (`Crash`), a system call or
the build fails (`failure`), the file is removed (`Delete`) or loses its end because nothing
synchronizes it before a power failure (`Damage`), a process is forked (`Origins`).
That parsing tells a whole file from part of one is modelled by what zlib and the array checks
do: anything but a whole file of this version's revision is refused (`Loads`).

`AtomicFile` is one variable, what a reader of the path finds: nothing, or a complete payload,
or what a loss has left of it. `ImplementsFile` refines it with the contents of the inode the
path names. `Lose` of `AtomicFile` allows only the *end* of a file to go, so a piece of one
payload next to a piece of another, or a prefix shown by a rename too early, is a violation.

## 3. Runs

| run | module | shows | bounds |
| --- | --- | --- | --- |
| `surface_cache` | `MCSVDSurfaceCache` | structures in step, byte count exact, most recent kept, both limits hold at the end of `put`, a fitting surface survives its own `put`, `put` returns, refinement of `SurfaceStore` | 3 keys, sizes 1/2 MB and 3/2 MB, limits -1, 1, 2 |
| `heos_updates` | `HEOSState` | a successful update answers its own inputs unless the phase in force was wrong; who declares the phase gets it determined; a refused quality is never read; a direct update is read as its own point or not at all; a guess phase is withdrawn | none; all 12 pairs and all guesses; 3 phases to impose |
| `heos_leak_quality` | `HEOSState` | *violation*: finding 1 | 2 pairs |
| `capi_handles` | `MCCApiHandles` | handles resolve, states are owned, one free of each handle succeeds, outputs are of the last update through the handle | 2 threads, 2 addresses, 3 handles |
| `capi_batch` | `MCCApiHandles` | rows of a batch hold their own results whatever throws; the mutex is always released | 2 threads, 1 state, 2 rows of 2 outputs |
| `pipeline_share` | `MCSurfacePipeline` | surfaces are of the process's own version, temporaries are removed, refinement of `AtomicFile`, `ensure_surface_` ends | 2 processes of 2 versions, 2 starts, 2 pieces, 2 temporaries each, 3 inodes |
| `references` | `MCReferenceStates` | curves of one frame, unlocked reads of finished curves, targets found, reference states and anchor points as set | 2 threads, 1 named point, default and reset, 2 changes |
| `svdsbtl_points` | `MCSVDSBTLPoint` | outputs and rows are of their input, points are routed by their place, a patched point is a state | 16 inputs, 4 batches of 2 rows, 2 pairs of backends |
| `sampling` | `MCSurfaceSampling` | no row lost or sampled twice, gaps filled along the rows | 5 rows, 6 columns, 1 to 5 threads |
| `libraries` | `MCLibraries` | identifiers lead to their fluid, lists name what can be had, adds keep what was there, mixtures have the parameters given last, what exists is replaced only with the key | 2 fluids, 6 listings of one and 3 of two; 3 components; 4 and 6 calls |
| `libraries_first` | `MCLibraries` | *violation*: finding 2 | the same |
| `refprop_session` | `MCRefpropSession` | a function that checks finds its own fluids; no unload under a live state | 3 states, 4 fluids, counter up to 6 |

Why the bounds suffice. *Cache*: three keys give a first, a middle and a last place in the
list; the two sizes and the limits make either limit bind alone, make one `put` evict several
entries, and make a surface that fits no limit; -1 exercises the clamp. *C interface*: with two
addresses and three handles the third handle takes the address of a freed one while the second
is in use; two threads race every pair of calls. Two rows and two columns give a first and a
last of each, so a row that fails is followed and preceded by one that does not. *Pipeline*:
two pieces are the least for which a file can be partial; three inodes hold the target and the
temporaries of both; one restart is enough for an orphaned temporary to meet new writers. With
three inodes a fourth file finds the disk full, which is one of the failures.
*Reference states*: two threads race a change with a change, a build or a read; two changes are
the least for which the second meets what the first has left. *SVDSBTL*: the inputs hit every place
and every pair of a surface at least once, and two inputs at one place in the patch, so that one call moves what
another reads; a batch of two has a row before and one after the one that fails. *Sampling*: of
four threads the last gets no row, of three a short chunk; the sets of finite cells give a row
without samples, with gaps of one to four cells and with open ends. *Libraries*: the listings hold,
against the two fluids that are there, a repetition, an overlap with both, one shared alias, a
faulty entry, a fluid of the other kind, and a new one; four calls let each follow each, with the
overwrite keys changed in between. *REFPROP*: three states of three kinds, so that two of a kind
can live beside another; a counter of six is what three states of one name reach.

`CHECK_DEADLOCK FALSE`: in `pipeline_share` the processes may all have been killed after the
bounded number of starts; in the runs of the libraries the calls are bounded and a faulty
overwrite ends in undefined behaviour; in `sampling` a table is built once, or not. Symmetry is
used in `capi_handles` (threads, addresses, points) and `refprop_session` (states), neither of
which has a liveness property.

Fairness. `PutReturns` assumes that the thread inside `put` goes on, which holds the mutex and
waits for nothing. `LockIsReleased` and `EnsureEnds` assume weak fairness of each
thread's `Step` only while it is inside a call: the operating system schedules it and its system
calls return. Nobody is assumed to call anything, and strong fairness is not needed.

## 4. Findings

Shown by runs:

1. `heos_leak_quality`: the flashes with a quality and a density, enthalpy or entropy impose the
   two-phase region (`FlashRoutines.cpp:580`, `:621`, `:658`) and never withdraw it, so a later
   update of a caller who imposed nothing takes the imposed branch.
2. `libraries_first`: `MixtureParameters.h:88` says of `set_departure_functions` "By default, if a
   departure function already exists in the library, this is an error". Those compiled into the
   program are loaded when the library is first looked into, and the function does not look
   (`MixtureParameters.cpp:853`): called first, it takes a function of a name the program has. The
   load then throws, at the first mixture that needs a departure function and at every one after;
   with the overwrite key it replaces the user's function by the program's.
   `set_interaction_parameters` (`:398`) does the same with pairs; `apply_simple_mixing_rule` and
   `set_mixture_binary_pair_data` load first.

Other disagreements between the code and what is said of it, or behaviours that the properties
above name as exceptions; none of them has a run of its own.

*Helmholtz state.* `HSU_P_flash_singlephase_Brent` evaluates its bounds (`FlashRoutines.cpp:3150`)
after it has imposed a phase and before the `try` whose handlers withdraw it, and the
pressure-enthalpy solve ends in `unspecify_phase` (`:3193`), which withdraws the caller's phase too.
`update_with_guesses` assigns the quality before it checks the range
(`HelmholtzEOSMixtureBackend.cpp:1625`), which `update` was changed not to do (`:1541`);
`update_QT_pure_superanc` (`:1329`) does not check at all. A pressure-temperature update with a
guess minds the phase of an earlier update (`:2926`). A right two-phase imposed on density and
temperature takes its outputs from saturation states that this pair never sets
(`FlashRoutines.cpp:3876`).

*C interface.* A batch row whose later output throws is left half written, where the comment
(`CoolPropLib.cpp:915`) says it is left unchanged.

*Surface files.* A forked process has its parent's salt and counter, so two writers may share a
temporary, which the comment in `atomic_write.h:25` excludes. `Origins` models it, and the theorem
about `SurfacesAreOwn` covers it.

*Reference states.* `set_reference_stateS("RESET")` does nothing (`CoolProp.cpp:1034`), where
`AbstractState.h:854` says it removes the offset. A state's own change leaves its saturation states in the old frame
(`HelmholtzEOSMixtureBackend.cpp:4585`). `sat_eval_` (`SVDSBTLBackend.cpp:974`) and the dome
boundaries (`SatBoundaryFactory.cpp:79`) take H and S from the shared curves without the shift by
the stamp, so a new SVDSBTL state after a change of reference state mixes frames; the surface's
key (`SVDSBTLBackend.cpp:996`) lacks the reference state too. After a failed build `superanc_`
(`:869`) reads the curves without asking again, perhaps while another thread builds (`ReadDome`).

*SVDSBTL.* `fast_evaluate` moves the patch source (`SVDSBTLBackend.h:179`), and with it what a
patched point of an earlier `update` reads, where `AbstractState.h:931` says that it bypasses
the cache of the state.
`restore_seed` swallows an exception (`SVDSBTLBackend.cpp:109`) in the band where IF97 refuses the
seed, against the comment at `:130`. cp, cv or the Prandtl number asked of a
dome row make it an internal error, where the comment near `:2285` has an in-band NaN.

*Libraries.* Overwriting a PC-SAFT fluid erases by a name that need not be what found it, and so
perhaps `end()` (`PCSAFTLibrary.cpp:141`); `OverwritePCSAFT` ends there. `get_departure_function`
leaves an empty entry for a name it does not find (`MixtureParameters.cpp:515`), so that setting that
function later throws. Docs call the key `OVERWRITE_DEPARTURE_FUNCTIONS` (`CoolPropLib.h:200`), the
code `OVERWRITE_DEPARTURE_FUNCTION`; `set_mixture_binary_pair_data` never consults
`OVERWRITE_BINARY_INTERACTION`. The name of a HEOS entry that cannot be read stays listed, the new
name of an overwritten one is not listed, and keys of the old one find the new. The lower-case alias
of a cubic is never found, and adding a cubic that exists does nothing, silently.

*REFPROP.* After a refused estimate (-117) the library holds the refused fluids while
`LoadedREFPROPRef` names the earlier ones, so a state of those skips its load, against the comment at
`REFPROPMixtureBackend.cpp:328` ("fluids must be loaded"); `ReadsOwnFluids` excludes it by `refused`.
A state of one name counts itself twice (`:75` of the header and `:214`), so the library is not
unloaded after the last one, as the comment at `:222` has it. A load of a predefined mixture takes
back the user's mole fractions. `update_Qmass_pair` clears nothing, so a viscosity of the update
before stays cached. A library that could not be loaded once is not tried again after its path has
been corrected (`:277`). A changed path unloads the library under live states
(`Configuration.cpp:146`), whose functions without a check then call null pointers.

The exceptions in the properties are these: `WithdrawsItsGuess` excludes the quality pairs and
failed pressure solves; `AnswersTheCall` speaks of updates that start with no phase or the right one
in force, but for the two-phase on density and temperature; `DeclaredAnswers` excludes guessed PT
updates; `PatchIsAState` excludes the band of IF97; `ReadsOwn` a patched point after a batch;
`ExistingIsRefused` pairs changed by `set_mixture_binary_pair_data`.

## 5. Proofs

All proofs are checked by TLAPS with Z3, Zenon and LS4, for every value of the constants that
satisfies the named assumptions, one or two per module (`CacheAssumption`, `HEOSAssumption`,
`CApiAssumption`, `PipelineAssumption`, `ReferenceAssumption`, `SamplingAssumption`,
`EvenAssumption`, `PointAssumption`, `FluidAssumption`, `MixtureAssumption`, `RefpropAssumption`).
They say that the constants are what their names say; those that say more are `EvenAssumption`
(see `SurfaceSampling`) and the last conjuncts of `PointAssumption` (a pair of inputs has only
places that exist for it, and a batch has one pair). Two hypotheses appear in theorems themselves:
`NoFork` and `LooksFirst`, both explained below. Every safety property that a passing run checks,
invariant, action property or refinement, is a theorem.

*Surface cache.* One inductive invariant, `CacheInv`: types, `ListsOfKeys`, and the three
properties `ListMatchesMap`, `TotalIsSum` and `KeepsMostRecent`, with `FreshIsFirst` (while a `put`
evicts, its own key is at the front).

* `CacheIsTyped`, `ListAlwaysMatchesMap`. The work is in the sequence lemmas: `Erase` removes
  exactly the key, `ToFront` keeps the elements and their distinctness.
* `TotalIsAlwaysSum`. The sum is over the keys of the map; that it grows by a size with an insert
  and shrinks by one with an erase is proved of any finite set of keys, by the smallest set that
  would be a counterexample.
* `MostRecentStay`. The list is a prefix of `recency`; moving a key to the front of both and
  erasing at the back of the list keep it one.
* `LimitsRespected`, `FreshAlwaysSurvives`: action properties, of the step that ends a `put`.
  They speak of the limits that `put` has read, not of those of the moment.
* `CacheIsAStore`: each step of the cache is one of `SurfaceStore` or leaves `entries` alone.

*Helmholtz state.*

* `StateIsTyped`. `TypeOK` is not inductive: steps copy the region into the phase, and some
  regions are not phases. The invariant adds `RegionOfPair` (the region is one its pair can have)
  and `OutsideUnsolved` (a temperature and a caloric input with no solution reach the density solver,
  which throws, or stay in the phase the caller imposed, so such a region is never copied).
* `RefusedNeverRead`. The strengthening is `RefusedIsEmpty`: after a call of `update` that was
  refused the temperature, the density and the quality are unset, and a read caches nothing but a
  NaN. The calls in between may be of any kind, `update_with_guesses` included.
* `DirectReadsAreOwn`. After a direct update the members are those of its point and the quality is
  unset; a stale two-phase can then only give a NaN, and a stale single phase the right value.
* `GuessIsWithdrawn`. The strengthening is `OwnPhaseOnly`: the same statement in every stage of a
  flash but those in which the pressure solve has its guess imposed (`GuessUnderWay`).
* `CallsAreAnswered`, `DeclaredCallsAreAnswered`. `AnswerInv` follows an update that starts with
  no phase, or the right one, through its flash: one conjunct per kind of flash (`PTUnderWay`,
  `TUnderWay`, `PUnderWay`, `XUnderWay`) says what is solved and which phase is imposed at each
  stage, and `FlashRight` what every flash leaves. `DeclaredInv` adds that a caller who declares the
  phase before every update never meets one left over.

*C interface.*

* `HandlesAlwaysResolve`, `StatesAlwaysOwned`, `EntriesStayInUse`. One invariant, `TableInv`: types;
  each stage belongs to its functions (`StageOfFunction`); a thread in a critical section holds the
  mutex (`Exclusive`); `next_handle` is above every entry except the one being added (`NextIsFree`);
  two calls on one handle are both frees (`OneUser`); an entry in use is in the table
  (`EntryInUse`); a handle known to callers is not handed out again (`NotIssuedAgain`); and the two
  properties themselves, which need each other: a handle resolves to a live state only because
  nobody else owns, and so destroys, that state. `EntriesStayInUse` is the fact that makes the
  unlocked use of a reference into the map sound, and it rests on `MayUse`.
* `FreesSucceedOnce`, `OutputsAreOwn`, `RowsAreAlwaysOwn`. `UseInv` adds to `TableInv` that a freed
  handle is neither in the table nor issued again (`FreedForGood`), that a state holds the point of
  the last update through its handle (`HoldsExpected`), and that a batch's state holds the point of
  the row at work until the row is written (`RowIsHeld`).

*Surface files.*

* `OwnSurfacesOnly`, for every set of faults, forks included. `SurfacesAreOwn` speaks of surfaces in
  use; `OwnInv` adds the one a call has in hand from the load or the build on (`OwnCall`). Nothing
  about the directory or the contents of its files is needed, which is the point: only `Loads` stands
  between a file and the process.
* `TempsAreCleared`, `FileIsAtomic`, for every set of faults without forks (`NoFork`): a forked
  process has its parent's salt and counter and may take the same temporary, and then neither
  holds (see the findings). `FileInv` says that processes differ in salt (`SaltsDiffer`), that every name has
  an inode of its own (`NamesApart`), and that no two writers share a temporary and each of these
  holds the pieces written so far (`WritersApart`), which is what `Rename` needs to show a complete
  payload.

*SVDSBTL.* The module extends both models, whose behaviours share nothing.

* `RowsAreSampledOnce`. The rows sampled are those that workers have left behind within their chunks
  (`Dealt`, `Within`); the lemmas show that chunks rounded up are disjoint and cover the rows
  (`ChunkCovers`, `ChunksApart`, `RowIsDealt`), from facts about division that are proved, too.
* `TablesAreFilled`. `FilledRow` is a recursive function; `OneSolution` shows that its equations have
  one solution, by the least column in which two would differ, and `FilledIsStraight` that the
  straight lines solve them. `MiddleExists` shows that a finite set has a value with no more than half
  below and more than half up to it, so `Median` is one.
* `ReadsAreOwn`, `RowsOwnOrBlank`, `InputsAreRouted`, `PatchesAreStates`. `PointInv` has types; the
  function each stage belongs to and what a call has so far (`ShapeOfCall`); which places come to a
  stage of `resolve_point_` (`Routing`); that endpoints and temperature of a point are its input's or
  still unknown (`ActiveOwn`, `RowUnderWay`); what the patch source holds for the last update, unless a
  batch has moved it, and for the row at work (`PatchHeld`); and that cached values and finished rows
  are own (`ReadValues`, `RowsFit`). `Routing` is what makes a fallback safe: a dome reclassified as a
  surface point, or an outside point blended, would have to come to a stage it never comes to.

*Reference states.*

* `ReferencesAreTyped`, `CurvesShareAFrame`, `ReadsMeetNoBuild`, `FlashesFindTheirTarget`,
  `CurvesAreForGood`. `CurveInv` has the mutex (`Exclusive`), the curves a builder has added so far,
  in its own frame (`OwnSoFar`), that the last curve is there only between its end and the stamp and
  after it (`LastThenStamp`), that nobody builds what is stamped, and that a flash that reads has
  seen the stamp. `LastThenStamp` is the point: `Built` looks at the U curve alone, and a failed
  build leaves H or S of one frame behind for a builder of another.
* `ReferencesAreInForce`. The strengthening `OffsetInv` says, of each change under way that no other
  overlaps, that the copy it took still equals the library, so the increment leads to the frame due.
* `AnchorsAreOwn`. `AnchorsFollow`: unless a change is between its offset and its anchor, the
  anchors of the library, which every state copies, are in the frame of its offset; of changes that
  overlap, the last to finish sees the final offset.

*Libraries.*

* `IdentifiersLead`, `AddsKeep`, `ListsLead`, over `Spec` of `FluidLibraries`. `Sound` has what holds
  between the maps after every step, and that no two names of an incompressible share an index;
  `AddedFound` the last add; `ListInv` that a listed name leads somewhere, entry by entry of the
  listing at work (`NamesLead`, `KindsLead`).
* `FluidsBesideMixtures`: the same invariants under `MixtureSpec`, whose further steps leave the
  variables of `FluidLibraries` alone.
* `MixturesAreAsTold`, under `LooksFirst`: without it the load of finding 2 refuses or replaces what was told. `MixtureInv` compares
  what is stored with what was told, pair by pair (`PairsInv`, with the inversion of a pair turned
  round), function by function (`FunctionsInv`) and for PC-SAFT (`KijInv`).
* `ExistingStays`, under `LooksFirst`, from the same invariant: what was told is in the map, and of a
  listing nothing is taken whose key is there (`TakenIsNew`).

*REFPROP.*

* `CheckedReadsAreOwn`, `NeverUnloadedInUse`. `Believed`: unless a load has failed since one
  succeeded, the library holds what `LoadedREFPROPRef` names. `Counted`: no fewer states are counted
  than are alive; more may be, which keeps the library but never loses it.

Only model-checked: the liveness properties `PutReturns`, `LockIsReleased` and `EnsureEnds`, which need fairness and ENABLED and so are out of the prover's reach, and the two
violations, which are counterexamples. The type invariants are theorems of their own in the cache,
`HEOSState` and `ReferenceStates`, and in the other components parts of the inductive invariants.
The induction theorems of the library cannot be instantiated by the installed provers; where a proof
needs induction over data (sums, the fill, the median) it takes a smallest counterexample from
`WFMin` instead, which needs no operator as a parameter.

## 6. What is not modelled, and the plan

Not modelled for good: real-valued numerics (equations of state, Newton and SVD iterations,
transport correlations), string handling, code that is generated, vendored or only binds to the
C interface. Nobody has to trust the models about them: a solver is a step that may fail or,
where the code can go wrong, find a wrong root.

REFPROP itself and the compositions' values; the build of the SVDSBTL patch box and the option
`prebuild`; mixtures, pseudo-pure fluids and fluids without superancillary in `HEOSState`; the
phase equilibrium of mixtures, whose control is that of its Newton loops; the parsing of fluid
files; the fields of a surface file, which the models take as whole or not.

What is left that could be modelled, in this order; each line gives the module, what it composes
with and its main property.

1. `ErrorOutbox`, with the floating-point guard: a message is delivered at most once, masks are
   restored; composes with `CApiHandles`, whose error codes are its messages' siblings.
2. `HumidAirCache`: the key is never newer or older than the values, whatever throws in between.
3. The tabular dictionary, a predecessor of the surface files, with its build that nobody locks.
4. The values of a composition and the kept outputs in `RefpropSession`.
5. The PC-SAFT and cubic states, as instances of the scheme of `HEOSState` with fewer paths.
