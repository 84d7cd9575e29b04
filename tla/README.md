# A TLA+ model of scotland2

scotland2 is a modloader for Unity games on Android. A proxy `libmain` calls its
entry points while the game starts; it copies mods into the game's directory,
works out in which order shared objects must be opened, opens them in three
phases, and calls their `setup`, `load`, `late_load` and `unload` functions at
the right moments, two of which it gets by hooking functions of the game. Mods
may call back into it through a C API while their own callbacks run.

This directory models the start-up (the copy of the mods and the linker's search
paths), the order of opening, the life of the callbacks, the search for the
place of a hook, and the hooks in memory. TLC checks all of them on small
instances; TLAPS proves the main properties of all of them for instances of any
size.
Paths below are relative to the repository.

## The system and what is modelled

| part | code | state | model |
|---|---|---|---|
| dependency resolution | `src/loader.cpp:36-334`, `shared/loader.hpp` | none (a cache for one call) | `SharedObjects`, `Resolution`, `DepthFirst`, `ResolutionProofs`, `Dependencies`, `Resolver` |
| loader | `src/loader.cpp:339-474`, `open_*` in `src/modloader.cpp` | `skip_load`, the lists of results, `current_load_phase` | `Loader`, `LoadOrder`, `LoaderProofs` |
| registry and callbacks | `src/modloader.cpp`, `LoadedMod` in `shared/loader.hpp` | the lists, the flags and `ModInfo` of each `LoadedMod` | `Modloader`, `ModloaderProofs`, `CallbackProofs` |
| entry points and hooks | `src/main.cpp:56-177, 331-416` | `failed`, the installed hooks | `Modloader`, `LinkerPaths`, `HookMemory`, `HookMemoryProofs` |
| start-up copy | `src/modloader.cpp:91-157` | files, `failed` | `Startup`, `StartupProofs`; its outcome is a choice in `Modloader` |
| linker namespaces | `src/runtime-restriction.cpp`, `include/linker_namespaces.hpp` | `mainNamespace`, private data of the linker | `LinkerPaths`, `LinkerPathsProofs` |
| hook location search | `src/main.cpp:188-251`, `src/capstone-utils.cpp`, `include/capstone-utils.hpp` | none | `HookSearch`, `HookSearchProofs`; its outcome is a choice in `Modloader` and `HookMemory` |
| memory protection | `include/protect.hpp` | rights of pages | `HookMemory`, `HookMemoryProofs` |
| ELF utilities | `src/elf-utils.cpp` | none | not modelled; that they find nothing is an outcome in `LinkerPaths` |
| C API marshalling, getters, logging | `src/modloader.cpp:463-548`, `src/main.cpp:273-329`, `include/log.h` | none | not modelled: they copy and print |
| bootstrap test, build files | `test/`, `CMakeLists.txt` | none | not modelled |

How the parts interact: `modloader_preload` copies files, sets `failed`, and
adds the directories it finds to the search path of the linker.
`modloader_load` opens the libraries and the early mods (`loadMods`, which
resolves dependencies for each candidate and calls `dlopen`) and calls `setup`
of the early mods. `modloader_accept_unity_handle` makes code readable
(`protect_all`) and installs the hook on `il2cpp_init`. That hook undoes itself,
calls `load` of the early mods, searches libunity for `DestroyObjectHighLevel`
and hooks that. The second hook undoes itself too, opens the mods, calls their
`setup`, and then `late_load` of early mods and mods. `modloader_unload` closes
everything. Constructors and callbacks may call `modloader_require_mod` and
`modloader_force_unload` at any of these moments, on the same stack.

What is hard: the loader has no threads of its own, so the interleavings are
those of nested calls. A loop over a list is suspended inside a callback, the
callback calls the API, the API calls another mod's callback, and that one
calls the API again. Flags are set after callbacks return, references into
vectors are held across calls, and `erase` moves elements under them. On the
loader's side the difficulties are cycles, objects shared between phases, names
that several phases provide, and `dlopen` calls that fail half-way. In memory, a hook
that undoes itself shares its function with hooks that mods make before, during
and after, and puts back what it saw at first, whatever stands there by then.

`PROJECT.json` lists the hazards line by line with the properties that cover
each.

## Modules

**`LoadPhases`** is the shared vocabulary: `LoadPhase`, `loadPhaseMap`, and words
about orders.

**`SharedObjects`** is what the loader reads: where `findSharedObject` looks for a
name, and what `listAllObjectsInPhase` lists. A path is a phase directory and a
number for the name, ordered as `std::filesystem::path` orders them. A file
system is a record: the files, which of them can be read, the `DT_NEEDED` names
of each, and which directories fail with an error. The walk over ELF sections is
abstracted to that list of names. The dependency graph follows from these
(`DirectDependencies`, `Reachable`, `Acyclic`), without trees, caches or orders.

**`Resolution`** is the first half of `loadMod`: `getToLoad` and
`topologicalSort` with their recursive calls on explicit stacks, one action for
each way through a loop. In the code a `Dependency` has a copy of the list that its
`getToLoad` returned, with copies inside it. In the model it has the length of
that list at that moment (`count`): a list in the cache only grows, and is not
changed once the cache is gone, so a copy of it is its first `count` elements.
On a cycle the copy is shorter than the list becomes.

**`DepthFirst`** is what a user may rely on in the order: a walk over the graph
of needs, depth first and the greatest path first, that lists each object when it
leaves it. It has no search paths, lists, caches or copies, and no choice, so the
order is a function of the graph. Where no cycle is below, `topologicalSort`
implements it (`ImplementsDepthFirst`).

**`ResolutionProofs`** has the theorems about `Resolution`.

**`Dependencies`** has the same two functions as recursive definitions with the
functions' names, on trees as the code has them. `getToLoad` returns the cache
along with the list, because on a cycle the inner call sees the outer one's
unfinished entry. The module uses `RECURSIVE` operators and is used by TLC only.

**`Resolver`** is `Resolution` in two steps, what `getToLoad` returns and what
`topologicalSort` returns. `Resolution` implements it, with all that comes in
between taken for stuttering; so the stacks and counts compute what the trees do.

**`Loader`** extends `Resolution` with what is around it: the rest of `loadMod`,
`loadMods`, and `open_libs`, `open_early_mods` and `open_mods`, one action for each
branch of the loops. `LoadMod` calls `loadMod` for the candidate at the head of
`mods`; `Resolve` is any step of `Resolution` for it; `TakeOrder` goes on with the
order that it came to, and the locals of the resolution (`cache`, `calls`, `sorting`,
`visited`) are gone. The candidates of a phase are those that
`listAllObjectsInPhase` gives for the files, the same that `Resolution` searches.
`Dlopen` succeeds or fails freely. Callbacks are left to `Modloader`.

**`LoadOrder`** is what a user of the loader may rely on: each object is
attempted at most once and after everything it requires. `Loader` implements it
under the mapping `attempted <- skip_load`, where an object requires what it needs
unless a cycle is below it; the resolution is stuttering.

**`LoaderProofs`** has the theorems about `Loader`.

**`Modloader`** models the stack. Each function in progress is a frame:
`open` (`loadMods`), `for` (the loops over a list), `call` (a callback),
`require` (`modloader_require_mod`), `close` (`LoadedMod::close`, with or
without the `erase` of `force_unload`), and frames for the original
`DestroyObjectHighLevel`, `setup_unity_hook` and the end of `close_all`. A
frame refers to an element as the code does, by its place in a vector, so that
an `erase` redirects it. Using a place past the end sets `undefined`, after
which nothing happens. A `ModInfo` has an id, a version and a number; what
`get_mod` finds is worked out from the match type as `ModInfo::equals` does, with
`MatchType_ObjectName` in the default case, where the code leaves it. The candidates
of each phase and the order of `topologicalSort` for each object are constants
(`Candidates`, `Sorted`), with any repeats and cycles; the loops of `loadMods` and
`loadMod` over them are the module's own, because constructors may call the API
between their steps. Like the code they look at `skip_load` for candidates and
dependencies, but not again for the candidate after its dependencies. So of mods
that need each other one is opened twice, as a dependency (of itself) and as a
candidate (`Role`), and has two `LoadedMod`s: its callbacks are called for each,
and each has a handle from `dlopen` and closes it (`handles`). The constructors run
the first time only.

**`Startup`** is `copy_all` as `modloader_preload` calls it, one action for each
operation on files and its failure, over several starts of the game. The user
changes what is installed between starts, the process may be killed at any
step, and the files directory keeps what was there. A directory is a set of file
contents; that `copy` overwrites is not needed, since the destination was
removed. **`StartupProofs`** has the theorems about it.

**`ModloaderProofs`** has the theorems about `Modloader` that concern the lists and
the flags. **`CallbackProofs`** builds on them: which callbacks have returned, in
which order, that no object is forgotten, and that nothing closed is called.

**`LinkerPaths`** extends `Startup` to the whole of `modloader_preload`: between
the copy and the loading come `runtime_restriction::init` and the collection of
directories, and mods add directories of their own later. Each action of
`copy_all` is joined with what it does to the directories themselves (which may
exist and be empty). Each early return of `init` is one outcome, `InitFails`, as
they change nothing that lasts. The linker's data is what the accessors of
`linker_namespaces.hpp` read and write: which namespaces are isolated, and the
paths of each. Which namespaces have an object of the modloader's name may
differ from start to start. **`LinkerPathsProofs`** has the theorems about it.

**`HookSearch`** has memory as a partial function from addresses to abstract
instructions (what capstone decodes, a register or condition, a target).
`findNth` (the overload with an array of ranges, which `findNthB` uses; the other
two are the same loop over one range) is stepped through instruction by
instruction, with its ranges, its counters and each of its conversions. Addresses
are in instructions, the sizes of ranges in bytes and unsigned (`SizeModulus`), so
that a size which is no multiple of 4 wraps around as in the code. `find_unity_hook_loc` looks for the end of
a method (a `ret`, but not the `ret` of another register, which only `findNth` counts),
then backwards for its last call, and then calls `findNth`. Reading what
is not mapped is a segmentation fault, which ends everything. Queries that other
callers would make are taken from a constant. **`HookSearchProofs`** has the
theorems about it.

**`HookMemory`** has what stands at a function as a sequence of hooks, and what a
hook's trampoline keeps likewise; a call goes through the sequence by frames of
a stack. Making a hook and undoing it need rights of pages, which `protect_all`
and `mprotect` give or fail to give. The search of `HookSearch` is one step here: it
finds the function or nothing, is stopped by missing rights (`"fault"`), or reads
what is not mapped (`"astray"`), since nothing in the code bounds it by what is. Mods make hooks whenever their code runs.
It shares only the names of the hooks with `Modloader`, where each hook is a flag.
**`HookMemoryProofs`** has the theorems about it.

`MC_Resolution`, `MC_Loader`, `MC_Startup`, `MC_Modloader`, `MC_HookSearch` and
`MC_HookMemory` give the constants their values. `MC_Resolution` also has what
relates `Resolution` to the recursive definitions.

Operators named `X_something` and marked as mutants are faulty variants of `X`.
Each property of each passing run is refuted when `X` is replaced by the variant
that `PROJECT.json` names, which shows that the run would notice such a fault.

## Runs

| run | config | shows |
|---|---|---|
| `resolution` | `MC_Resolution.cfg` | the lists in the cache are right for every requester, and a copy of one is whole unless a cycle is below its object; the order has each object after what it needs unless a cycle is below that object, has no repeats and nothing that is not needed (with cycles too), and reaches later phases only through shims; both functions end (with cycles); they compute what `Resolver` says (with cycles); the order is `DepthFirst`'s, so that the order of `DT_NEEDED` entries has no part in it |
| `loader` | `MC_Loader.cfg` | from the files on, with every step of the resolution: each object is opened once unless it needs itself, after what it needs unless a cycle is below it, over all phases and whatever fails; every attempt is recorded once, in the list of its phase; phases finish; `LoadOrder` is implemented |
| `callbacks` | `Callbacks.cfg` | with requires nested anywhere: callbacks come in order and to everybody, and once, unless the object needs itself; flags and ids are truthful; `MatchType_Loaded` means that the callbacks returned; once nobody calls any more, everything ends |
| `unloading` | `Unloading.cfg` | with unloads between the host's calls and `dlclose` failing: no handle is forgotten, the lists give out only handles that are held, each is given back at most once, and nothing of an object is called after its last was; mods opened twice included |
| `startup` | `Startup.cfg` | a start opens what is installed or nothing, whatever fails and whatever an earlier start left; the linker finds it; no other namespace is touched; a start gets to its end |
| `hook_search` | `HookSearch.cfg` | `findNth` answers with the nth match over its ranges, if these are of whole instructions; the hook location is where the trace in the comments leads; every search ends |
| `hook_memory` | `HookMemory.cfg` | what the loader does with mapped memory is what its rights allow; the loader's hooks work, once; hooks of mods stay unless made over a hook that is yet to be undone |
| `search_order` | `SearchOrder.cfg` | **violated**: the search order a comment states |
| `reopened` | `Reopened.cfg` | **violated**: `skip_load` prevents every redundant `dlopen` |
| `early_load` | `EarlyLoad.cfg` | **violated**: `load` comes after `il2cpp_init` |
| `stale_slots` | `StaleSlots.cfg` | **violated**: unloading another mod is well defined |
| `hooks_stay` | `HooksStay.cfg` | **violated**: unloading removes the hooks |

The five violated properties are sentences of the README or of comments that
the code does not keep. `PROJECT.json` quotes them under "findings".

### Bounds

* `resolution`: five families. Three files in one directory with every list of at
  most two names in every order; one name in three phases below a mod; shims;
  files that cannot be read and directories that fail; four files. Diamonds need
  four files, cycles with a branch three, and a cache entry made under another
  phase needs a name in two phases, so each of these occurs. Where the number of
  file systems is large, one or two files have fewer lists of names than the
  others, as `MCFileSystems` says. The theorems cover any file system.
* `loader`: about 150 file systems of at most six files, each with all three
  phases: libraries that need each other, mods that need each other and early
  mods, shims that lead from a library to an early mod and a mod, a file that
  cannot be read, a directory that fails and a name that is nowhere. Every `dlopen`
  fails or succeeds freely. The theorems cover any finite sets of files.
* `callbacks`: two early mods and one mod, one of them without `load`. One early
  mod and the mod give themselves the same id with different versions, so that
  each match type finds something else; requests use every match type, and
  paths. The mod and a library (a shim, say) need each other, so the mod is opened
  twice. `MaxApi = 3` bounds the number of API calls in a run and
  `MaxDepth = 10` the stack when one is made. Three nested requires are enough
  for two mods to require each other from their callbacks and for a third to
  look on. `ModloaderProofs` and `CallbackProofs` cover any number of all
  of these for the properties they prove.
* `unloading`: all five objects, including a library and a mod without
  `setup`, and three API calls, so that a failed unload can be repeated and
  another mod unloaded in between. Two listed mods have the same id, so an
  unload by id has two to choose from, and two mods need each other and a library,
  so one of them is listed twice.
* `startup`: two phases, two versions of a mod in any combination on both sides,
  two namespaces, one more directory, and two starts. Every kind of leftover is
  an initial state, so more starts add nothing new; the theorems cover any
  number.
* `hook_search`: a method of up to five instructions, which may have several calls and
  several returns, with a call as its first instruction too, and which il2cpp may know
  from its first or its second instruction on; a function of three instructions
  behind it, entered at two places, with branches, returns and bytes that do not
  decode. `MethodLength = 4` and `SearchBytes = 12` stand for 100 instructions and 4096
  bytes, so that both limits are met. Four mixed instructions under two ranges that
  overlap or adjoin, with every combination of counts, and under a range of six
  bytes, whose size wraps around (`SizeModulus = 32`); three instructions for the
  searches for data. The memory ends behind them, so that searches run off it.
* `hook_memory`: two hooks of mods, one below and one above one of the loader's,
  and six frames, enough for a call of the game through all of them with another
  call nested in it.

### What the properties assume

On cycles of `DT_NEEDED` entries the code does not achieve what it does elsewhere
(`reopened` shows one consequence), and the properties except as little as they
can, object by object and not whole file systems. `NoRedundantDlopen` excepts the
objects that need themselves; `DependenciesFirst`, `CopiesAreWhole`,
`SortedIsClosedOrder` and `ImplementsDepthFirst` the objects that a cycle is
below. The rest of the same run, of objects beside and below these, is covered.
`InTheListOfItsPhase` leaves out a candidate that a candidate of an earlier phase
needs, which a shim makes possible.

In `Modloader` the consequence of being opened twice is visible. `CallbackOnce`
excepts the objects that need themselves, whose callbacks the code calls for each
of their two `LoadedMod`s, and so does the half of `FlagsTruthful` that says no flag
is missing. `ListedAreOpen` and `ClosedIsFinal` speak of handles instead of objects:
each comes from one place and is given back at most once, and the object is
closed when its last handle is gone. A second call of `unload` after a `dlclose`
that failed is not excluded, since the code makes it. `unloading` has no nested
`DestroyObjectHighLevel`: with nesting, the outer hook opens the mods a second
time and replaces their list by an empty one, so `NothingForgotten` fails there;
and in `callbacks`, which has nesting, `AllDelivered` says nothing of the mods that were
in the list before it was replaced. The unloads of `unloading` are not made from callbacks, which `stale_slots` shows to be
undefined; for the same reason the theorems about `Modloader` assume
`CallbacksDoNotUnload`. No run lets unload functions call the API: one that
requires a mod during `close_all` finds those that are closed already, still in
their lists, and may call them, so that `ClosedIsFinal` fails. The theorem about it
assumes `UnloadsCallNothing`.

`AccessAllowed` leaves out functions whose first four instructions lie on two
pages, of which the code makes only the first writable, segments that
`protect_all` failed to protect, and searches that read what is not mapped.
`ModHooksStay` and `HookWorks` leave out hooks that were made while a hook of the
loader at the same function was still to be undone, and `WorksOnce` a `DestroyObjectHighLevel` called within itself: the
code erases the former and loads mods twice in the latter.

`FoundIsNth` is about ranges of whole instructions, which two of the three overloads of
`findNth` require of their callers, and the third does not. `LocationIsTrace` states the
trace of the comments where these can be met: `src/main.cpp:192` says "2nd bl" and
`:233` "the last bl in the method", which differ in a method that does not have
exactly two; the property takes the latter, which is what the code looks for. The
backward loop (`:235`) stops before the first instruction, so a `bl` there is never
found, and the property excepts a method that has no other. Both properties
take a conditional branch for a `B`, as the instruction test of `findNthB` does.

`src/README.md:35` says that objects are loaded in the order of
`std::filesystem::path::compare`. Candidates are; the dependencies of one object
are opened the other way round, the greatest path first, because
`sortDependencies` sorts them so (`src/loader.cpp:207`), and all of them before the object
itself, whatever the paths. `DepthFirst` has that order. The sentence before it, that the order is
"consistent across the same sets of files", is what `ImplementsDepthFirst` shows.

### Fairness

`Resolution` has weak fairness of `Next`: both functions run to their end on the
thread that called `loadMod`, and no file is waited for. `Loader` has weak fairness of
`Running`: once `loadMods` is entered the thread
goes on; nothing makes the host begin a phase. `Modloader` has weak fairness of
`Run`: a function in progress goes on and a callback returns. Neither the
host's calls, nor the game's, nor API calls by mods are fair. `Quiesces` says that
the modloader adds no endless loop of its own: if from some moment on nobody begins
anything (`<>[][Run]_vars`), what was begun ends. It says nothing of two callbacks
that require each other every time they run, which recurse without end in the
code (each finds the other not yet called, `shared/loader.hpp:249`); the bound `MaxApi`
cuts such runs off, and no property claims anything about them.
`Startup` has weak fairness of the steps of one start: the thread
that runs `modloader_preload` goes on unless the process is killed;
`LinkerPaths` joins to these the steps of `init`. `HookSearch` has weak fairness
of the steps of a search: its loops run on. `HookMemory` has weak fairness of
functions in progress, and of the game's calls of `il2cpp_init` and
`DestroyObjectHighLevel`, since a Unity game initializes il2cpp and destroys
objects when it loads its first scene, as the comments at `src/main.cpp:152` and
`:259` say; mods need not make hooks.

## Proofs

`ResolutionProofs` proves, for every set of file systems of the type of one
(`FileSystemsAssumption`), with cycles and missing files:

* `Resolves`: `Spec => []TypeOK`.
* `WholeCopies`: `CopiesAreWhole`. What has to be excluded is that `getToLoad` takes
  a list from the cache that is still being filled. The objects of the calls in
  progress each need the next (`CallsAreNested`). If a name resolved to one of them,
  the objects from that call to the top of the stack would be a set in which each
  needs another, so a cycle would be below each of them (`NoStackWayBack`, from
  `NoWayBack`). For a list in the
  cache and the call that fills it, `ListsSoFar` says what has been found of its
  names. That entries are keyed by path only is no loss: every call starts its
  search at the phase of its own object (`CallsHaveLists`).
* `SortedOnce`: `SortedWithoutRepeats`. A path is entered once (`VisitedIsEntered`),
  and everything in the cache, and hence visited, is below `root`
  (`CachedIsBelow`, `VisitedIsBelow`).
* `SortedClosed`: `SortedIsClosedOrder`. When an object that no cycle is below is
  emplaced, the places its loop has passed have been visited (`PassedIsVisited`), and
  what has been visited is in the order or on the stack. The objects on the stack
  each need the next, so the former is the case (`TopIsReady`). The loop goes
  through a copy, so this needs `CopiesAreWhole` for that very object. That the
  order is complete when no cycle is below `root` follows because it is closed then
  and `Reachable` is the least closed set.
* `LaterThroughShim`: `LaterPhaseOnlyThroughShim`, from `ShimVisited`: what is found for
  an object is of no later phase than the object's own unless one of the two is a
  shim, so the first visited object of a later phase than `root`'s is a shim, or a
  shim's.

* `DepthFirstOrder`: `Spec => ImplementsDepthFirst`. What `DepthFirst` has ahead of
  it is what the running loop has left and nothing has visited (`AheadIsLeft`, from
  `PassedIsVisited`), and the loop's next place, the greatest path left, is the
  greatest path ahead unless it was visited (`NextIsGreatest`). Skipping a visited
  dependency stutters, and so does all of `getToLoad`.
* `DepthFirstFromRoot`: `Spec /\ Acyclic(fs, root) => Walk!Spec`: without a cycle below
  `root` no step is excepted, since all frames are of objects below it. The graph has
  no order of `DT_NEEDED` names, so these two are the README's "consistent across
  the same sets of files".
`Reachable` and `Acyclic` speak about all sets of files instead of paths of some
length, so none of this needs induction over data.

`LoaderProofs` proves about `Loader`, resolution included, for every set of file
systems of the type of one (`FileSystemsAssumption`) whose files are finitely many
(`FilesAreFinite`; a listing has a length only then):

* `Typing`: `LoaderSpec => []LoaderTypeOK`.
* `NoRedundant` and `InOrder`: `NoRedundantDlopen` and `DependenciesFirst`. Neither
  is inductive: inside `loadMod` one must know that a candidate which does not need
  itself is not going to be opened as its own dependency (`CandidateUnopened`), and
  that what each remaining dependency needs is either in `skip_load` or earlier
  among the remaining ones, if no cycle is below it (`RestIsClosed`). Both come
  from the resolution: while it runs, the invariant of `ResolutionProofs` holds of
  it (`Resolving`; `ResolutionBegins`, `ResolutionGoesOn`), and `TakeOrder` gets from
  that what `SortedOnce` and `SortedClosed` say of the finished order (`OrderTaken`).
  They survive both skipping the head of the list and opening it. `SkipExact` ties
  `skip_load` to the history of calls. The conjunction is `LoaderInv`, and `Inductive`
  proves it invariant, one step per action.
* `Refinement`: `LoaderSpec => ImplementsLoadOrder`. Opening steps map to `Attempt`,
  which `LoaderInv` enables, or to stuttering when an object is opened again; all
  other steps stutter.
* `Recorded`: `EveryOpenRecorded`, with an invariant of its own: the lists of
  later phases are still empty (`ListsFilledInOrder`), so moving the results of
  a phase into its list does not change the concatenation of all lists.
* `OwnList`: `InTheListOfItsPhase`, from `ListInv`, which adds to `LoaderInv` what the
  lists hold in the middle of a phase: only candidates of their own phase
  (`OnlyItsCandidates`), and every candidate of the phases that are over
  (`AllItsCandidates`). A dependency that is a candidate of an earlier phase is
  in `skip_load` by then (`NamesSkipped`), so it is not opened into a later list; one
  that is a candidate of a later phase is below the current candidate
  (`WorksOnItsPhase`), which the property excepts.

`StartupProofs` proves, for any list of different phases, any files and any
number of starts:

* `StartupTyping`: `Spec => []TypeOK`.
* `Fresh`: `NothingStale`. It holds at the moment of loading because of what the
  loop has achieved before: the phases it has passed are copies
  (`CopiedBefore`), the one it is at is empty, a part of a copy or a copy,
  depending on the step (`CopiedHere`), and a loop that ended without failure has
  passed them all (`CopiedAll`).

`LinkerPathsProofs` proves, for any directories and namespaces:

* `ImplementsStartup`: `SpecAll => Spec`, so `FreshAll` follows from the theorem of
  `StartupProofs`.
* `LinkerTyping` (with the types of `Startup`), `Covered`, `Untouched`: `LinkerTypeOK`,
  `PathsCoverPhases` and `OthersUntouched`, from an invariant that
  follows the loop of `copy_all`: the phases it has passed have a directory.

`HookSearchProofs` proves, for any memories, methods and queries:

* `SearchTyping`, `NthFound`: `TypeOK` and `FoundIsNth`. The invariant relates the
  counters to what lies behind: the places that the search has passed are
  counted as sets of pairs of a range and an address, so that ranges may
  overlap; `nToRetOn` and `retCount` are what the query asks for less the
  cardinality of those sets. That the size left is what the range still has holds of
  queries with ranges of whole instructions (`Whole`), as `FoundIsNth` does; the types
  hold of all.
* `LocationFollowsTrace`: `LocationIsTrace`, from what each of the three loops has
  established: behind the place of the backward loop there is no `bl` up to the `ret`,
  so at the first instruction only that one is left.

`ModloaderProofs` proves, for any objects, candidates, orders of dependencies (cycles
and repeats included), exports, requests and bounds, provided that no callback calls `force_unload` (`CallbacksDoNotUnload`):

* `Inductive`: the invariant `IInv`, one lemma per action. The difficulty is that
  a frame refers to a `LoadedMod` by its place in a list, and other frames assign
  lists, clear them and erase from them. What excludes a clash is the shape of
  the stack: below a frame that only the host or the game causes (`Base`) there
  are only frames that have not begun (`Fresh`, they refer to nothing), and a
  `force_unload` is alone on the stack. Hence no list is replaced, cleared or
  made shorter while a frame refers to a place in it, and every frame still
  refers to the object it was made for (`InPlace`). The shape is kept although
  `DestroyObjectHighLevel` nests, because the hook begins nothing before the
  original has returned. That each handle has one place rests on `skip_load`: what a
  phase opens as a dependency, or as a candidate, it has not opened as such before,
  and both only if the object needs itself.
* `Truthful`, `Defined`, `ListedOpen`, `ModloaderTyping`: `FlagsTruthful`,
  `NeverUndefined`, `ListedAreOpen` and `TypeOK`, from `IInv`. `Defined` is what
  `stale_slots` refutes without the assumption.
* `CalledOnce`: `CallbackOnce`. A callback is entered only when it is due, and by
  `FlagsTruthful` the flag that says so is the object's own, and for an object that
  does not need itself it is the only one.

`CallbackProofs` proves under the same assumption:

* `LoadedAfterReturn`: `LoadedMeansReturned`. The strengthening is
  `RequiresServed`: whatever callback the current phase asks of a require, the
  require either has not come to it yet, or waits for it in the frame above, or
  it has returned. A step of another frame keeps this because a frame goes away
  only from the top, and a callback that goes away has returned. The phase
  cannot change while a require is on the stack: only `OpenBegin` changes it,
  and below that frame there are only frames that have not begun.
* `Deliver` and `InOrder`: `AllDelivered` and `StagesInOrder`. Both need to know
  where the host's protocol is, which no variable says; the stack does. `Stage`
  numbers the functions that the host and the hooks put on the stack in the
  order in which they come to an end. The invariant `DInv` has four parts:
  `InStages`, that they lie on the stack in this order, each once, but for the
  original of `DestroyObjectHighLevel`, which nests; `Progress`, how far `host`,
  `hooks`, `opened` and `current_load_phase` are for what lies there; `TakeTurns`,
  that what a loop has passed has returned or is being called right now, and that
  `loadMods` takes its candidates in turn; `Deliveries`, that what is to be
  delivered is, or a loop that will is on the stack. A step inside the functions
  of the host (`Inner`) moves the stages by at most one place and adds nothing to
  a list (`Settled`, `Aside`), so only begins and ends need an argument of their
  own. `InOrder` follows for a loop from what was delivered before it began, and for
  a require from `RequiresServed`.
* `Kept`: `NothingForgotten`, where `DestroyObjectHighLevel` does not nest
  (`~DestroyNests`; with nesting it does not hold, see above). `loadMods` replaces a
  whole list, so the list must be empty then (`FilledOnce`), and the hook must run
  once (`DestroysOne`). In the middle of a phase what is open may still be among
  the results of a `loadMods` on the stack only (`Remembered`).
* `Final`: `ClosedIsFinal`, where unload functions do not call the API
  (`UnloadsCallNothing`; without that it does not hold, see above). It holds also of
  objects with two handles. `close_all` leaves in the lists what it has closed, so "no list has anything closed" is not
  invariant. `ClosedArePast` is: while something closed is listed a teardown is in
  progress, and every loop and every close on the stack is past its place. For
  this, nothing but the teardown is on the stack during a teardown
  (`TeardownAlone`), what closes all has the end of `close_all` below it
  (`TeardownClears`), a close is on top, or under the unload it has called
  (`ClosesOnTop`), and the loop that made it is one further (`LoopPast`).

`HookMemoryProofs` proves, for any hooks of mods and any depth of calls
(`HookAssumption` says only that names differ):

* `HooksInductive`: the invariant `HooksInv`. `ModHooksStay` alone is not inductive,
  since an undo replaces everything that stands at a function. The invariant
  therefore says of the hooks of the loader that are still to be undone
  (`ToBeUndone`) that their trampolines have every hook of a mod that is to stay
  (`UndoKeeps`), and who is still to be undone is known from the frames of the
  stack and from what stands at the function: a call that will reach such a hook
  through trampolines reaches one that is still to be undone (`ReachesUndone`),
  because what is behind a hook is behind all that is in front of it (`Closed`).
* `HookTyping`, `HooksOfModsStay`: `TypeOK` and `ModHooksStay`.
* `HooksWorkOnce`: `WorksOnce`. Without nested calls there is one frame of a hook at
  a time (`OneCall`), and it has been undone by the time it loads mods (`AfterUndo`).
* `MemoryAllowed`: `AccessAllowed`. Once the entry point has got past `protect_all`
  without a refusal, what is mapped is readable (`Protected`), and no step takes
  that away.

Only model-checked: that `Resolution` implements `Resolver` (it speaks about
recursive definitions over trees, about which this prover cannot reason by
induction); and the liveness properties, `HookWorks` and `Ends` among them, which
the prover does not reach. That every finite set of candidates has a listing, so that
`Open` is enabled when it is due, would need induction over finite sets and is not
proved (`OneListing` in `MC_Loader` has TLC evaluate it). Every invariant that a
passing run checks, and every other action property and refinement, is a theorem,
under the assumptions named.

## Not modelled

* `elf-utils.cpp`: pure functions over bytes. What the modloader does when they
  find nothing is in `LinkerPaths`; otherwise their results are logged.
* The layout of the linker's classes in `linker_namespaces.hpp`, and writes to
  linker memory whose page was not made writable: the layout is Android's.
* Reading of ELF files and of `/proc/self/maps`: abstracted to what is read.
* Fix-ups of instructions in trampolines (flamingo) and instruction decoding
  (capstone).
* `evalswitch`, `getTbzAddr`, `getBCondAddr`, `getMovzValue`, `getpcaddr`: without
  state and without a caller in the repository.
* The marshalling of the C API, getters, logging, the test program, build files.
* File descriptors and mappings that are not released after errors, stack and
  heap sizes, null pointers in the `CModInfo` that a `setup` leaves.
* Several threads: the code assumes one, and so does every module.

## What is left

A composition of `Loader` and `Modloader`. `Modloader` has the loops of `loadMods` and
`loadMod` once more, over constants for the candidates and for the orders of
dependencies, any of them in the theorems, cycles and repeats included. That these
are the ones that `SharedObjects` and `Resolution` give for a file system is not
stated as a theorem, so none goes from the files to the callbacks.

## Running

`tlc -config MC_Loader.cfg MC_Loader.tla`, and likewise for the other configs
(each belongs to the MC module that `PROJECT.json` names beside it);
`tlapm` with each of `ResolutionProofs.tla`, `LoaderProofs.tla`, `StartupProofs.tla`,
`LinkerPathsProofs.tla`, `HookSearchProofs.tla`, `ModloaderProofs.tla`,
`CallbackProofs.tla` and `HookMemoryProofs.tla` for the proofs.
