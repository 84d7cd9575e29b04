---------------------------- MODULE LoaderProofs ---------------------------
(***************************************************************************)
(* Theorems about Loader, for every finite set of files of every file      *)
(* system: from the names that the files need to the order of the dlopens. *)
(*                                                                         *)
(* They rest on one inductive invariant, LoaderInv.  While loadMod resolves *)
(* its dependencies it has IInv, the invariant of Resolution; what that    *)
(* says of the finished order becomes, while loadMod opens, that what the  *)
(* rest of the list needs is in skip_load or earlier in the list.          *)
(***************************************************************************)
EXTENDS Loader, ResolutionProofs, FiniteSetTheorems

-----------------------------------------------------------------------------
(* The pieces of the invariant.                                            *)

(* skip_load has no entry that was not opened, and misses none.            *)
SkipExact == skip_load = Range(dlopened)

(* loadMod always has a current candidate.                                 *)
HasCandidate ==
  /\ step \in {"resolve", "open"} => mods # <<>>
  /\ step # "idle" => current_load_phase # "None"

(* The dependencies that are resolved are those of the candidate.          *)
Resolving == step = "resolve" => IInv /\ root = Head(mods)

(* The current candidate was not opened before, and is not opened as one   *)
(* of its own dependencies unless it is one.                               *)
CandidateUnopened ==
  /\ step = "resolve" => Head(mods) \notin skip_load
  /\ step = "open" /\ Head(mods) \in skip_load \union Range(deps) => Head(mods) \in NeedsItself[fs]

(* What the rest of the list needs is attempted or earlier in the rest;    *)
(* what the candidate needs is attempted or in the rest.                   *)
RestIsClosed ==
  step = "open" =>
    /\ Requires[fs][Head(mods)] \subseteq skip_load \union Range(deps)
    /\ \A i \in DOMAIN deps : Requires[fs][deps[i]] \subseteq skip_load \union Before(deps, i)

LoaderInv ==
  /\ fs \in FileSystems
  /\ LoaderTypeOK
  /\ HasCandidate
  /\ Resolving
  /\ SkipExact
  /\ CandidateUnopened
  /\ RestIsClosed
  /\ NoRedundantDlopen
  /\ DependenciesFirst

-----------------------------------------------------------------------------
(* Sequence facts.                                                         *)

(* The part of an appended sequence before a position.                     *)
LEMMA BeforeInAppend ==
  ASSUME NEW S, NEW s \in Seq(S), NEW e \in S
  PROVE  /\ \A i \in DOMAIN s : Before(Append(s, e), i) = Before(s, i)
         /\ Before(Append(s, e), Len(s) + 1) = Range(s)
<1>1. /\ \A i \in 1..Len(s) : Append(s, e)[i] = s[i]
      /\ DOMAIN s = 1..Len(s)
      /\ Len(s) \in Nat
  BY AppendProperties, LenProperties
<1>2. ASSUME NEW i \in DOMAIN s PROVE Before(Append(s, e), i) = Before(s, i)
  <2>1. \A j \in 1..(i - 1) : j \in 1..Len(s)
    BY <1>1
  <2> QED
    BY <1>1, <2>1 DEF Before
<1>3. Before(Append(s, e), Len(s) + 1) = Range(s)
  <2>1. (Len(s) + 1) - 1 = Len(s)
    BY <1>1
  <2> QED
    BY <1>1, <2>1 DEF Before, Range
<1> QED
  BY <1>2, <1>3

(* What a sequence and its tail contain, as a whole and before a position. *)
LEMMA TailFacts ==
  ASSUME NEW S, NEW s \in Seq(S), s # <<>>
  PROVE  /\ Head(s) \in S
         /\ Head(s) = s[1]
         /\ 1 \in DOMAIN s
         /\ Tail(s) \in Seq(S)
         /\ Range(s) = {Head(s)} \union Range(Tail(s))
         /\ \A i \in DOMAIN Tail(s) :
              /\ i + 1 \in DOMAIN s
              /\ Tail(s)[i] = s[i + 1]
              /\ Before(s, i + 1) = {Head(s)} \union Before(Tail(s), i)
<1>1. /\ Head(s) \in S
      /\ Head(s) = s[1]
      /\ Tail(s) \in Seq(S)
      /\ Len(s) \in Nat \ {0}
      /\ Len(Tail(s)) = Len(s) - 1
      /\ \A i \in 1..(Len(s) - 1) : Tail(s)[i] = s[i + 1]
      /\ DOMAIN s = 1..Len(s)
      /\ DOMAIN Tail(s) = 1..(Len(s) - 1)
  BY HeadTailProperties, LenProperties, EmptySeq
<1>2. /\ 1 \in DOMAIN s
      /\ \A i \in DOMAIN Tail(s) : i + 1 \in DOMAIN s
      /\ \A j \in DOMAIN s : j = 1 \/ (j - 1 \in DOMAIN Tail(s) /\ s[j] = Tail(s)[j - 1])
  BY <1>1
<1>3. Range(s) = {Head(s)} \union Range(Tail(s))
  <2>1. ASSUME NEW j \in DOMAIN s PROVE s[j] = Head(s) \/ \E i \in DOMAIN Tail(s) : s[j] = Tail(s)[i]
    BY <1>1, <1>2
  <2>2. \A i \in DOMAIN Tail(s) : \E j \in DOMAIN s : Tail(s)[i] = s[j]
    BY <1>1, <1>2
  <2>3. ASSUME NEW x \in Range(s) PROVE x \in {Head(s)} \union Range(Tail(s))
    BY <2>1 DEF Range
  <2>4. ASSUME NEW x \in {Head(s)} \union Range(Tail(s)) PROVE x \in Range(s)
    BY <1>1, <1>2, <2>2 DEF Range
  <2> QED
    BY <2>3, <2>4
<1>4. ASSUME NEW i \in DOMAIN Tail(s)
      PROVE  Before(s, i + 1) = {Head(s)} \union Before(Tail(s), i)
  <2>1. /\ 1 \in 1..((i + 1) - 1)
        /\ \A j \in 1..(i - 1) : j + 1 \in 1..((i + 1) - 1) /\ Tail(s)[j] = s[j + 1]
    BY <1>1
  <2>2. \A j \in 1..((i + 1) - 1) : j = 1 \/ (j - 1 \in 1..(i - 1) /\ s[j] = Tail(s)[j - 1])
    BY <1>1
  <2>3. ASSUME NEW x \in Before(s, i + 1) PROVE x \in {Head(s)} \union Before(Tail(s), i)
    BY <1>1, <2>2 DEF Before
  <2>4. ASSUME NEW x \in {Head(s)} \union Before(Tail(s), i) PROVE x \in Before(s, i + 1)
    BY <1>1, <2>1 DEF Before
  <2> QED
    BY <2>3, <2>4
<1> QED
  BY <1>1, <1>2, <1>3, <1>4

-----------------------------------------------------------------------------
(* Files, listings and the resolution.                                     *)

(* The files that are there are shared objects.                            *)
LEMMA FilesAreObjects ==
  ASSUME LoaderInv
  PROVE  /\ fs.files \subseteq Object
         /\ Seq(fs.files) \subseteq Seq(Object)
<1>1. fs.files \subseteq Object
  BY DEF LoaderInv, Object
<1> QED
  BY <1>1

(* A listing is a list of files, and has the candidates of the phase.      *)
LEMMA ListingFacts ==
  ASSUME NEW fsys \in FileSystems, NEW phase, NEW list \in listAllObjectsInPhase(fsys, phase)
  PROVE  list \in Seq(fsys.files) /\ Range(list) = Candidates(fsys, phase)
<1> DEFINE candidates == Candidates(fsys, phase)
<1>1. candidates \in SUBSET fsys.files /\ IsFiniteSet(fsys.files)
  BY FilesAreFinite DEF Candidates
<1>2. Cardinality(candidates) \in Nat
  <2>1. IsFiniteSet(candidates)
    BY <1>1, FS_Subset
  <2> QED
    BY <2>1, FS_CardinalityType
<1>3. list \in [1..Cardinality(candidates) -> candidates] /\ Range(list) = candidates
  BY DEF listAllObjectsInPhase
<1>4. list \in [1..Cardinality(candidates) -> fsys.files]
  BY <1>1, <1>3
<1> HIDE DEF candidates
<1>5. list \in Seq(fsys.files)
  BY <1>2, <1>4
<1> QED
  BY <1>3, <1>5 DEF candidates

(* What Requires has of an object that is there.                           *)
LEMMA RequiresFacts ==
  ASSUME NEW fsys \in FileSystems, NEW o \in fsys.files
  PROVE  /\ Requires[fsys][o] \subseteq DirectDependencies(fsys, o)
         /\ ~Acyclic(fsys, o) => Requires[fsys][o] = {}
<1>1. o \in Object
  BY DEF Object
<1> QED
  BY <1>1 DEF Requires

(* The resolution starts with its invariant, and keeps it.                 *)
LEMMA ResolutionBegins == Init' => IInv'
BY InitIInv, PTL

LEMMA ResolutionGoesOn ==
  ASSUME IInv, Next
  PROVE  IInv' /\ fs' = fs /\ root' = root
<1>1. IInv'
  BY NextIInv
<1>2. fs' = fs /\ root' = root
  BY DEF Next, GetToLoad, GetNothing, SkipFailed, AddMissing, AddCached, AddUnreadable, Descend,
         Return, ReturnAll, SkipVisited, Visit, Emplace, Sorted
<1> QED
  BY <1>1, <1>2

(* What loadMod takes over from it.                                        *)
LEMMA OrderTaken ==
  ASSUME LoaderInv, step = "resolve", pc = "sorted"
  PROVE  /\ order \in Seq(fs.files)
         /\ calls = <<>>
         /\ sorting = <<>>
         /\ Head(mods) \in fs.files
         /\ Range(order) \subseteq Reachable(fs, Head(mods))
         /\ Requires[fs][Head(mods)] \subseteq Range(order)
         /\ \A i \in DOMAIN order : Requires[fs][order[i]] \subseteq Before(order, i)
<1>1. IInv /\ root = Head(mods) /\ fs \in FileSystems
  BY DEF LoaderInv, Resolving
<1>2. /\ order \in Seq(fs.files)
      /\ root \in fs.files
      /\ calls = <<>>
      /\ sorting = <<>>
  BY <1>1 DEF IInv, TypeOK, GetInv, Steps
<1>3. /\ Range(order) \subseteq Reachable(fs, root)
      /\ DirectDependencies(fs, root) \subseteq Range(order)
      /\ \A i \in DOMAIN order :
           Acyclic(fs, order[i]) => DirectDependencies(fs, order[i]) \subseteq Before(order, i)
  BY <1>1, OrderOnce, OrderClosed DEF SortedWithoutRepeats, SortedIsClosedOrder
<1>4. \A i \in DOMAIN order : order[i] \in fs.files
  BY <1>2, LenProperties, ElementOfSeq
<1>5. \A i \in DOMAIN order : Requires[fs][order[i]] \subseteq Before(order, i)
  BY <1>1, <1>3, <1>4, RequiresFacts
<1> QED
  BY <1>1, <1>2, <1>3, <1>5, RequiresFacts

-----------------------------------------------------------------------------
(* Steps.                                                                  *)

(* A dlopen of an object whose needs are met and that is new, unless it    *)
(* needs itself, keeps the order facts.                                    *)
LEMMA DlopenKeepsOrder ==
  ASSUME LoaderInv, NEW o \in fs.files, Dlopen(o), fs' = fs, step = "open",
         o \in skip_load => o \in NeedsItself[fs],
         Requires[fs][o] \subseteq skip_load
  PROVE  /\ skip_load' = skip_load \union {o}
         /\ skip_load' \subseteq fs.files
         /\ results' \in Seq(LoadResult)
         /\ dlopened' \in Seq(fs.files)
         /\ SkipExact'
         /\ NoRedundantDlopen'
         /\ DependenciesFirst'
<1> USE DEF LoaderInv
<1>1. /\ skip_load' = skip_load \union {o}
      /\ dlopened' = Append(dlopened, o)
      /\ dlopened \in Seq(fs.files)
      /\ dlopened' \in Seq(fs.files)
      /\ skip_load' \subseteq fs.files
  BY AppendProperties DEF Dlopen, LoaderTypeOK
<1>2. results' \in Seq(LoadResult)
  <2>1. current_load_phase \in OpenedPhases /\ o \in Object
    BY FilesAreObjects DEF LoaderTypeOK, HasCandidate
  <2>2. PICK ok \in BOOLEAN :
          results' = Append(results, [object |-> o, ok |-> ok, phase |-> current_load_phase])
    BY DEF Dlopen
  <2>3. [object |-> o, ok |-> ok, phase |-> current_load_phase] \in LoadResult
    BY <2>1 DEF LoadResult
  <2> QED
    BY <2>2, <2>3, AppendProperties DEF LoaderTypeOK
<1>3. SkipExact'
  BY <1>1, RangeOfAppend DEF SkipExact
<1>4. /\ DOMAIN dlopened' = DOMAIN dlopened \union {Len(dlopened) + 1}
      /\ \A j \in DOMAIN dlopened : dlopened'[j] = dlopened[j]
      /\ dlopened'[Len(dlopened) + 1] = o
  BY <1>1, AppendProperties, LenProperties
<1>5. NoRedundantDlopen'
  <2> SUFFICES ASSUME NEW i \in DOMAIN dlopened', NEW j \in DOMAIN dlopened',
                      i # j, dlopened'[i] = dlopened'[j]
               PROVE  dlopened'[i] \in NeedsItself[fs]
    BY DEF NoRedundantDlopen
  <2>1. CASE i \in DOMAIN dlopened /\ j \in DOMAIN dlopened
    BY <1>4, <2>1 DEF NoRedundantDlopen
  <2>2. ASSUME NEW k \in DOMAIN dlopened, dlopened[k] = o PROVE o \in NeedsItself[fs]
    BY <2>2 DEF SkipExact, Range
  <2> QED
    BY <1>4, <2>1, <2>2
<1>6. DependenciesFirst'
  <2> SUFFICES ASSUME NEW i \in DOMAIN dlopened'
               PROVE  Requires[fs][dlopened'[i]] \subseteq Before(dlopened', i)
    BY DEF DependenciesFirst
  <2>1. CASE i \in DOMAIN dlopened
    BY <1>1, <1>4, <2>1, BeforeInAppend DEF DependenciesFirst
  <2>2. CASE i = Len(dlopened) + 1
    BY <1>1, <1>4, <2>2, BeforeInAppend DEF SkipExact
  <2> QED
    BY <1>4, <2>1, <2>2
<1> QED
  BY <1>1, <1>2, <1>3, <1>5, <1>6

(* Dropping the head of deps once it is in skip_load keeps the rest closed. *)
LEMMA TailKeepsClosed ==
  ASSUME LoaderInv, deps # <<>>, deps' = Tail(deps), mods' = mods, fs' = fs, step = "open",
         step' = "open", skip_load' = skip_load \union {Head(deps)}
  PROVE  /\ deps' \in Seq(fs.files)
         /\ CandidateUnopened'
         /\ RestIsClosed'
<1> DEFINE h == Head(deps)
<1>1. /\ deps \in Seq(fs.files)
      /\ deps' \in Seq(fs.files)
      /\ Range(deps) = {h} \union Range(deps')
      /\ \A i \in DOMAIN deps' : /\ i + 1 \in DOMAIN deps
                                 /\ deps'[i] = deps[i + 1]
                                 /\ Before(deps, i + 1) = {h} \union Before(deps', i)
  BY TailFacts DEF LoaderInv, LoaderTypeOK
<1>2. /\ Head(mods) \in skip_load \union Range(deps) => Head(mods) \in NeedsItself[fs]
      /\ Requires[fs][Head(mods)] \subseteq skip_load \union Range(deps)
      /\ \A i \in DOMAIN deps : Requires[fs][deps[i]] \subseteq skip_load \union Before(deps, i)
  BY DEF LoaderInv, CandidateUnopened, RestIsClosed
<1>3. ASSUME NEW i \in DOMAIN deps'
      PROVE  Requires[fs][deps'[i]] \subseteq skip_load' \union Before(deps', i)
  BY <1>1, <1>2
<1>4. CandidateUnopened'
  BY <1>1, <1>2 DEF CandidateUnopened
<1>5. RestIsClosed'
  BY <1>1, <1>2, <1>3 DEF RestIsClosed
<1> QED
  BY <1>1, <1>4, <1>5

(* The head of deps may be opened: what it needs is in skip_load.          *)
LEMMA HeadIsReady ==
  ASSUME LoaderInv, deps # <<>>, step = "open"
  PROVE  Head(deps) \in fs.files /\ Requires[fs][Head(deps)] \subseteq skip_load
<1>1. Head(deps) = deps[1] /\ 1 \in DOMAIN deps /\ Head(deps) \in fs.files
  BY TailFacts DEF LoaderInv, LoaderTypeOK
<1>2. Before(deps, 1) = {}
  BY DEF Before
<1> QED
  BY <1>1, <1>2 DEF LoaderInv, RestIsClosed

(* So may the candidate once deps is empty.                                *)
LEMMA CandidateIsReady ==
  ASSUME LoaderInv, deps = <<>>, step = "open"
  PROVE  /\ Head(mods) \in fs.files
         /\ Tail(mods) \in Seq(fs.files)
         /\ Requires[fs][Head(mods)] \subseteq skip_load
         /\ Head(mods) \in skip_load => Head(mods) \in NeedsItself[fs]
<1>1. Head(mods) \in fs.files /\ Tail(mods) \in Seq(fs.files)
  BY TailFacts DEF LoaderInv, LoaderTypeOK, HasCandidate
<1>2. Range(deps) = {}
  BY DEF Range
<1> QED
  BY <1>1, <1>2 DEF LoaderInv, CandidateUnopened, RestIsClosed

(* LoaderInv holds initially.                                              *)
LEMMA InitLoaderInv == LoaderInit => LoaderInv
<1> SUFFICES ASSUME LoaderInit PROVE LoaderInv
  OBVIOUS
<1>1. LoaderTypeOK
  BY FileSystemsAssumption, EmptySeq DEF LoaderInit, LoaderTypeOK
<1>2. Range(dlopened) = {} /\ DOMAIN dlopened = {}
  BY DEF LoaderInit, Range
<1> QED
  BY <1>1, <1>2 DEF LoaderInit, LoaderInv, HasCandidate, Resolving, SkipExact, CandidateUnopened,
                    RestIsClosed, NoRedundantDlopen, DependenciesFirst

(* A step that leaves what was opened alone keeps what is said of it.      *)
LEMMA OpenedKept ==
  ASSUME LoaderInv, fs' = fs, skip_load' = skip_load, dlopened' = dlopened
  PROVE  SkipExact' /\ NoRedundantDlopen' /\ DependenciesFirst'
BY DEF LoaderInv, SkipExact, NoRedundantDlopen, DependenciesFirst

(* Outside the resolution its variables have their initial values.         *)
LEMMA FreshKept ==
  ASSUME LoaderInv, step # "resolve", UNCHANGED vars
  PROVE  Fresh' /\ fs' = fs
BY DEF LoaderInv, LoaderTypeOK, Fresh, vars

(* LoaderInv is inductive: one step for each action.                       *)
LEMMA NextLoaderInv == LoaderInv /\ [LoaderNext]_<<vars, loaderVars>> => LoaderInv'
<1> SUFFICES ASSUME LoaderInv, [LoaderNext]_<<vars, loaderVars>> PROVE LoaderInv'
  OBVIOUS
<1> USE DEF LoaderInv
<1>1. ASSUME NEW phase \in OpenedPhases, Open(phase) PROVE LoaderInv'
  <2>1. Fresh' /\ fs' = fs
    BY <1>1, FreshKept DEF Open
  <2>2. LoaderTypeOK'
    <3>1. mods' \in Seq(fs.files)
      BY <1>1, ListingFacts DEF Open
    <3> QED
      BY <1>1, <2>1, <3>1 DEF Open, LoaderTypeOK
  <2>3. HasCandidate'
    BY <1>1 DEF Open, HasCandidate, OpenedPhases
  <2>4. SkipExact' /\ NoRedundantDlopen' /\ DependenciesFirst'
    BY <1>1, <2>1, OpenedKept DEF Open
  <2> QED
    BY <1>1, <2>1, <2>2, <2>3, <2>4 DEF Open, Resolving, CandidateUnopened, RestIsClosed
<1>2. CASE SkipMod
  <2>1. Fresh' /\ fs' = fs
    BY <1>2, FreshKept DEF SkipMod
  <2>2. LoaderTypeOK'
    BY <1>2, <2>1, TailFacts DEF SkipMod, LoaderTypeOK
  <2>3. SkipExact' /\ NoRedundantDlopen' /\ DependenciesFirst'
    BY <1>2, <2>1, OpenedKept DEF SkipMod
  <2> QED
    BY <1>2, <2>1, <2>2, <2>3 DEF SkipMod, HasCandidate, Resolving, CandidateUnopened, RestIsClosed
<1>3. CASE LoadMod
  <2>1. fs' = fs /\ Head(mods) \in fs.files
    BY <1>3, TailFacts DEF LoadMod, LoaderTypeOK
  <2>2. IInv'
    <3>1. Fresh
      BY <1>3 DEF LoadMod, LoaderTypeOK
    <3>2. Init'
      BY <1>3, <2>1, <3>1 DEF LoadMod, Fresh, Init
    <3> QED
      BY <3>2, ResolutionBegins
  <2>3. LoaderTypeOK'
    <3>1. TypeOK'
      BY <2>2 DEF IInv
    <3> QED
      BY <1>3, <2>1, <3>1 DEF LoadMod, LoaderTypeOK
  <2>4. Resolving' /\ HasCandidate'
    BY <1>3, <2>2 DEF LoadMod, Resolving, HasCandidate
  <2>5. SkipExact' /\ NoRedundantDlopen' /\ DependenciesFirst'
    BY <1>3, <2>1, OpenedKept DEF LoadMod
  <2>6. CandidateUnopened' /\ RestIsClosed'
    BY <1>3 DEF LoadMod, CandidateUnopened, RestIsClosed
  <2> QED
    BY <2>1, <2>3, <2>4, <2>5, <2>6
<1>4. CASE Resolve
  <2>1. IInv' /\ fs' = fs /\ root' = root
    BY <1>4, ResolutionGoesOn DEF Resolve, Resolving
  <2>2. UNCHANGED loaderVars /\ step = "resolve"
    BY <1>4 DEF Resolve
  <2>3. LoaderTypeOK'
    <3>1. TypeOK'
      BY <2>1 DEF IInv
    <3> QED
      BY <2>1, <2>2, <3>1 DEF loaderVars, LoaderTypeOK
  <2>4. Resolving' /\ HasCandidate'
    BY <2>1, <2>2 DEF loaderVars, Resolving, HasCandidate
  <2>5. SkipExact' /\ NoRedundantDlopen' /\ DependenciesFirst'
    BY <2>1, <2>2, OpenedKept DEF loaderVars
  <2>6. CandidateUnopened' /\ RestIsClosed'
    BY <2>2 DEF loaderVars, CandidateUnopened, RestIsClosed
  <2> QED
    BY <2>1, <2>3, <2>4, <2>5, <2>6
<1>5. CASE TakeOrder
  <2>1. /\ order \in Seq(fs.files)
        /\ calls = <<>>
        /\ sorting = <<>>
        /\ Head(mods) \in fs.files
        /\ Range(order) \subseteq Reachable(fs, Head(mods))
        /\ Requires[fs][Head(mods)] \subseteq Range(order)
        /\ \A i \in DOMAIN order : Requires[fs][order[i]] \subseteq Before(order, i)
    BY <1>5, OrderTaken DEF TakeOrder
  <2>2. fs' = fs /\ Fresh'
    BY <1>5, <2>1 DEF TakeOrder, Fresh
  <2>3. LoaderTypeOK'
    BY <1>5, <2>1, <2>2 DEF TakeOrder, LoaderTypeOK
  <2>4. Resolving' /\ HasCandidate'
    BY <1>5 DEF TakeOrder, Resolving, HasCandidate
  <2>5. SkipExact' /\ NoRedundantDlopen' /\ DependenciesFirst'
    BY <1>5, <2>2, OpenedKept DEF TakeOrder
  <2>6. CandidateUnopened'
    BY <1>5, <2>1, <2>2 DEF TakeOrder, CandidateUnopened, NeedsItself
  <2>7. RestIsClosed'
    BY <1>5, <2>1, <2>2 DEF TakeOrder, RestIsClosed
  <2> QED
    BY <2>2, <2>3, <2>4, <2>5, <2>6, <2>7
<1>6. CASE SkipDependency
  <2>1. Fresh' /\ fs' = fs
    BY <1>6, FreshKept DEF SkipDependency
  <2>2. skip_load' = skip_load \union {Head(deps)}
    BY <1>6 DEF SkipDependency
  <2>3. deps' \in Seq(fs.files) /\ CandidateUnopened' /\ RestIsClosed'
    BY <1>6, <2>1, <2>2, TailKeepsClosed DEF SkipDependency
  <2>4. LoaderTypeOK'
    BY <1>6, <2>1, <2>3 DEF SkipDependency, LoaderTypeOK
  <2>5. SkipExact' /\ NoRedundantDlopen' /\ DependenciesFirst'
    BY <1>6, <2>1, OpenedKept DEF SkipDependency
  <2> QED
    BY <1>6, <2>1, <2>3, <2>4, <2>5 DEF SkipDependency, HasCandidate, Resolving
<1>7. CASE OpenDependency
  <2>1. Fresh' /\ fs' = fs
    BY <1>7, FreshKept DEF OpenDependency
  <2>2. /\ skip_load' = skip_load \union {Head(deps)}
        /\ skip_load' \subseteq fs.files
        /\ results' \in Seq(LoadResult)
        /\ dlopened' \in Seq(fs.files)
        /\ SkipExact'
        /\ NoRedundantDlopen'
        /\ DependenciesFirst'
    BY <1>7, <2>1, HeadIsReady, DlopenKeepsOrder DEF OpenDependency
  <2>3. deps' \in Seq(fs.files) /\ CandidateUnopened' /\ RestIsClosed'
    BY <1>7, <2>1, <2>2, TailKeepsClosed DEF OpenDependency
  <2>4. LoaderTypeOK'
    BY <1>7, <2>1, <2>2, <2>3 DEF OpenDependency, LoaderTypeOK
  <2> QED
    BY <1>7, <2>1, <2>2, <2>3, <2>4 DEF OpenDependency, HasCandidate, Resolving
<1>8. CASE OpenMod
  <2>1. Fresh' /\ fs' = fs
    BY <1>8, FreshKept DEF OpenMod
  <2>2. /\ skip_load' \subseteq fs.files
        /\ results' \in Seq(LoadResult)
        /\ dlopened' \in Seq(fs.files)
        /\ SkipExact'
        /\ NoRedundantDlopen'
        /\ DependenciesFirst'
    BY <1>8, <2>1, CandidateIsReady, DlopenKeepsOrder DEF OpenMod
  <2>3. LoaderTypeOK'
    BY <1>8, <2>1, <2>2, CandidateIsReady DEF OpenMod, LoaderTypeOK
  <2> QED
    BY <1>8, <2>1, <2>2, <2>3 DEF OpenMod, HasCandidate, Resolving, CandidateUnopened, RestIsClosed
<1>9. CASE Finish
  <2>1. Fresh' /\ fs' = fs
    BY <1>9, FreshKept DEF Finish
  <2>2. current_load_phase \in OpenedPhases
    BY <1>9 DEF Finish, LoaderTypeOK, HasCandidate
  <2>3. LoaderTypeOK'
    BY <1>9, <2>1, <2>2, EmptySeq DEF Finish, LoaderTypeOK
  <2>4. SkipExact' /\ NoRedundantDlopen' /\ DependenciesFirst'
    BY <1>9, <2>1, OpenedKept DEF Finish
  <2> QED
    BY <1>9, <2>1, <2>3, <2>4 DEF Finish, HasCandidate, Resolving, CandidateUnopened, RestIsClosed
<1>10. CASE UNCHANGED <<vars, loaderVars>>
  <2>1. UNCHANGED vars /\ UNCHANGED loaderVars /\ fs' = fs /\ root' = root
    BY <1>10 DEF vars
  <2>2. step = "resolve" => IInv'
    <3>1. [Next]_vars
      BY <2>1
    <3> QED
      BY <3>1, NextIInv DEF Resolving
  <2>3. step # "resolve" => Fresh'
    BY <2>1, FreshKept
  <2>4. LoaderTypeOK'
    <3>1. step = "resolve" => TypeOK'
      BY <2>2 DEF IInv
    <3> QED
      BY <2>1, <2>3, <3>1 DEF loaderVars, LoaderTypeOK
  <2>5. SkipExact' /\ NoRedundantDlopen' /\ DependenciesFirst'
    BY <2>1, OpenedKept DEF loaderVars
  <2>6. HasCandidate' /\ Resolving' /\ CandidateUnopened' /\ RestIsClosed'
    BY <2>1, <2>2 DEF loaderVars, HasCandidate, Resolving, CandidateUnopened, RestIsClosed
  <2> QED
    BY <2>1, <2>4, <2>5, <2>6
<1> QED
  BY <1>1, <1>2, <1>3, <1>4, <1>5, <1>6, <1>7, <1>8, <1>9, <1>10 DEF LoaderNext

-----------------------------------------------------------------------------
(* Theorems.                                                               *)

(* LoaderInv holds in every reachable state.                               *)
THEOREM Inductive == LoaderSpec => []LoaderInv
BY InitLoaderInv, NextLoaderInv, PTL DEF LoaderSpec

(* The variables of loadMods and loadMod, the three lists and skip_load     *)
(* always have their types, those of getToLoad and topologicalSort for     *)
(* every candidate.                                                        *)
THEOREM Typing == LoaderSpec => []LoaderTypeOK
BY Inductive, PTL DEF LoaderInv

(* loadMod and loadMods hand no object to dlopen twice, over all phases,    *)
(* but one that needs itself.                                              *)
THEOREM NoRedundant == LoaderSpec => []NoRedundantDlopen
BY Inductive, PTL DEF LoaderInv

(* Whatever needs an object is handed to dlopen after it, over all phases,  *)
(* unless a cycle of DT_NEEDED entries is below what needs it.             *)
THEOREM InOrder == LoaderSpec => []DependenciesFirst
BY Inductive, PTL DEF LoaderInv

(* The files do not change.                                                *)
LEMMA FilesFixed ==
  ASSUME LoaderInv, [LoaderNext]_<<vars, loaderVars>>
  PROVE  fs' = fs
<1>1. CASE Resolve
  BY <1>1, ResolutionGoesOn DEF Resolve, LoaderInv, Resolving
<1>2. CASE TakeOrder \/ LoadMod
  BY <1>2 DEF TakeOrder, LoadMod
<1>3. CASE \/ \E phase \in OpenedPhases : Open(phase)
           \/ SkipMod \/ SkipDependency \/ OpenDependency \/ OpenMod \/ Finish
           \/ UNCHANGED <<vars, loaderVars>>
  BY <1>3 DEF Open, SkipMod, SkipDependency, OpenDependency, OpenMod, Finish, vars
<1> QED
  BY <1>1, <1>2, <1>3 DEF LoaderNext

(* The steps between two dlopen calls of a phase.                          *)
Between ==
  SkipMod \/ LoadMod \/ Resolve \/ TakeOrder \/ SkipDependency \/ UNCHANGED <<vars, loaderVars>>

(* They only move on.                                                      *)
LEMMA BetweenDlopens ==
  ASSUME Between
  PROVE  /\ UNCHANGED <<current_load_phase, opened, loaded, skip_load, results, dlopened>>
         /\ step' = "idle" <=> step = "idle"
BY DEF Between, SkipMod, LoadMod, Resolve, TakeOrder, SkipDependency, loaderVars

(* A step of the loader leaves skip_load alone or adds one object that was  *)
(* not in it and whose requirements are.                                    *)
LEMMA StepOfOrder ==
  LoaderInv /\ [LoaderNext]_<<vars, loaderVars>> => [LoadingOrder!Next]_(LoadingOrder!vars)
<1> SUFFICES ASSUME LoaderInv, [LoaderNext]_<<vars, loaderVars>>
             PROVE  [LoadingOrder!Next]_(LoadingOrder!vars)
  OBVIOUS
<1>1. Requires[fs]' = Requires[fs]
  BY FilesFixed DEF Requires
<1>2. ASSUME NEW o \in fs.files, Dlopen(o), Requires[fs][o] \subseteq skip_load
      PROVE  LoadingOrder!Next \/ skip_load' = skip_load
  BY <1>1, <1>2, FilesAreObjects DEF Dlopen, LoadingOrder!Next, LoadingOrder!Attempt
<1>3. CASE OpenDependency
  BY <1>1, <1>2, <1>3, HeadIsReady DEF OpenDependency, LoadingOrder!vars
<1>4. CASE OpenMod
  BY <1>1, <1>2, <1>4, CandidateIsReady DEF OpenMod, LoadingOrder!vars
<1>5. CASE Between
  BY <1>1, <1>5, BetweenDlopens DEF LoadingOrder!vars
<1>6. CASE (\E phase \in OpenedPhases : Open(phase)) \/ Finish
  BY <1>1, <1>6 DEF Open, Finish, LoadingOrder!vars
<1> QED
  BY <1>3, <1>4, <1>5, <1>6 DEF LoaderNext, Between

(* The dlopen calls of the loader implement LoadOrder: over all phases each *)
(* object is attempted at most once in skip_load, and after what it needs.  *)
THEOREM Refinement == LoaderSpec => ImplementsLoadOrder
<1>1. LoaderInit => LoadingOrder!Init
  <2> SUFFICES ASSUME LoaderInit PROVE LoadingOrder!Init
    OBVIOUS
  <2>1. ASSUME NEW o \in fs.files PROVE DirectDependencies(fs, o) \subseteq Object
    BY DEF LoaderInit, Object, DirectDependencies
  <2>2. Requires[fs] \in [Object -> SUBSET Object]
    BY <2>1 DEF LoaderInit, Requires
  <2> QED
    BY <2>2 DEF LoaderInit, LoadingOrder!Init
<1> QED
  BY <1>1, StepOfOrder, Inductive, PTL DEF LoaderSpec, ImplementsLoadOrder, LoadingOrder!Spec

-----------------------------------------------------------------------------
(* The lists of results.                                                   *)

(* The phases after the current one have no results yet, nor has the        *)
(* current one before loadMods returns; between phases there are none       *)
(* pending.                                                                 *)
ListsFilledInOrder ==
  /\ \A p \in OpenedPhases :
       PhaseRank[p] > PhaseRank[current_load_phase] \/ (p = current_load_phase /\ step # "idle")
         => loaded[p] = <<>>
  /\ step = "idle" => results = <<>>

(* The objects of a list of results are a sequence of the same length.     *)
LEMMA ObjectsTyped ==
  ASSUME NEW s \in Seq(LoadResult)
  PROVE  Objects(s) \in Seq(Object) /\ Len(Objects(s)) = Len(s)
<1>1. /\ s \in [1..Len(s) -> LoadResult]
      /\ Len(s) \in Nat
      /\ DOMAIN s = 1..Len(s)
      /\ \A i \in 1..Len(s) : s[i] \in LoadResult
  BY LenProperties, ElementOfSeq
<1>2. \A i \in 1..Len(s) : s[i].object \in Object
  BY <1>1 DEF LoadResult
<1> QED
  BY <1>1, <1>2, LenProperties DEF Objects

(* Appending a result appends its object.                                  *)
LEMMA ObjectsOfAppend ==
  ASSUME NEW s \in Seq(LoadResult), NEW r \in LoadResult
  PROVE  Objects(Append(s, r)) = Append(Objects(s), r.object)
<1>1. /\ DOMAIN s = 1..Len(s)
      /\ Len(s) \in Nat
      /\ Objects(s) \in Seq(Object)
      /\ Len(Objects(s)) = Len(s)
  BY LenProperties, ObjectsTyped
<1>2. /\ DOMAIN Append(s, r) = 1..(Len(s) + 1)
      /\ \A i \in 1..Len(s) : Append(s, r)[i] = s[i]
      /\ Append(s, r)[Len(s) + 1] = r
  BY <1>1, AppendProperties, LenProperties
<1>3. r.object \in Object
  BY DEF LoadResult
<1>4. Append(Objects(s), r.object) = [i \in 1..(Len(s) + 1) |-> Append(s, r)[i].object]
  BY <1>1, <1>2, <1>3, AppendProperties DEF Objects
<1> QED
  BY <1>2, <1>4 DEF Objects

(* No results, no objects.                                                 *)
LEMMA ObjectsOfEmpty == Objects(<<>>) = <<>>
BY DEF Objects

(* Appending to the last part appends to the whole.                        *)
LEMMA ConcatAppend ==
  \A u, t \in Seq(Object), e \in Object : u \o Append(t, e) = Append(u \o t, e)
<1> TAKE u, t \in Seq(Object), e \in Object
<1>1. /\ <<e>> \in Seq(Object)
      /\ Append(t, e) = t \o <<e>>
      /\ u \o t \in Seq(Object)
      /\ Append(u \o t, e) = (u \o t) \o <<e>>
  BY AppendIsConcat, ConcatProperties
<1> QED
  BY <1>1, ConcatAssociative

(* A dlopen call adds the object at the end of dlopened and of results.    *)
LEMMA DlopenIsRecorded ==
  ASSUME LoaderInv, EveryOpenRecorded, NEW o \in Object, Dlopen(o), loaded' = loaded, step = "open"
  PROVE  EveryOpenRecorded'
<1>1. current_load_phase \in OpenedPhases
  BY DEF LoaderInv, LoaderTypeOK, HasCandidate
<1>2. PICK r \in LoadResult : results' = Append(results, r) /\ r.object = o
  <2>1. PICK ok \in BOOLEAN :
          results' = Append(results, [object |-> o, ok |-> ok, phase |-> current_load_phase])
    BY DEF Dlopen
  <2>2. [object |-> o, ok |-> ok, phase |-> current_load_phase] \in LoadResult
    BY <1>1 DEF LoadResult
  <2> QED
    BY <2>1, <2>2
<1>3. Objects(results') = Append(Objects(results), o)
  BY <1>2, ObjectsOfAppend DEF LoaderInv, LoaderTypeOK
<1>4. /\ Objects(loaded["Libs"]) \in Seq(Object)
      /\ Objects(loaded["EarlyMods"]) \in Seq(Object)
      /\ Objects(loaded["Mods"]) \in Seq(Object)
      /\ Objects(results) \in Seq(Object)
  BY ObjectsTyped DEF LoaderInv, LoaderTypeOK, OpenedPhases
<1>5. dlopened' = Append(dlopened, o)
  BY DEF Dlopen
<1> DEFINE a == Objects(loaded["Libs"])
           b == Objects(loaded["EarlyMods"])
           c == Objects(loaded["Mods"])
           t == Objects(results)
<1>6. a \o b \o c \o t = dlopened
  BY DEF EveryOpenRecorded
<1>7. a \o b \o c \o Append(t, o) = Append(a \o b \o c \o t, o)
  <2>1. a \o b \o c \in Seq(Object) /\ t \in Seq(Object)
    BY <1>4, ConcatProperties
  <2> QED
    BY <2>1, ConcatAppend, Zenon
<1>8. a \o b \o c \o Append(t, o) = dlopened'
  BY <1>5, <1>6, <1>7
<1> QED
  BY <1>3, <1>8 DEF EveryOpenRecorded

(* An empty sequence among four may stand anywhere.                        *)
LEMMA MoveEmpty ==
  ASSUME NEW S, NEW a \in Seq(S), NEW b \in Seq(S), NEW t \in Seq(S)
  PROVE  /\ <<>> \o <<>> \o <<>> \o t = t \o <<>> \o <<>> \o <<>>
         /\ a \o <<>> \o <<>> \o t = a \o t \o <<>> \o <<>>
         /\ a \o b \o <<>> \o t = a \o b \o t \o <<>>
<1>1. /\ <<>> \in Seq(S)
      /\ a \o b \in Seq(S)
      /\ a \o t \in Seq(S)
      /\ (a \o b) \o t \in Seq(S)
  BY EmptySeq, ConcatProperties
<1>2. \A s \in Seq(S) : s \o <<>> = s /\ <<>> \o s = s
  BY ConcatEmptySeq
<1> QED
  BY <1>1, <1>2

(* When a phase finishes, its results move to a list that was empty, with   *)
(* nothing but empty lists after it.                                        *)
LEMMA FinishIsRecorded ==
  ASSUME LoaderInv, ListsFilledInOrder, EveryOpenRecorded, Finish
  PROVE  EveryOpenRecorded'
<1>1. /\ current_load_phase \in OpenedPhases
      /\ loaded' = [loaded EXCEPT ![current_load_phase] = results]
      /\ results' = <<>>
      /\ dlopened' = dlopened
      /\ loaded \in [OpenedPhases -> Seq(LoadResult)]
  BY DEF Finish, LoaderInv, LoaderTypeOK, HasCandidate
<1>2. /\ Objects(loaded["Libs"]) \in Seq(Object)
      /\ Objects(loaded["EarlyMods"]) \in Seq(Object)
      /\ Objects(loaded["Mods"]) \in Seq(Object)
      /\ Objects(results) \in Seq(Object)
      /\ <<>> \in Seq(Object)
  BY ObjectsTyped, EmptySeq DEF LoaderInv, LoaderTypeOK, OpenedPhases
<1>3. \A p \in OpenedPhases :
        PhaseRank[p] > PhaseRank[current_load_phase] \/ p = current_load_phase
          => Objects(loaded[p]) = <<>>
  BY ObjectsOfEmpty DEF Finish, ListsFilledInOrder
<1>4. CASE current_load_phase = "Libs"
  <2>1. /\ Objects(loaded["Libs"]) = <<>>
        /\ Objects(loaded["EarlyMods"]) = <<>>
        /\ Objects(loaded["Mods"]) = <<>>
    BY <1>3, <1>4 DEF OpenedPhases, PhaseRank
  <2>2. /\ Objects(loaded'["Libs"]) = Objects(results)
        /\ Objects(loaded'["EarlyMods"]) = <<>>
        /\ Objects(loaded'["Mods"]) = <<>>
        /\ Objects(results') = <<>>
    BY <1>1, <1>4, <2>1, ObjectsOfEmpty DEF OpenedPhases
  <2> QED
    BY <1>1, <1>2, <2>1, <2>2, MoveEmpty DEF EveryOpenRecorded
<1>5. CASE current_load_phase = "EarlyMods"
  <2>1. /\ Objects(loaded["EarlyMods"]) = <<>>
        /\ Objects(loaded["Mods"]) = <<>>
    BY <1>3, <1>5 DEF OpenedPhases, PhaseRank
  <2>2. /\ Objects(loaded'["Libs"]) = Objects(loaded["Libs"])
        /\ Objects(loaded'["EarlyMods"]) = Objects(results)
        /\ Objects(loaded'["Mods"]) = <<>>
        /\ Objects(results') = <<>>
    BY <1>1, <1>5, <2>1, ObjectsOfEmpty DEF OpenedPhases
  <2> QED
    BY <1>1, <1>2, <2>1, <2>2, MoveEmpty DEF EveryOpenRecorded
<1>6. CASE current_load_phase = "Mods"
  <2>1. Objects(loaded["Mods"]) = <<>>
    BY <1>3, <1>6 DEF OpenedPhases, PhaseRank
  <2>2. /\ Objects(loaded'["Libs"]) = Objects(loaded["Libs"])
        /\ Objects(loaded'["EarlyMods"]) = Objects(loaded["EarlyMods"])
        /\ Objects(loaded'["Mods"]) = Objects(results)
        /\ Objects(results') = <<>>
    BY <1>1, <1>6, <2>1, ObjectsOfEmpty DEF OpenedPhases
  <2> QED
    BY <1>1, <1>2, <2>1, <2>2, MoveEmpty DEF EveryOpenRecorded
<1> QED
  BY <1>1, <1>4, <1>5, <1>6 DEF OpenedPhases

(* ListsFilledInOrder is kept by every step.                               *)
LEMMA NextFilled ==
  LoaderInv /\ ListsFilledInOrder /\ [LoaderNext]_<<vars, loaderVars>> => ListsFilledInOrder'
<1> SUFFICES ASSUME LoaderInv, ListsFilledInOrder, [LoaderNext]_<<vars, loaderVars>>
             PROVE  ListsFilledInOrder'
  OBVIOUS
<1>1. ASSUME NEW phase \in OpenedPhases, Open(phase) PROVE ListsFilledInOrder'
  <2>1. /\ PhaseRank[current_load_phase'] > PhaseRank[current_load_phase]
        /\ loaded' = loaded /\ results' = results /\ step' # "idle"
    BY <1>1 DEF Open, LoaderInv, LoaderTypeOK, OpenedPhases, NextPhase, PhaseRank
  <2>2. /\ PhaseRank[current_load_phase] \in Nat
        /\ PhaseRank[current_load_phase'] \in Nat
        /\ \A p \in OpenedPhases : PhaseRank[p] \in Nat
    BY <1>1 DEF Open, LoaderInv, LoaderTypeOK, OpenedPhases, PhaseRank
  <2> QED
    BY <1>1, <2>1, <2>2 DEF Open, ListsFilledInOrder
<1>2. CASE OpenDependency
  BY <1>2 DEF OpenDependency, ListsFilledInOrder
<1>3. CASE OpenMod
  BY <1>3 DEF OpenMod, ListsFilledInOrder
<1>4. CASE Finish
  BY <1>4 DEF Finish, ListsFilledInOrder, LoaderInv, LoaderTypeOK, OpenedPhases, PhaseRank, HasCandidate
<1>5. CASE Between
  BY <1>5, BetweenDlopens DEF ListsFilledInOrder
<1> QED
  BY <1>1, <1>2, <1>3, <1>4, <1>5 DEF LoaderNext, Between

(* Every object handed to dlopen is in exactly one place of the lists, in   *)
(* the order of the calls.                                                  *)
THEOREM Recorded == LoaderSpec => []EveryOpenRecorded
<1> DEFINE Inv == LoaderInv /\ ListsFilledInOrder /\ EveryOpenRecorded
<1>1. LoaderInit => Inv
  <2> SUFFICES ASSUME LoaderInit PROVE ListsFilledInOrder /\ EveryOpenRecorded
    BY InitLoaderInv
  <2>1. ListsFilledInOrder
    BY DEF LoaderInit, ListsFilledInOrder
  <2>2. <<>> \o <<>> \o <<>> \o <<>> = <<>>
    OBVIOUS
  <2> QED
    BY <2>1, <2>2, ObjectsOfEmpty DEF LoaderInit, EveryOpenRecorded, OpenedPhases
<1>2. Inv /\ [LoaderNext]_<<vars, loaderVars>> => Inv'
  <2> SUFFICES ASSUME Inv, [LoaderNext]_<<vars, loaderVars>> PROVE EveryOpenRecorded'
    BY NextLoaderInv, NextFilled
  <2>1. CASE \E phase \in OpenedPhases : Open(phase)
    BY <2>1 DEF Open, EveryOpenRecorded
  <2>2. CASE OpenDependency
    <3>1. Head(deps) \in Object
      BY <2>2, HeadIsReady, FilesAreObjects DEF OpenDependency
    <3> QED
      BY <2>2, <3>1, DlopenIsRecorded DEF OpenDependency
  <2>3. CASE OpenMod
    <3>1. Head(mods) \in Object
      BY <2>3, CandidateIsReady, FilesAreObjects DEF OpenMod
    <3> QED
      BY <2>3, <3>1, DlopenIsRecorded DEF OpenMod
  <2>4. CASE Finish
    BY <2>4, FinishIsRecorded
  <2>5. CASE Between
    BY <2>5, BetweenDlopens DEF EveryOpenRecorded
  <2> QED
    BY <2>1, <2>2, <2>3, <2>4, <2>5 DEF LoaderNext, Between
<1> QED
  BY <1>1, <1>2, PTL DEF LoaderSpec

-----------------------------------------------------------------------------
(* The list of each candidate.                                             *)

(* The objects that a list of results names.                               *)
Named(list) == Range(Objects(list))

(* The phases that loadMods is done with.                                  *)
Done(p) ==
  \/ PhaseRank[p] < PhaseRank[current_load_phase]
  \/ p = current_load_phase /\ step = "idle"

(* loadMods works on candidates of its phase, and loadMod on what is below  *)
(* the candidate.                                                          *)
WorksOnItsPhase ==
  /\ opened \subseteq {p \in OpenedPhases : Done(p)}
  /\ step # "idle" => Range(mods) \subseteq Candidates(fs, current_load_phase)
  /\ step = "open" => Range(deps) \subseteq Reachable(fs, Head(mods))

(* The lists name what was opened and nothing else.                        *)
NamesSkipped == skip_load = Named(results) \union UNION {Named(loaded[q]) : q \in OpenedPhases}

(* No list names a candidate of another phase, unless an earlier phase      *)
(* needs it.                                                               *)
OnlyItsCandidates ==
  \A p \in OpenedPhases : \A o \in UnneededBefore[fs][p] :
    /\ \A q \in OpenedPhases : o \in Named(loaded[q]) => q = p
    /\ o \in Named(results) => p = current_load_phase

(* With the same proviso the list of a finished phase names all its        *)
(* candidates, and the results of the current one those that loadMods has  *)
(* gone past.                                                              *)
AllItsCandidates ==
  /\ \A p \in OpenedPhases : Done(p) => UnneededBefore[fs][p] \subseteq Named(loaded[p])
  /\ step # "idle" =>
       UnneededBefore[fs][current_load_phase] \subseteq Named(results) \union Range(mods)

ListInv ==
  /\ LoaderInv
  /\ ListsFilledInOrder
  /\ WorksOnItsPhase
  /\ NamesSkipped
  /\ OnlyItsCandidates
  /\ AllItsCandidates

(* The ranks order the phases.                                             *)
LEMMA Ranks ==
  /\ \A p \in {"None"} \union OpenedPhases : PhaseRank[p] \in Nat
  /\ \A p, q \in OpenedPhases : PhaseRank[p] = PhaseRank[q] => p = q
BY DEF PhaseRank, OpenedPhases

(* The phases before the next one are the current one and those before it. *)
LEMMA NextRank ==
  ASSUME NEW p \in {"None"} \union OpenedPhases, p # "Mods", NEW r \in OpenedPhases
  PROVE  PhaseRank[r] < PhaseRank[NextPhase[p]] <=> PhaseRank[r] < PhaseRank[p] \/ r = p
<1>1. CASE p = "None"
  BY <1>1 DEF PhaseRank, OpenedPhases, NextPhase
<1>2. CASE p = "Libs"
  BY <1>2 DEF PhaseRank, OpenedPhases, NextPhase
<1>3. CASE p = "EarlyMods"
  BY <1>3 DEF PhaseRank, OpenedPhases, NextPhase
<1> QED
  BY <1>1, <1>2, <1>3 DEF OpenedPhases

(* A candidate that no earlier phase needs, next to any candidate e.        *)
LEMMA UnneededFacts ==
  ASSUME NEW fsys \in FileSystems, NEW p \in OpenedPhases, NEW o \in UnneededBefore[fsys][p],
         NEW q \in OpenedPhases, NEW e \in Candidates(fsys, q)
  PROVE  /\ o \in Candidates(fsys, p)
         /\ o = e => q = p
         /\ o \in Reachable(fsys, e) => ~(PhaseRank[q] < PhaseRank[p])
<1>1. o \in Unneeded(fsys, p)
  BY DEF UnneededBefore
<1> QED
  BY <1>1 DEF Unneeded, Candidates

(* No results name no objects.                                             *)
LEMMA NamedEmpty == Named(<<>>) = {}
BY ObjectsOfEmpty DEF Named, Range

(* A dlopen call adds the object to what the results name.                 *)
LEMMA DlopenIsNamed ==
  ASSUME LoaderInv, NEW o \in Object, Dlopen(o), step = "open"
  PROVE  Named(results') = Named(results) \union {o}
<1>1. current_load_phase \in OpenedPhases
  BY DEF LoaderInv, LoaderTypeOK, HasCandidate
<1>2. PICK r \in LoadResult : results' = Append(results, r) /\ r.object = o
  <2>1. PICK ok \in BOOLEAN :
          results' = Append(results, [object |-> o, ok |-> ok, phase |-> current_load_phase])
    BY DEF Dlopen
  <2>2. [object |-> o, ok |-> ok, phase |-> current_load_phase] \in LoadResult
    BY <1>1 DEF LoadResult
  <2> QED
    BY <2>1, <2>2
<1>3. /\ Objects(results') = Append(Objects(results), o)
      /\ Objects(results) \in Seq(Object)
  BY <1>2, ObjectsOfAppend, ObjectsTyped DEF LoaderInv, LoaderTypeOK
<1> QED
  BY <1>3, RangeOfAppend DEF Named

(* What loadMod opens is no candidate of another phase, with the proviso.   *)
LEMMA OpenedIsConfined ==
  ASSUME ListInv, step = "open", NEW o,
         \/ o = Head(mods)
         \/ o \in Range(deps) /\ o \notin skip_load,
         NEW p \in OpenedPhases, o \in UnneededBefore[fs][p]
  PROVE  p = current_load_phase
<1>1. /\ current_load_phase \in OpenedPhases
      /\ Head(mods) \in Candidates(fs, current_load_phase)
      /\ fs \in FileSystems
  BY TailFacts DEF ListInv, LoaderInv, LoaderTypeOK, HasCandidate, WorksOnItsPhase
<1>2. CASE o = Head(mods)
  BY <1>1, <1>2, UnneededFacts
<1>3. CASE o \in Range(deps) /\ o \notin skip_load
  <2>1. ~(PhaseRank[current_load_phase] < PhaseRank[p])
    <3>1. o \in Reachable(fs, Head(mods))
      BY <1>3 DEF ListInv, WorksOnItsPhase
    <3> QED
      BY <1>1, <3>1, UnneededFacts
  <2>2. ~Done(p)
    BY <1>3 DEF ListInv, AllItsCandidates, NamesSkipped
  <2>3. /\ PhaseRank[p] \in Nat
        /\ PhaseRank[current_load_phase] \in Nat
        /\ ~(PhaseRank[p] < PhaseRank[current_load_phase])
    BY <1>1, <2>2, Ranks DEF Done
  <2>4. PhaseRank[p] = PhaseRank[current_load_phase]
    BY <2>1, <2>3
  <2> QED
    BY <1>1, <2>4, Ranks
<1> QED
  BY <1>2, <1>3

(* The part of ListInv that a dlopen call can disturb.                     *)
LEMMA DlopenKeepsLists ==
  ASSUME ListInv, NEW o \in Object, Dlopen(o), step = "open",
         \/ o = Head(mods)
         \/ o \in Range(deps) /\ o \notin skip_load,
         UNCHANGED <<fs, current_load_phase, loaded>>
  PROVE  NamesSkipped' /\ OnlyItsCandidates'
<1>1. Named(results') = Named(results) \union {o}
  BY DlopenIsNamed DEF ListInv
<1>2. skip_load' = skip_load \union {o}
  BY DEF Dlopen
<1>3. NamesSkipped'
  BY <1>1, <1>2 DEF ListInv, NamesSkipped
<1>4. OnlyItsCandidates'
  <2>1. UnneededBefore' = UnneededBefore
    BY DEF UnneededBefore
  <2> QED
    BY <1>1, <2>1, OpenedIsConfined DEF ListInv, OnlyItsCandidates
<1> QED
  BY <1>3, <1>4

(* A candidate that loadMods goes past is among the results.               *)
LEMMA PassedIsNamed ==
  ASSUME ListInv, step # "idle", NEW o \in skip_load,
         o \in UnneededBefore[fs][current_load_phase]
  PROVE  o \in Named(results)
<1>1. /\ current_load_phase \in OpenedPhases
      /\ loaded[current_load_phase] = <<>>
  BY DEF ListInv, LoaderInv, LoaderTypeOK, HasCandidate, ListsFilledInOrder
<1>2. o \notin Named(loaded[current_load_phase])
  BY <1>1, NamedEmpty
<1>3. \A q \in OpenedPhases : o \in Named(loaded[q]) => q = current_load_phase
  BY <1>1 DEF ListInv, OnlyItsCandidates
<1> QED
  BY <1>2, <1>3 DEF ListInv, NamesSkipped

(* ListInv holds initially.                                                *)
LEMMA InitListInv == LoaderInit => ListInv
<1> SUFFICES ASSUME LoaderInit PROVE ListInv
  OBVIOUS
<1>1. Range(mods) = {} /\ Range(deps) = {}
  BY DEF LoaderInit, Range
<1>2. \A p \in OpenedPhases : ~ Done(p)
  BY DEF LoaderInit, Done, PhaseRank, OpenedPhases
<1>3. ListsFilledInOrder
  BY DEF LoaderInit, ListsFilledInOrder
<1>4. Named(results) = {} /\ \A q \in OpenedPhases : Named(loaded[q]) = {}
  BY NamedEmpty DEF LoaderInit
<1>5. NamesSkipped /\ OnlyItsCandidates
  BY <1>4 DEF LoaderInit, NamesSkipped, OnlyItsCandidates
<1> QED
  BY <1>2, <1>3, <1>5, InitLoaderInv DEF LoaderInit, ListInv, WorksOnItsPhase, AllItsCandidates

(* The files, and so which candidates are needed early, do not change.      *)
LEMMA UnneededFixed ==
  ASSUME LoaderInv, [LoaderNext]_<<vars, loaderVars>>
  PROVE  fs' = fs /\ UnneededBefore' = UnneededBefore
BY FilesFixed DEF UnneededBefore

(* A step that opens nothing and does not touch the lists.                 *)
LEMMA ListsUntouched ==
  ASSUME ListInv, UNCHANGED <<current_load_phase, loaded, skip_load, results>>,
         fs' = fs, UnneededBefore' = UnneededBefore
  PROVE  NamesSkipped' /\ OnlyItsCandidates'
BY DEF ListInv, NamesSkipped, OnlyItsCandidates

(* ListInv is inductive: one step for each action.                         *)
LEMMA NextListInv == ListInv /\ [LoaderNext]_<<vars, loaderVars>> => ListInv'
<1> SUFFICES ASSUME ListInv, [LoaderNext]_<<vars, loaderVars>>
             PROVE  WorksOnItsPhase' /\ NamesSkipped' /\ OnlyItsCandidates' /\ AllItsCandidates'
  BY NextLoaderInv, NextFilled DEF ListInv
<1>1. fs' = fs /\ UnneededBefore' = UnneededBefore
  BY UnneededFixed DEF ListInv
<1>2. ASSUME NEW phase \in OpenedPhases, Open(phase)
      PROVE  WorksOnItsPhase' /\ NamesSkipped' /\ OnlyItsCandidates' /\ AllItsCandidates'
  <2>1. /\ UNCHANGED <<opened, loaded, skip_load, results>>
        /\ step = "idle" /\ step' = "loadMods"
        /\ results = <<>>
        /\ current_load_phase' = NextPhase[current_load_phase]
        /\ current_load_phase' = phase
        /\ current_load_phase \in {"None"} \union OpenedPhases
        /\ fs \in FileSystems
    BY <1>2 DEF Open, ListInv, ListsFilledInOrder, LoaderInv, LoaderTypeOK
  <2>2. Range(mods') = Candidates(fs, phase)
    BY <1>2, <2>1, ListingFacts DEF Open
  <2>3. \A p \in OpenedPhases : Done(p)' <=> Done(p)
    BY <1>2, <2>1, NextRank DEF Open, Done
  <2>4. WorksOnItsPhase' /\ NamesSkipped'
    BY <1>1, <2>1, <2>2, <2>3 DEF ListInv, WorksOnItsPhase, NamesSkipped
  <2>5. Named(results') = {}
    BY <2>1, NamedEmpty
  <2>6. UnneededBefore[fs][phase] \subseteq Candidates(fs, phase)
    BY <2>1 DEF UnneededBefore, Unneeded
  <2>7. OnlyItsCandidates'
    BY <1>1, <2>1, <2>5 DEF ListInv, OnlyItsCandidates
  <2>8. AllItsCandidates'
    BY <1>1, <2>1, <2>2, <2>3, <2>6 DEF ListInv, AllItsCandidates
  <2> QED
    BY <2>4, <2>7, <2>8
<1>3. CASE SkipMod
  <2>1. /\ UNCHANGED <<current_load_phase, opened, loaded, skip_load, step, results, deps>>
        /\ step = "loadMods" /\ Head(mods) \in skip_load
        /\ Range(mods) = {Head(mods)} \union Range(mods')
    BY <1>3, TailFacts DEF SkipMod, ListInv, LoaderInv, LoaderTypeOK
  <2>2. \A p \in OpenedPhases : Done(p)' <=> Done(p)
    BY <2>1 DEF Done
  <2>3. WorksOnItsPhase'
    BY <1>1, <2>1, <2>2 DEF ListInv, WorksOnItsPhase
  <2>4. AllItsCandidates'
    BY <1>1, <2>1, <2>2, PassedIsNamed DEF ListInv, AllItsCandidates
  <2> QED
    BY <1>1, <2>1, <2>3, <2>4, ListsUntouched
<1>4. CASE LoadMod \/ Resolve
  <2>1. /\ UNCHANGED <<current_load_phase, opened, loaded, skip_load, results, mods>>
        /\ step' = "resolve" /\ step # "idle"
    BY <1>4 DEF LoadMod, Resolve, loaderVars
  <2>2. \A p \in OpenedPhases : Done(p)' <=> Done(p)
    BY <2>1 DEF Done
  <2>3. WorksOnItsPhase' /\ AllItsCandidates'
    BY <1>1, <2>1, <2>2 DEF ListInv, WorksOnItsPhase, AllItsCandidates
  <2> QED
    BY <1>1, <2>1, <2>3, ListsUntouched
<1>5. CASE TakeOrder
  <2>1. /\ UNCHANGED <<current_load_phase, opened, loaded, skip_load, results, mods>>
        /\ step # "idle" /\ step' # "idle" /\ deps' = order
    BY <1>5 DEF TakeOrder
  <2>2. \A p \in OpenedPhases : Done(p)' <=> Done(p)
    BY <2>1 DEF Done
  <2>3. Range(deps') \subseteq Reachable(fs, Head(mods))
    BY <1>5, <2>1, OrderTaken DEF TakeOrder, ListInv
  <2>4. WorksOnItsPhase' /\ AllItsCandidates'
    BY <1>1, <2>1, <2>2, <2>3 DEF ListInv, WorksOnItsPhase, AllItsCandidates
  <2> QED
    BY <1>1, <2>1, <2>4, ListsUntouched
<1>6. CASE SkipDependency
  <2>1. /\ UNCHANGED <<current_load_phase, opened, loaded, skip_load, step, mods, results>>
        /\ Range(deps) = {Head(deps)} \union Range(deps')
    BY <1>6, TailFacts DEF SkipDependency, ListInv, LoaderInv, LoaderTypeOK
  <2>2. \A p \in OpenedPhases : Done(p)' <=> Done(p)
    BY <2>1 DEF Done
  <2>3. WorksOnItsPhase' /\ AllItsCandidates'
    BY <1>1, <2>1, <2>2 DEF ListInv, WorksOnItsPhase, AllItsCandidates
  <2> QED
    BY <1>1, <2>1, <2>3, ListsUntouched
<1>7. CASE OpenDependency
  <2>1. /\ Range(deps) = {Head(deps)} \union Range(deps')
        /\ Head(deps) \in Object
        /\ UNCHANGED <<current_load_phase, opened, loaded, step, mods>>
        /\ step = "open" /\ Head(deps) \notin skip_load /\ Dlopen(Head(deps))
    BY <1>7, TailFacts, FilesAreObjects DEF OpenDependency, ListInv, LoaderInv, LoaderTypeOK
  <2>2. NamesSkipped' /\ OnlyItsCandidates'
    BY <1>1, <2>1, DlopenKeepsLists
  <2>3. Named(results) \subseteq Named(results')
    BY <2>1, DlopenIsNamed DEF ListInv
  <2> QED
    BY <1>1, <2>1, <2>2, <2>3 DEF ListInv, WorksOnItsPhase, AllItsCandidates, Done
<1>8. CASE OpenMod
  <2>1. /\ Range(mods) = {Head(mods)} \union Range(mods')
        /\ Head(mods) \in Object
        /\ UNCHANGED <<current_load_phase, opened, loaded, deps>>
        /\ step = "open" /\ step' = "loadMods" /\ Dlopen(Head(mods))
    BY <1>8, TailFacts, FilesAreObjects DEF OpenMod, ListInv, LoaderInv, LoaderTypeOK, HasCandidate
  <2>2. NamesSkipped' /\ OnlyItsCandidates'
    BY <1>1, <2>1, DlopenKeepsLists
  <2>3. Named(results') = Named(results) \union {Head(mods)}
    BY <2>1, DlopenIsNamed DEF ListInv
  <2> QED
    BY <1>1, <2>1, <2>2, <2>3 DEF ListInv, WorksOnItsPhase, AllItsCandidates, Done
<1>9. CASE Finish
  <2> DEFINE cur == current_load_phase
  <2>1. /\ UNCHANGED <<current_load_phase, skip_load, mods, deps>>
        /\ cur \in OpenedPhases
        /\ step = "loadMods" /\ step' = "idle" /\ mods = <<>>
        /\ results' = <<>>
        /\ opened' = opened \union {cur}
        /\ loaded'[cur] = results /\ loaded[cur] = <<>>
        /\ \A q \in OpenedPhases \ {cur} : loaded'[q] = loaded[q]
    BY <1>9 DEF Finish, ListInv, LoaderInv, LoaderTypeOK, HasCandidate, ListsFilledInOrder
  <2>2. /\ Named(results') = {}
        /\ Named(loaded[cur]) = {}
        /\ Named(loaded'[cur]) = Named(results)
        /\ \A q \in OpenedPhases \ {cur} : Named(loaded'[q]) = Named(loaded[q])
        /\ Range(mods) = {}
    BY <2>1, NamedEmpty DEF Range
  <2>3. \A p \in OpenedPhases : Done(p)' <=> Done(p) \/ p = cur
    BY <2>1 DEF Done
  <2>4. WorksOnItsPhase' /\ NamesSkipped'
    BY <1>1, <2>1, <2>2, <2>3 DEF ListInv, WorksOnItsPhase, NamesSkipped
  <2>5. OnlyItsCandidates'
    BY <1>1, <2>1, <2>2 DEF ListInv, OnlyItsCandidates
  <2>6. AllItsCandidates'
    BY <1>1, <2>1, <2>2, <2>3 DEF ListInv, AllItsCandidates
  <2> QED
    BY <2>4, <2>5, <2>6
<1>10. CASE UNCHANGED <<vars, loaderVars>>
  <2>1. UNCHANGED loaderVars
    BY <1>10
  <2> QED
    BY <1>1, <2>1, ListsUntouched DEF loaderVars, ListInv, WorksOnItsPhase, AllItsCandidates, Done
<1> QED
  BY <1>2, <1>3, <1>4, <1>5, <1>6, <1>7, <1>8, <1>9, <1>10 DEF LoaderNext

(* Each candidate of a finished phase is in the list of that phase and in   *)
(* no other, although it may have been opened on behalf of another          *)
(* candidate, unless a candidate of an earlier phase needs it.             *)
THEOREM OwnList == LoaderSpec => []InTheListOfItsPhase
<1>1. ListInv => InTheListOfItsPhase
  BY DEF ListInv, InTheListOfItsPhase, WorksOnItsPhase, OnlyItsCandidates, AllItsCandidates, Named
<1> QED
  BY <1>1, InitListInv, NextListInv, PTL DEF LoaderSpec
=============================================================================
