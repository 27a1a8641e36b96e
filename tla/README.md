# A verification project for looptactics

looptactics (the library `islutils/`) matches and rewrites polyhedral
programs: structural matchers and builders for isl schedule trees, matchers and
transformers for access relations, and a wrapper around pet that extracts a
scop from C and prints it again.  The library is sequential C++; what makes it
hard are not processes but recursion with shared mutable state, filters that
must work on incomplete data, object identity that survives copies and casts,
and references that are written by attempts that fail later.  Threads matter
only through counters and buffers that are `static` or `thread_local`.

Fatal errors go through `ISLUTILS_DIE` or `assert`; both are modelled as a
terminal state "died".  An error that isl reports is a terminal state "failed"
(`ScheduleRewriter`).  Line numbers are those of `src/islutils/` unless another
directory is named.

## 1. Inventory

| Component | State it keeps | Operations | What makes it correct |
|---|---|---|---|
| Access relation matcher (`access-inl.h` 15-274, 529-566) | candidate lists of the placeholders, the partial combination and the call stack, the matches | `match`, `suitableCombinations`, `recursivelyCheckCombinations`, the suitability filters, `Match::operator[]` | returns all suitable assignments and nothing else; cuts lose nothing; results can be looked up |
| Placeholders and sets (`access.h` 34-190, `access-inl.h` 395-527) | id counters per thread and instantiation; placeholders, groups, folds of a set | `placeholder()`, `pattern_cast`/`dim`, `access`, four `allOf`, `setupFolds` | folds follow the identity of placeholders; groups are the access lists; folds are long enough |
| Access relation transformer (`access-inl.h` 276-393) | original maps, transformed maps, maps of the running match | `findAndReplace`, `transformOneMap` | every matched map is transformed once, by its own replacement; the outcome does not depend on the order of the maps |
| Schedule tree matcher (`matchers.h`, `matchers-inl.h`, `matchers.cc`) | captured nodes and vectors, in variables of the caller | `isMatching`, `hasPreviousSibling`, `hasNextSibling`, `hasSibling`, `hasDescendant`, `hasAncestor`, factory functions | decides the structural match; captures are those of the attempt that matched; first match of the region |
| Access patterns (`access_patterns.*`) | none; relations go in and out | `placeholder`, `dim`, `access` and the arithmetic on placeholders; `candidates`, `transformMap`; `stride` | an expression, a dimension and a stride are recognised exactly; a rewritten access is the one written down, for the iterations of the old one |
| Schedule tree builder (`builders.*`) | the cursor into a tree under construction | `insertAt`, `build`, `expandTree`, `subtreeBuilder`, factory functions | the tree built is the one described, at the place where it was asked for; a callback is called at most once; rebuilding a subtree gives the subtree |
| Pet wrapper: ownership (`pet_wrapper.h`, `ctx.h`) | the pointer to the C object | `parseFile`, the constructor and `get`, moves, the destructor | one owner and one free per object, no use afterwards; the code does not ensure it (section 3) |
| Pet wrapper: code generation (`pet_wrapper.cc` 97-290) | the statement descriptors of a call; one counter for the whole program | `codegen` with its callbacks `at_domain` and `printStatement` | every leaf of the AST is printed as its own statement with the subscripts of its own place |
| Pet wrapper: dependences and arrays (`pet_wrapper.cc` 292-433) | the schedule, in the C object | `schedule()=`, `compute_all_deps`, `arrays` | a reordering that keeps the dependences keeps what is read; every accessed array is described once |
| Makers (`locus*.h`, `aff_op.h`) | none | comparison and arithmetic operators on affine functions | each operator builds the set or map of its comparison, alike in both namespaces |
| Client compositions (`test/test_transformer.cc`) | the schedule, the captured nodes | `replaceOnce`, `replaceRepeatedly`, `replaceDFSPreorderRepeatedly`, `replaceDFSPreorderOnce`, `replaceDFSPostorderOnce`, `mergeIfTilable`, `markCoincident` | rewriting ends; nothing is left to rewrite, nothing is rewritten twice; the execution order is kept; band properties are sound |

How they interact: a client makes placeholders, groups them by `access(...)`
and `allOf(...)` into a set, and passes the set to `match` or, as patterns with
replacements, to `findAndReplace`, which calls `match` for the whole set and
then once more for every pair of a matched map and a pattern.  Schedule tree
matchers take client callbacks, which are often searches (`hasDescendant(...)`)
that call `isMatching` again; the captured nodes are read by builders, lazily.
The patterns of placeholders are made with the operators of `aff_op` and the
makers.  The pet wrapper supplies schedules and access relations, takes a
schedule back and prints code for it.

Hard behaviours, with their lines, are the `hazards` of `PROJECT.json`: checks
on incomplete combinations, early returns in the middle of a loop, captures
left by failed attempts, ids that leave their instantiation or thread, two
vectors read with one index, assertions that are reached only in some orders.

## 2. Modules

| Module | Models | Kind |
|---|---|---|
| `Suitability` | the filters `areFoldsValid` ... `isSuitableCombination` as pure operators, and the declarative `SuitableAssignments` | operators |
| `MatchEnumeration` | what `match` promises: all suitable assignments, in one step | abstract specification |
| `AccessMatcher` | `match` and the branch-and-cut recursion; implements `MatchEnumeration` | state machine |
| `PlaceholderSets` | constructors, casts, counters, `allOf`, `setupFolds` | state machine |
| `FindAndReplace` | `findAndReplace` and `transformOneMap`; uses `match` through `SuitableAssignments` | state machine |
| `Trees` | ordered trees, as isl's schedule trees, matchers and builders are | operators |
| `ScheduleTreeMatcher` | `isMatching` and the searches | state machine |
| `ScheduleTreeBuilder` | `insertAt`, `build`, `subtreeBuilder`, the constructors and overloads | state machine |
| `ScheduleRewriter` | the traversals that compose matcher and builder, with three of their uses | composition |
| `Makers` | the operators of `aff_op`, `set_maker` and `map_maker` | operators |
| `AccessPatterns` | `candidates`, `transformMap`, strides; one access relation matched and rewritten as `transformOneMap` does it | state machine |
| `ScopData` | `compute_all_deps` and `arrays` | operators |
| `PetScop` | `Scop`: parsing, construction, moves, destruction, schedules, code generation by several threads | state machine |
| `AccessMatcher_proofs`, `PlaceholderSets_proofs`, `FindAndReplace_proofs`, `Trees_proofs`, `ScheduleTreeMatcher_proofs`, `ScheduleRewriter_proofs`, `AccessPatterns_proofs`, `PetScop_proofs` | theorems and lemmas about the module of that name (section 4) | proofs |
| `MC*` | small instances, one or more `.cfg` each | model checking |

Operators headed "A bug:" are mutated forms of the definition they precede. No
specification uses them; each shows that some property fails when the code has
that bug (`mutants` in `PROJECT.json`).

### How the models correspond to the code

**Suitability.** A relation of the union map is its space `[tag, array]`, as in
the code ("It is sufficient to uniquely identify the map in the union_map").  A
pattern is the function from maps to the sequence of payloads that
`CandidateTy::candidates` returns; `PayloadEq` is the payload's `operator==`,
any relation.  `WellFormed` is what `allOf` builds (checked in
`PlaceholderSets`).  Positions are 1-based.

**AccessMatcher.** One action per loop body and return: `FillFromAccess`,
`NextPlaceholder`, `EarlyExit`, `StartSearch` are stage 1 of `match`;
`EnterCut`, `EnterFull`, `EnterPartial`, `TryCandidate`, `LoopEnds`,
`ReturnToLoop`, `ReturnMatches` are `recursivelyCheckCombinations`.  The call
stack is not a variable: the combination of a frame is a prefix of that of the
frame it called, and the caller's loop stands at the last element of the
callee's combination.  `combination` holds positions in the candidate lists, so
that equal candidates stay apart.  `Lookup`/`LookupDies` are `operator[]`.

**PlaceholderSets.** `nextId[thread][kind]` are the `thread_local static`
counters, one per instantiation of the class template; `Construct` is the
public constructor, `PatternCast` the private one, which keeps the id while the
kind changes.  `CallAllOf` ... `FoldsDone` are `allOf` and `setupFolds`, one
action per list and per element; grouped calls run `setupFolds` a second time,
over the array placeholders of all the lists.

**FindAndReplace.** `CallMatch` copies the maps and calls `match`;
`NextMatch`, `TransformMap`, `MatchDone`, `Finish` are the nested loops;
`MapNotFound` and `TransformDies` are the assertions.  Matches and maps are
taken in any order, which includes every order the code can take; the payloads
given to `transformMap` are recorded instead of the relation it makes.

**ScheduleTreeMatcher.** Nodes of trees and matchers are paths of child
positions.  `typeMatcher` and `terminalMatcher` are the factory functions.
A search is the list of nodes it tries (`Visited`); `Attempt` calls
`isMatching`, whose frames are again the prefixes of the path `at`.  Each
matcher node that captures has a variable of its own; the capture variables
persist over the attempts of a search.  A callback is the set of nodes it
accepts.  The visiting order of isl's iteration functions is external.

**ScheduleTreeBuilder.** A node of a tree or builder has a type and a set as its
data (a schedule and properties for a band, statements for a filter), which is
all that merging filters and copying bands need.  The single
`isl::schedule_node` that `insertAt` hands down and up is `node`; the builder
node of the running frame is `at`.  `EnterSingle` is
`insertSingleChildTypeNodeAt`, `EnterBranching`, `EnterFilter`, `SkipFilter`,
`LoopDone`, `LeaveBelowFilter` are `insertSequenceOrSetAt`, `EnterExpansion`
and `LeaveExpansion` are `expandTree` (`outer` holds the trees of the callers
while a tree is built on its own), `EnterSub` is `return
subBuilder_().insertAt(node)`.  What isl's insertions do to the tree is external
and follows the comments of the code: a filter inserted at a filter is merged
(`builders.cc` 96), an extension is grafted and what was at the node cut (114).
Clients insert where isl allows it (`Insertable`), in a tree they may have cut.

**ScheduleRewriter.** The frames of the recursion are the prefixes of `node`.
`Match`, `Cut` and `Insert` are `rebuild` and its callers; `isMatching` and
`insertAt` are one step each, with the meaning the two modules above check
(`isMatching` of three fixed patterns, `copy` for `subtreeBuilder`).  A band
member is, for each dependence, the sign of its distance, which is all that
`canMerge` and `detectCoincidence` look at.  `detectCoincidence` returns early when
the program has no dependence at all.  When it has some, but none between the
statements of the band, the distances are an empty union, of which isl refuses to
make a set (lines 1733-1735): `CoincidenceFails`.  `InsertFails` then ends the model in
"failed": what a program does after the error depends on isl's settings and on the
bindings, which are a submodule that is not in the repository.  `is3Dstencil` is an
attribute of a band, since it looks at accesses, which rewriting does not change.
What a client starts from (`IsSchedule`, `OriginalsAssumption`) is an isl schedule tree: a domain
at the root, one child below a band, a distance and a coincidence flag for each
member, and bands that are permutable only where isl has found them to be.

**Makers, AccessPatterns.** An affine function is a function from the points of
its domain to integers.  An access relation is a set of pairs of an iteration and
an element; isl's universes are `Iterations(in)`, all points of a window of
coordinates.  A pattern is an affine expression of one unknown iterator with a
dimension `pos`, `Unset` being `INT_MAX`; matching binds each placeholder to an
iterator.  `singleInputDim` is `SingleInputDim::candidates`: isl's test that a
function has a single affine piece is whether one expression holds on all of its
domain, and the pattern is compared with it there.  `transformMap` takes the
relation apart (`listOf1DMaps`), replaces one dimension (`transform1D`, for all
iterations, as in the code) and puts it together.  `TransformNext` is the loop of
`transformOneMap`; `TransformUndefined` is the unchecked index into the list of
dimensions, which patterns of the search cannot reach and replacements can.

**ScopData, PetScop.** A pet scop is a number, and `scop_` which object points to
it; a `Move` copies the number, as the defaulted operations do, and `Construct`
copies it through `get()` and the public constructor.  `codegen` starts
isl's call, `AtDomain` and `Describe` are the two halves of a callback for one
leaf (the shared counter is read in the first and written in the second),
`PrintStatement` and `PrintStatementDies` the other callback, in the order of the
leaves.  isl's AST is external: successive instances of one statement, split in
any way.  An occurrence id is the pair of the statement's name and the counter,
since the text made of both has the last `_occ_` as separator.  What is printed
is the statement, whether it is a comment, and the AST build it is printed with.
`compute_flow` is the flow analysis of isl on finite sets of accesses.  `known`,
`deps` and `legal` are the client's: a client that computes dependences and
keeps them in the schedules it assigns next.

## 3. Runs

| Run | Checks | Instance |
|---|---|---|
| `search` | `match` at every step: exact candidates and matches in order, lookups, harmless cuts; `match` implements `MatchEnumeration` and returns | 3 maps (two arrays, one of them accessed tagged and untagged), in all orders and subsets; up to 3 placeholders in up to 3 groups, all id patterns, with and without array folds; patterns that match twice, in one array only, and by tag |
| `build` | folds and groups built by `allOf` | 2 threads (symmetric), up to 4 placeholder objects of 3 kinds, calls of up to 3 lists with up to 3 placeholders |
| `replace` | conservation, determined outcome, exact result of `findAndReplace` | up to 3 maps in all orders; 1 or 2 replacements with up to 3 placeholders, 4 overlapping patterns, replacements that use own, foreign and unknown placeholders |
| `tree` | `isMatching` and the searches against the declarative match, where they die included; captures | 5 trees (nested bands, sequence, set, expansion, nested sequences) of depth up to 6; matchers of depth up to 3, callbacks combined with `_and` and `_or`; every search at every node |
| `insert` | the tree `insertAt` builds and where it comes back to; callbacks at most once; only well-formed builders build; copies keep the structure | 3 trees, insertion at every node isl allows, with and without a cut; builders of depth up to 6 of every type, malformed, nested and lazy ones; copies of every subtree |
| `rewrite` | order kept, sound and complete merging, each band marked and wrapped once, when marking fails, termination | 1136 trees: three nested bands with every sign of two dependences, bands above and below a sequence, bands of related and unrelated statements side by side, stencil bands nested in each other |
| `patterns` | what a rewritten access is, and that its own pattern matches it; strides; agreement of the makers | accesses of up to 2 dimensions by up to 2 iterators on 9 iteration domains (triangle, row, diagonal, gaps, single point), affine, non-affine and multi-valued subscripts; patterns at positions from the front, from the end and unset; strides with and without given iterations |
| `scop` | printing, dependences and arrays of `Scop` | five clients: two threads that print at the same time; one thread that prints schedules with repeated leaves and extensions; one that reorders three instances with every choice of accesses; one that asks for arrays; one that constructs, moves and destroys |
| `counters`, `emptylist`, `capture`, `ancestor` | claims of comments that the code does not meet | as the runs above |

The bounds.  The filters compare candidates and groups pairwise, so three
positions in three groups give every case of a pair and the interplay of two
pairs, and a list of two candidates gives a loop that goes on and one that ends.
Three maps give groups that compete for a map.  For `allOf`, three lists are
enough for an empty list between two others, and two lists of two for a repeated
placeholder in one list and across lists; four objects are two array
placeholders and two others, or a cast chain and a collision of ids.  In
`isMatching`, depth three gives a frame with a caller and a callee, and three
children a middle child; for `insertAt` two filters give a pointer that has to come
back before the loop goes on.  Three nested bands are what shows that a merged band
is tried again, and a band below a band that cannot be merged that it need not be.
A graft into a sequence that is already below an extension, which isl splices, is
outside the instances of `insert`.  In `patterns`, three coordinates give a gap
between two iterations and a function that is affine on a part only; the window of
elements contains every value that an expression takes, so that a value never
falls out of it.  In `scop`, three instances of two statements give two leaves of
one statement with another between them, and a write between two others; two
calls by each of two threads give a lost increment and a call that follows it; the
client that reorders computes and assigns twice, so that dependences are taken of
a schedule that is not the original.  `MaxPlaceholders` (4) and the `calls` of a
client (up to 5 by a thread) are the bounds in guards.
`CHECK_DEADLOCK` is off because every model is of a call that ends.

Fairness is `WF_vars(Next)` where a run checks that a call ends (`search`,
`rewrite`): the code is a function that runs on one thread to its end, with no
blocking call and no callback into the scheduler.  The other models have no
loop that could fail to end: their recursion follows a finite tree or list.

### Disagreements between code and comments

* `counters`: `access.h` 137-139 says each placeholder has its own fold by
  default.  The id counter is per instantiation and `pattern_cast` carries ids
  across, so a placeholder constructed as `FixedOutDimPattern` (as in
  `test/test_access.cc` 15-17) and one cast to it can share an id and become one
  fold, that is be forced to match the same.
* `emptylist`: with `allOf` of array lists, an empty list gets a group fold and
  no group; the later groups are then compared under the fold of another list,
  against the comment at `access-inl.h` 170-172.
* `capture`: `band(capture, anyForest())` matches and does not capture
  (`matchers.cc` 80-82), against "It will contain the captured node".
* `ancestor`: `hasAncestor` answers false when it has found an ancestor.

More, without a run of their own, since no text of the repository claims the
opposite in so many words, or the difference is plain:

* `set_maker`'s `!=` builds the set of `==` (`locus-inl.h` 7-9, 32-34), against "The
  set is constrained by the selected binary operation" (`locus.h` 10-12, 21-25).
  `OperatorsAgree` compares all the other operators.
* `subtreeBuilder` rebuilds a band from its partial schedule only
  (`builders.cc` 370-372); coincidence, permutability and AST build options are
  lost, against "replicates the given schedule node" (`builders.h` 220).
  `CopyKeepsStructure` says what is kept.
* `context(set, child)` drops its child (`builders.h` 180), against
  `builders.h` 107-110.
* `expansion(...)` and `filterForest(...)` matchers kill the program as soon as
  `isMatching` reaches them (`matchers-inl.h` 21-49; the instances of `tree`
  contain them).
* The constructor `BandDescriptor(mupa)` passes the arguments of
  `std::vector<bool>` in the wrong order (`builders.h` 28), so that `coincident`
  is empty, which leaves isl's default in place.
* The move operations of `Scop` are defaulted and leave the moved-from object its
  pointer (`pet_wrapper.h` 79, 86), which both destructors free; assignment by
  move does not free what the object had.  The public constructor
  (`pet_wrapper.h` 77) and `get()` (129) give two objects one pointer without a
  move.  The client of `scop` that does either reaches the use and the second free
  of a freed `pet_scop` (`undefined`).  Nothing in the code prevents it and no
  comment says that it cannot happen, so there is no property of ownership to check.
  `ScopedCtx` is written the same way, "to enable ownership transfer" (`ctx.h` 14-15).
* `markCoincident` fails in isl at a band between whose statements there is no
  dependence, if there are dependences elsewhere (`test/test_transformer.cc`
  1733-1735); only a program without any is taken care of (1726).
  `FailsOnUnrelated` says which trees it fails on.
* The counter of `at_domain` is a `static` shared by threads (`pet_wrapper.cc`
  142): when two of them generate code at once, a lost increment can give two
  leaves of one statement one id, and the second is then printed with the
  subscripts of the first.  `PrintsOwnSchedules` fails without its premise;
  `PrintsOwnStatements`, without such a premise, holds.
* `compute_all_deps` has no anti-dependences (`pet_wrapper.cc` 315-331):
  `WritesStayFirst` holds for accesses after a write only.
* `arrays()` gives every access the line of the last statement
  (`pet_wrapper.cc` 401-409), since its loop runs over the accesses of all
  statements so far.
* `2 * (p + 1)` is the placeholder of `2 * p + 1`: the constant is not multiplied
  (`access_patterns.h`).
* `transformMap` forgets the domain of what it replaces: an access of one
  dimension holds for all iterations afterwards (`access_patterns.cc` 46-57), an
  access of more keeps its iterations, even when all dimensions are replaced.
* A replacement at a position that the pattern does not have indexes the list of
  dimensions out of its bounds (`access_patterns.h` 130).

## 4. Proofs

All proofs are checked by TLAPS (SMT, Zenon, and PTL for temporal steps).

`AccessMatcher_proofs`, for every set of maps, payloads, patterns, groups and
folds:

* `BeginningIsSuitable`: every beginning of a suitable combination is suitable.
  This is the fact branch and cut rests on ("the filter must work on incomplete
  candidates").  It needs no assumption on the payload's equality; the tri-state
  comparison of groups is what makes it true for grouped sets.
* `TypeCorrect`: `TypeOK`, inductive by itself.
* `CandidatesExact` and `MatchesExact`: their conjunction is inductive relative to
  `TypeOK`.  The match set alone does not say what is
  still to come: `Remaining` says which full combinations the recursion has not
  passed, by its control state, and each action moves combinations out of
  `Remaining` exactly when it records or rules them out.  The cut case is
  `BeginningIsSuitable`.
* `MatchesInOrder`: the matches are ordered, by an invariant that adds that all
  of them are behind the running combination.
* `SearchExact`: `SearchIsExact`, which the run `search` checks, is the three
  together.
* `CutsAreSafe`, `MatchesFollowIds`, `LookupIsTotal`: consequences of
  `MatchesExact` and of the filters.
* `MatchIsEnumeration`: `Spec => Enumeration!Spec`, by a step of `EarlyExit` or
  `ReturnMatches` mapping to `Return` and all others to a stutter.

Assumptions: `PayloadEqAssumption` (a relation on payloads),
`AccessesAssumption`, `PlaceholderSetsAssumption` (the sets are well formed; TLC
checks them on the instances, and the run `build` that `allOf` makes such sets).

`PetScop_proofs`, for every number of threads and objects, every client, schedule
and AST:

* `OwnStatements`: `PrintsOwnStatements`.  The invariant `Annotated` follows the
  two halves of `at_domain`: a leaf is annotated exactly from the second half on,
  with an id that begins with its statement and that some descriptor has.  It
  says nothing of the counter, which is why overlapping calls do no harm here.
* `OwnSchedules`: `PrintsOwnSchedules`, from the invariant that, while calls do not
  overlap, at most one thread is building, all its ids are below the counter (equal
  to it between the halves), and ids of one call are distinct: the first descriptor
  with the id of a leaf is then the leaf's own.
* `WritesFirstKept`: `WritesStayFirst`.  The lemma behind it, `FlowIsKept`, is the
  reason why flow and output dependences are enough for accesses that follow a
  write: `compute_all_deps` relates an access to the last write before it only, and
  the accesses in between are reached by a chain of such dependences.  The chain is
  not built by induction over its links: take, of all the accesses that a
  reordering moves in front of a write they came after, one at the smallest
  distance from it; a dependence or another write lies between the two, and either
  contradicts the choice.  The invariant `HistoryInv` adds that the dependences a
  client holds are of some schedule that had every access after its writes, which
  is what makes a second computation, of an already changed schedule, no loss.
* `ArraysDescribed`: `ArraysAreAccessed`.  `FlattenLists` says that flattening lists
  of at most one element each lists those elements in the order of their places; it
  goes through the beginnings of the list (see `FlattenSeq` below).
* `TypeCorrect`: `TypeOK`.  It needs that a call has one descriptor for each leaf
  that it has called back for (`CountInv`).

Assumptions: `ClientsAssumption` and `SourcesAssumption`.  Statements, accesses and
declared arrays are lists (the arrays of pet_scop, the vector of payloads).  Scops
belong to threads; a schedule is a list of instances, each at one place (isl's
schedules are functions); an access is of an instance of the program; a must-write
is a may-write (pet's own definition).

`PlaceholderSets_proofs`, for every number of threads, objects, lists and
repetitions:

* `TypeCorrect`: `TypeOK`, with `Control`, which says for each place in `allOf` what
  its variables hold.
* `SetsAreWellFormed`: `SetIsWellFormed`.  `FoldsInv` says of a `setupFolds` that is
  under way: the fold of each position passed is the first position with its id,
  and `knownIds` holds those ids and no other.  `GroupsInv` says that the groups are
  the non-empty lists passed, as consecutive positions.  With `TypeCorrect` these are
  the facts that `WellFormed` asks of a set without group folds, as the patterns of
  `findAndReplace` are.
* `GroupFoldsAreArrays`: `GroupFoldsFollowArrays`, from the same two.
* `FoldsAreIdentity`: `FoldsFollowPlaceholders`.  `IdsInv` says that the id of an
  object is that of the object it was first constructed as, and that two originals
  of one thread and kind have different ids, below the counter.

Assumption: `CallsAssumption` (a call is a list of lists of objects).

`FindAndReplace_proofs`, for every union map, replacement list and payload
comparison:

* `TypeCorrect`: `TypeOK`, with `Place`.
* `MapsConserved`, `OutcomeDetermined`, `ResultExact`: consequences of `WorkInv`.  It
  calls a map taken when it belongs to a match that was handled, or to the one in
  hand and is no longer in `toTransform`, and says that a map has left `original`
  exactly when it is taken; that the transformed maps are those taken, each once;
  and that a taken map belongs to one group of one match and matches the pattern of
  that group alone.  The last part is why the order of matches and maps does not
  matter: the assertions fail for a map that violates it, in whatever order it
  comes.  `AloneIsMatched` is the fact about the filters this needs: what the whole
  set matches, the pattern of the group matches alone.

Assumptions: `UmapsAssumption` and `CallsAssumption`.  The set is what `allOf` makes
of patterns: well formed, one group of consecutive positions for each pattern,
never empty since `access(...)` takes at least one placeholder, and no array folds.

`Trees_proofs` and `ScheduleTreeMatcher_proofs`, for trees of any depth and width
and matchers of any shape.  The first holds lemmas about paths, subtrees, children
and their numbers, and about `FlattenSeq`, a recursive function: `FlatExists` shows
that a function with its equation exists, `FlattenStep` that flattening one more
sequence appends it.  Where an argument is by induction over the length of a path or
of a list, it is about the least counterexample (`Least`).  The invariant of the second is the conjunction of `Frame` (where
the traversal stands is a node that exists on both sides), `Traversal`, `Captures`
and `Search`, and is proved action by action:

* `TypeCorrect`: `TypeOK`.
* `ResultStructural`: `ResultIsStructural`.  isMatching visits the matcher in
  preorder, so the matcher nodes that were found to agree are those before the
  current one, in the order `Before`, and after success all of them (`Passed`).  A
  return to the caller moves to the next child, and no matcher node lies between.
* `FirstFound`: `FoundIsFirst`.  `Search` says that the nodes tried are a beginning
  of those the search visits, none but the last of which matches.  The lemmas about
  `Visited` show that each search visits its region, all of it and in its order.
* `CapturesOfTheMatch`: `CapturesAreOfTheMatch`.  `Captures` says it of the matcher
  nodes whose `isMatching` has returned (`Returned`), which is less than `Passed`:
  a node captures after its children, so that a failed attempt may leave captures,
  and a successful one overwrites all of them.

Assumptions: `TreesAssumption` and `MatchersAssumption`.  Trees are finite, closed
under parents, and the children of a node are numbered from the first without gaps
(isl's and the matchers' children are vectors); no factory function gives a
wildcard children.

`ScheduleRewriter_proofs`, for schedule trees of any depth and width, any number of
dependences and all three uses of the traversals.  Between the cut and the
insertion the tree has a leaf where the running node was.  `Current` is the tree
with that part put back; the invariants speak of it, and a step that cuts does not
change it.  A rewriting replaces one subtree: what is not below the node is kept
(`KeptOutside`), and the parts that were captured are found at another place of the
new tree (`Moved`).

* `TypeCorrect`: `TypeOK`, from `TreeInv`: `Current` is a schedule, the running node
  is in it, what was captured is its subtree at that node and still matches.
* `PermutableSound`: `PermutableIsSound`.  Merging looks at the dependences that no
  band above carries, and replaces what is below by a copy in which no band is
  permutable; above and beside the node nothing that the property reads changes.
* `MergeComplete`: `NothingLeftToMerge`, and `MarkingComplete`, of a marking that
  completes.  `Visited` says for
  each place of the traversal at which nodes the matcher has been tried for the last
  time: those before the running node, in the order `Before`.  `PreorderInv` says of
  them that they do not match, or are marked.  The case that is not obvious is a
  band above the one that is merged, tried before its child had the new members:
  `StillNotMatching`, if a distance of the parent or the child was negative, it is a
  distance of the merged members too.
* `WrappingComplete` and `EachOnce`: `EachBandOnce`.  In postorder the nodes that are
  finished (`Finished`) are those to the left of the running node and those below
  it.  `LayoutInv` says that each stencil band among them is below an extension that
  is finished too, and bounds the extensions by a count: those there are, and the
  stencil bands not finished, are never more than there were at the start.
* `MarkingFails`: `FailsOnUnrelated`.  `MarkInv` says that a marking changes flags
  only, so that `Current` has the nodes, the types, the members and the statements of
  the original at the same places (`SameShape`), and that none of the bands visited is
  one that it fails at.  When it fails, the band in hand is one in the original too;
  when it completes, all bands have been visited.
* `OrderKept`: `OrderIsKept`.  `SameOrder(original, Current)` is inductive: it is
  reflexive and transitive (bijections compose), and each of the three rewritings
  carries the leaves of the subtree to its new places with their order, their
  statements and the members above them (`MergeCarries`, `MarkCarries`,
  `LayoutCarries`).  The leaves of the copies and initialisations that are wrapped
  around a stencil execute statements that the extension brought in, and are not
  among those compared.

Assumption: `OriginalsAssumption`, explained in section 2.

`AccessPatterns_proofs`, for accesses of any number of dimensions and iterators, all
patterns and affine functions:

* `TypeCorrect`: `TypeOK`.
* `OperatorsCorrect`: `OperatorsAgree`, from lemmas that say which points each
  operator of `Makers` holds.
* `TransformExact`: `TransformIsExact`.  `Progress` says what the relation is after
  the first n placeholders of a replacement: all elements whose n dimensions have
  the values of the expressions and whose other dimensions have, each on its own,
  a value of the access (`IsRewritten`).  Each on its own, since `transformMap` takes
  the relation apart into dimensions; and a relation of one dimension loses its
  iterations.  Both are what the code does, and what the property says.
* `ReplacementMatched`: `ReplacementIsMatched`.
* `StrideIsOffset`: `StrideIsConstantOffset`.  The lexicographic minimum of the later
  iterations (`lexmin`, with gaps) and the successor map (without) are shown to be
  one relation, `Subsequent`; a least later iteration exists since those that agree
  in the outer iterators are integers above a given one.

Assumptions: `WindowAssumption` and `InputsAssumption`.  isl's integers are not
bounded; the window is, and stands for all of them as long as what is written
stays in it, which is what the first assumption says, together with the absence of
gaps.  The second gives types to accesses, patterns and affine functions.

Only model-checked, and why:

* `Returns` and `Ends`: termination needs fairness and ENABLED, which are out of the
  prover's reach.
* `BuildsTheTree` and `CopyKeepsStructure`: the tree they compare with is defined by
  recursion on a builder that contains builders, and what it is for every builder
  needs induction over that structure.
* `OnlyWellFormedBuilds`, `CallbacksOnce` and the `TypeOK` of `ScheduleTreeBuilder`,
  so far: they need an invariant for the trees that `expandTree` builds on their
  own, on top of the frames, and it is not written yet.

## 5. Not modelled, and the plan

`scop.h` (plain data and unions of isl objects), `die.h`, `operators.h`,
`type_traits.h` and the vendored `gsl` have no control to model.  Of the pet
wrapper, the getters of access relations, `getScop`, the dimensions of arrays and
the printing of statement bodies by pet are left out, as are the null scop that `parseFile` may get from pet, `ScopedCtx`, which
repeats the moves of `Scop`, and division of affine functions.  Of the client
compositions, sinking, tiling and the generation of library calls are left out.
A matcher that is built in one thread and used in another writes the
`thread_local` vector of the first when it contains `anyForest()` without a
vector (`matchers.cc` 44): nothing reads that vector, so no property of results
depends on it.

What is left to do is proof: `CallbacksOnce`, `OnlyWellFormedBuilds` and `TypeOK` of
`ScheduleTreeBuilder`, over the lemmas of `Trees_proofs`.
