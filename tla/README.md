# A TLA+ verification of tslc

`tslc` (`src/tslc`) compiles TSL, a language of SIMD primitives, into a C++ and a
Rust library. This directory holds TLA+ models of the parts of it whose
correctness does not show in one call: fixpoints over cyclic call graphs, a
frontier of alternatives for compilers nobody has seen yet, a discovery worklist,
an editor session with threads and caches, an explorer whose answers overtake each
other, an output tree that outlives the process, and a verifier that has to say
what it did not do. TLC checks the models on small instances; TLAPS proves every
invariant and action property those runs check, for every value of the
constants the assumptions allow.

## 1. The system

A generation is a pipeline over immutable values:

    sources -> parse -> catalog -> [per profile and backend: select -> scan -> lower,
    driven by a worklist] -> dependency closure -> validate, plan, render -> write
    -> format -> verify

The editor server runs the first three stages over unsaved buffers, again and
again, in threads. The VS Code extension asks it for the explorer's rows, and
launches the compiler itself to analyse one of them.

| Component | Where | State it keeps | Operations | What makes it correct |
|---|---|---|---|---|
| dependency pruning | `_pipeline_closure.py` | live slots, provider counts, frontier | rounds: scan, cascade, retire | the largest closed set of slots survives, reasons are true |
| call facts | `_pipeline_closure.py`, `lower/implementation_facts.py` | facts per identity, worklist | visit, publish | exact least solution through cycles; no proof gap is hidden; contracts stay where they are |
| emission | `_pipeline_closure.py` | capability needs per body, merged groups | mark, propagate, merge | every call of an emitted body links, under every compiler |
| profile generation | `_pipeline_profile_generation.py` | worklist, processed set, lowered, skipped, covered | process, close, record | nothing that is called is missed; every body accounted for once |
| target support recorder | `_pipeline_target_support.py` | a stage per slot | enter, advance | only valid transitions; the last stage is the outcome |
| authoring workspace | `lsp/workspace.py` | documents, generation, latest snapshot, two locks | open, change, close, check, accept | a snapshot is of one text; superseded checks leave no trace in it |
| authoring checks | `authoring.py`, `sources.py`, `catalog_index.py` | parsed documents by digest, index fragments by document object | read, overlay, parse, promote, index, seed, merge | a check with caches delivers what one from nothing would |
| language server | `lsp/server.py` | the workspace, an event, published paths | notifications, checks, requests, publication | requests are answered, after a check; nothing stale is shown |
| output writer | `output/writer.py` | files, the generator manifest | write, refresh | the manifest tells the truth after every failure; unrelated files stay |
| generation command | `generation_command.py` | the attestation | write, format, refresh, verify | what is attested is what was compiled |
| lowering cache | `_pipeline_lowering_cache.py` | memo by key | lookup, insert | a hit equals a fresh lowering |
| selection | `select/` | none | emit extensions, rank, keep a frontier | a package for an unknown compiler decides like selection told what it can do |
| parser, catalog, lowering, backends, rendering, value tests, benchmarks | `syntax/`, `catalog/`, `lower/`, `backend/`, `render/`, `value_tests/`, `benchmark/` | none | pure functions | tested by value |
| output verification | `output/verify*.py`, `output/_verify_*.py` | results, diagnostics, skips, the answers of preflights | prepare, preflight, run commands and test binaries, finalize | what is accepted and attested was really run |
| VS Code explorer | `editors/vscode-tsl/src/explorer.ts`, `analysis*.ts` | target, rows, requests, stored analyses | refresh, choose, analyze, restart | overtaken answers are not shown over later ones; what is shown as current is |
| rest of the VS Code client | `extension.ts`, `preview.ts` | child processes, previews, status | preview, restart | a superseded preview shows nothing |

How they interact. Profile generation calls selection and lowering for every item
of its worklist, and hands the lowered list to the dependency closure, which calls
pruning, marking, propagation and merging in that order; call facts are propagated
over what is left. Everything communicates through values; only the recorder and
the lists of the generator are mutated. The command hands the artifacts to the
writer, the tree to the formatter, the tree again to the writer's refresh, and the
tree to the verifier, so these four communicate through files; the verifier's
report decides the exit status and the attestation. The server's
handlers communicate through `_ServerState`, and with the checking threads through
the workspace and its locks; a check talks to the next one through the caches and
the latest snapshot. The extension talks to the server in requests that carry a
generation, and to the compiler through the files on the disk.

What is hard: cycles (primitives call each other), incremental state in the
pruning rounds (counts and a frontier instead of a recount), two identities for
one thing (slot keys and fact keys, compiler alternatives that are merged late,
coverage with a key of its own), rankings that must hold for every set of compiler
capabilities, scopes in the worklist, threads, requests and children whose answers
arrive when the world has moved on, caches that superseded work has written to, and
failures or crashes between file operations or commands. `PROJECT.json` lists each at its line under `hazards`.

## 2. Modules

| Module | Models | Theorems |
|---|---|---|
| `CallGraph` | the lowered slot list, groups, fallbacks, closed sets | `ClosureProofs` |
| `LiveClosure` | what pruning promises: drop unsupported slots, settle on a closed set | |
| `DependencyPruning` | `_prune_unresolved`: rounds over a frontier with provider counts; implements `LiveClosure` | `ClosureProofs` |
| `CallFacts` | `_propagate_transitive_call_facts` over the live slots | `ClosureProofs` |
| `BranchEmission` | marking, capability propagation, merging, coverage of the live slots | `ClosureProofs` |
| `ProfileGeneration` | `ProfileGenerator.generate` and `TargetSupportRecorder` | `ProfileGenerationProofs` |
| `Selection` | bodies of a primitive per slot, ranked, and the frontier over compiler capabilities | `SelectionProofs` |
| `AuthoringServer` | `AuthoringWorkspace` and the stateful handlers of the server, checks as a choice of outcome | `AuthoringServerProofs` |
| `AuthoringTexts` | corpora, for the two modules below | |
| `LastGood` | what checks promise: last good text, catalog and index, without caches | |
| `AuthoringCheck` | a check from the inside, against edits and file changes; implements `LastGood` | `AuthoringCheckProofs` |
| `ExplorerClient` | the specialization explorer, its analyses and the server it talks to | `ExplorerClientProofs` |
| `OutputWriter` | `ArtifactWriter` and the order of `run_generation_command` | `OutputWriterProofs` |
| `VerifyPlan` | the commands both backends plan for a project | `VerificationProofs` |
| `Verification` | the run of those commands, the attestation and the exit status | `VerificationProofs` |

`MC*` modules and their `.cfg` files instantiate them. The comments "Mutation",
"mutant" or "MUTANT" mark definitions that no specification uses: each is a plausible bug of
the definition after it, and the property named with it in `PROJECT.json` fails
when it takes that definition's place. They say what each property guards against.

### The call graph (`CallGraph`)

A slot is a position of the lowered list, one body. `key` is `_SlotKey`, what a
call resolves to; `form` is what `_CallFactKey` adds to it (parameter types,
immediates, generics) and `variant` what `_CompilerAlternativeKey` adds to that, so
`Group` is the set of slots with equal `(key, form, variant)` and a rank, as
`_compiler_alternative_key` collects them. `callees` are the concrete dependencies,
`guards` the calls of the checked companion alone. Keys are numbers in the order of
`dependency_sort_key`, so "the first missing call" is the least. The list itself is the
variable `program`, which the three passes share: any lowered list, chosen at the start.

### Pruning (`DependencyPruning`)

The code's loop body is three steps, `Scan`, `Cascade` and `Retire`, because its
correctness is about what holds between them: the counts are those of the start of
the round, the cascade removes slots the scan did not look at, and only then are
counts and frontier brought up to date. `Finish` is both exits of the loop.
`blame` is `unresolved_callee`. The abstract `LiveClosure` has no counts, frontier
or rounds; `ImplementsClosure` says that each round drops only what is unsupported
at that moment, which needs the cascade's order to be right.

### Call facts (`CallFacts`)

`FactId` is the identity several bodies share; `InitialFact` follows the loop that
resets the facts of an ordinary duplicate but keeps its proof gaps; `Visit` is one
turn of the worklist for any waiting identity (the code takes the oldest: the
properties hold for every order); `Publish` writes back. `Solved` is the reference
definition, by reachability instead of propagation.

### Emission (`BranchEmission`)

Starts from the largest closed set, which is what pruning is proved to deliver.
`MarkUnavailableChecked`, `PropagateCapabilities` (one round of the Jacobi
iteration per step), `Merge` and `RecordCoverage` are the passes in code order.
`EnabledBodiesCanCall` quantifies over all capability sets of the downstream
compiler, which no test can build.

### Profile generation (`ProfileGeneration`)

A worklist item is a primitive, types and a scope (the extension filter); `Process`
selects, lowers, and extends the worklist with the calls of the new bodies and the
harness at the types they bind. `Close` prunes and skips, `Record` covers; either
raises if the recorder would refuse a transition. What lowering makes of a body is
the constant `Catalog`. One body stands for a slot here, overloads and alternatives
being the subject of the modules above; free functions and the comparison between
backends are left out.

### Selection (`Selection`)

One primitive, one profile and one backend. `Emitted` are the extensions a package
is generated for, after an active variant has hidden its base. `EnterSlot` collects
the bodies a slot's extension offers or inherits (`Eligible`: clauses, features,
capabilities); `Consider` is one turn of `_compiler_capability_frontier`, best body
first, `CloseSlot` and `TakeBest` are the two ends of `best_bodies`. `SortKey` and
`Lower` are the ranking, number for number. Result targets, fixed-shape signatures,
sized vectors, the fixed-width fallback of overlays and the ambiguity warning
(candidates.py:230, a diagnostic that changes no choice) are left out.

### Editor session (`AuthoringServer`)

A handler is atomic up to its next `await`, a check is two lock regions with the
computation between them, and a coroutine resumes some time after its thread is
done: `Wake`, `Start`, `Accept` or `Raise`, `Publish` or `ReportFailure` are these
pieces. `space` holds every workspace ever made, since tasks of a replaced one are
still under way; `state.workspace` is the last. A text is a number and doubles as
its version. What a check finds (an index, diagnostics) is a free choice. Setting
the event and the waiter's turn on the loop are two steps (`Release`, `Answer`).
The one-time setup message and log messages are left out, as is the text of
answers.

### One check (`AuthoringCheck`, `LastGood`)

`AuthoringServer` leaves open what a check finds; this module is about nothing else.
`disk` and `buffer` are the files and the open documents, which change at any time
(`Write`, `Edit`). `Begin` is the first lock region of `AuthoringWorkspace.check`,
`CheckFails` and `CheckCorpus` are `check_catalog`, `Baseline` the second call of it
that seeds an empty session from the saved files, `Superseded` and `Accept` are
`_accept`. `states` is `ParsedDocumentCache._states` and `fragments` the
`CatalogIndexCache`; both are kept by checks that are superseded. A parsed document
has a number of its own, because the fragment cache compares objects, not contents.
A text stands for its digest, its version and the positions in it; which texts parse
and which corpora make a valid catalog are constants. Reading the corpus is one step:
files that change between two reads of one pass are not modelled. There is one check
at a time, as the check lock has it, and the replacement of workspaces is left to
`AuthoringServer`.

`LastGood` has no caches, document objects or intermediate results: of every document
the last text that parsed, of the corpus the last that was valid, and their index.
`ImplementsLastGood` maps the snapshot to it, together with what the check under way
has read.

### Explorer (`ExplorerClient`)

The handlers of the extension run on one thread, so a step ends where its handler
awaits: `Ask`, `Receive` are the two sides of a refresh, `Choose` and `Chosen` of a
choice that the editor stores, `Analyze`, `Launch`, `ChildExits`, `Settle` or `Fail`
of an analysis. `Serve`, `Answer` and `Publish` are the server's side: an answer is
computed in a thread from one snapshot and carries the generation the workspace has
when it is done. `Stop` and `Restart` replace the server, whose generations then start
again. A corpus is a version number; children read the saved one.

### Output tree (`OutputWriter`)

`disk` says what is at each logical path; a content is the run that made it and
whether it is whole, formatted, torn (a write of tslc that did not get to its end) or cut
short by a formatter. `Generate` plans against the tree as it is,
`Remove`, `Removed`, `Write`, `WriteManifest` are `write` one file at a time,
`Format`, `Refresh`, `Verify` the rest of the command (a formatter may format, cut short or
leave each file it is given, and is followed by the re-hash however it ended), `Crash` the end of the
process anywhere, `Change` the owner of the tree between runs. Digests stand for
what they are digests of. Manifests damaged by hand and paths that leave the root
are refused before anything is touched and are left out. Directories are never
removed, so a generation can be refused by one that only stale files made necessary
(writer.py:663); a refusal changes nothing, and the model has it.

### Verification (`VerifyPlan`, `Verification`)

`VerifyPlan` is the plan: which commands the C++ and the Rust driver make of the
profiles, tests, runners and executions of a project, in which groups. `Verification`
runs it: per backend the toolchain and the profiles are prepared (`RustToolchain`,
`HostQuery`, `Preflight`, `PrepareCpp`, `PrepareRust`), commands match their
expectation or not by choice, a failure drops the rest of its group (`Fail`,
`DropGroup`), a build of tests reports up to `MaxBinaries` binaries that are then run
one by one, and `Finalize` writes the attestation and draws the exit status. A missing
tool is found by the preparation or leaves the verifier at once (`CannotStart`).

## 3. Runs

| Run | Question | Bounds, and why they are enough |
|---|---|---|
| `pruning` | do the rounds deliver the largest closed set, with true reasons? | 4 slots, 3 ways of sharing keys, 5 ways of grouping, up to 2 calls per slot, one identity nobody provides: a chain of three rounds, a cycle, a cascade that feeds the next round and duplicates all fit |
| `call_facts` | does the worklist settle on the solution in every order? | 3 slots, all calls of one of them, three kinds of facts: cycles of length 1 to 3 with a tail |
| `emission` | does every call link, under every compiler? | 5 slots in two groups and a caller, 2 capabilities, with and without automatic capabilities; the groups under two identities, or under one with two signatures or one; every group kept its fallback |
| `selection` | does a package for an unknown compiler decide like one for a known one? | 3 bodies on a base extension and a variant that offers its types or one of them, 2 types, 2 independent capabilities, six lists of clauses: two bodies that cover a third and one that covers at one type only fit |
| `profile_generation` | is everything called discovered, and accounted for? | 3 primitives, 2 types, 2 extensions; calls across types, extensions and undeclared names; no extension filter, or one of one or two extensions |
| `authoring_server` | is every snapshot of one text, is nothing stale shown, are requests answered and the last edit checked? | 1 document, 1 request, 2 tasks, 2 edits, 1 save, 1 configuration change, with and without a workspace at the start: two checks overlap an edit and a replacement |
| `authoring_check` | do checks with caches deliver what checks from nothing would? | 2 files, 4 texts (two that define the same at other positions, one that uses it, one that does not parse), 3 changes, 3 checks: a superseded check between two accepted ones, and a fragment that is reused, replaced and asked for again, fit |
| `explorer` | does the explorer catch up, and never go back? | 2 targets, 2 rows, 2 analyses, 1 edit with its save, 1 other step of the author (a choice, a configuration change, a restart): two refreshes and two children overtake each other |
| `explorer_stale` | is what is shown as current of the current configuration? | the same; finding 1 |
| `output_writer` | does the manifest tell the truth after any failure? | 3 paths, one below another, 3 runs, 2 changes by the owner: a stray file takes two runs and shows in the third |
| `verification` | is what is accepted and attested what was run? | 5 projects of one or two profiles per backend, with the corpus' kinds of runners; tests, quality checks, runners and five sets of missing tools; up to 2 test binaries per build |
| `verification_runner` | is a build in which everything worked accepted? | the same; finding 2 |

Deadlock is not checked: every one of these programs stops when its work is done
or its inputs are used up; that it does not stop before is what `FactsSettle`, `WaitersAreAnswered`, `LastEditIsChecked` and `ExplorerCatchesUp` say. Pruning ends whatever its rounds do: a
round without removals has an empty frontier after it, and no property is spent on that.

Properties, per run:

* `pruning`: `FrontierIsEnough` (the incremental state is right), `LiveSlotsAreClosed`,
  `PrunesNoClosedSet` (not too little, not too much), `BlameIsAMissingCallee`,
  `ReasonsLeadToACause` (the members of a dead cycle do not blame each other),
  `ImplementsClosure`;
* `call_facts`: `FactsAreExact`, `GapsReachEveryCaller`, `FactsSettle`;
* `emission`: `EmittedCallsResolve`, `EnabledBodiesCanCall`, `CheckedCompanionsLink`,
  `CoverageIsEmission`;
* `selection`: `AutomaticAgreesWithExplicit`, `EveryAlternativeWins`,
  `HiddenExtensionsKeepTheirSlots`;
* `profile_generation`: `AccountedOnce`, `SupportTellsTheOutcome`,
  `PrunedIsUngeneratable`, `HarnessIsComplete`;
* `authoring_server`: `SnapshotDescribesOneText`, `ShownIsLastPublished`,
  `WorkspaceKeepsTheEditor`, `FirstAnswersFollowACheck`, `WaitersAreAnswered`,
  `LastEditIsChecked`;
* `authoring_check`: `SpansFollowTheText`, `LensesAreOfTheVersion`, `ImplementsLastGood`;
* `explorer`: `FreshResultsAreRecent`, `ResultsDoNotGoBack`, `ExplorerDoesNotGoBack`,
  `ExplorerCatchesUp`;
* `output_writer`: `StrayFilesAreOfUnlistedRuns`, `ManifestIsOfOneGeneration`,
  `AttestationIdentifiesTheBytes`, `OwnersBytesSurvive`;
* `verification`: `AcceptedTestsRan`, `AcceptedBuildsAreComplete`,
  `AcceptedRunsAreAttested`.

Type invariants are not checked by runs: the modules with proofs have theirs proved as
part of the inductive invariant.

### Fairness

The worklist of call facts is a loop of one thread, so a step that can be taken is
taken: weak fairness of its next-state relation. In the server, the event loop runs what is ready and threads
finish: weak fairness of the tasks' steps together, and of a released request's
turn; nothing is assumed of the client, and each separate task needs no fairness of
its own because a session has finitely many. In the explorer, the editor's event loop
and the server behind it run what is ready (`WF_vars(Editor)`: timers, requests, a
restart that was begun), and the editor stores a choice it was given
(`WF_vars(Chosen)`); edits, choices and analyses are the author's and need not happen.
Pruning, emission, the output writer, the verifier, selection and a single check have no liveness
property: they are loops over finite lists.

## 4. Proofs

Eight modules hold the proofs. Each starts from an inductive invariant, called `IInv`
where nothing else is said, that TLC has checked on the run of the module; a lemma per
action says that the action keeps it, `Invariance` that the specification has it, and a
theorem per property that it implies the property. An action property is proved from
the invariant step by step.

### The dependency closure (`ClosureProofs`)

Of pruning, for every slot set, call graph and grouping:

* `FrontierSufficient`, `ClosureCorrect`, `ClosureLargest`, `BlameCorrect`,
  `ReasonsAreGrounded`: the safety properties of the run `pruning`;
* `TypeCorrect`, and `CountsExact`: the counts equal a recount at every round boundary;
* `Refinement`: `Spec => ImplementsClosure`;
* `PruningDelivers`: what is live at the end is the largest closed set, the set from
  which `BranchEmission` starts.

They rest on `CallGraphAssumption` alone (finitely many slots, numbered slots and
keys). None of the properties is inductive as it stands. The invariant `IInv` adds
what the code relies on between the steps of a round: in `scan` the counts are those
of the live slots; in `cascade` and `retire` they are those of the live slots and
the removed ones; every live slot that is not in the frontier had all its calls
counted; after the cascade no gated body outlives its fallback; and no closed set
has lost a member. Each step has a lemma; `RetiredCount` does the arithmetic of
cardinalities, `ClosedIsMonotone` carries `PrunesNoClosedSet` through a scan. The reasons
stay grounded because what falls in a step was live before it, and nothing live provides
what an earlier slot missed (`BlameInv`): among any slots the first to fall blames none of
the others (`GroundedGrows`).

Of call facts, for any finite call graph and any order of visits: `FactsExact` and
`GapsReach`, from `CallFactsAssumption` (the facts of a body are facts). `FactsInv` holds
the facts between two bounds: they are never less than an identity starts with and never
more than the solution by reachability, and an identity that does not wait to be visited
has already told its callers all it has. When nothing waits, the facts are closed under
the call edges; that the least closed set of facts is the one by reachability is an
induction on the length of a path, with the least counterexample in place of an induction
rule. `GapsReach` then follows for bodies from what holds of identities, duplicates
included.

Of emission, for any list and any nesting of gated bodies: `EmittedCallsLink`,
`CompanionsAreWhole`, `EnabledBodiesLink` and `CoverageTellsEmission`, as theorems of
`EmissionSpec`. They rest on `BranchEmissionAssumption`, which the module declares because
the passes rely on it without looking:

* `FallbacksAreKept`: a group of capability-gated bodies is lowered with its unconditional
  one, and ranks exist only when capabilities are automatic. Selection keeps it
  (candidates.py:263, selector.py:435); a partial generation whose fallback fails to lower
  does not, which is the first of the behaviours in section 5;
* `LabelsFollowGroups`: the bodies of a group share the label a coverage entry is recorded
  under. The key of a group (`_pipeline_closure.py:735`) holds every part of the label
  (`_pipeline_profile_generation.py:568`): the mask policy where a name is split into
  several forms, and a name that is not split has one. The converse is not assumed: the
  label leaves out immediates, generics and type parameters, and groups that differ in
  nothing else share an entry, which the property and the run have.

The invariant `EInv` has a part per pass: the live set is closed under calls; the bodies of
a callable that keeps one needing nothing, and calls only such callables, never need more
than their own capabilities (`NeedsInv`); once a round changes nothing, each body needs
all it inherits from its calls (`SolvedInv`); what was marked, merged and covered.

### Profile generation (`ProfileGenerationProofs`)

For any catalog of finitely many primitives, types and extensions, and any request
(`ProfileGenerationAssumption`): `BodiesAreAccountedOnce`, `SupportIsTold`,
`PruningIgnoresTheRequest` and `HarnessIsThere`, all four properties of the run. The
invariant says of discovery that whatever a lowered body calls and whatever the harness
needs has been selected or is on the worklist (`CallsArePending`, `HarnessIsPending`), of the
recorder that its stage is the fate of the body so far (`SupportInv`), and of pruning that
the live bodies are closed (`ClosedInv`). With an empty worklist the first of them closes
discovery under calls, so that a pruned body is one that no closed set of the whole
catalog has: `PrunedIsUngeneratable` speaks about bodies that were never asked for.

### The editor session (`AuthoringServerProofs`)

For any documents, requests, tasks, edits, saves and configuration changes, from
`AuthoringServerAssumption` (finitely many documents, numbered tasks): `SnapshotsDescribeOneText`, `ShownIsPublished`,
and the action properties `FirstAnswers` and `KeepsEditor`. What makes them inductive is
`TasksOK`: a task is of a workspace that was made and of a generation it has had, and as
long as that generation is current its check has read the documents as they are. An edit
between the two lock regions of a check moves the generation, and the check is then
superseded; `FirstOK` relates the event, the tasks and the requests of the first
workspace.

### The explorer (`ExplorerClientProofs`)

For any targets, rows and analyses, and any edits and settings
(`ExplorerClientAssumption`): `FreshAreRecent`, and the action properties
`NoResultGoesBack` and `ExplorerMovesOn`. Generations are what the client compares, texts
are what the properties are about. The invariant connects them (`Recent`): while one
server runs, text minus generation is a constant, for what is shown, stored, asked,
answered or under way, so that an older generation is an older text; what remains of a
replaced server carries another session. `FreshAreRecent` is of results that were asked for
in the session whose answer is shown. The cache records no session (analysisModel.ts:87): a
new server counts its generations from the start, and a result kept from the old one passes
for fresh when the counts meet, which `UnstaleIsCurrent` forbids and the code does not prevent.

### Output verification (`VerificationProofs`)

For any projects, configurations, missing tools and numbers of test binaries: `TestsRan`,
`BuildsAreComplete`, `RunsAreAttested`. They rest on `ScenariosAssumption`: projects are
well-formed and have one profile of a name, since requested profiles expand to a set
(pipeline.py:403) and two with the same file name are refused by the writer before
anything is verified (writer.py:310). The verifier needs it: a result is joined to its
profile by name.

The invariant is stated as long as nothing was reported that rejects the run
(`Tolerable`): each profile of the backend under way still waits, is excused by a note or
is ready (`PreparingInv`), and then is excused or has each planned command done or still to
run (`RunningInv`); a backend that is left behind has complete profiles (`FinishedInv`). Two
short cuts of the preparation need parts of their own: the answer of a C++ preflight that
is kept, which excuses later profiles without a note of theirs (`NativeInv`), and Rust
profiles left out because the host is unknown, which were excused before their turn
(`HostInv`). `Follows` counts test binaries: the results after a build are its first
binaries in order, all passed, and as many are left as were not run. That every failure
rejects a test run is `Planning`: a planned command is reported with an error unless value
tests run, where any report rejects. `CppPlans` and `RustPlans` prove it of both plans,
and that every ready profile has its commands planned.

### The others

`OutputWriterProofs` proves every property of the run `output_writer` for every set of
paths, every number of runs and of changes: `TypesHold`, `StraysAreKnown`,
`OneGeneration`, `Attested` and the action property `OwnersFilesSurvive`, over every
failure, crash and change of the owner. They rest on `OutputWriterAssumption`: finitely many numbered paths,
none above itself. The invariant adds, stage by stage, what is already true of the tree
(`Removing`, `Writing`, `Listed`): a stale path that is no longer to do is no file, an
artifact that is no longer to do is on the disk as this run wrote it, unless something has
failed; once listed, the disk agrees with the manifest; once formatted, every listed file
is still of this run and not torn. `OneGeneration` does not say that listed files are whole:
what a failing formatter cut short is re-hashed and listed as it is. `OwnersFilesSurvive`
also takes `NoneAdopted`: what a manifest lists where the owner put a file that was not
listed is a file that a run has written there since. The heart of the invariant is
`Planned`: writing one artifact makes directories above it, and planning has made sure that no other artifact and no file is one of them, so
that what was checked before anything was removed is still true when the last file is
written (`WithKeepsTree`, `WrittenDisk`).

`SelectionProofs` proves the three properties of the run `selection`, for any bodies,
extensions and capabilities: `AutomaticAgrees`, `AlternativesWin`, `HiddenKeepSlots`. They
rest on `NumberedAssumption` (finite sets, numbered in the order of their names),
`ProgramAssumption` and `NoSlotAssumption`; the last one also on `InheritanceAssumption`. The loop invariant
(`LoopInv`) says of the bodies already ranked that a dropped one is covered by a kept
one that ranks above it and that no kept body covers another; `ChosenInv` keeps what
that means once the slot is closed. The ranking is shown to be a strict total order
(`LowerTransitive`, `LowerTotal`), so that every compiler has a first usable body, and a
frontier is shown to decide like the set it was taken from. `SlotsInv` says that no slot
is passed over.

`InheritanceAssumption` has a part that validation enforces, that inheritance has no cycle
(`invariants.py:296`), and a part that only the corpus has (`tsldata/extensions/extension.tsl`):
a variant inherits from what it hides, and is not hidden itself. From the first,
`ChainsCompose` shows that whoever inherits from an extension inherits all that one does,
which takes that the recursive `Ancestor` exists for any number of extensions
(`ChainExists`) and that an ancestor's chain is the rest of the chain (`ChainsContinue`).
The property speaks of the types the variant offers: `rvv128mf2` and `rvv512mf2` hide
`rvv`, whose 64-bit types no register group of theirs holds, and those are lost.

`AuthoringCheckProofs` proves all three properties of the run `authoring_check`, the
refinement included, for any set of files and texts, any number of checks and any
changes of buffers and files between any two steps: `SpansFollow`, `LensesHold`,
`Refinement`. They rest on `TextAssumption` (only what parses is built) and
`FileAssumption` (`None` and `Unreadable` are no texts or results). The invariant
`IInv` says of the caches that a state is of the text its digest is of and a fragment
of its own document (`CachesOK`), of the snapshot what is to be proved (`LatestOK`),
and of a check under way what it may have learned, apart from what a later baseline
adds (`SeenOK`, `UnseenOK`, `OwnOK`, `SeededOK`). `ReuseIsFresh`, `IndexIsOfTexts` and
`MergeOfTexts` are the three facts that make caches, objects and merging disappear.

### Only model-checked

* Liveness, which TLAPS does not handle: `FactsSettle`, `WaitersAreAnswered`,
  `LastEditIsChecked`, `ExplorerCatchesUp`.
* The two findings of section 5, which are runs that fail.

## 5. Findings

Two are runs that TLC is expected to fail, with the quotation in `PROJECT.json`.

1. `explorer_stale`: a configuration change while an analysis is under way outdates
   nothing. `store()` records the configuration count of the moment the result is stored
   (analysisModel.ts:87), where the corpus generation is taken when the analysis is asked
   for (explorer.ts:631): the result of the old configuration is shown, and reused, as
   current.
2. `verification_runner`: `tslc build` of a cross-compiled Rust profile with a configured
   runner is rejected although every command did what was expected, because the follow-up
   on test binaries goes by the step and the runner and not by the mode.

The models also have the following behaviours, which a maintainer may want to know of;
no run is about them, and properties are stated of the rest.

* A partial generation in which a capability-gated body lost its fallback while lowering
  keeps the callers of the group and does not emit the group (`MarkUnavailableChecked`,
  `Merge`).
* With an extension filter of several extensions, a primitive that is both requested and
  called is lowered under two scopes: it is emitted and covered twice, and with a
  target-support trace the recorder raises `ValueError` out of `generate`.
  `AccountedOnce` is stated of unfiltered generation.
* A check of a replaced workspace releases requests that wait for the first check of the
  new one: `Ask`, `Start`, `Configure`, `Raise`, `ReportFailure`, `Answer`.
  `FirstAnswersFollowACheck` is of the first workspace.
* Documents opened while the configuration does not load are unknown to the workspace a
  corrected configuration makes: `Edit`, `Configure`.
* A generation that emits an artifact where the owner of the tree has a file overwrites
  it and lists it as its own, so that a later one that does not emit it removes it
  (writer.py:130; api.py:136-137 says that unrelated files are never adopted).
* A check that cannot read a file records the versions of the open documents all the
  same, while documents keep the parse of an older text; a code lens can then be offered
  at an older position: `CheckFails`, `Accept`.
* An answer of a refresh that was sent before a choice is stored writes the old target
  back, and the choice is lost: `Choose`, `Receive`, `Chosen`.

## 6. Not modelled

Parsing, the catalog, lowering, backends, rendering, value tests, benchmarks and the
content of the index are pure data transformations, most of the code by lines; their
results are constants here, and they are tested by value in the repository. The lowering
cache memoises one of them under an explicit key. Maintenance tools, release scripts, the
pivot tool, research notes, documentation and the corpus are not part of the running
system.

Of modelled components: in the server, the projections that answer requests (hover,
completion, scaffolds) and the size of the thread pool; in profile generation, free
functions, several bodies of one slot and the comparison of backends; in selection, what
its section names; in verification, command lines, environments and the wording of
reports; in the client, previews (preview.ts:228 has the same shape as the explorer's
refreshes), status items, and the start-up of the extension, where overlapping restarts
(extension.ts:121) and an older click (extension.ts:225) are cut off by counters of their
own.

## 7. Plan

Next, in this order:

1. `LoweringCache`: a hit equals a fresh lowering, for the key the code uses;
2. `Pipeline`: profile generation composed with emission, several bodies per slot,
   both backends, strict and partial modes, and the generation command behind it;
3. result targets and sized vectors in `Selection`;
4. `PreviewClient`: superseded previews of the VS Code client.
