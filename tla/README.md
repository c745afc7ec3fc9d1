# CombLang in TLA+

CombLang is a TypeScript DSL for Factorio circuits: a parser and elaborator
(packages/language, packages/compiler), a runtime that executes the elaborated
source and produces a circuit (packages/runtime), a circuit simulator
(packages/simulator), blueprint import and export, a command line and a browser
workbench (apps/web). This directory is a verification project for it: TLA+
modules translated from the sources under `src/`, TLC configurations that check
them on small instances, and proofs for TLAPS.

    tlc -config CompilerPage_page.cfg MCCompilerPage      # one run
    tlapm CompilerPageProofs.tla                          # one proof module

`PROJECT.json` records, for each definition, the source lines it stands for, for
each property a mutated definition that breaks it, the hazards the properties
are for, and the findings.

## 1. The system

Component | State it keeps | Operations | Talks to
--------- | -------------- | ---------- | --------
Compiler Worker scheduler (`compiler-worker-scheduler.ts`) | generation counter, phase, one queued and one active request, binding capture, coldness | create, enqueue parse / binding / import, mark ready, take, complete, fail | called by every handler of the page
Test binding controller (`test-binding-controller.ts`) | snapshot of the run, one pending and one active case, revisions owned | begin, request case, take, release, complete, cancel | page, scheduler
Blueprint import session (`blueprint-import-session.ts`) | state, snapshot, verified document | begin, complete, fail, invalidate, consume | page
Workbench page (`main.ts`) | revision counter, current revision and plan, timers, Worker handles, panel states | every user event, Worker message, timer and error handler | all of the above and both Workers
Compiler Worker (`parser.worker.ts`, `compiler-worker-request.ts`) | retained parameter session and its token, cached profiles | parse, bind, import | page, by message
Test Worker (`test.worker.ts`, `test-worker-binding-inbox.ts`) | the run, the case it awaits | run, ask for a binding, receive it | page, by message
Prototype profile selection (`main.ts`, `prototype-profile-*.ts`) | active profile, previous profile, pending selection, identity the Worker holds, saved selection | choose file, clear, restore, commit, roll back | page, Worker, browser storage
Offline shell (`public/sw.js`, `shell-manifest.ts`, `offline.ts`) | one cache per build, named by the digest of its content | install, activate, fetch, warm; register | browser, static server
Source preview and timeline (`source-demo.ts`) | simulation state, tick, playing timer | step, play, pause, reset, pin inputs | simulator
Command line (`apps/cli`) | none that outlives a command | compile, test, import, export | packages
Language front end, elaboration transform | none that outlives a pass | parse, resolve, rewrite | runtime
Elaboration runtime (`elaboration-program.ts`) | networks, combinators, pairs, function frames, topology snapshots, call count | every call of the recorded program: network, enter, exit, borrow, move, return, take, pair, join, compare, decider, attach, instantiate | ownership, colours, entities
Network ownership (`elaboration-ownership.ts`, `network-*-policy.ts`) | per network: generation, owner, borrows, consumed; per frame: its borrows and moves | borrow, move, return, consume, release a frame | elaboration runtime
Circuit colours (`circuit-color-constraints.ts`, `color-solver.ts`) | union-find with parity, causes | require equal / different, solve | resolved circuit
Direct plan, resolved circuit | none: one pass | replay, validate | simulator, export
Parameters (`source-parameter-binding.ts`, `blueprint-*.ts`) | the retained template | bind overrides | compiler Worker
Simulator (`packages/simulator`) | one bus per network; a session's drives, pulses, callbacks, mocks, models, traces | step, drive, pulse, at, mock, model, trace, tick, settle, finish | test bodies, timeline
Factorio values (`packages/factorio`) | none | 32-bit arithmetic, sparse buses | simulator
Blueprint exchange and import analysis | none: one pass | decode, analyse, verify | compiler Worker
Prototype database, entities, layout, renderer, shared | registries of one compilation | validation and lookup | compiler, runtime

`PROJECT.json` lists the same components with their files and what is modelled.

### What is hard

The part of the program where orders matter most is the workbench. It is an
event loop with three timers that feeds two Workers, each of which can crash,
hang, answer late, or answer a question that no longer matters:

* the source changes while its parse is on its way to the Worker, in it, or on
  its way back; a late answer must not replace what is newer;
* parses, parameter bindings, conversions and the bindings of test cases compete
  for one active slot and one queue entry, with different rules for who
  displaces whom;
* the Worker retains the session of the last parameterised source, the page
  names it by a capture, and the two must agree although each side learns of a
  change by a message;
* the loss of a Worker has five causes (boot timeout, error event, timeout of
  each of the kinds of request) with a handler each, and every panel that waited
  for it must hear of it;
* a prototype profile is chosen, sent, validated, committed, written to IndexedDB
  and selected for the next visit in steps between which the user chooses another
  one, disables it, or loses the Worker;
* a test run borrows the compiler Worker for its cases while its own Worker is
  watched by a timer that must not run while it waits;
* service workers of several builds share one store: one installs while another
  serves the open pages, the server is redeployed between two of its fetches, and
  an activation deletes the caches it takes for old ones.

The packages are sequential: an elaboration runs to its end or throws. What is
hard there are long sequences of legal calls, by a source that may catch the
error of a call and go on: colour constraints in any order with queries in
between, operations on the topology that fail half-way and are rolled back, and
Network handles that are borrowed, moved and returned across functions. A test
session is sequential too, but a test schedules callbacks into its boundaries,
which may throw in the middle of one, and replaces objects of the circuit while
unknown values travel through it.

What makes each modelled component correct is the list of properties in section 3.

## 2. Modules

Module | What it is | Code
------ | ---------- | ----
`CompilerScheduler` | the scheduler, as operators from a scheduler record to the next one | `compiler-worker-scheduler.ts`, requests of `worker-protocol.ts`
`TestBinding` | the controller and the page's test state, as operators | `test-binding-controller.ts`, test functions of `main.ts`
`BlueprintImport` | the import session, as operators | `blueprint-import-session.ts`
`CompilerPage` | the state machine: page, compiler Worker, test Worker, messages, timers, faults | `main.ts`, `parser.worker.ts`, `compiler-worker-request.ts`, `test.worker.ts`, `test-worker-binding-inbox.ts`
`CompilerPageProperties` | type invariant, safety, action and liveness properties, fairness | 
`NewestSource` | abstract specification: what the preview promises whoever edits |
`MCCompilerPage` | the sets of inputs and faults the runs use |
`PrototypeProfile` | the state machine of the profile: page, Worker, IndexedDB, saved selection | `main.ts`, `prototype-profile-*.ts`, `compiler-worker-request.ts`
`PrototypeProfileProperties`, `MCPrototypeProfile` | its properties, its instances |
`CircuitColorConstraints` | the engine for wire colours: union-find with parities | `circuit-color-constraints.ts`
`ColorPromise` | abstract specification: the set of colourings still possible |
`CircuitColorConstraintsProperties`, `MCCircuitColorConstraints` | its properties, its instance |
`Elaboration` | the recorder an executed source calls: ownership, colours, topology, transactions, over `CircuitColorConstraints` | `elaboration-program.ts`, `elaboration-ownership.ts`, `elaboration-color-constraints.ts`, `combinator-registry.ts`, the policies
`DirectPlan` | the replay of a sealed plan, as one operator from a plan to an error or none | `direct-plan.ts`, `elaboration.ts` of the runtime
`ElaborationProperties`, `MCElaboration` | the recorder's properties, its instance |
`CircuitValues` | circuit integers that wrap, sparse buses, known and unknown buses, as operators | `int32.ts`, `sparse-bus.ts`, `bus-value.ts`
`Combinators` | what the four combinators make of a bus, and of an unknown one | `decider.ts`, `arithmetic.ts`, `selector.ts`, `combinator-device.ts`
`TestSession` | the state machine of a test: the value kernel, its devices and objects, callbacks, the trace | `test-session.ts`, `value-kernel.ts`, `kernel.ts`, `trace.ts`, `trace-reader.ts`
`SimulationProperties`, `MCSimulation` | its properties, its circuits |
`OfflineShell` | the state machine of offline use: workers, caches, pages, static server, network | `sw.js`, `shell-manifest.ts`, `offline.ts`
`OfflineShellProperties`, `MCOfflineShell` | its properties, its builds |
`CompilerPageProofs`, `PrototypeProfileProofs`, `CircuitColorConstraintsProofs`, `ElaborationProofs`, `ElaborationPlanProofs`, `LeftFolds`, `SimulationProofs`, `OfflineShellProofs` | the theorems |

A class of the page without asynchrony of its own is a set of operators: its
fields are a record, a method maps the record to the next one, and an early
return that the caller observes is a predicate of its own (`CanEnqueueBinding`
beside `EnqueueBinding`). The page's handlers are the actions. A handler runs in
one turn of the event loop, so it is one action with everything it calls; most
end in `pumpCompilerWorker()`, modelled by `Pump`, which receives the scheduler,
the tests, the link and the counter as the handler leaves them and decides
whether to take a test case, start a Worker or dispatch a request. The Worker is
a separate process: its handling of a parse or an import has an `await`, so it is
two actions; a binding is synchronous, so it is one.

Messages to the compiler Worker: the scheduler allows one at a time, so the
mailbox holds one request (`OneOperation` checks that nothing is overwritten).
Messages from it are a set tagged with the generation that posted them, delivered
in any order: a terminated Worker's message may still be delivered late, which is
what the generation checks in `handleWorkerMessage` are for. The test Worker's
messages are a sequence, since order between `waiting` and `bind` matters.

Abstractions:

* A source text is the revision it was given. What compiling it yields is one of
  four outcomes: `plain` (no parameters), `parametric` (a circuit and a retained
  template), `symbolic` (only a template), `error`. A parametric source that
  cannot be retained behaves as `plain`, a symbolic one as `error`.
* A binding yields `bound`, `invalid` or, exactly when the Worker does not retain
  the token and revision named, `expired` (WP1007). A conversion yields a verdict.
* Parameter values are `panel` or `case`: who chose them.
* In `CompilerPage` the prototype profile is ready once restored and does not
  change: `PrototypeProfile` has its changes, with parses as the only requests and
  the same `CompilerScheduler`. Toggling the inclusion of numeric parameters is an edit, which has the same handler.
* Where a handler raises the test revision several times in one turn the model
  raises it once: only whether two revisions differ is ever asked.
* A profile is its content, a model value; its identity is the content it is the
  digest of, once a Worker computed it. The transaction that writes a profile to
  IndexedDB is one step that succeeds or fails; writing the selection to the
  tab's storage does not fail.
* A network of the colour engine is its index in the order of registration, and 0
  is the anchor, which the code also keeps in slot 0. `find` compresses paths as
  it recurses: `RootOf` is what it returns, `Compressed` what it leaves. The
  error a rejected constraint throws is the outcome `conflict`.
* A bootstrap timer or a request timer that finds its operation gone does
  nothing, so only a firing that finds it is an action.

### The recorder

`Elaboration` is the program's side and the recorder's at once. The program is
nondeterministic: it keeps every handle it was ever given, as closures can, and
at each step makes any call of the API with any of them. One call is one action,
up to its return or its error, since nothing runs beside it. Its errors have the
three fates of the code: outside a transaction the recorder is poisoned and the
rest of the program fails (`Poison`); a recoverable error inside a transaction is
rolled back and may be caught (`RollBack`); an error that leaves a
`t.instantiate` restores the snapshot taken when it began if it was recoverable,
and poisons otherwise (`FactoryThrows`). What a snapshot holds is the variable
`topology`; what it does not hold are variables of their own, as in the code:
borrows and frames, the pairs of the plan, the number of DSL calls, and what the
program knows.

* A network is its position in the order of registration, which is its name, its
  key in the colour engine and its row in the ownership table at once. The
  program drops handles of networks whose creation was rolled back, as a name
  that is used again would otherwise stand for two networks.
* A combinator is the lanes of its output connector, the networks its condition
  reads, and whether the output was used. A condition is the set of networks it
  names.
* A connector's logical networks are found by following the transfers
  (`LogicalRoot`), which is what the forest of logical parents holds.
* `forgotten` is a history variable: it names what a rollback has undone although
  the program may still know of it (moves, reads), or has left behind although it
  was undone (pairs, fixed colours). Properties that such a history may break say
  so, and section 5 lists these cases.
* Left out: the frames of loops, the facets by which a combinator is passed as a
  network parameter, conditions appended to a decider, arithmetic and selector
  configuration, entities, captures, labels and counters of capability use. Joins
  are of one or two inputs.

### The simulator

Each device's `evaluate` is a step, so that a model that throws leaves a boundary
half-way; callbacks run in one step each before them, and the commit at the end
is one. `world` is a `SimulationKernel` that runs the same circuit on concrete
buses, with arbitrary outputs for the connectors nobody modelled: it is what the
game would do. `begun` and `history` remember the last committed boundary and the
values of every target. A test's models are written by the test; the three
behaviours (`echo`, `pulse`, `fails`) keep no state, keep one bit, and throw.
Signals are numbers in the order of their identifiers, a constant combinator's
sections are one bus, and circuit integers are `Width` bits wide.

### The offline shell

A build is identified by the digest of what its manifest names, so a build *is* its
content; `Bundle` says which files its index.html and each of its chunks name.
Files have the digest of their content in their name and are the same on every
server that has them; index.html is the exception, and a cached one is the build it
came from. The handlers of `sw.js` are split where they await something that can
change in between: the fetches of the files, that of index.html (the last name of
the sorted manifest), the opening of the cache, the writes to it, the end of the
installation; and a navigation between the server's answer and the write that stores it.

What the browser does is external and as the Service Workers standard has it: one
worker installs at a time, a newly waiting worker replaces the one that waited, and
the waiting one is activated once no page uses the active one. `Activates` has
activation before another installation begins, which favours the code. A worker may
be stopped at any await, with some of the files in its cache (`InstallFails`), and an
activation may delete the cache it has opened: what it then puts is lost. `deleted` is
a history variable: the workers whose cache an older one deleted, from the moment
they have opened it.

* All files but index.html are fetched in one step: their order decides nothing, and
  each is the same on every server that has it. They are put in one step, or in part
  if the installation fails.
* Left out: error statuses of a navigation, reloads that bypass the worker, the
  browser's own eviction of storage, requests outside the scope.

## 3. Runs

Run | Inputs and faults | What it shows
--- | ----------------- | -------------
`page` | edits, panel bindings, conversions, applications, edits of the import input; crash, boot timeout, timeout | one operation at a time, in exactly one place; a capture is retained by the live Worker; the enabled panel is backed by a capture; the first parse of a generation gets the cold budget; a queued parse is displaced by a newer parse only; preview and panel are of the newest text (refinement of `NewestSource`); a verified import preview is of the current input and source, and a pending import panel has its conversion under way
`tests` | edits, bindings, test edits; crashes of both Workers, boot timeout, watchdog; two cases a run | the controller's active case is the scheduler's active binding; the test Worker is answered only about the case it awaits; a run is watched exactly while it executes
`live` | edits, bindings, conversions, test edits; crash, timeout, test crash; fair | a pending preview and a binding settle; a test run ends, or is the one of finding 2
`profile` | edits, choices of a good, a bad or a malformed file, disabling, reload; seven faults of Worker, file, storage and network; fair | the preview is compiled with the selected profile; an identity belongs to its content; only accepted profiles are stored, and the saved selection becomes only what is in use; a choice settles
`colors` | constraints on up to three networks and the anchor, queries, unknown networks | the union-find keeps its shape; it implements `ColorPromise`: rejects exactly what contradicts the accepted constraints, answers what all colourings have in common, resolves to the least one; a copy relates networks as the original does
`functions` | any three counted calls on two networks and a combinator, two function entries, one `t.instantiate` at a time | borrows end with their frame and exclude each other; what is borrowed is neither consumed nor moved; a network has one owner among all the handles ever given; a dead handle stays dead; the transfers of a sealed plan replay; an output called unused is read nowhere
`connections` | any four calls on four networks and a combinator, colours required or not, no functions | every sealed plan replays: the recorder accepts nothing the replay rejects
`sessions` | 151 circuits: 147 shapes of deciders, two ways of equal length, an oscillator, a selector behind an unsupported constant, two objects with four connectors; drives, pulses, callbacks, mocks, models that throw, traces | what is known is true; devices evaluate in any order; traces replay; a failed boundary is invisible; no callback is scheduled for a boundary that has begun; what `settle` returns is a fixed point
`offline` | two builds deployed in turn, two tabs; a network that comes and goes, installations that fail | the serving worker's cache is complete; a page of its build finds there all it may ask for; a page never loses a file it could load from the cache
`case_preview` | test edits; timeouts | finding 1
`case_wait` | test edits, bindings and conversions; timeouts | finding 2
`color_clone` | as `colors` | finding 3

Deadlock is not checked in the runs of the workbench, where the page rests when the
user does, nor in those of the recorder and of sessions, where a sealed plan, a
failed recorder or a finished session is the end. The colour engine can always be
called and the network can always change, so it is checked in those runs. `SimulationProperties` has two assumptions that
TLC evaluates for every pair of circuit integers: exponentiation by squaring is
the repeated product, and quotient and remainder give the dividend back.

### Bounds

`MaxRevision` stops the user, not the system: no new edit, binding, conversion,
choice or reload starts once the operation counter reached it. Three to five
operations are enough for one of every kind in flight, one queued behind it and
one that replaces the queued one. `MaxWorkers` is the number of compiler Worker
generations; no fault hits the last, so two give one loss at every point, after
which the replacement works. `MaxInputEdits` bounds edits of the import input;
one makes an answer stale. `MaxTestRevision` bounds test edits and refused
bindings, each of which cancels a run (four in `live`, which are enough for the
state of finding 2 to be reached and excepted); `Cases` is the number of cases of a run,
two where the order of cases matters. `MaxSelections` bounds the choices and
disablings of one visit: three allow a validated profile, a candidate and one
that replaces the candidate. A run enables only the inputs and faults its
question is about; handlers of one feature do not read the state of the other
ones except through the scheduler, which every run of the workbench exercises.

`MaxNetworks` is three, which with the anchor gives two trees of rank one to be
linked, a path of length two to be compressed and an odd cycle through the
anchor; the theorem about the engine has no bound.

In the recorder's runs `DslCallBudget` is the constant of the code, with a small
value: three calls are enough to make a network, borrow or move it and use it again,
or to make a combinator of two conditions and connect it; a join or a destructuring
costs the code one more for the network it makes, and costs one here, so the runs
have every sequence of calls within the budget and some beyond; calls that the code
does not count (bind, compare, return, destructure, exit) are limited only by what
they can do. `MaxCalls` is the number of functions entered: two give a caller with
borrows of its own. `MaxNetworks` counts the networks at a time, lanes of outputs
included; `connections` has four, for a transfer into each side of a pair and an
output of two lanes. `MaxConditions` and `MaxCombinators` bound what the program
keeps. The two runs divide the API: `connections` has no functions, since frames
decide who may call and not what a plan contains.

A circuit of the simulator's run says how many operations its test may make
(`maxCalls`, two or three) and how long it lasts (`maxTick`, two or three): a mock
is put out and cleared, or replaced, within a run, but longer histories, such as an
object that a traced target sees unknown, mocked and unknown again with other calls
in between, are covered by the theorems and not by the run. A mock puts out a bus or
an Unknown of its own (`MockedValues`). A width of four bits makes products wrap;
nothing in the code depends on 32 beyond `| 0` and the masks of shifts, which are of
the width.

In the offline run `MaxDeployments` is two: the server goes forward and back, so the
build that waits is superseded by an installation of the one that serves, and an
activation meets an installation that has opened its cache. The builds differ in
their main chunk and share a Worker, which alone names an asset; a chunk that nothing
names is in neither manifest. Two tabs are what an activation that must wait needs,
and are interchangeable (`SYMMETRY`, sound since nothing asked is liveness).

### Fairness

Event loops are fair: an armed render timer fires, a posted message is delivered,
a Worker handles the message it has, profile restoration ends. Each is a weak
fairness condition on the action or on the process's actions. In the
profile runs reading a file, restoring the saved profile and the Worker's parse
end as well, with success or failure. Nothing is assumed of the user, and no
fault has to happen. A Worker that hangs is a Worker whose
request timer fires: the timer is a fault of the model, and a hung Worker that no
timer watches (finding 2) appears as a run that waits for nothing.

## 4. Proofs

The theorems about the page hold for every value of the constants that satisfies
`PageAssumption` (types only), so for every mix of inputs and faults and any
bound; those about the colour engine for any number of networks, those about
the recorder for any bounds and any program, those about test sessions for any
circuits, conditions and behaviours of models that satisfy the assumptions beside
their constants.

* `PageTypeCorrect`: `Spec => []TypeOK`. The inductive invariant is `TypeInv`:
  `TypeOK` and that the answers in flight to a conversion are verdicts, which is
  needed because the verdict becomes a field of the session.
  `CompilerPageProofs` first states what each operator of scheduler, controller,
  session and `Pump` returns, then has one lemma per group of handlers. What the
  profile needs of the scheduler's operators `PrototypeProfileProofs` states again,
  since the two pages have variables of the same names.
* `PageShowsNewestSource`: `Spec => ShowsNewestSource`, the refinement of
  `NewestSource` with the current revision, the revision of the plan and the
  revision of the panel. It rests on `NewestInvariant`: the counter is a number
  not below the current revision, and plan and panel are of that revision or
  empty. Without the counter the step of `Renew` (strictly larger) is not
  provable; without plan and panel the `Answer` step is not, because a handler may
  leave one of them as it was.
* `QueuedParseNeverLost`: `Spec => QueuedParseSurvives`. The inductive invariant
  `QueueInv` says that what is queued has a revision no larger than the counter,
  and that a queued request exists only while the Worker boots or is busy, so
  that the pump at the end of a handler leaves none behind that could be
  dispatched. The proof then follows each handler: what it enqueues is newer, and
  what it takes becomes active.

* `CompilerPageProofs` also proves the safety invariants of the page. Four inductive
  invariants build on each other; TLC checked each of them before it was proved.
  `WorkInv` is the compiler's part. It is stated of a scheduler, a link, a Worker
  and the answers in flight, rather than of the variables, since a handler first
  completes, enqueues or fails and then pumps, and the same must hold of what it
  gives to its pump (`Pumps`, with one lemma per kind of handler).
  * `OperationIsInOnePlace`, `CaptureIsAlwaysRetained`, `FirstParseIsAlwaysCold`.
    `OneOperation` alone is not inductive: it needs that generations are never used
    twice (`Generations`). `CaptureRetained` needs that no
    capture survives a parse that is queued or active, and that a binding under way,
    or queued, names what the Worker retains (`Captured`); the queue can then only
    hold a binding behind another binding (`Behind`). `FirstParseIsCold` needs that a
    scheduler which has completed a parse has a Worker that has begun one (`Timed`).
  * `PanelIsAlwaysBacked` (`PanelInv`): the pump never drops a capture, and every
    handler that does also disables the panel.
  * `PreviewIsAlwaysOfInput`, `PendingImportIsAlwaysWorkedOn` (`ImportInv`). A panel
    that waits does so for the newest request there is, which is a conversion of the
    input as it now stands (`Converting`): an answer for it therefore cannot be
    about an older input. What is queued behind a conversion is a conversion or a
    parse, and a parse invalidates the session.
  * `ActiveCaseIsAlwaysBinding`, `AnswerIsAlwaysAwaited`, `ExecutionIsAlwaysWatched`
    (`TestInv`). The three are about one conversation, between the test Worker, its
    mail, the controller and the scheduler. `Dialogue` says whose turn it is: the run
    executes, its question is the last message of its mail, or the page has the
    question, has given it to the compiler or has answered it, and each of these
    excludes the others. The mail of terminated runs may still be on its way, so
    `Conversation` also says that no message is of a later run than the newest.

* `PrototypeProfileProofs`: `PreviewAlwaysUsesSelectedProfile`,
  `IdentityIsAlwaysOfContent`, `StoredProfilesAlwaysLoad` and
  `SavedChoiceIsAlwaysInUse`, for any set of profiles. What is shown is decided by an
  answer that was computed for a request which was queued when another profile may
  have been in use. `ProfileInv` follows the profile along this way: a request that is
  queued, in the Worker or answered, and of the current revision, is for the profile
  in use (`Carried`); a request that only refers to a profile names the identity of
  its content; a save or a read that belongs to the newest choice finds the page as
  that choice left it (`Saving`, `Reading`, `Restoring`), and one that does not is
  without effect.

* `EngineKeepsPromise`: `Spec => KeepsPromise`, the refinement of `ColorPromise`
  with the colourings that agree with every node's parity to its parent. `find` is
  recursive, and induction over the forest is not available to the prover. The
  inductive invariant `EngineInv` therefore says, beside the shape of the forest,
  that the equation of `find` has a solution: every operation shows one for the
  forest it leaves (`CompressedKeeps`, `LinkedKeeps`, `AddKeeps`). Ranks grow
  towards the root and are bounded, so a node of greatest rank in a set of
  counterexamples is a root or has its parent outside (`RankInduction`, from the
  well-foundedness of the naturals); this gives uniqueness (`RootUnique`), what
  `find` returns (`RootFacts`), and that colours agree with the forest exactly if
  they agree with every node's root (`AgreesByRoot`). `EngineCorrect` and
  `ColorsTypeCorrect` are its safety part.

* `PreflightAlwaysAgrees`: `Spec => []PreflightAgrees`. `clone()` leaves the anchor's
  slot out of the copy, and the copy still answers every question about networks
  as the original. The anchor is the destination of no union and the only node below
  which ranks do not grow, so no network hangs below it as long as its rank stays 0
  (`AnchorInv`); the copy then has every network's root and parity (`CloneRoots`).

* `ElaborationProofs` and `ElaborationPlanProofs` prove every property of the recorder
  that a run checks, for every program (which keeps every handle and makes any call at
  any time), any number of networks, functions and combinators, and any sequence of
  rollbacks. The first has `BorrowsAlwaysExclude`, `AlwaysOneOwner`,
  `UnusedIsAlwaysUnread`, and of steps `DeadHandlesAlwaysStayDead` and
  `BorrowedAlwaysStaysPut`; the second, below, `TransfersAlwaysReplay`,
  `PlanAlwaysReplays` and `RecorderTypeCorrect`. They rest on one inductive invariant,
  `Inv`, which TLC checked before it was proved:
  * `Reflects`, `FramesHold`: networks note their borrows and frames hold them; a
    rollback restores the former but not the latter, so the two could part.
  * `OwnersRise`, `OwnedByCalled`, `DeepEnough`: a frame that holds a borrow is at least
    as deep as the frame that owns the network. So when the innermost frame moves
    a network of its own, the borrows of the network are its own as well, which is the
    exception that `BorrowedStaysPut` makes, and the only one.
  * `Known`: no handle is of a generation its network has not reached, except after a
    rollback that undid a move. A handle that is dead has been passed by its network.
  * `MovesHeld`: what was moved in is among what the frame of the owner gives up when
    it ends, as long as it is alive. `OneOwner` is not inductive without it.
  * `NamedKnown`, `ReadsMarked`: every output that a combinator, transfer, pair or
    condition names is marked. A rollback takes the marks and what was read away
    together; conditions and pairs it leaves, which is when `forgotten` excuses it.
  * `FactoryInStep`: the snapshot of a factory that runs satisfies all of this
    with the frames that will be left when it is restored, every network has moved only
    onward since, and what was borrowed then is where it was (`LeavesBorrowed`).

  Most steps keep every borrow (`Quietly`): the topology grows (`Grows`), in networks
  which nobody has borrowed, in generations, in what is read, and in what is marked with
  it. There is one lemma for each operator on topologies and one for each action, and
  `QuietInv` concludes. `BorrowParameterStep`, `EnterFunctionStep` and
  `ExitInstanceStep` change the borrows or the frames, `InstantiateStep`,
  `FactoryReturnsStep` and `FactoryThrowsStep` the snapshot. Every step but the last
  leads onward (`Leads`), from which the action properties follow.

  `TransfersAlwaysReplay` is about the plan: `Spec => []TransfersReplay`. Its invariant,
  `Grounded`, adds to `Inv` that the topology and the snapshot of a factory are `Sound`:
  the colour engine is that of the topology's networks and answers as the proofs of
  `CircuitColorConstraintsProofs` say, the lanes of an output can only have different
  colours (`Apart`), and a transfer is of two networks that no earlier transfer has
  consumed (`InOrder`). The last part needs the one before: an output of two lanes that is
  moved onto two networks becomes two transfers, and the second is in order because the
  lanes are not one network. It needs `OwnersExact` as well, which says whose networks may
  be consumed. Every operator that changes a topology keeps it `Sound`, and what was kept
  apart stays so (`KeepsApart`). The replay of the transfers is a fold (`LeftFolds`);
  after its first m transfers every network that these have not consumed is its own
  survivor (`Follows`), so that the next one names no network that is unknown (RT2011) or
  consumed (RT2012), nor two that have become one (RT2013).

  `PlanAlwaysReplays`: `Spec => []PlanReplays`, the promise that the whole project is
  about on this side: what the recorder accepts, the replay accepts. The recorder checks
  call by call with an engine of parities, the replay all at once with survivors,
  cardinalities and a search for colours, so the proof needs something both speak of:
  the colourings that the engine leaves possible (`Suits`). A topology is `Explained` when
  each of them `Obeys` what was recorded: the fixed colours, the two ends of every
  transfer, and that networks of one input connector which have not become one differ.
  Every operator that is accepted explains its result from the topology before
  (`Explains`): it leaves fewer colourings (`Narrows`), and what it records holds in those
  that are left. A combinator is checked when it is made and transfers go on to be made
  after it; the inputs stay two at most because their colours do (`LinkExplains`). Of a
  pair `PairsApart` says that no colouring makes it alike. Rollbacks are what this must
  survive: one restores the engine through `clone()`, which forgets nothing as long as the
  anchor is a root, and one in a factory leaves the pairs, so that `Grounded` holds this
  (`Remembers`) for the snapshot as well and only as far as `forgotten` allows. At the end
  the engine leaves at least one colouring (`SomeSuits`). It shows that fixed colours which
  meet in a survivor are the same (no RT2014), that a survivor is the `LogicalRoot` of the
  networks it stands for (`SurvivorsColored`), hence that pairs are of two survivors
  (RT2020), outputs of one or two that differ (RT2004), connectors of two at most (RT2009,
  `DividedIsSmall`), and it is itself the solution that is asked for (RT2010,
  `PlanSolvable`).

  `RecorderTypeCorrect`: `Spec => []TypeOK`. `Grounded` implies most of it; `Recorded`
  adds that every handle ever given is of a borrow in the log, that every borrow, and
  every move and reference a frame has noted, is of a network that exists, and that pairs
  are of two networks. A rollback is what makes this more than bookkeeping: it takes
  networks away while frames stay, so the same is said of the snapshot and of the frames
  that were there when it was taken. A frame below the innermost never notes anything, so
  what is noted later leaves with the frame that noted it. All steps but six are `Tidy`
  (`StepsTidy`): they give handles of what there now is, and note such networks only. That
  a pair is of two networks follows from a colouring that keeps them apart
  (`PairsRecorded`).

* `SimulationProofs` proves six properties of test sessions: `CallbacksAreNeverMissed`,
  `SettledIsAlwaysFixed`, `TraceAlwaysReplays`, `FailedBoundaryStaysInvisible`,
  `KnownIsAlwaysTrue` and `OrderNeverMatters`. What
  a kernel adds up, what a boundary commits and what a reader makes of a trace are folds
  over sequences; `LeftFolds` shows that a fold has the intermediate results one would
  expect, so that a proof can follow it element by element
  (it is instantiated once for each operator that is folded). `Result` there is
  `FoldLeft` of SequencesExt, written with the fold of Folds it is made of, and the
  lemmas take `Induction` on the naturals as a hypothesis; the modules that
  use them prove it once (`NaturalInduction`, from a least counterexample) and for each
  instance (`FoldsInduct`). An instance brings along whatever `LeftFolds` extends, for
  every obligation of the module, so it extends little. The inductive invariant
  has these parts:
  * `Started`: a boundary under way evaluates every device on the last committed
    snapshot, which is what `begun` holds, and has committed nothing yet.
  * `Accumulated`: what a boundary under way has added up is what the devices before the
    next one contribute.
  * `Fixed`: after a `settle` that ended, and with mocks as the only providers, the
    networks are what all devices contribute when they read these very networks. A
    commit does not change what a mock puts out; a model may change its state, which is
    why `SettledIsFixed` leaves models out.
  * `Traced`: the events of a target are in the order of their ticks, a change of a known
    value that is not a reset comes after a known value only, and the first k events give
    back the projected value up to the tick of the next one. A reader only ever sees
    recorded changes, so that is what makes a change, an Unknown and a reset in a row
    replay.
  * `Truthful`: of the committed networks, what is known is what the plain kernel has
    there (`Agreeing`); of the boundary under way, whenever everything a network has got
    so far is known, its aggregate is what the plain kernel has added up (`Sums`). The
    second part follows both kernels device by device: each puts its outputs on the same
    networks in the same order, and whatever is known of one is what the other has
    (`InStep`). For a combinator that is `KnownOutputIsReal`: an output which is known
    depends on known wires only, and two inputs that carry the same on those wires (`Same`)
    give the same output. An Unknown wire counts only when it can decide the output, so
    a condition may be known although parts of it are not (`KnownConditionHolds`); it is
    shown from a least counterexample among the conditions.
  * `ExactState`: whatever is driven, pulsed, mocked, on a network or added up so far is
    exact, a finite bus of integers or an Unknown that names its sources
    (`Documented`).

  `OrderNeverMatters`: `Spec => []StepIgnoresOrder`, that a boundary which evaluates the
  devices in the reverse order gives the same networks, with the same origins. Sums that
  wrap commute and are associative (`SumsExchange`), but merging two buses also drops
  the signals that come to zero, and what is dropped on the way must be what is dropped
  at the end (`BusesExchange`). Of Unknowns, the shortest and then least path to each
  source is kept: paths have a total order (`PathOrder`), a tie is the same origin
  (`OriginOrder`), so keeping the least commutes (`LeastExchange`, `OriginsExchange`).
  A network on which both kinds arrive keeps the origins only (`AbsorbExchange`). So two
  outputs can be exchanged wherever they are, `SequencesSwap` and `BlocksReverse` lift
  this to the outputs of all devices, and `OrderIgnored` concludes. All of it holds of
  exact values only, and the invariant that there are no others is the longer half: each
  combinator and each operation, with quotients, remainders, powers by squaring, shifts
  and bits, puts out integers for integers (`OperationFacts`, `ConcreteIntegral`),
  and a device puts out exact values for exact ones, an Unknown through each device whose
  id its path gets (`ThroughExact`, `OutputExact`, `EvaluatedExact`).

  The assumptions are about what a test can write at all: a condition is a finite tree of
  comparisons under AND and OR, the left side of a comparison is not a constant, a row
  copies or is constant and is for a signal or one of the three wildcards, a constant bus has no zero entry (as `SparseBus` makes
  it) and integers otherwise, as have the rows, operands, drives and outputs that are
  constant (`ValuesAssumption`), there are finitely many signals, integers are 2, 4, 8,
  16 or 32 bits wide (32 in the code, 4 in the run), an arithmetic combinator has one of
  the eleven operations, ids are numbers,
  a connector's name is given once (`bindCircuitObject` rejects a second one), and
  names of networks are sets. TLC evaluates them for the circuits of the run.

* `CacheAlwaysComplete`: `Spec => []CacheIsComplete`, for any builds, pages and
  deployments. A cache becomes the serving one long after it was filled, so the
  inductive invariant says of the waiting worker what the property says of the active
  one, and of the installing one that what it has fetched is its manifest
  (`Installing`), from the moment it stored that in its cache as well, and that a cache
  it has opened is still there or noted as deleted. A cache only grows until it is
  deleted (`PutKeeps`).

* `PagesAlwaysKeepTheirFiles`: `Spec => PagesKeepTheirFiles`, an action property. It
  needs that a page which is served, or whose navigation is being answered, is so by an
  active worker whose activation is over (`Served`): then the activation of the next
  one has no page to take a cache from, and every other step only adds to the cache.

* `OwnPagesAlwaysLoad`: `Spec => []OwnPagesLoad`. Whatever a page has loaded, from the
  server or through any worker, is in the manifest of its build (`Loaded`, the added part
  of the invariant), and the manifest is closed: what its files name is in it
  (`ManifestSuffices`). `JavaScript` follows names as often as there are chunks; each time
  either adds a chunk or is the last that could (`JavaScriptClosed`, from a least
  counterexample). `BundleAssumption` is what this needs of a bundle: it has finitely
  many chunks, and a chunk names chunks and assets of its bundle, since nothing else is
  looked for in its code (`shell-manifest.ts:52-78`, `:80-103`).

Only model-checked:

* Liveness, which the prover does not reach: `PreviewSettles`, `BindingSettles`,
  `TestRunEnds` and `ChoiceSettles`, and the fairness of the refinements.

## 5. Findings

1. Run `case_preview`. `runTests` terminates the previous run, which cancels the
   controller, before it calls `begin`; `begin` then takes the run for one of
   another Worker and forgets which revisions are cases'. The answer of a case
   still in flight is handled as the panel's and replaces the preview.
   `docs/testbench.md:137-138` says it does not.
2. Run `case_wait`. When a conversion or a panel binding times out, the handler
   replaces the Worker without cancelling the test case that waits behind it,
   unlike the handlers of a crash and of a boot timeout. The case belongs to the lost
   generation and is not dispatched, so no new Worker is started; its watchdog is off,
   and the run waits until the user does something. `docs/testbench.md:141-142` calls
   the wait bounded. `TestRunEnds` excepts this state (`CaseIsStranded`).
3. Run `color_clone`. `clone()` of the colour engine leaves out the anchor's slot,
   and after the first fixed colour that slot is what ties the anchor to the
   networks. A copy accepts green for a network the original has fixed to red;
   the recorder continues with such a copy after every rolled-back topology
   operation, so a contradiction is found later than `docs/diagnostics.md:211`
   says, or only by the replay of the final topology. Relations between networks
   survive (`PreflightAgrees`).

Not a contradiction of the documentation, but visible in the runs: a panel
binding queued behind a case's binding is dropped with the Worker; the panel is
disabled but the preview keeps its pending state until the next edit. This is why
`PreviewSettles` asks for a parse under way and `BindingSettles` accepts a
disabled panel. A second choice of a profile before the first is validated makes
the unvalidated first the one to roll back to; a rejected replacement of a
missing saved profile lifts the block on compilation; and a profile committed while
another is being chosen is never selected for the next visit. No property is about these.

A page that rolls back a choice of profile after its Worker was replaced claims that
the new Worker has what the old one had: the page remembers that with the profile to
roll back to (`main.ts:2278`). The next parse only refers to the profile and is answered
WP1002, although `worker-protocol.ts:31` calls the identity confirmed by this Worker.

Of the offline shell: an activation deletes every cache but its own, so if the
waiting worker is activated while a newer one has opened its cache and still installs,
the newer one comes to serve with none; `CacheIsComplete` and `OwnPagesLoad` except
these workers (`deleted`). index.html is fetched last, under a URL all builds share,
so a deployment in the middle of an installation makes the new build's index.html the
shell of the older build's cache, and an online navigation through an older worker
does the same: an offline reload then shows a page whose files this cache lacks until
each was loaded online, even if the new build's worker waits with all of them. That is
why `OwnPagesLoad` speaks of pages of the active build only.

Of the recorder: a pair recorded inside a `t.instantiate` that is rolled back stays
in the plan, since the snapshot has no pairs; a rollback gives the generation of a
network back, so a handle leaked out of a failed factory becomes current again
when the network is moved as often as before; a condition kept over a rollback
that undid its read leaves its output called unused; a pair that was left behind may
name a network made after it, so `UnusedIsUnread` then leaves pairs out; and after finding 3 a plan
may be rejected only by its replay. `PlanReplays`, `OneOwner`,
`DeadHandlesStayDead` and `UnusedIsUnread` name these histories and exclude them.
A frame may also return a network of its own that it has lent to itself and not
yet released, which is why `BorrowedStaysPut` excepts the borrower's frame.

Of test sessions: `settle` stops at equal snapshots, which are no fixed point if a
model keeps state or the same pulse was given at both boundaries; and an unknown
that circulates in a loop whose origin was mocked away gets a longer path at every
tick, so that it never settles.

## 6. Plan

Every safety invariant and action property that a run expects to hold is a theorem; what
is left of those runs is liveness. Further modules would be about the parts of section 7,
of which the replay of captures and entities in a transaction is the nearest to what is
modelled.

## 7. Not modelled

* The language front end, the elaboration transform, blueprint decoding,
  projection and export, import analysis, numeric expressions, the prototype
  database and the command line transform one immutable document to another in one
  pass: nothing is kept between two, and their difficulty is in the data, which a
  model would have to copy.
* Entities and captures of the recorder are tables of validated configuration; they
  take part in the same transactions as networks, of which the model has the
  mechanism.
* Rendering, layout, editor widgets, drafts and the timeline have no protocol.
