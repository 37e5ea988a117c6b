# A TLA+ development of Pynguin

Pynguin generates unit tests for Python modules by evolutionary search. This
directory holds TLA+ models of the parts whose correctness lies in their state,
in the order of their steps, in what several threads and processes do at the
same time, and in what several algorithms compute about the same program; TLC
configurations that check them on small instances; and proofs, checked by TLAPS,
of what matters most for instances of every size. All paths below are relative
to `src/src/pynguin/`.

`PROJECT.json` maps every definition to the lines it stands for, and lists the
runs, the mutants each property has been tried against, the hazards and the
theorems. Definitions marked as external there stand for code outside the
repository (the operating system, `multiprocessing`, CPython's interpreter, the
comparisons of Python).

To check a run: `tlc -config MCSearches.cfg MCSearches.tla`; a proof:
`tlapm DynaMOSAProofs.tla`.

Contents: 1 the system, 2 the modules, 3 what is checked, 4 where code and
documentation disagree, 5 what is proved, 6 what is left out, 7 plan.

## 1. The system

| Part | Files | State it keeps | Operations | Correct if |
|---|---|---|---|---|
| master and worker | `master_worker/` | the running task, its worker process, the search time left, restarts | start a task, receive a result, restart after a crash, stop | no result is dropped, restarts end, the answer is true |
| generator | `generator.py`, `cli.py`, `configuration.py` | the phases of one run | load the module, search, minimise, assert, export, refine | each phase hands on a suite that does what the one before did |
| search algorithms | `ga/algorithms/`, `ga/operators/` | population, archive, goals, iteration | breed, rank, select, update the archive, local search | the frontier is exact, nothing covered is lost, no goal gets worse, the loop ends |
| stopping conditions | `ga/stoppingcondition.py`, `ga/searchobserver.py` | counters, clocks | observe generations and executions | every limit is noticed, no plateau is missed or invented |
| archives | `ga/algorithms/archive.py` | best test case or population per goal | update, add goals, reset, sample, shrink; callbacks | no covering test case is passed over, the best stays |
| test cluster and types | `analyses/` | accessibles, generators, modifiers, class graph, usage traces | collect, guess types, learn from executions, drop covered targets | the same whatever the order modules are met in; a generator is filed once |
| chromosomes | `ga/*chromosome*.py`, `ga/computation_cache.py` | tests, `changed`, last result, cached values | mutate, cross over, compute, invalidate | a cached value is that of the test as it is |
| test factory | `testcase/testcase.py`, `testcase/testfactory.py` | statements of a test case | insert, change, delete statements | variables are bound before they are read; a change is told |
| local search | `testcase/localsearch*.py` | snapshot of the test case, clock | one strategy per kind of statement | what does not help leaves no trace |
| executors | `testcase/execution.py`, `testcase/subprocess_executor.py` | a thread or child per execution, queue, pipe, stdout | execute, time out, give up, fall back to single tests | each test is answered once, only culprits are blamed |
| tracer | `instrumentation/tracer.py` | who may run, enabled, the trace | start, stop, record, merge | of two distances one is zero; merging is free of order |
| file-system isolation | `utils/fs_isolation.py` | recorded paths, patched functions | wrap, refuse, clean up | what a test created is gone, what it found is there |
| instrumentation | `instrumentation/` | control-flow and control-dependence graphs | select code objects, rewrite bytecode | the rewritten code behaves as before and tells what it did |
| coverage and fitness | `ga/coveragegoals.py`, `ga/fitness_metrics.py`, `ga/computations.py` | none | distances, coverage, covered | three answers to one question agree |
| slicer | `slicer/` | trace, contexts, simulated stack | rebuild the flow, slice backwards | nothing an assertion depends on is missing |
| assertions, mutation analysis | `assertion/` | traces, mutants, the shared tree | observe, filter, prune; change and restore the tree | what remains holds and kills as much; every mutant is made |
| minimisation | `ga/postprocess.py`, `testcase/crash_minimization.py` | the suite | remove what is not needed, check, restore | coverage, assertions and the crash are kept |
| refinement | `refinement/` | the test in work, attempts, outcomes | ask, validate, repair, strengthen, write | what replaces a test passes and covers as much |
| export, report, statistics | `testcase/export.py`, `utils/report.py`, `utils/statistics/` | the file, queue of variables | write | the file behaves as it is marked; numbers add up |
| language-model client | `large_language_model/` | cache of requests | ask, parse | not modelled: text |

**How they interact.** The client starts a master, which starts a *worker
process* with a pipe for its result and restarts it, in subprocess mode, when it
dies. The worker selects and rewrites the code objects of the module under test,
collects the test cluster, and runs one search algorithm. That asks the chromosome
factory and the operators for test cases, has them executed, offers them to its
archive, and stops on full coverage or a stopping condition. The archive calls
back when a goal is covered; the filtered test cluster then drops accessible
objects whose goals are all covered, and thereby changes what the test factory
inserts. Every execution runs in a *thread* of its own under a shared tracer, with
stdout and (optionally) the file system replaced for the whole process. With a
timeout the main thread stops the tracer, waits once more, and goes on without
the thread if it must. The subprocess executor runs the threaded one inside a
*child process* and reads the results from a pipe. The tracer's traces are merged
over the tests of a suite; goals, fitness functions, the report and the slicer all
read them. Observers of the executions feed the type system and the assertions.
Local search changes test cases in place and undoes what does not help. After the
search the suite is minimised, given assertions that are filtered by repeated
execution and by mutants, written, and perhaps refined by a language model.

**What is hard in it.**

* *Concurrency*: threads that cannot be killed share the tracer, stdout and the
  patched functions of the file system with the threads that come after them.
* *Failure*: code under test raises, never ends, or takes down the process; the
  results of a whole batch are then gone, or those of the whole worker.
* *Order*: the archive is changed in nested loops with callbacks in the middle;
  positions shift while statements, assertions or traces are inserted; mutants
  are made in one tree that must be as before between two of them.
* *Time*: joins, polls and local search race with what they wait for.
* *Stale state*: cached results, fitness values and the test cluster must follow
  the test cases.
* *Two views of one program*: bytecode as instrumented and as executed, the graph
  and the run, the distance and the comparison, the slice and the dependence.

The hazards, each at its line and with the properties that watch over it, are in
`PROJECT.json`.

## 2. The modules

```
CoverageArchive <-- DynaMOSA --implements--> GoalExploration        MOSA   Search   Timeline
TestCase <-- TestFactory <-- TestCaseChromosome          TestCase <-- Minimization   Suites   LocalSearch   MIO
TestCluster   CoverLines   ControlFlow   Instrumentation
BranchDistance <-- Comparisons    BranchDistance <-- ExecutionTracer
ExecutionFlow <-- Slicer          Mutants   Assertions   Refinement
TestExecutor   SubprocessExecutor   MasterWorker   FsIsolation
XProofs: DynaMOSA (with CoverageArchive), TestCase (of TestCaseChromosome and all below it), TestExecutor,
         SubprocessExecutor, MasterWorker, FsIsolation, Population (of MIO, Suites and LocalSearch),
         Search (with Timeline and MOSA)
```

### The search

* **CoverageArchive** (`CoverageArchive` in `ga/algorithms/archive.py`).
  `objectives`, `uncovered`, `covered` are the three fields. A step is one turn
  of the inner loop of `update`, because the callback at the end of a turn is
  seen by others. `todo` and `next` are the positions of the two loops. On its
  own it has an arbitrary client (`ArchiveSpec`).
* **DynaMOSA** extends it: `generate_tests`, `evolve`, `local_search`
  (`dynamosaalgorithm.py`), `_GoalsManager.update` with its repeat-until-nothing-new
  loop, and `FilteredModuleTestCluster.on_target_covered` (`analyses/module.py`) as
  the callback. The branch-fitness graph, the targets of the accessibles and what
  each test case covers are constants; what an evolution step offers is arbitrary.
* **GoalExploration** is the abstract specification: a set of reached goals grows
  along the graph, a goal only after one of its parents. `DynaMOSA` implements it
  with `reached <- coveredGoals`.
* **MOSA** (`abstractmosaalgorithm.py`, `mosaalgorithm.py`, `ga/operators/`): one
  generation. Parents by rank, the pairs of the breeding loop one by one, each of
  which may fail, the insertion of new tests, and `Survive`: preference sorting,
  the fronts of dominance, crowding, the last front cut off. A loop over a list is a
  function of the turns taken, in the order of the code, and one turn an operator of
  its own (`Offer`, `TakeFront`, `Fill`); an empty front ends the filling.
* **Search** (`ga/stoppingcondition.py`, `generationalgorithmfactory.py`, the loops
  of `ga/algorithms/`): the counters of all conditions, which observer call touches
  which of them, the checks at the head of the loops, and LLMOSA's detection of a
  stall with its growing plateau. A generation is a few executions and a coverage.
* **MIO** (`mioalgorithm.py`, `MIOArchive`): the populations per target, their
  size as it follows the progress of the search, sampling. The parameters start with
  the defaults of the configuration's class (`Builtin`), which are read when the
  module is imported; the archive and the changes of the parameters have the
  configured values (`Initial`, `Focused`).
* **Suites** (`computation_cache.py`, `chromosome.py`, `computations.py`,
  `testsuitechromosome.py`, `wholesuitealgorithm.py`): suites with what they and
  their test cases cache, the flags, and the restriction of the fitness functions.
  What a value is computed from is what is kept of it.
* **LocalSearch** (`testcase/localsearch*.py`): all strategies as a loop of "try,
  execute, compare, keep or restore" that differ in when they take snapshots, when
  they restore and when they look at the clock, over arbitrary landscapes.
* **Timeline** (`utils/statistics/`): the queue of output variables, the values of
  the best individual over time, interpolation and the area under the curve.

### Test cases

* **TestCase** (`testcase/testcase.py`): statements as what they bind and read;
  deletion with all dependents, appending the tail of another test case.
* **TestFactory** (`testcase/testfactory.py`, with the machine-learning variant):
  every way to provide a value (reuse, create, `None`, an inline literal,
  collections, callables), the receiver before the arguments, and the cursor along
  which positions shift. An operator returns the set of its outcomes. The recursion
  (the generator of an argument has arguments itself, a collection holds collections)
  is the function `Providers` of the levels that `max_recursion` leaves: for each level,
  what can be provided of each type at each place, which the level above refers to.
* **TestCaseChromosome** (`ga/testcasechromosome.py`, `ga/operators/`): the phases
  of a mutation one statement at a time, the backup and its restoration, crossover.

### The program under test

* **TestCluster** (`analyses/module.py`, `analyses/typesystem.py`, `utils/typetracing.py`):
  the work lists of modules and classes with what they pass over (blacklisted modules,
  hidden classes, functions of other modules), the inheritance graph and the attributes
  pushed down it, enums, fields, functions and lambdas as accessibles, generators and
  modifiers, the return types and usage traces that executions yield, and the guesses
  made from them for parameters and for the elements of collections.
* **CoverLines** (`AstInfo`, `ModuleAstInfo` in `instrumentation/transformer.py`):
  which lines, conditions and code objects are goals under `--only-cover`,
  `--no-cover` and pragmas, code object by code object.
* **Instrumentation** (`instrumentation/version/`): what the adapters insert around
  one instruction in Python 3.10 to 3.14, executed on a symbolic stack machine
  beside the original block. `told` is what the tracer hears, `due` what it
  should, `plain` what the original block does. What 3.10 tells of a key where an
  item is read (`presence`) is told for the same predicate as the block's condition.
* **ControlFlow** (`instrumentation/controlflow.py`): the control-flow graph with its
  extra exits, post-dominators, the control-dependence graph without the excluded
  blocks, and a run through the code object.
* **BranchDistance**, **Comparisons** (`instrumentation/tracer.py`,
  `utils/type_utils.py`): the distance functions for numbers, strings, bytes and
  sequences, next to Python's own comparison.
* **ExecutionTracer** (`instrumentation/tracer.py`, `ga/fitness_metrics.py`,
  `ga/coveragegoals.py`, `utils/controlflowdistance.py`): the import trace and the
  traces of a suite's tests, merging, approach levels, fitness and coverage.
  And what is told of them: the lines of the report (`utils/report.py`), and what
  the model is asked for (`llmosalgorithm.py`).
* **ExecutionFlow**, **Slicer** (`slicer/`): an interpreter for small programs that
  writes the trace, the way back through it, and the slicer with its contexts and
  its simulated stack. `expected` is the slice the values themselves ask for: the
  interpreter keeps with each value the instructions it comes from.

### After the search

* **Minimization** (`ga/postprocess.py`, `testcase/crash_minimization.py`): all
  strategies, the order of the visitors, the check behind them with its restoration.
* **Mutants** (`assertion/mutation_analysis/`): the operators on an abstract tree,
  the strategies that combine mutations, and the generators that change the one
  shared tree and restore it.
* **Assertions** (`assertion/assertiongenerator.py`, `assertiontraceobserver.py`):
  observation, the second execution that filters, one mutant at a time, the score,
  pruning; and, from `testcase/export.py`, how what is left is written, and what it does
  when it is run. The module under test is imported once per process, so that its state
  outlives an execution: `world` is that state in this process and in the one that
  filters, each execution starts with what the one before it has left (a mutant's
  module is a new one), and so does each test of the written file.
* **Refinement** (`refinement/`): the pipeline test by test, with every answer a
  model may give taken from a set. `before` is what an answer has in front of its test
  (nothing, a value, a function): it is there when the answer is validated, and cut off
  in what is kept of it.

### Processes, threads and files

* **TestExecutor** (`TestCaseExecutor.execute` and its thread): `main` is where
  `execute` stands, `pc[t]` where thread `t` stands, `owner` is
  `_current_thread_identifier`, `silenced`/`restored` belong to
  `OutputSuppressionContext`, `patched`/`replaced` to `FilesystemIsolation`. The
  ghosts `abandoned`, `faulty` and `delegated` record which threads were left behind, in
  which Pynguin's own code raised, and which were ended by the abort of a thread that
  the subject itself has started: such a thread is never the tracer's current one, is
  aborted at its first probe, and whoever waits for it (`Future.result()`) is given the
  exception (`AwaitAborted`).
* **SubprocessExecutor** (`execute_multiple`): the parent with its two fallbacks,
  the child that runs a batch, the pipe, and the time between the child's end and
  the moment its exit code is known. Each test case passes, hangs, crashes, or
  has a result that cannot be pickled. In the child a test case that hangs is given
  up (`RunHangs`), one that does end may be too slow (`RunHurried`, recorded by the
  ghost `hurried`), and one behind a test case that was given up may lose its result
  to the thread left behind (`RunDisturbed`).
* **MasterWorker** (`master_worker/`): client, master with the recursive
  `get_result`, and worker, which may crash at any moment, also between sending
  its result and its end.
* **FsIsolation** (`utils/fs_isolation.py`): the wrappers, what the wrapped
  functions do to a tree of files and directories, and the clean-up.

### Modules for TLC

**MCSearches**, **MCBookkeeping**, **MCSubject** and **MCResults** put modules side
by side that do not share state in the code: in a behaviour one *part* runs, chosen
in the initial state, and the others rest. The constant `Parts` names the parts
to run, so each can be run alone (`Parts = {"suites"}`). MCSearches and MCBookkeeping
extend their modules, so that their properties are those the theorems are about; the variable `part` says which one runs, and the variables of the
others keep their initial values. The parts of MCSubject and MCResults share the
variables `v1`, `v2`, ..., which are 0 where a part needs fewer; their invariants name
the part they speak of and collect the properties of its module.
**MCInstrumentation**, **MCControlFlow**, **MCSlicer** and **MCTestCluster** hold the
programs for MCSubject, **MCTestCases** the accessibles for TestCaseChromosome.

A definition introduced by `Mutant:`, `A bug:` or by a comment that says what it
leaves out is a plausible bug. No specification uses it; it stands before the
definition it could replace, to show that the property tried against it can fail
(section 3, last table).

## 3. What is checked

| Run | Distinct states | Time |
|---|---|---|
| `search` (MCSearches) | 114 000 | 1 min |
| `bookkeeping` (MCBookkeeping) | 1 430 000 | 2 min |
| `subject` (MCSubject) | 239 000 | 3 min |
| `results` (MCResults) | 459 000 | 1 min |
| `test_cases` (MCTestCases) | 1 900 000 | 3 min |
| `executor`, `subprocess`, `master_worker` | | seconds |

A property of an MC module is the conjunction of properties of the module it speaks
of; those are stated, with the code behaviour they are about, in that module.

| Run and part | Module | Property, and what it says |
|---|---|---|
| search: dynamosa | DynaMOSA | `FrontierExact`: the goals in work are the uncovered roots and the uncovered children of covered goals. `NoLostCoverage`: an update credits all its test cases cover, however deep. `ClusterInStep`: an accessible is offered as long as it has an open target. `ExploresInOrder`: refinement of GoalExploration. `SearchEnds`. |
| search: mosa | MOSA | `RankingKeepsTheBest`: the population keeps its size and its members (`PopulationKept`), the fronts are the layers of dominance behind a best test for each goal (`FrontsAreLayers`), no open goal gets farther away (`NoGoalGetsWorse`). |
| search: stopping | Search | `CountersTellTheTruth`: a plateau is noticed exactly when there is one, counted in whole percents where a minimum is asked for (`PlateauIsNoticed`); LLMOSA asks ever more rarely, since each plateau must be twice as long as the last or fill the window of time (`QueriesThinOut`). `SearchStops`. |
| search: timeline | Timeline | `StatisticsTellTheTruth`: the last value told is written (`LastTold`), points lie between the values around them (`TimelineFollowsValues`), the area is a share of the time (`NormalisedInRange`). |
| bookkeeping: archive | CoverageArchive | `ArchiveSound`: each objective is covered or open, what is stored covers, nothing offered is overlooked. `BestKept`: a stored test case is only replaced by a better one. |
| bookkeeping: mio | MIO | `PopulationsImprove`: sorted, as large as the configured size as long as the parameter stays at its default and as the parameter afterwards, covered targets reported once, no place of a population gets worse. |
| bookkeeping: suites | Suites | `AnswersRight`: fitness, coverage and covered goals told are what computing them anew yields, and what is kept is not stale (`NothingStale`). |
| bookkeeping: local search | LocalSearch | `EverythingIsSetBack`: result, flag, statement and the suite's values go together (`ResultIsCurrent`, `FitnessIsCurrent`); no statement's search leaves the test worse (`NeverWorse`). |
| bookkeeping: files | FsIsolation | `FilesAreCleanedUp`: what was created is gone (`CleanedUp`); what was there is touched only below a recorded path (`UnrecordedRealKept`), and not at all unless the test overwrote it (`KeptUnlessOverwritten`). |
| subject: cluster | TestCluster | `ClusterIsComplete`: only the module's own elements are under test, modifiers are inherited, attributes belong to the top-most class, a generator is filed once, usage traces are kept, whatever the order of the work lists. |
| subject: lines | CoverLines | `SelectionIsKept`: what is selected is instrumented, a condition is a goal only if both its sides may be covered. |
| subject: instrumentation | Instrumentation | `InstrumentationIsFaithful`: the rewritten block decides, computes and raises what the original does (`Transparent`), the branch told by the condition is the one taken, and nothing else is told for its predicate except where 3.10 reads an item (`BranchToldIsTaken`), operands are those of the operation (`OperandsTold`). |
| subject: graphs | ControlFlow | `DependencesLeadToTheBlock`: each block reaches the exit, a block executed hangs on an outcome that was taken, only on conditions that are registered, and the outcomes told are those taken. |
| subject: comparisons | Comparisons | `OutcomeIsTold`: of the two distances of a condition exactly one is 0, that of the side the program takes. |
| subject: slices | Slicer | `SlicesAreSound`: the way back is the way forth (`FlowIsReconstructed`), no value's origin is missing (`SliceIsSound`), what is checked was executed (`CheckedIsExecuted`). |
| results: traces | ExecutionTracer | `TracesTellTheTruth`: merging is free of order, covered and distance zero and counted agree, reaching a condition is better than not, the report's lines add up to its rates, and what is open is asked for. |
| results: minimisation | Minimization | `MinimisedIsTheSame`: no coverage and no assertion is lost, nothing that could go is left, a saved crash is that crash. |
| results: mutants | Mutants | `MutantsAreMade`: every mutation of a mutant shows in it; every one found is in one mutant. |
| results: assertions | Assertions | `AssertionsHold`: what an execution refuted is gone, a hanging mutant costs only itself, pruning kills the same mutants, each changed value is asserted. |
| results: assertions | Assertions | `WrittenAsItBehaves`: each test of the file that looks at no state outliving a test does what it is marked with, whatever the tests before it have left. |
| results: refinement | Refinement | `RefinedIsTheSame`: what replaces a test, and uses nothing that stood before it, passes in the file and covers as much; only what the model added is taken away. |
| test_cases | TestCaseChromosome | `WellFormed`: variables are bound before they are read. `ChangeIsTold`: an operator that changed the test case says so. `SutCallKept`: a call on the module under test is not lost. |
| executor | TestExecutor | `LossExplained`: a lost result is due to a thread abandoned earlier, to a fault of Pynguin's own, or to the abort of a thread of the subject's that the test waited for. `CleanlyIsolated`: isolations do not reach into other tests. `EveryTestReturns`. |
| subprocess | SubprocessExecutor | `OnlyCulpritsBlamed`: no test is blamed for another one's crash or spoilt result; only one given up before it in a shared child may cost a test its result. `AnsweredOnce`: each test has a result, observers hear of it once, no child is left. `Returns`. |
| master_worker | MasterWorker | `RestartsContained`: restarts are paid for and run in subprocess mode. `HonestEnd`: a success was sent by a worker, an interrupted one has ended. `ResultNotDropped`. `ClientExits`. |

The type invariants of the modules with proofs are proved and not run again.

**Bounds, and why they are enough.** Counters that grow without bound in the code
are bounded by a constant in the guards, named below.

* *dynamosa*: 4 goals with a loop, a goal that is reached twice, nesting and a chain
  that one test case covers in a single update; `MaxOffered` 2, `MaxIterations` 2.
  *mosa*: 5 tests, 3 goals, population 3, so that the last front does not fit and a
  best test may stand in it. *stopping*: 10 configurations, each condition alone and
  with others, in each kind of loop; `Cap` 12 turns, enough for plateaus of 1, 2, 4;
  `Window` 4 kept reports. *timeline*: `MaxUpdates` 3, `MaxTracked` 2: a value before,
  between and behind two points.
* *archive*: 2 goals, 4 test cases, `MaxOffered` 3: every order of better, worse and
  equal for a slot, and a second slot to interfere with. *mio*: size 3 configured,
  2 by default, 1 focused: they shrink and grow by one and by two; `MaxProgress` 3, `MaxCounter` 2. *suites*: 2 slots, 2 tests in
  each, 2 contents, `MaxChanges` 2: one change to be noticed and one hidden by it.
  *local search*: 2 statements of 3 values, 71 landscapes with local optima, plateaus and
  statements that interact, `MaxTries` 2, `Generations` 2. *files*: all trees of 2 names
  and `Depth` 2: moves into, out of, onto and over each other.
* *cluster*: four universes: a diamond of bases met through several modules, two with a
  blacklist, an enum and hidden classes, and one of mappings; `MaxExecutions` 2,
  `KeptGuesses` 1 of the guesses for a parameter, `CollectionSize` 1 element looked at
  of each collection. Of the builtins each universe has those its programs use. *lines*: three syntax trees with every kind of node,
  up to 2 scopes selected, 1 excluded, 2 pragmas. *instrumentation*: one block around
  each kind of instruction, in each version from 3.10 to 3.14 that has it, under every
  choice of adapters and of lines and code that is covered. *graphs*: all code objects
  of three blocks that a compiler emits: loops, branches, exits, excluded blocks.
  *comparisons*: numbers around a difference of 1, texts of which one is a prefix,
  a permutation or a neighbour of another, sequences with nested values. `MaxExact`
  and `MaxFloat` stand for 2^53 and the largest float. *slices*: functions with up to
  three values and one branch, handler or call; `MaxExecuted` 50 instructions.
* *traces*: 2 tests of 2 events each, `MaxEvents` and `MaxTests`. *minimisation*: 5
  suites, 144 landscapes in which a goal needs or is prevented by statements, all five
  strategies. *mutants*: 5 trees that nest what the operators look for, caps 2 and 4
  below and above what there is, order 2. *assertions*: 5 suites with tests that
  change, raise, are flaky, and look at what another one has left in the module, which
  the search has left in 2 states; 4 lists of mutants. *refinement*: 2 tests, 9 answers
  for a test and 3 for a module, `max_retries` 2, `max_mutation_iterations` 1.
* *test_cases*: a constructor, a method, two fields, three functions; at most 3
  statements (`ChromosomeLength`) and 3 names (`MaxNames`): a receiver, an
  argument, and what reads them; `MaxRecursion` 1.
* *executor*: 2 test cases of 2 statements: the second one meets everything the first
  can leave behind (`LossExplained` is proved for any number). *subprocess*: 3 test
  cases: one before and one behind a culprit. *master_worker*: a search time of 4 lets a
  worker be restarted up to three times.

**Fairness.** MCSearches: weak fairness of DynaMOSA's and of the stopping loops'
next step; they are sequential and wait for nobody (the executors return). TestExecutor:
weak fairness of the main thread only; both its joins have timeouts, and a test case
may run for ever. SubprocessExecutor: weak fairness of the parent only; `poll` and
`join` have timeouts, and the child need not do anything. MasterWorker: weak fairness
of the master and of the worker, since `recv` has no timeout. That the worker gets on
and, having sent its result, ends, is an assumption about its code.

**Deadlock** is checked in bookkeeping, executor, subprocess and master_worker, where
`Terminated` is the step of a program that has ended. The other runs consist of
parts that compute something and stop, and say `CHECK_DEADLOCK FALSE`.

**Further mutants.** Beside the one per property in `PROJECT.json`, these have been
tried, each with its property's run restricted to the part, and each is found:

| Property | Definition: mutants |
|---|---|
| `ArchiveSound` | Store: StoreOnly; Improves: ImprovesUnchecked |
| `BestKept` | IsBetterThanCurrent: IgnoresCurrentErrors |
| `FrontierExact` | SelectGoals: SelectGoalsUnregistered |
| `RankingKeepsTheBest` | Offer: OfferOnly; compute_ranking_assignment: RankByDominance |
| `CountersTellTheTruth` | Asked: AskedAsBefore |
| `StatisticsTellTheTruth` | variables_generator: LastFirst; Interpolated: FromTheSecond |
| `AnswersRight` | RunInSuite: RunInSuiteSilently; get_is_covered: ComputeIfNoneKnown |
| `EverythingIsSetBack` | Skip: SkipPast; Round: RoundAnyway; HasChanged: HasChangedForgotten; TryOther: TryAnyway; NextSearch: NextSearchMarked |
| `PopulationsImprove` | UpdateParameters: UpdateParametersUnfocused, UpdateParametersSilently; AddSolution: AppendUnsorted; NewlyCovered: ReportAccepted |
| `FilesAreCleanedUp` | MoveInto: MoveIntoTwice; Rename: RenameUnguarded |
| `InstrumentationIsFaithful` | _generate_argument_instructions: ArgumentsUncounted; NoneBasedJumps: NoneBasedJumpsSwapped |
| `DependencesLeadToTheBlock` | WithExit: SharingTheExit; IsCovered: HasCoveredLine; WithLoopEntries: ReturningOnly |
| `SelectionIsKept` | should_cover_conditional_statement: HeadIsCovered |
| `SlicesAreSound` | _determine_previous_instruction: BeforeInTheCode; _handle_generator_and_exceptions: OnlyReturns |
| `ClusterIsComplete` | AddToTest: AddAllMet; _drop_generator: DropUnderNewType; SeenBelow: OwnOnly; merge: MergeRoot |
| `TracesTellTheTruth` | _merge_min: MergeLast; get_resulting_branch_fitness: NotNormalised; get_non_root_control_flow_distance: TheOtherSide; _get_line_to_branch_coverage: LastOfLine; coverage_in_range: WithoutLastLine |
| `MinimisedIsTheSame` | Sweep: SweepOnce; RemoveTest: RemoveTestUnchecked; SaveCrash: SaveAnyCrash |
| `MutantsAreMade` | ConstantReplacement: ReplacedByAny; _finish_generators: NoneFinished |
| `AssertionsHold` | Violated: FailedOnly; Prune: PruneAll; _add_assertions_for: AddWhatIsNew |
| `RefinedIsTheSame` | Removed: RemovedByLevel; Repaired: Unrestored |
| `WellFormed` | forward_dependencies: DirectReaders; ResolveHeadReferences: ResolveNothing |
| `CleanlyIsolated` | EnterFilesystem: EnterFilesystemUnpatched |
| `AnsweredOnce` | ExecuteNext: ExecuteNextObserved; Join: JoinOnly |
| `RestartsContained`, `HonestEnd` | PrepareRestart: PrepareRestartLate; Stop: StopNothing |

## 4. Where code and documentation disagree

Four runs end with a counterexample:

| Run | Property | What happens |
|---|---|---|
| `instrumentation_slice` | `Transparent` | Under checked coverage in Python 3.12 and later the teardown behind `BINARY_SLICE` pops the slice and leaves the copy of the container: `x[a:b]` yields `x`. |
| `generators_found` | `GeneratorsAreFound` | An execution that sees a constructor return an instance of its class makes a union of the one type, files the constructor under it, and drops it where a look-up by the class finds it. |
| `export_floats` | `WrittenAsItBehaves` | A file whose only use of `pytest` is the `approx` of a float assertion does not import it. |
| `mutants_killed` | `KilledIsDetected` | A test that expects an exception raises on every mutant, and each is counted as killed. |

The others met while modelling have a property, so that the models say exactly what
is meant, but no run of their own. To see one, put the property into the run's
configuration with `Parts` restricted to the part, where programs are named in
place of `MCPrograms`.

| Property | Module (programs) | The code |
|---|---|---|
| `FinishedThreadReturned` | TestExecutor | A thread that outlived its execution stops the tracer of the test case running now, which loses its result (`tracer.py:1231`): the empty queue that `execution.py:409` logs as a bug in Pynguin. So does a test case that waits for a thread of the subject's own: the exception that aborts the latter (`tracer.py:1234`) is raised again where it is waited for, and `execution.py:507-509` takes it for the abort of the test case itself. |
| `NobodyElseBlamed` | SubprocessExecutor | A test case that passes and shares its child with one before it that has been given up may be told to have timed out, since the thread left behind stops its tracer, and such a result is not repeated (`subprocess_executor.py:365-424`). |
| `SizeIsTheParameter` | MIO | The parameters are the defaults of the configuration's class, read at import (`mioalgorithm.py:31-37`), the archive has the configured size (`generationalgorithmfactory.py:338-342`); "The maximum size of the population" is not the parameter's until that changes. |
| `TracerEnabledAgain` | SubprocessExecutor | `recv` raises inside `temporarily_disable`, which has no `finally` (`tracer.py:685`): the parent's tracer stays disabled (`subprocess_executor.py:333`). |
| `RealUntouched` | FsIsolation | A file opened for writing is recorded as created although it existed, and deleted in the end (`fs_isolation.py:150`, against the docstring at 55). |
| `ImprovementReported` | LocalSearch | An iteration that has improved the fitness when the time is used up is undone, and not reported (`localsearchstatement.py:275-283`). |
| `PlateauIsNoChange` | Search (`random_suite` with a plateau; more than 100 goals with a minimum) | The docstrings say "does not change". A drop of coverage neither ends a plateau nor counts in it (`stoppingcondition.py:211`), and the condition with a minimum compares whole percents, so that a gain below one percent is no change. |
| `UnflaggedIsUnchanged` | TestCaseChromosome | A mutation may change the test case and leave the flag unset, which `computation_cache.py:127` takes for "not changed". |
| `OutcomeIsTold` | Comparisons (operands with NaN) | Neither distance is zero, or the assertion at `tracer.py:1439-1443` is raised into the program under test. |
| `SuiteIsToldCovered` | ExecutionTracer | A suite that has covered every branch is never told so: a pair of predicate and distance is looked for among keys that are predicates (`fitness_metrics.py:113-152`). |
| `BranchToldIsTaken` | Instrumentation (`NonePrograms`) | `POP_JUMP_IF_NONE` is told the wrong way round (`python3_11.py:185-191`, `python3_12.py:200-204`). |
| `OutcomesAgree` | Instrumentation (`ItemPrograms`) | In 3.10 the reading of an item tells whether the key is in the container, for the predicate of the condition at the end of its block (`python3_10.py:891-910`, `1124-1159`): `if x[0] == 5` with `x = [5]` tells the branch not taken as well, and if the key is missing a branch is told although none is taken. |
| `OperandsTold` | Instrumentation (`StringPrograms`) | With branch coverage, the seeding of `isalnum` and the like finds the call of the tracer in place of the program's, and is not told its operand. |
| `Transparent` | Instrumentation (`ClearPrograms`) | What is inserted for `LOAD_FAST_AND_CLEAR` reads a local that may be unbound, and raises. |
| `ToldIsTaken` | ControlFlow (`BreakPrograms`) | Before Python 3.12 the end of a loop is told in the block behind it, and so also when a `break` leads there. |
| `ReachedByItsDependences` | ControlFlow (`YieldPrograms`) | The extra exit behind a `yield` lets a block to which both outcomes of a condition lead depend on that condition; the graph keeps one of the two, which need not be the one taken. |
| `SelectedWithItsParts`, `ExcludedIsNoGoal` | CoverLines | A selected class is not covered with its methods; a function that is excluded and has a decorator (set `decorators` in MCSubject) is instrumented all the same, since its code object begins at the decorator's line, where no scope is found (`transformer.py:1295`; `docs/user/coverage.rst:87-88`). |
| `SliceIsSound` | Slicer (`Operands`, `Recursive`, `Behind`) | The operand that `and` keeps on the stack, a recursive call, and a callee that raises where its caller would have gone on are taken for something else. |
| `ArgumentsAreKept`, `ElementsAreGuessed`, `NothingFromBlacklist` | TestCluster | Merging proxies keeps the arguments of one execution only (`typetracing.py:187`); element types are not guessed from `append` (`typesystem.py:1465`); classes of blacklisted modules are met through others (`module.py:1903`, against 1792). |
| `AssertionAware`, `CheckedCoverageIsSame` | Minimization | The visitor that runs first removes unused variables without regard for assertions (`generator.py:711` calls the minimisation assertion-aware). The check behind the visitors may ask a suite whose flag nobody has set, be told the values of before, and log them as unchanged. |
| `WrittenStateAgrees` | Assertions | An assertion on a field of the module or of a class is captured, filtered and marked with the module as this process has left it (`execution.py:473-482`, `export.py:226`, `241`); the file imports the module once, anew, and an unmarked test of it may fail. |
| `EveryRefinedIsChecked` | Refinement | `_extract_function_text` keeps an answer from its first function on, after the whole of it has passed (`refiner.py:36-58`): a value or a function that the test uses and that stands before it is lost, and if a function stands first, it is that one that was run (`validator.py:129-142`). |
| `CountIsWhatIsCreated` | Mutants | The number given includes mutants that turn out not to be possible (`mutators.py:178`). |
| `DiscardsAreFree`, `FilterKeepsKills`, `NoTestIsShadowed` | Refinement | A removed assertion uses up a repair (`pipeline.py:845`); the vacuity filter may lose a kill; two refined tests may have one name. |

Some are part of the models without a property: `CoverageArchive.update`
promises to prefer error-free test cases over shorter ones with errors
(`archive.py:112`), but looks at the candidate's errors only if the stored one has
some. The counter of a MIO population is documented as counting since the last
improvement of the h-value (`archive.py:250`) and is reset by every addition, also of
an equal one. `_restart` gives up at once if `maximum_search_time` is not set,
which is the default, so the first crash of a worker is the last
(`master.py:104`). A crash of a child is taken for a timeout if its exit code is asked
for before the child has been reaped (`subprocess_executor.py:370`). A comparison
that raises leaves its thread's tracer disabled, and the thread is no longer
aborted by the instrumentation (`tracer.py:694`). A thread that redirects stdout
after the main thread has given it up leaves it redirected
(`execution_isolation.py:61`). A path renamed to itself is forgotten by the
file-system isolation and not cleaned up (`fs_isolation.py:131`).

## 5. What is proved

All theorems hold for every value of the constants that satisfies the named
assumption of the module.

**DynaMOSAProofs** has two parts, of which the second builds on the first.

* *CoverageArchive* (`ArchiveAssumption`). `ArchiveInv` is `ArchiveTypeOK`,
  `Partition`, `StoredCovers` and `UpdateProgress`. The last is the strengthening:
  every objective the outer loop has finished, and the offered test cases the inner
  loop has passed, are dealt with. From it follow `ArchivePartition`,
  `ArchiveStoredCovers`, `ArchiveNothingOverlooked`, and `ArchiveIsSound`, which
  joins them to what the run checks. `ArchiveBestKept` needs in addition `BestProgress`:
  what is stored is as good as the candidates passed so far, and, if those have no
  errors, has none either; without that clause a longer test case without errors
  could still replace it.
* *DynaMOSA* (`GraphAssumption`; `ControlDependenceAssumption`: a test case
  that covers a goal covers a chain of goals from a root to it, which is what control
  dependence means, and what `ReachedByItsDependences` checks of the graphs that
  ControlFlow computes). The inductive invariant joins `ArchiveInv` with `FrontierInv`
  (the current goals are the frontier of what has been covered, up to what the running
  update has still to select) and `SettledInv` (offered test cases cover no uncovered
  goal once the manager's loop has ended). `FrontierIsExact`, `CoverageIsNotLost` and
  `StopsOnFullCoverage` follow; for the last, that every goal hangs off a root is
  needed too. `Refinement` shows that each step is a step of `GoalExploration` or
  a stutter. `ClusterStaysInStep` follows from the fact that a callback fires exactly
  when a goal leaves the uncovered ones.

**TestCaseProofs** (`FactoryAssumption`: what is declared of the accessibles speaks of
types there are, `None` is neither a number nor an accessible; `PopulationAssumption`).
`TestCasesAreWellFormed`, `ChangesAreTold` and `SutCallsAreKept`, for any accessibles and
signatures, test cases of any length and any depth of recursion. The inductive invariant
joins `GoodState` (the test case, its backup and those it is crossed with are well typed
and well-formed), `Told` and `CallKept`, which say at each phase of a mutation what the
flags mean. What is proved of the operators is one notion of growth: `Grown(t, p, u, q)`
says that u is t with statements inserted between two places, which read only what is
bound before them. It composes, so that `Providing` (whatever a provider inserts, its
value is bound before the cursor it returns) goes through receivers, arguments, elements
and calls, and by `UpTo` over the levels of `Providers`. An in-place change keeps what a
statement binds and lets it read only what is in scope; deleting with all dependents
leaves no reader behind, because the closure is stable after as many rounds as there are
statements; and appending carries a renaming that maps what has been kept to variables
of the new test case and has no place for what has been dropped.

**TestExecutorProofs** (`ExecutorAssumption`). `TypeCorrect`, `LossIsExplained` and
`IsolationIsClean`. `LossExplained` alone says nothing of the running thread, so `Inv`
adds `StaleThreads` (a live thread other than the running one was abandoned earlier) and
`Undisturbed` (without those, without faults and without a thread of the subject's own
that it waits for, the running thread stays the current one and leaves with something to
report); for the isolation, `Contexts` says
which of the nested contexts a thread has entered at each place where it may stand.

**SubprocessExecutorProofs** (`BatchAssumption`). `CrashesAreContained`,
`EveryTestAnswered`, `TestsAreObservedOnce`, `ChildrenAreGone`, and
`BatchesAreAnswered`, which joins the last three. The strengthening follows the
culprit through its life: a child that has gone with an empty pipe had a test
case that excuses it (`Culprit`, `DeadCulprit`), a failed batch of one is that
test case (`FailedExcused`), and what is not queued and not running has a result
(`Pendings`). A test case behind one that was given up is excused only while both are
in the child of the whole batch (`Disturbed`, `Batches`): one in a child of its own has
nobody before it, so that `Blame` names the two ways in which one that passes may be
told to have timed out, and neither of them is another one's crash.

**MasterWorkerProofs** (`BudgetAssumption`). `RestartsAreBounded` and
`RestartsAreIsolated`, together `CrashesAreContained`; `AnswersAreHonest` and
`InterruptStopsWorker`, together `EndsAreHonest`; `ResultsAreNotDropped`. `IInv` adds
that what is in the pipe was sent, that every restart has been paid for with search
time, and that a restarted worker was forced into subprocess mode.

**PopulationProofs** has three independent parts.

* *MIO* (`MIOAssumption`). `MIOInv` adds to the type that each population is `Sound`: no
  fuller than its capacity, in descending order, and without a test case that covers the
  target unless that is all there is room for; and that the capacity of an open target is
  in step (`SizeInStep`): the configured one as long as the parameter stays at its default,
  and the parameter's once it has said another size. That a test case is inserted at the
  place the order asks for is a lemma on `InsertSorted`. `MIOPopulationsImprove` then
  compares the populations of two states place by place.
* *Suites* (`SuitesAssumption`). `SuitesInv` says of every test case and suite, marked as
  changed or not, what its result and each of its cached values may be; what is known of
  the restricted goals is known of those excluded now. `CachesAnswerRight` follows,
  since every operation, also a cross-over of suites that share test cases, maps sound
  chromosomes to sound ones.
* *LocalSearch* (`LocalAssumption`). `LocalInv` strengthens `EverythingIsSetBack` to a fact
  about every moment of a search: `InStep` (result, snapshot and archive belong to the
  statements they stand with), `Measured` (the suite's value is the objective's and at
  most that of the test case) and `Unmarked` (only statements behind the one under
  search are marked). `EverythingSetBack` follows, and `NeverRandomised`: what
  `StartDifferent` would do to a marked statement is dead code within one call.

**FsIsolationProofs** (`IsolationAssumption`). `FilesInv` adds to the type that what has
been made lies below a recorded path (`MadeRecorded`), and that what stood there before
does not, as long as the test case has overwritten nothing (`RealApart`); both need that
a tree is closed under parents. `FilesCleanedUp` holds for trees of any depth.

**SearchProofs** has three independent parts.

* *Search* (`SearchAssumption`: the settings have the types of the configuration, and what
  is remembered is longer than the plateaus asked for). `CountersAreRight` is
  `CountersTellTheTruth` for every number of goals and of generations. `SearchInv` says
  what each counter has counted: `PlateauCounted` and `MinimumCounted` say of every
  length at once whether the history is flat for so long, which a report more shifts by
  one (`FlatNext`, also when the window drops the oldest report). `StallCounted` says how
  far LLMOSA is in the doubling of its plateaus: after d of them, of which some may have
  come too late to ask, the next one must be longer than all of them together.
* *Timeline* (`TimelineAssumption`). `StatisticsAreRight` is `StatisticsTellTheTruth` for
  every sequence of values and times. `TimelineInv`: the observations are in order of
  time, what was told of a variable is its last entry in the queue or has been collected
  (`LastOf`), and what is written was computed at the end. The points of the timeline are
  then compared as fractions (`Between`, `Line`), the area is bounded trapezoid by
  trapezoid. That the share never exceeds one, which the code asserts
  (`outputvariablefactory.py:176`), needs an assumption the proof has brought to
  light: `area_under_curve` counts the rest of the time in seconds and
  `normalised_area_under_curve` counts it again in ticks, and only the half of the first
  trapezoid makes room for that. An observation must take at least twice as many
  nanoseconds as the search has seconds, which it does: it computes a coverage.
* *MOSA* (`MOSAAssumption`: the goals are those a fitness is known of, the population is
  not empty). `RankingIsKept` is `RankingKeepsTheBest` for any tests, goals and sizes.
  The lists of the ranking hold equal chromosomes more than once, and `remove` takes the
  first of them; `Copies` counts them, and what the lists hold is argued with those numbers
  (`WithoutTakes`). Each loop has its invariant: of the solutions offered so far, those kept
  do not dominate one another, and each of the others is dominated by one that is kept
  (`UndominatedOf`, which needs that dominance is transitive); one best test per goal seen
  is in the zero front (`Zero`); each front taken is the layer of what was left (`Layered`,
  `Peeled`). Sorting by distance loses no test, since no two places have equally many ahead
  of them and so every place is taken (`PlacesAreTaken`, a pigeonhole). The next population
  is full because a front is empty only when nothing is left, or no goal is open:
  `RankingInvariant` therefore adds to the size of the population and to what is known of
  the last ranking (`RankedWell`) that nothing is bred without an open goal.

Where an argument would be an induction (a sorted list, the shortest prefix, the
first position), the proofs take the least number with the property, from the
well-foundedness of `<` on the natural numbers in the library (`LeastNumber`).
SearchProofs and TestCaseProofs derive from it that what holds of 0 and is handed on holds
up to a number (`UpTo`), and that the recursive functions of the models exist (`Recursion`).

**Only model-checked**, and why:

* What MCSubject and MCResults check. Their modules recurse as the source does
  (TestCluster over types, ControlFlow over graphs, Assertions over executions, Slicer over
  the trace) or compute over programs, trees and traces, so that each of their properties
  is a statement on what a recursive computation yields for every input; that is an
  induction over data.
* Liveness under fairness: `SearchEnds`, `SearchStops`, `EveryTestReturns`, `Returns`,
  `ClientExits`.

## 6. What is left out, and why

* What the code under test computes. A test case is what it covers, how it behaves or
  which value its fitness has; all assignments of those are explored, or a set of them
  that has every case. Only Instrumentation, ControlFlow and Slicer look into programs,
  on small symbolic machines.
* What a language model answers: any of a set (Search, Assertions, Refinement). Prompts,
  parsing of answers, the request cache and the search that asks a model are text
  processing and files; the cache has no concurrent user.
* Values of literals (TestFactory), Python's proxies (`utils/typetracing.py`), the
  arrays of the machine-learning mode, type inference from annotations and
  documentation, collected constants, complexity: data without an order of steps.
* *Executors*: the registration of observers; `execute_with_exit_code`; the state of
  the random-number generator. *MasterWorker*: what a worker does between its start
  and its end. *FsIsolation*: symbolic links, functions that are not patched, and the
  redirected temporary directory. *DynaMOSA and MIO*: how offspring come about (MOSA,
  TestCaseChromosome). *MOSA*: tournament selection.
* *Instrumentation*: the dispatch tables of the adapters, the import machinery,
  bytecode as bytes. *Slicer*: the instructions of Python 3.10 that the programs use;
  generators, closures and imports are not modelled. *ControlFlow*: code objects of
  three blocks.
* *generator.py*: the phases are modelled one by one, their composition is a step of a
  worker. Options are constants or initial choices. Minimisation and the final metrics
  execute test cases between the filter and the export: to the export they are some other
  state in which this process has left the module, which `Left` stands for. A child
  starts with the module imported anew or as this process has left it, since the
  start method is the platform's except where `cli.py:251` sets it.
* Layout of files and reports, naming, logging, containers.

What each component leaves out is noted in `PROJECT.json`. A component is called
partly modelled as soon as one operation of it is missing.

## 7. Plan

1. Proofs next in line, each of a property checked above: what Refinement keeps of an
   accepted test; that minimisation loses no coverage.
2. Abstract specifications: an archive as "best of all that was ever offered", which
   CoverageArchive should implement for error-free test cases; an executor as "one
   answer per request", which both executors should implement.
3. Models: generators and closures in the slicer; the phases of `generator.py` as one
   module with what each may leave behind for the next.
