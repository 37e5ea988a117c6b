----------------------------------- MODULE MIO ----------------------------------
(***************************************************************************)
(* The many-independent-objective search (pynguin/ga/algorithms/           *)
(* mioalgorithm.py) and its archive (archive.py, MIOArchive and            *)
(* MIOPopulation): per target a small population of test cases, sorted by  *)
(* how close they come to covering it, of which only one is left once the  *)
(* target is covered.  The size of the populations changes with the        *)
(* progress of the search.                                                 *)
(***************************************************************************)
EXTENDS Integers, SequencesExt

CONSTANTS
    Targets,        \* the goals
    Tests,          \* the test cases that mutation and chance can produce
    Heuristic,      \* Heuristic[s][x]: 1 - normalise(fitness of s for x), in steps
    Full,           \* the value of a test case that covers the target
    TestSize,           \* TestSize[s]: statements of s, without those after an exception
    FailingTests,        \* those whose last execution timed out or raised
    Builtin,        \* initial_config as it is when the module is imported: the defaults
    Initial,        \* initial_config: number of tests per target, number of mutations
    Focused,        \* focused_config
    FocusAt,        \* exploitation_starts_at_percent
    NoTest,         \* the None of _solution
    MaxProgress,    \* bound: progress() is measured in steps
    MaxCounter      \* bound: how often a population is sampled without an addition

ASSUME MIOAssumption ==
    /\ Full \in Nat \ {0}
    /\ Heuristic \in [Tests -> [Targets -> 0..Full]]
    /\ NoTest \notin Tests
    /\ TestSize \in [Tests -> Nat] /\ FailingTests \subseteq Tests
    /\ {Builtin, Initial, Focused} \subseteq [tests : Nat \ {0}, mutations : Nat \ {0}]
    /\ MaxProgress \in Nat /\ FocusAt \in 1..MaxProgress /\ MaxCounter \in Nat

VARIABLES
    population,     \* _archive: the MIOPopulation of each target
    reports,        \* how often on_target_covered was called for each target
    parameters,     \* n and m
    focused,
    progress,
    solution,       \* _solution
    mutations,      \* _current_mutations
    offspring,      \* the local variable of evolve
    stage           \* where generate_tests stands

populationVars == <<population, reports>>
scheduleVars == <<parameters, focused, progress>>
mioVars == <<populationVars, scheduleVars, solution, mutations, offspring, stage>>

--------------------------------------------------------------------------------
(* MIOPopulation; p is the population of target x.                          *)

h(s, x) == Heuristic[s][x]

IsCovered(p, x) == p.capacity = 1 /\ Len(p.solutions) = 1 /\ h(p.solutions[1], x) = Full

\* A test case without errors is better than one with them, and if the candidate
\* has errors or neither has, the shorter one, or the newer.
IsBetterTest(current, candidate) ==
    \/ current \in FailingTests /\ candidate \notin FailingTests
    \/ TestSize[candidate] <= TestSize[current]

IsPairBetterThanCurrent(current, candidate, x) ==
    \/ h(current, x) < h(candidate, x)
    \/ h(current, x) = h(candidate, x) /\ IsBetterTest(current, candidate)

Accepts(p, x, s) ==
    /\ h(s, x) > 0
    /\ IsCovered(p, x) => h(s, x) = Full /\ IsPairBetterThanCurrent(p.solutions[1], s, x)
    /\ h(s, x) < Full /\ Len(p.solutions) = p.capacity =>
            IsPairBetterThanCurrent(Last(p.solutions), s, x)

\* Mutants: the solutions are not sorted again; the first one is replaced.
AppendUnsorted(p, x, s) ==
    IF h(s, x) = Full
    THEN [capacity |-> 1, counter |-> 0, solutions |-> <<s>>]
    ELSE LET rest == IF Len(p.solutions) < p.capacity THEN p.solutions ELSE Front(p.solutions)
         IN [p EXCEPT !.counter = 0, !.solutions = Append(rest, s)]

\* The solutions, in descending order, with s behind its equals (sort is stable), that
\* is, before the first worse one.
InsertSorted(solutions, x, s) ==
    LET worse == {i \in 1..Len(solutions) : h(solutions[i], x) < h(s, x)}
    IN InsertAt(solutions, Min(worse \cup {Len(solutions) + 1}), s)

ReplaceFirst(p, x, s) ==
    IF h(s, x) = Full
    THEN [capacity |-> 1, counter |-> 0, solutions |-> <<s>>]
    ELSE LET rest == IF Len(p.solutions) < p.capacity THEN p.solutions ELSE Tail(p.solutions)
         IN [p EXCEPT !.counter = 0, !.solutions = InsertSorted(rest, x, s)]

\* add_solution, for an accepted one: it covers the target and is the only one from
\* now on, or it takes a free place or that of the worst solution.
AddSolution(p, x, s) ==
    IF h(s, x) = Full
    THEN [capacity |-> 1, counter |-> 0, solutions |-> <<s>>]
    ELSE LET rest == IF Len(p.solutions) < p.capacity THEN p.solutions ELSE Front(p.solutions)
         IN [p EXCEPT !.counter = 0, !.solutions = InsertSorted(rest, x, s)]

\* shrink_population, which may also let it grow
ShrinkPopulation(p, x, n) ==
    IF IsCovered(p, x) THEN p
    ELSE [p EXCEPT !.capacity = n,
                   !.solutions = SubSeq(@, 1, IF n < Len(@) THEN n ELSE Len(@))]

--------------------------------------------------------------------------------
(* MIOAlgorithm                                                             *)

Covered == {x \in Targets : IsCovered(population[x], x)}

\* The populations get the size that is configured; the fields of Parameters have their
\* values from the import of the module, before any configuration is set.
MIOInit ==
    /\ population = [x \in Targets |-> [capacity |-> Initial.tests, counter |-> 0, solutions |-> <<>>]]
    /\ reports = [x \in Targets |-> 0]
    /\ parameters = Builtin /\ focused = FALSE /\ progress = 0
    /\ solution = NoTest /\ mutations = 0 /\ offspring = NoTest
    /\ stage = "search"

MayMutate == solution # NoTest /\ mutations < parameters.mutations

\* evolve: the last solution is mutated once more.
MutateSolution ==
    /\ stage = "search" /\ Covered # Targets /\ MayMutate
    /\ offspring' \in Tests
    /\ mutations' = mutations + 1
    /\ stage' = "update"
    /\ UNCHANGED <<populationVars, scheduleVars, solution>>

\* evolve: a random test case, by chance or because the archive is empty.
NewTest ==
    /\ stage = "search" /\ Covered # Targets /\ ~ MayMutate
    /\ offspring' \in Tests
    /\ mutations' = 1
    /\ stage' = "update"
    /\ UNCHANGED <<populationVars, scheduleVars, solution>>

\* get_solution: targets that have solutions, those not yet covered first.
PotentialTargets ==
    LET sampled == {x \in Targets : population[x].solutions # <<>>}
    IN IF sampled \subseteq Covered THEN sampled ELSE sampled \ Covered

\* evolve: a solution of the population that was sampled least, mutated.
SampleArchive ==
    /\ stage = "search" /\ Covered # Targets /\ ~ MayMutate
    /\ \E x \in PotentialTargets :
        /\ \A y \in PotentialTargets : population[x].counter <= population[y].counter
        /\ population[x].counter < MaxCounter
        /\ population' = [population EXCEPT ![x].counter = @ + 1]
    /\ offspring' \in Tests
    /\ mutations' = 1
    /\ stage' = "update"
    /\ UNCHANGED <<reports, scheduleVars, solution>>

\* Mutant: a covered target is reported with every solution it accepts.
ReportAccepted(s) == {x \in Targets : Accepts(population[x], x, s) /\ h(s, x) = Full}

\* The targets that were not covered before.
NewlyCovered(s) ==
    {x \in Targets \ Covered : Accepts(population[x], x, s) /\ h(s, x) = Full}

\* MIOArchive.update with the offspring, and the end of evolve.
UpdateArchive ==
    /\ stage = "update"
    /\ LET accepting == {x \in Targets : Accepts(population[x], x, offspring)}
       IN /\ population' = [x \in Targets |-> IF x \in accepting
                                              THEN AddSolution(population[x], x, offspring)
                                              ELSE population[x]]
          /\ solution' = IF accepting # {} THEN offspring ELSE solution
    /\ reports' = [x \in Targets |-> reports[x] + IF x \in NewlyCovered(offspring) THEN 1 ELSE 0]
    /\ stage' = "adjust"
    /\ UNCHANGED <<scheduleVars, mutations, offspring>>

\* The ceiling of a value between the initial and the focused one.
Scaled(initial, final) == initial - (((initial - final) * progress') \div FocusAt)

\* Mutants: the scale goes on beyond the beginning of the focused phase; the archive
\* is not told that it has begun.
UpdateParametersUnfocused ==
    /\ stage = "adjust"
    /\ progress' \in 0..MaxProgress
    /\ parameters' = [tests |-> Scaled(Initial.tests, Focused.tests),
                      mutations |-> Scaled(Initial.mutations, Focused.mutations)]
    /\ UNCHANGED <<population, focused>>
    /\ stage' = "search"
    /\ UNCHANGED <<reports, solution, mutations, offspring>>

UpdateParametersSilently ==
    /\ stage = "adjust"
    /\ progress' \in 0..MaxProgress
    /\ focused' = (focused \/ progress' > FocusAt)
    /\ parameters' = IF focused' THEN Focused
                     ELSE [tests |-> Scaled(Initial.tests, Focused.tests),
                           mutations |-> Scaled(Initial.mutations, Focused.mutations)]
    /\ population' = IF focused' \/ parameters'.tests = parameters.tests THEN population
                     ELSE [x \in Targets |-> ShrinkPopulation(population[x], x, parameters'.tests)]
    /\ stage' = "search"
    /\ UNCHANGED <<reports, solution, mutations, offspring>>

\* _update_parameters: the progress may also have gone back, as some stopping
\* conditions count from the last change on; the focused phase is not left again.
UpdateParameters ==
    /\ stage = "adjust"
    /\ progress' \in 0..MaxProgress
    /\ focused' = (focused \/ progress' > FocusAt)
    /\ parameters' = IF focused' THEN Focused
                     ELSE [tests |-> Scaled(Initial.tests, Focused.tests),
                           mutations |-> Scaled(Initial.mutations, Focused.mutations)]
    /\ population' = IF parameters'.tests = parameters.tests THEN population
                     ELSE [x \in Targets |-> ShrinkPopulation(population[x], x, parameters'.tests)]
    /\ stage' = "search"
    /\ UNCHANGED <<reports, solution, mutations, offspring>>

\* No resources are left, which may be so at any time, or all targets are covered.
Finish ==
    /\ stage = "search"
    /\ stage' = "finished"
    /\ UNCHANGED <<populationVars, scheduleVars, solution, mutations, offspring>>

MIOTerminated == stage = "finished" /\ UNCHANGED mioVars

MIONext ==
    \/ MutateSolution \/ NewTest \/ SampleArchive
    \/ UpdateArchive \/ UpdateParameters \/ Finish \/ MIOTerminated

MIOSpec == MIOInit /\ [][MIONext]_mioVars

--------------------------------------------------------------------------------
MIOTypeOK ==
    /\ population \in [Targets -> [capacity : Nat \ {0}, counter : 0..MaxCounter,
                                   solutions : Seq(Tests)]]
    /\ reports \in [Targets -> Nat]
    /\ parameters \in [tests : Nat \ {0}, mutations : Nat \ {0}]
    /\ focused \in BOOLEAN /\ progress \in 0..MaxProgress
    /\ solution \in Tests \cup {NoTest} /\ offspring \in Tests \cup {NoTest}
    /\ mutations \in Nat
    /\ stage \in {"search", "update", "adjust", "finished"}

\* What the comment "These are always sorted" assumes: the best solution is the
\* first, and the worst, the one to go, the last; and the population is not fuller
\* than its capacity, which add_solution asserts.
AlwaysSorted ==
    \A x \in Targets :
        LET solutions == population[x].solutions
        IN /\ Len(solutions) <= population[x].capacity
           /\ \A i, j \in 1..Len(solutions) : i < j => h(solutions[i], x) >= h(solutions[j], x)

\* The archive is told of a size when the parameter changes.  So it has the configured
\* one as long as the parameter stays at the built-in default, and the parameter's after.
SizeInStep(p) ==
    \/ p.capacity = parameters.tests
    \/ p.capacity = Initial.tests /\ parameters.tests = Builtin.tests

\* The populations of the open targets have the size that the parameters say once they
\* have said another one than at the start, also after progress() has gone back; a covered
\* target has one test case, and none that covers its target is in the population of an
\* open one (mioalgorithm.py:79-110, archive.py:328-334).
CapacityInStep ==
    \A x \in Targets \ Covered :
        /\ SizeInStep(population[x])
        /\ \A i \in 1..Len(population[x].solutions) : h(population[x].solutions[i], x) < Full

\* "The maximum size of the population kept in the archive per target"
\* (mioalgorithm.py:33): not from the start, if the configured size is not the default.
SizeIsTheParameter == \A x \in Targets : Len(population[x].solutions) <= parameters.tests

\* Those who listen for covered targets, like the test cluster, hear of each of them
\* once.
ReportedOnce == \A x \in Targets : reports[x] = IF x \in Covered THEN 1 ELSE 0

\* An update makes no population worse, in none of its places, nor does a change of
\* its size change more than its end; a covered target stays covered.
NoPopulationWorsens ==
    \A x \in Targets :
        LET before == population[x].solutions
            after == population'[x].solutions
        IN \/ Len(after) = 1 /\ h(after[1], x) = Full
           \/ stage = "adjust" /\ IsPrefix(after, before)
           \/ /\ Len(after) >= Len(before)
              /\ \A i \in 1..Len(before) : h(after[i], x) >= h(before[i], x)

\* MIO's populations stay sorted, as shrinking and replacing assume, and follow every
\* change of the parameters, both ways; a covered target is reported once; and no update makes a
\* population worse in any of its places (archive.py, MIOArchive and MIOPopulation).
PopulationsImprove ==
    /\ [](MIOTypeOK /\ AlwaysSorted /\ CapacityInStep /\ ReportedOnce)
    /\ [][NoPopulationWorsens]_mioVars
================================================================================
