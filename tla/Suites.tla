---------------------------------- MODULE Suites ----------------------------------
(***************************************************************************)
(* The population of test suites of the whole-suite search, with all the   *)
(* values it caches (pynguin/ga/computation_cache.py, chromosome.py,       *)
(* computations.py, testsuitechromosome.py, testcasechromosome.py,         *)
(* algorithms/wholesuitealgorithm.py).                                     *)
(*                                                                         *)
(* A suite caches its fitness and its coverage, a test case the result of  *)
(* its execution and which goals it covers.  Both have a flag `changed`.   *)
(* What a value is computed from is what the model keeps of it: for a      *)
(* fitness the set of goals it reports open, for a coverage the set of     *)
(* goals reached.                                                          *)
(***************************************************************************)
EXTENDS Naturals, SequencesExt

CONSTANTS
    Bodies,   \* the non-empty test cases
    SuiteGoals,
    Reaches,    \* the goals that an execution of the test case reaches
    Slots,      \* the members of the population
    MaxTests,   \* bound: test cases in a suite
    MaxChanges, \* bound: changes of suites
    None        \* not cached, not executed

ASSUME SuitesAssumption == Reaches \in [Bodies -> SUBSET SuiteGoals] /\ MaxTests \in Nat

VARIABLES
    suites,     \* the suite in every slot of the population
    archived,   \* the goals covered in the archive
    excluded,   \* the goals that the fitness function no longer considers
    changes     \* counts against MaxChanges

suitesVars == <<suites, archived, excluded, changes>>

NothingKnown == [g \in SuiteGoals |-> None]

\* TestCaseChromosomeFactory.get_chromosome
NewTestCase(content) ==
    [content |-> content, changed |-> TRUE, result |-> None, cache |-> NothingKnown]

\* TestSuiteChromosomeFactory.get_chromosome: every test case added sets the flag.
NewSuite(tests) == [tests |-> tests, changed |-> TRUE, fitness |-> None, coverage |-> None]

--------------------------------------------------------------------------------
\* _run_test_case_chromosome
RunTest(t) ==
    IF t.changed \/ t.result = None
    THEN [t EXCEPT !.result = t.content, !.changed = FALSE]
    ELSE t

\* Mutant: the values of the test case stay.
RunInSuiteSilently(t) == RunTest(t)

\* _run_test_suite_chromosome, for one test case: as the flag is cleared, the test
\* case cannot know that its own values are out of date, so they go as well.
RunInSuite(t) ==
    IF t.changed \/ t.result = None
    THEN [RunTest(t) EXCEPT !.cache = NothingKnown]
    ELSE t

RunSuite(s) == [s EXCEPT !.tests = [i \in DOMAIN s.tests |-> RunInSuite(s.tests[i])]]

\* analyze_results: the merged trace of what was executed
Merged(s) == UNION {Reaches[s.tests[i].result] : i \in DOMAIN s.tests}

invalidate_cache(s) == [s EXCEPT !.fitness = None, !.coverage = None]

\* get_fitness of a suite: _check_cache, _compute_fitness, and
\* BranchDistanceTestSuiteFitnessFunction.compute_fitness
get_fitness(s) ==
    LET known == IF s.changed THEN invalidate_cache(s) ELSE s
        run == RunSuite(known)
    IN IF known.fitness # None THEN known
       ELSE [run EXCEPT !.fitness = (SuiteGoals \ excluded) \ Merged(run), !.changed = FALSE]

\* get_coverage of a suite: _check_cache and _compute_coverage
get_coverage(s) ==
    LET known == IF s.changed THEN invalidate_cache(s) ELSE s
        run == RunSuite(known)
    IN IF known.coverage # None THEN known
       ELSE [run EXCEPT !.coverage = Merged(run), !.changed = FALSE]

\* Mutant: values are missing only if there are none.
ComputeIfNoneKnown(t, g) ==
    LET known == IF t.changed THEN [t EXCEPT !.cache = NothingKnown] ELSE t
        run == RunTest(known)
    IN IF known.cache = NothingKnown
       THEN [run EXCEPT !.cache[g] = (g \in Reaches[run.result]), !.changed = FALSE]
       ELSE known

\* get_is_covered of a test case: on a changed one all values go and this one is
\* computed; on another one this one is computed if fewer values are known than
\* there are goals.
get_is_covered(t, g) ==
    LET known == IF t.changed THEN [t EXCEPT !.cache = NothingKnown] ELSE t
        run == RunTest(known)
    IN IF t.changed \/ \E h \in SuiteGoals : known.cache[h] = None
       THEN [run EXCEPT !.changed = FALSE,
                !.cache[g] = IF @ = None THEN g \in Reaches[run.result] ELSE @]
       ELSE known

--------------------------------------------------------------------------------
SuitesInit ==
    /\ suites \in [Slots -> {NewSuite([i \in DOMAIN cs |-> NewTestCase(cs[i])]) :
                                    cs \in BoundedSeq(Bodies, MaxTests) \ {<<>>}}]
    /\ archived = {} /\ excluded = {} /\ changes = 0

Become(p, s) ==
    /\ suites' = [suites EXCEPT ![p] = s]
    /\ UNCHANGED <<archived, excluded>>

AskFitness(p) == Become(p, get_fitness(suites[p])) /\ UNCHANGED changes
AskCoverage(p) == Become(p, get_coverage(suites[p])) /\ UNCHANGED changes
Replace(p, s) == changes < MaxChanges /\ changes' = changes + 1 /\ Become(p, s)

\* evolve: an individual of the next generation is a clone, with its caches.
Clone(p, q) == p # q /\ Replace(p, suites[q])

\* TestSuiteMutation.mutate, part by part: a test case is mutated in place and
\* tells of it; a new one is added; one that has lost all statements goes.
MutateTest(p, i) ==
    \E c \in Bodies :
        Replace(p, [suites[p] EXCEPT
            !.tests[i].content = c, !.tests[i].changed = TRUE, !.changed = TRUE])

AddTest(p) ==
    /\ Len(suites[p].tests) < MaxTests
    /\ \E c \in Bodies :
        Replace(p, [suites[p] EXCEPT !.tests = Append(@, NewTestCase(c)), !.changed = TRUE])

EmptyTest(p, i) ==
    Replace(p, [suites[p] EXCEPT !.tests = RemoveAt(@, i), !.changed = TRUE])

\* splice_test_suite_chromosomes: the head, and clones of the other's tail; neither
\* is empty, as SinglePointRelativeCrossOver splits behind a test case.
CrossOver(p, q, i, j) ==
    LET head == SubSeq(suites[p].tests, 1, i)
        tail == SubSeq(suites[q].tests, j, Len(suites[q].tests))
    IN /\ i < Len(suites[p].tests) /\ j > 1
       /\ Len(head) + Len(tail) <= MaxTests
       /\ Replace(p, [suites[p] EXCEPT !.tests = head \o tail, !.changed = TRUE])

\* Archive.update asks every test case about every goal: whatever the order, the first
\* answer that is missing leads to its execution, and at the end none is missing.
AskAll(t) ==
    LET known == IF t.changed THEN [t EXCEPT !.cache = NothingKnown] ELSE t
        run == RunTest(known)
        Answer(g) == IF known.cache[g] = None THEN g \in Reaches[run.result] ELSE known.cache[g]
    IN IF \E g \in SuiteGoals : known.cache[g] = None
       THEN [run EXCEPT !.changed = FALSE, !.cache = [g \in SuiteGoals |-> Answer(g)]]
       ELSE known

Asked == [p \in Slots |-> [suites[p] EXCEPT
    !.tests = [i \in DOMAIN suites[p].tests |-> AskAll(suites[p].tests[i])]]]
NowCovered == archived \cup
    {g \in SuiteGoals : \E p \in Slots : \E i \in DOMAIN Asked[p].tests : Asked[p].tests[i].cache[g] = TRUE}

\* Mutant: the restriction leaves the cached values.
UpdateArchiveOnly ==
    /\ archived' = NowCovered /\ excluded' = NowCovered
    /\ suites' = Asked
    /\ UNCHANGED changes

\* _update_archive: if goals have been covered, the fitness function no longer
\* considers them, and the suites of the population forget their values.
_update_archive ==
    /\ archived' = NowCovered
    /\ IF NowCovered = archived
       THEN suites' = Asked /\ UNCHANGED excluded
       ELSE /\ suites' = [p \in Slots |-> invalidate_cache(Asked[p])]
            /\ excluded' = NowCovered
    /\ UNCHANGED changes

SuitesNext ==
    \/ \E p \in Slots :
        \/ AskFitness(p) \/ AskCoverage(p) \/ AddTest(p)
        \/ \E i \in DOMAIN suites[p].tests :
            MutateTest(p, i) \/ EmptyTest(p, i)
        \/ \E q \in Slots :
            \/ Clone(p, q)
            \/ \E i \in DOMAIN suites[p].tests, j \in DOMAIN suites[q].tests : CrossOver(p, q, i, j)
    \/ _update_archive

SuitesSpec == SuitesInit /\ [][SuitesNext]_suitesVars

--------------------------------------------------------------------------------
\* What computing a suite's values anew would find
Reached(s) == UNION {Reaches[s.tests[i].content] : i \in DOMAIN s.tests}

\* Whatever has been mutated, cloned, executed on behalf of somebody else or
\* restricted before: a suite or a test case that is asked for its fitness, its
\* coverage or a goal answers what computing it anew would yield.
AnswersFresh ==
    \A p \in Slots :
        LET s == suites[p] IN
        /\ get_fitness(s).fitness = (SuiteGoals \ excluded) \ Reached(s)
        /\ get_coverage(s).coverage = Reached(s)
        /\ \A i \in DOMAIN s.tests, g \in SuiteGoals :
            get_is_covered(s.tests[i], g).cache[g] = (g \in Reaches[s.tests[i].content])

\* A value or a result that has not been marked as out of date is the one that
\* computing it anew would yield.
NothingStale ==
    \A p \in Slots :
        LET s == suites[p] IN
        /\ ~ s.changed => /\ s.fitness \in {None, (SuiteGoals \ excluded) \ Reached(s)}
                          /\ s.coverage \in {None, Reached(s)}
        /\ \A i \in DOMAIN s.tests :
            LET t == s.tests[i] IN
            ~ t.changed => /\ t.result \in {None, t.content}
                           /\ \A g \in SuiteGoals : t.cache[g] \in {None, (g \in Reaches[t.content])}

\* Cached values answer right: for what is asked now, and, as they hold nothing that is
\* out of date, for what is asked later (computation_cache.py).
AnswersRight == AnswersFresh /\ NothingStale
================================================================================
