------------------------------- MODULE Minimization ------------------------------
(***************************************************************************)
(* What happens to the generated suite between the search and the export   *)
(* (pynguin/generator.py, _minimize, and the visitors of                   *)
(* pynguin/ga/postprocess.py): truncation after a raising statement, the   *)
(* removal of unused variables, the iterative, combined or suite-wide      *)
(* minimisation, the final check with its restoration, and the removal of  *)
(* empty test cases; and the minimisation of a test case that has crashed  *)
(* the subprocess (pynguin/testcase/crash_minimization.py).  One step      *)
(* looks at one statement or one test case.                                *)
(*                                                                         *)
(* A test case is a record of its statements and of the position at which  *)
(* it raised, 0 if it did not.  A statement has an identity, the variable  *)
(* it binds, the variables it reads and those its assertions check.  What  *)
(* is reached depends on the statements executed, and a test case that is  *)
(* executed again reaches the same.                                        *)
(***************************************************************************)
EXTENDS TestCase

CONSTANTS
    Inputs,     \* the suites the search may return
    Goals,
    Landscapes, \* in each, goal g is reached by executing all of [g].needs, none of [g].blocks
    Metrics,    \* the coverage functions: the goals each of them counts
    Strategies  \* NONE, CASE, SUITE, COMBINED, and CRASH for crash_minimization.py

VARIABLES
    pc,         \* the visitor that goes over the suite
    strategy, forward, landscape,   \* the configuration and the module under test
    suite,      \* the test cases
    changed,    \* the suite's flag: its cached values are out of date
    cached,     \* the coverage values the suite has cached
    original,   \* the suite before the minimisation
    work        \* the loop variables of the visitor

vars == <<pc, strategy, forward, landscape, suite, changed, cached, original, work>>

Executed(t) == {t.stmts[i].id : i \in {j \in DOMAIN t.stmts : t.raised = 0 \/ j <= t.raised}}

Reached(tests) ==
    {g \in Goals : \E k \in DOMAIN tests :
        /\ landscape[g].needs \subseteq Executed(tests[k])
        /\ landscape[g].blocks \cap Executed(tests[k]) = {}}

\* _coverages: numbers, and no more, are what the coverage functions return.
Coverages(tests) == [m \in Metrics |-> Cardinality(m \cap Reached(tests))]

--------------------------------------------------------------------------------
\* ExceptionTruncation.visit_test_case_chromosome
Truncated(t) ==
    IF t.raised \in DOMAIN t.stmts THEN [chop(t, t.raised) EXCEPT !.raised = 0] ELSE t

DirectlyAsserted(t) == UNION {t.stmts[i].checks : i \in DOMAIN t.stmts}

\* Mutant: what the asserted value is computed from is not protected.
OnlyAsserted(t) == DirectlyAsserted(t)

\* get_assertion_protected_variables: what assertions check, and what that is
\* computed from, whatever the order of the statements.
get_assertion_protected_variables(t) ==
    LET closure[n \in 0..size(t)] ==
            IF n = 0 THEN DirectlyAsserted(t)
            ELSE closure[n - 1] \cup
                 UNION {t.stmts[i].uses : i \in {j \in DOMAIN t.stmts : t.stmts[j].var \in closure[n - 1]}}
    IN closure[size(t)]

\* UnusedStatementsTestCaseVisitor: remove_unused_variables builds the expression
\* statement anew, without the assertions of the assignment it replaces.
WithoutUnused(t) ==
    [t EXCEPT !.stmts = [i \in DOMAIN t.stmts |->
        IF \/ t.stmts[i].var = None
           \/ \E j \in (i + 1)..size(t) : t.stmts[i].var \in t.stmts[j].uses
        THEN t.stmts[i]
        ELSE [t.stmts[i] EXCEPT !.var = None, !.checks = {}]]]

\* Chromosomes are equal if their code is: the first equal one is deleted.
Deleted(tests, t) ==
    RemoveAt(tests, CHOOSE i \in DOMAIN tests :
        tests[i] = t /\ \A j \in 1..(i - 1) : tests[j] # t)

\* execute_with_exit_code: how the process ends depends on what is reached as
\* well; None is 0, which is also the answer for an empty test case.
ExitCode(t) == IF Reached(<<t>>) = {} THEN None ELSE Reached(<<t>>)

--------------------------------------------------------------------------------
Idle == [test |-> 1, cursor |-> 0, again |-> FALSE, base |-> None, protected |-> {}]

Init ==
    /\ work = [Idle EXCEPT !.cursor = 1] /\ changed = FALSE
    /\ pc \in {"truncate", "crash"} /\ strategy \in Strategies /\ (pc = "crash" <=> strategy = "CRASH") /\ forward \in BOOLEAN /\ landscape \in Landscapes
    /\ suite \in Inputs /\ original = suite
    /\ strategy = "CRASH" => Len(suite) = 1 /\ ExitCode(suite[1]) # None
    /\ cached = Coverages(suite)

\* The suite is truncated, its coverage and a copy of it are kept, and the
\* strategy chooses the first visitor.
Truncate ==
    /\ pc = "truncate"
    /\ suite' = [k \in DOMAIN suite |-> Truncated(suite[k])]
    /\ original' = suite'
    /\ IF strategy = "COMBINED"
       THEN pc' = "combined" /\ work' = [Idle EXCEPT !.cursor = 1, !.base = Coverages(suite')]
       ELSE pc' = "unused" /\ UNCHANGED work
    /\ UNCHANGED <<strategy, forward, landscape, changed, cached>>

\* Where a loop over the statements of a test case begins.
First(t) == IF forward THEN 1 ELSE size(t)

\* TestCasePostProcessor, first visitor; the second is about to start.
RemoveUnused ==
    /\ pc = "unused" /\ work.test \in DOMAIN suite
    /\ LET t == WithoutUnused(suite[work.test]) IN
        /\ suite' = [suite EXCEPT ![work.test] = t]
        /\ IF strategy = "NONE"
           THEN work' = [work EXCEPT !.test = @ + 1] /\ UNCHANGED pc
           ELSE /\ pc' = "iterate"
                /\ work' = [work EXCEPT !.cursor = First(t), !.again = FALSE,
                                        !.base = Coverages(<<t>>),
                                        !.protected = get_assertion_protected_variables(t)]
    /\ UNCHANGED <<strategy, forward, landscape, changed, cached, original>>

\* Every test case has been visited.
Visited ==
    /\ pc = "unused" /\ work.test \notin DOMAIN suite
    /\ pc' = CASE strategy = "NONE" -> "empty"
               [] strategy = "SUITE" /\ Len(suite) > 1 -> "tests"
               [] OTHER -> "check"
    /\ work' = [Idle EXCEPT !.base = Coverages(suite)]
    /\ UNCHANGED <<strategy, forward, landscape, suite, changed, cached, original>>

\* Mutant: one pass over the statements is enough.
SweepOnce(t) == [work EXCEPT !.test = @ + 1]

\* Forward: the next pass, if this one has removed something.
Sweep(t) ==
    IF work.again THEN [work EXCEPT !.cursor = First(t), !.again = FALSE]
    ELSE [work EXCEPT !.test = @ + 1]

\* visit_default_test_case of Forward- and BackwardIterativeMinimizationVisitor, for
\* one statement: forward goes on behind a removed statement, backward starts over.
Iterate ==
    /\ pc = "iterate"
    /\ LET t == suite[work.test]
           without == remove_statement_with_forward_dependencies(t, work.cursor)
           next == [work EXCEPT !.cursor = IF forward THEN @ + 1 ELSE @ - 1]
       IN IF work.cursor \notin DOMAIN t.stmts
          THEN /\ work' = Sweep(t)
               /\ pc' = IF work'.test = work.test THEN "iterate" ELSE "unused"
               /\ UNCHANGED suite
          ELSE /\ UNCHANGED pc
               /\ IF \/ t.stmts[work.cursor].var \in work.protected
                     \/ Coverages(<<without>>) # work.base
                  THEN work' = next /\ UNCHANGED suite
                  ELSE /\ suite' = [suite EXCEPT ![work.test] = without]
                       /\ work' = IF forward THEN [work EXCEPT !.again = TRUE]
                                  ELSE [work EXCEPT !.cursor = size(without)]
    /\ UNCHANGED <<strategy, forward, landscape, changed, cached, original>>

\* Mutant: test cases go whatever they reach, the last one included.
RemoveTestUnchecked ==
    /\ pc = "tests"
    /\ IF work.test \notin DOMAIN suite
       THEN pc' = "check" /\ UNCHANGED <<suite, changed, work>>
       ELSE /\ suite' = Deleted(suite, suite[work.test]) /\ changed' = TRUE /\ UNCHANGED <<pc, work>>
    /\ UNCHANGED <<strategy, forward, landscape, cached, original>>

\* TestSuiteMinimizationVisitor, for one test case; the last one stays.
RemoveTest ==
    /\ pc = "tests"
    /\ IF work.test \notin DOMAIN suite \/ Len(suite) = 1
       THEN pc' = "check" /\ UNCHANGED <<suite, changed, work>>
       ELSE LET without == Deleted(suite, suite[work.test]) IN
            /\ UNCHANGED pc
            /\ IF Coverages(without) = work.base
               THEN suite' = without /\ changed' = TRUE /\ UNCHANGED work
               ELSE work' = [work EXCEPT !.test = @ + 1] /\ UNCHANGED <<suite, changed>>
    /\ UNCHANGED <<strategy, forward, landscape, cached, original>>

\* CombinedMinimizationVisitor, for one statement: the coverage of the whole suite
\* is what counts.
Combine ==
    /\ pc = "combined"
    /\ IF work.test \notin DOMAIN suite
       THEN /\ IF work.again
               THEN work' = [work EXCEPT !.test = 1, !.cursor = 1, !.again = FALSE] /\ UNCHANGED pc
               ELSE pc' = "check" /\ UNCHANGED work
            /\ UNCHANGED <<suite, changed>>
       ELSE LET t == suite[work.test]
                without == [suite EXCEPT ![work.test] =
                                remove_statement_with_forward_dependencies(t, work.cursor)]
            IN /\ UNCHANGED pc
               /\ IF work.cursor > size(t)
                  THEN work' = [work EXCEPT !.test = @ + 1, !.cursor = 1] /\ UNCHANGED <<suite, changed>>
                  ELSE IF Coverages(without) = work.base
                  THEN suite' = without /\ changed' = TRUE /\ work' = [work EXCEPT !.again = TRUE]
                  ELSE work' = [work EXCEPT !.cursor = @ + 1] /\ UNCHANGED <<suite, changed>>
    /\ UNCHANGED <<strategy, forward, landscape, cached, original>>

\* get_coverage_for: the values are computed anew only if the flag is set.
Check ==
    /\ pc = "check"
    /\ LET found == IF changed THEN Coverages(suite) ELSE cached IN
        IF found = cached
        THEN pc' = "empty" /\ changed' = FALSE /\ cached' = found /\ UNCHANGED suite
        ELSE \* The restored suite is asked for the coverage of the whole set of
             \* functions, which raises: nothing follows.
             pc' = "failed" /\ changed' = TRUE /\ cached' = found /\ suite' = original
    /\ UNCHANGED <<strategy, forward, landscape, original, work>>

\* EmptyTestCaseRemover
RemoveEmpty ==
    /\ pc = "empty" /\ pc' = "done"
    /\ suite' = SelectSeq(suite, LAMBDA t : size(t) > 0)
    /\ changed' = (changed \/ Len(suite') < Len(suite))
    /\ UNCHANGED <<strategy, forward, landscape, cached, original, work>>

\* CrashPreservingMinimizationVisitor, for one statement: any crash counts.
MinimizeCrash ==
    /\ pc = "crash"
    /\ LET t == suite[1]
           without == remove_statement_with_forward_dependencies(t, work.cursor)
       IN IF work.cursor > size(t)
          THEN /\ UNCHANGED suite
               /\ IF work.again
                  THEN work' = [work EXCEPT !.cursor = 1, !.again = FALSE] /\ UNCHANGED pc
                  ELSE pc' = "verify" /\ UNCHANGED work
          ELSE /\ UNCHANGED pc
               /\ IF ExitCode(without) # None
                  THEN suite' = <<without>> /\ work' = [work EXCEPT !.again = TRUE]
                  ELSE work' = [work EXCEPT !.cursor = @ + 1] /\ UNCHANGED suite
    /\ UNCHANGED <<strategy, forward, landscape, changed, cached, original>>

\* Mutant: whatever still crashes is saved.
SaveAnyCrash ==
    /\ pc = "verify"
    /\ pc' = IF ExitCode(suite[1]) # None THEN "saved" ELSE "failed"
    /\ UNCHANGED <<strategy, forward, landscape, suite, changed, cached, original, work>>

\* minimize: another crash than the one that was found is not saved.
SaveCrash ==
    /\ pc = "verify"
    /\ pc' = IF ExitCode(suite[1]) = ExitCode(original[1]) THEN "saved" ELSE "failed"
    /\ UNCHANGED <<strategy, forward, landscape, suite, changed, cached, original, work>>

Next ==
    \/ MinimizeCrash \/ SaveCrash \/ Truncate \/ RemoveUnused \/ Visited \/ Iterate \/ RemoveTest \/ Combine
    \/ Check \/ RemoveEmpty

Spec == Init /\ [][Next]_vars

--------------------------------------------------------------------------------
\* The assertions of a test case that can still be written: the statement has
\* them, and the variable they check is bound up to there.
Assertions(t) ==
    {<<t.stmts[i].id, v>> : i \in DOMAIN t.stmts, v \in DirectlyAsserted(t)} \cap
    UNION {{<<t.stmts[i].id, v>> : v \in t.stmts[i].checks \cap BoundBefore(t, i + 1)} : i \in DOMAIN t.stmts}

AllAssertions(tests) == UNION {Assertions(tests[k]) : k \in DOMAIN tests}

\* Minimising a test case statement by statement removes no assertion it has found,
\* and nothing an assertion is computed from.
AssertionsSurvive ==
    pc = "iterate" => AllAssertions(suite') = AllAssertions(suite)

\* A test case that has been minimised cannot be minimised further: removing any
\* one statement that is not protected, with what depends on it, changes a coverage.
OneMinimal ==
    pc \in {"check", "tests"} /\ strategy \in {"CASE", "SUITE"} =>
        \A k \in DOMAIN suite : \A i \in DOMAIN suite[k].stmts :
            LET t == suite[k] IN
            \/ t.stmts[i].var \in get_assertion_protected_variables(t)
            \/ Coverages(<<remove_statement_with_forward_dependencies(t, i)>>) # Coverages(<<t>>)

\* Removing test cases or minimising across the suite costs no coverage, and
\* neither does a restoration: the values are those of the suite that entered.
CoverageKept ==
    /\ pc \in {"check", "empty", "done", "failed"} /\ strategy = "COMBINED" =>
        Coverages(suite) = Coverages(original)
    /\ pc = "tests" => Coverages(suite) = work.base
    /\ pc = "done" /\ strategy # "NONE" => suite # <<>> \/ Reached(original) = {}

\* Although a statement goes whenever what is left crashes somehow, the minimised
\* test case that is saved crashes as the original does, and needs all it has.
SavedCrashIsTheCrash ==
    pc = "saved" =>
        /\ ExitCode(suite[1]) = ExitCode(original[1])
        /\ \A i \in DOMAIN suite[1].stmts :
            ExitCode(remove_statement_with_forward_dependencies(suite[1], i)) = None

\* What the log says when the check passes (generator.py): the coverage after
\* minimisation is the same as before.
CheckedCoverageIsSame ==
    pc \in {"empty", "done"} /\ strategy # "NONE" => Coverages(suite) = Coverages(original)

\* What the comment in _run says: the minimisation is assertion-aware.
AssertionAware ==
    pc \in {"done", "failed"} => AllAssertions(suite) = AllAssertions(original)
================================================================================
