------------------------------- MODULE Refinement -------------------------------
(* The refinement of generated tests by a language model (refinement/): each    *)
(* test is made readable, given assertions that are filtered by mutants,        *)
(* strengthened, validated and repaired, and checked for its coverage           *)
(* (pipeline.py); the refined tests become a file (refiner.py).                 *)
EXTENDS Integers, Sequences, FiniteSets, FiniteSetsExt, SequencesExt

\* The code of a test: kind is "test", or "none" for text without a function (as
\* the message of a failed request is), or "broken" for what does not parse.  It
\* states imports, and its body needs some; asserts holds the texts of its
\* assertions and whether they stand in a nested block, in the order of the text.
\* What the test uses may stand before it: a "value" (a constant, a class), or a
\* "function" without parameters; it is "lost" when that has been cut away.
CONSTANTS Tests,            \* the generated tests, a sequence
          Answers,          \* codes the model may answer with
          ModuleAnswers,    \* of a whole module: [1..Len(Tests) -> code or Missing], or Unusable
          Holds,            \* the texts of the assertions that the module under test satisfies
          Mutants, Kills,   \* [texts -> SUBSET Mutants], where the assertion fails
          Covers,           \* [texts -> SUBSET Goals], what evaluating it covers
          Granularities,    \* "per test", "combined"
          max_retries, max_mutation_iterations, max_tests

Missing == [kind |-> "missing"]
Unusable == <<>>
ErrorText == [kind |-> "none", name |-> "", imports |-> "none", needs |-> "none", before |-> "nothing",
              hangs |-> FALSE, asserts |-> <<>>, covers |-> {}]

VARIABLES granularity, pc,
          module_answer,    \* the tests of the module refined at once
          original, current,    \* code of the test at hand
          iteration, strengthened,
          repairs, discards,    \* history: requests and removals in the repair loop
          outcomes          \* [text, refined, gave_up, repairs] of each test so far

vars == <<granularity, pc, module_answer, original, current, iteration, strengthened, repairs, discards, outcomes>>

--------------------------------------------------------------------------------
(* validator.py, coverage_checker.py: executing a piece of code.                *)

Failing(code) == {i \in DOMAIN code.asserts : code.asserts[i].text \notin Holds}
Runs(code) == code.kind = "test" /\ code.imports = code.needs /\ code.before # "lost"

\* the whole text is executed, and the first function of it called
FirstIsTheTest(code) == code.before # "function"
run_test(code) ==
  CASE code.kind # "test" -> [error |-> "Unknown Error", line |-> 0]
    [] code.kind = "test" /\ ~FirstIsTheTest(code) -> [error |-> "none", line |-> 0]
    [] code.kind = "test" /\ FirstIsTheTest(code) /\ ~Runs(code) -> [error |-> "Name Error", line |-> 0]
    [] Runs(code) /\ FirstIsTheTest(code) /\ code.hangs -> [error |-> "Timeout Error", line |-> 0]
    [] Runs(code) /\ FirstIsTheTest(code) /\ ~code.hangs /\ Failing(code) # {} ->
         [error |-> "Assertion Error", line |-> Min(Failing(code))]
    [] OTHER -> [error |-> "none", line |-> 0]
Passes(code) == run_test(code).error = "none"

\* of the first function too, and up to the first assertion that fails
_measure_coverage_pynguin(code) ==
  LET last == IF Failing(code) = {} THEN Len(code.asserts) ELSE Min(Failing(code))
  IN  IF code.kind = "test" /\ ~FirstIsTheTest(code) THEN code.covers
      ELSE IF ~Runs(code) THEN {}
      ELSE code.covers \cup (IF code.hangs THEN {} ELSE UNION {Covers[code.asserts[i].text] : i \in 1..last})

\* only the share counts
check_coverage_preservation(code) ==
  Cardinality(_measure_coverage_pynguin(code)) >= Cardinality(_measure_coverage_pynguin(original))

\* whatever the model writes, unless it writes no imports
_restore_import_block(code) ==
  IF code.kind = "test" /\ code.imports # "none" THEN [code EXCEPT !.imports = "original"] ELSE code

--------------------------------------------------------------------------------
(* mutation_analyzer.py                                                         *)

Texts(code) == IF code.kind = "broken" THEN {} ELSE {code.asserts[i].text : i \in DOMAIN code.asserts}
AssertionTracker(code) == Texts(code) \ Texts(original)      \* the inferred ones
Inferred(code) == {i \in DOMAIN code.asserts : code.asserts[i].text \in AssertionTracker(code)}

Without(code, positions) ==
  [code EXCEPT !.asserts = [i \in 1..Len(code.asserts) - Cardinality(positions) |->
     code.asserts[CHOOSE j \in DOMAIN code.asserts \ positions :
                    Cardinality({k \in DOMAIN code.asserts \ positions : k < j}) = i - 1]]]

\* a test that fails anyway kills every mutant, one that hangs kills none
_killed_set(code) ==
  CASE ~Runs(code) -> Mutants
    [] Runs(code) /\ code.hangs -> {}
    [] Runs(code) /\ ~code.hangs ->
         {m \in Mutants : \E i \in DOMAIN code.asserts :
                            code.asserts[i].text \notin Holds \/ m \in Kills[code.asserts[i].text]}

\* the order in which all nodes of a level come before those below them
Level(code) ==
  LET Before(i, j) == (~code.asserts[i].nested /\ code.asserts[j].nested)
                        \/ (code.asserts[i].nested = code.asserts[j].nested /\ i < j)
  IN  SetToSortSeq(DOMAIN code.asserts, Before)

\* positions are counted level by level and removed in the order of the text
RemovedByLevel(code, positions) == {i \in DOMAIN code.asserts : Level(code)[i] \in positions}
Removed(code, positions) == positions

filter_vacuous_assertions(code) ==
  LET vacuous == {i \in Inferred(code) : _killed_set(code) \subseteq _killed_set(Without(code, {i}))}
  IN  IF code.kind # "test" \/ Mutants = {} THEN code ELSE Without(code, Removed(code, vacuous))

get_surviving_mutants(code) == Mutants \ _killed_set(code)

--------------------------------------------------------------------------------
(* The module, and one test after the other (refiner.py).                       *)

Selected == 1..(IF max_tests < Len(Tests) THEN max_tests ELSE Len(Tests))
At == Len(outcomes) + 1

Init ==
  /\ granularity \in Granularities
  /\ pc = IF granularity = "per test" THEN "next" ELSE "module"
  /\ module_answer = Unusable
  /\ original = Tests[1] /\ current = Tests[1]
  /\ iteration = 0 /\ strengthened = 0 /\ repairs = 0 /\ discards = 0
  /\ outcomes = <<>>

\* an error, or text that does not parse, is no answer for any test
_generate_module(a) ==
  /\ pc = "module"
  /\ module_answer' = a
  /\ pc' = "next"
  /\ UNCHANGED <<granularity, original, current, iteration, strengthened, repairs, discards, outcomes>>

Begin(code, stage) ==
  /\ original' = Tests[At] /\ current' = code
  /\ iteration' = 0 /\ strengthened' = 0 /\ repairs' = 0 /\ discards' = 0
  /\ pc' = stage
  /\ UNCHANGED <<granularity, module_answer, outcomes>>
Answered(i) == IF module_answer = Unusable THEN Missing ELSE module_answer[i]

\* only the function of a test is taken from the refined module
_slice_function_source(code) ==
  [code EXCEPT !.imports = "original", !.before = IF @ = "nothing" THEN @ ELSE "lost"]

\* a function that the refined module has no longer falls back to a refinement of its own
_process_one_test ==
  /\ pc = "next" /\ At \in Selected /\ Answered(At) = Missing
  /\ Begin(Tests[At], "readability")
finish_refined_test ==
  /\ pc = "next" /\ At \in Selected /\ Answered(At) # Missing
  /\ Begin(_slice_function_source(Answered(At)), "filter")

Ended(o) ==
  /\ outcomes' = Append(outcomes, o)
  /\ pc' = "next"
  /\ UNCHANGED <<granularity, module_answer, original, current, iteration, strengthened, repairs, discards>>
\* the original stays
Failed(gave_up) == Ended([code |-> original, refined |-> FALSE, gave_up |-> gave_up, repairs |-> repairs])

Step(code, stage) ==
  /\ current' = code /\ pc' = stage
  /\ UNCHANGED <<granularity, module_answer, original, iteration, repairs, discards, outcomes>>

--------------------------------------------------------------------------------
(* TestRefiner                                                                  *)

refine_readability(a) ==
  /\ pc = "readability"
  /\ IF a = ErrorText THEN Failed(FALSE) ELSE Step(_restore_import_block(a), "assertions") /\ UNCHANGED strengthened

\* no documentation, an error or an answer without imports: what there is already stays
generate_semantic_assertions(a) ==
  /\ pc = "assertions"
  /\ Step(IF a.imports = "none" THEN current ELSE _restore_import_block(a), "filter")
  /\ UNCHANGED strengthened
Undocumented ==
  /\ pc = "assertions"
  /\ Step(current, "filter") /\ UNCHANGED strengthened

FilterVacuous ==
  /\ pc = "filter"
  /\ Step(filter_vacuous_assertions(current), "strengthen") /\ UNCHANGED strengthened

Improves(a) ==
  a.kind # "broken" /\ a.imports # "none" /\ check_coverage_preservation(_restore_import_block(a))
_run_mutation_strengthening_loop(a) ==
  /\ pc = "strengthen"
  /\ strengthened < max_mutation_iterations /\ get_surviving_mutants(current) # {}
  /\ Step(IF Improves(a) THEN _restore_import_block(a) ELSE current, pc)
  /\ strengthened' = strengthened + 1
Strengthened ==
  /\ pc = "strengthen"
  /\ strengthened = max_mutation_iterations \/ get_surviving_mutants(current) = {}
  /\ Step(current, "validate") /\ UNCHANGED strengthened

\* the text from its first function on, which is taken over into the file
_extract_function_text(code) == [code EXCEPT !.before = IF @ = "value" THEN "lost" ELSE @]
_outcome_from_result(code) ==
  [code |-> _extract_function_text(code), refined |-> TRUE, gave_up |-> FALSE, repairs |-> repairs]
FinalizeUnchecked == TRUE
_finalize_on_pass == check_coverage_preservation(current)

Validated ==
  /\ pc = "validate" /\ Passes(current)
  /\ IF _finalize_on_pass THEN Ended(_outcome_from_result(current)) ELSE Failed(FALSE)

TimedOut ==
  /\ pc = "validate" /\ run_test(current).error = "Timeout Error"
  /\ Failed(FALSE)

GiveUp ==
  /\ pc = "validate" /\ run_test(current).error \notin {"none", "Timeout Error"}
  /\ iteration >= max_retries
  /\ Failed(TRUE)

Repairable ==
  /\ pc = "validate" /\ run_test(current).error \notin {"none", "Timeout Error"}
  /\ iteration < max_retries
  /\ iteration' = iteration + 1
  /\ UNCHANGED <<granularity, module_answer, original, strengthened, outcomes>>

\* the one on the failing line, if it was inferred, else the first inferred one
_remove_failing_inferred_assertion ==
  LET line == run_test(current).line
      first == SelectInSeq(Level(current), LAMBDA i : i \in Inferred(current))
      target == IF line \in Inferred(current) THEN line ELSE Level(current)[first]
  IN  Without(current, {target})
Discardable == run_test(current).error = "Assertion Error" /\ Inferred(current) # {}

Discard ==
  /\ Repairable /\ Discardable
  /\ current' = _remove_failing_inferred_assertion
  /\ discards' = discards + 1
  /\ UNCHANGED <<pc, repairs>>

\* what the model repairs is taken as it is
Unrestored(a) == a
Repaired(a) == _restore_import_block(a)
repair_test_code(a) ==
  /\ Repairable /\ ~Discardable
  /\ current' = Repaired(a)
  /\ repairs' = repairs + 1
  /\ UNCHANGED <<pc, discards>>

_maybe_write_refined_file ==
  /\ pc = "next" /\ At \notin Selected
  /\ pc' = IF \E i \in DOMAIN outcomes : outcomes[i].refined THEN "written" ELSE "unwritten"
  /\ UNCHANGED <<granularity, module_answer, original, current, iteration, strengthened, repairs, discards, outcomes>>

Next ==
  \/ \E a \in ModuleAnswers : _generate_module(a)
  \/ _process_one_test
  \/ finish_refined_test
  \/ \E a \in Answers : refine_readability(a)
  \/ \E a \in Answers : generate_semantic_assertions(a)
  \/ Undocumented
  \/ FilterVacuous
  \/ \E a \in Answers : _run_mutation_strengthening_loop(a)
  \/ Strengthened
  \/ Validated
  \/ TimedOut
  \/ GiveUp
  \/ Discard
  \/ \E a \in Answers : repair_test_code(a)
  \/ _maybe_write_refined_file
Spec == Init /\ [][Next]_vars

--------------------------------------------------------------------------------
\* The imports of the file are the original ones.
File == [i \in DOMAIN outcomes |-> [outcomes[i].code EXCEPT !.imports = "original"]]

\* A test of the file passes when pytest runs it, whatever stands before it.
PassesInFile(code) == Runs(code) /\ ~code.hangs /\ Failing(code) = {}
NoWorse(i) ==
  /\ PassesInFile(File[i])
  /\ Cardinality(_measure_coverage_pynguin(File[i])) >= Cardinality(_measure_coverage_pynguin(Tests[i]))

\* Whatever the model has answered, a test that replaces another one and uses
\* nothing that stood before it runs as it stands in the file, passes, and covers
\* no smaller share of the module (pipeline.py, _run_repair_loop).
RefinedIsChecked ==
  \A i \in DOMAIN outcomes : outcomes[i].refined /\ outcomes[i].code.before = "nothing" => NoWorse(i)

\* The same of every test that replaces another one, which the code does not keep:
\* it cuts off what stands before the first function, and where that is not the
\* test it has run another one (refiner.py, _extract_function_text).
EveryRefinedIsChecked == \A i \in DOMAIN outcomes : outcomes[i].refined => NoWorse(i)

\* The pipeline itself only ever takes away assertions that the model has added.
Taken == Texts(original) \cap (Texts(current) \ Texts(current'))
PipelineStep == pc \in {"filter", "validate"} /\ repairs' = repairs /\ original' = original
OnlyInferredGo == PipelineStep => Taken = {}

\* A removed assertion does not count as an attempt to repair the test.
DiscardsAreFree == \A i \in DOMAIN outcomes : outcomes[i].gave_up => outcomes[i].repairs = max_retries

\* The filter removes assertions that find nothing, so it loses no mutant.
FilterKeepsKills == [][pc = "filter" => _killed_set(current) \subseteq _killed_set(current')]_vars

\* No two tests of the file have one name, of which only the last would be run.
NoTestIsShadowed ==
  pc = "written" => \A i, j \in DOMAIN outcomes : i # j => outcomes[i].code.name # outcomes[j].code.name
===============================================================================
