------------------------------- MODULE MCResults -------------------------------
(* What becomes of the tests, side by side: in a behaviour their traces are       *)
(* merged and reported (ExecutionTracer), the suite is minimised (Minimization),  *)
(* mutants are made (Mutants), assertions are generated, filtered and written     *)
(* (Assertions), or what was written is refined (Refinement).  The parts share    *)
(* the variables; those a part does not need rest at 0.                           *)
EXTENDS Integers, Sequences, FiniteSets, TLC

CONSTANTS Parts,        \* a subset of {"traces", "minimisation", "mutants", "assertions", "refinement"}
          FloatReads,   \* what a read binds is a float
          None, g, h

VARIABLES part, v1, v2, v3, v4, v5, v6, v7, v8, v9, v10, v11, v12, v13

\* What is left of the shared variables beside the first six, nine, ten.
after10 == <<v11, v12, v13>>
after9 == <<v10, after10>>
after6 == <<v7, v8, v9, after9>>
all == <<part, v1, v2, v3, v4, v5, v6, after6>>

--------------------------------------------------------------------------------
(* A function with two conditions, one inside the other, a line that is a goal,  *)
(* and a function without conditions.                                            *)
Distance == INSTANCE BranchDistance WITH MaxExact <- 4, MaxFloat <- 100
MCCodeObjects == {"f", "g"}
MCPredicates == {"p", "q"}
MCCodeOf == [p \in MCPredicates |-> "f"]
MCPathLength == [p \in MCPredicates |-> [q \in MCPredicates |-> IF p = q THEN 0 ELSE IF q = "q" THEN 1 ELSE Distance!Infinity]]
MCDiameter == [c \in MCCodeObjects |-> 3]
\* what a comparison of two numbers, of a number and an object, or of two that cannot be ordered yields
MCOutcomes ==
  LET Of(op, a, b) == Distance!executed_compare_predicate(op, [type |-> "int", v |-> a], [type |-> b[1], v |-> b[2]])
  IN  {Of("LT", 1, <<"int", 3>>), Of("GE", 1, <<"int", 2>>), Of("EQ", 1, <<"object", 1>>), Of("LT", 1, <<"str", <<1>>>>)}
MCLineOf == [p \in MCPredicates |-> 3]
MCFirstLine == [c \in MCCodeObjects |-> IF c = "f" THEN 1 ELSE 4]
MCLineNumber == [l \in {1} |-> 2]
MCReported == {"BRANCH", "LINE"}
MCCallables == {[start |-> 1, end |-> 3], [start |-> 4, end |-> 5], [start |-> 0, end |-> 0]}
MCThreshold == <<1, 1>>
Traces == INSTANCE ExecutionTracer WITH
  MaxExact <- 4, MaxFloat <- 100, CodeObjects <- MCCodeObjects, Predicates <- MCPredicates, Lines <- {1},
  CodeOf <- MCCodeOf, PathLength <- MCPathLength, Diameter <- MCDiameter, Outcomes <- MCOutcomes, Source <- 5,
  LineOf <- MCLineOf, FirstLine <- MCFirstLine, LineNumber <- MCLineNumber, Metrics <- MCReported,
  Callables <- MCCallables, coverage_threshold <- MCThreshold, MaxEvents <- 2, MaxTests <- 2,
  importing <- v1, enabled <- v2, trace <- v3, import_trace <- v4, results <- v5, events <- v6

(* Tests that make objects, read and change them, raise, look at what is left of *)
(* another test, and do something else every time; mutants that behave otherwise, hang, cannot be made or are equal. *)
MCSuites == {<<<<"make", "read">>>>,
             <<<<"make", "read", "flip", "read", "flip", "read">>, <<"boom">>>>,
             <<<<"luck">>, <<"make", "read", "flip", "read", "flip", "make", "read">>>>,
             <<<<"once", "make", "read">>, <<"make">>>>,
             <<<<"make", "boom", "read">>, <<"make", "luck">>, <<"read", "boom", "make">>>>}
MCMutants == {<<"read more", "same">>, <<"hang", "no flip">>,
              <<"invalid", "calm", "other">>, <<"no flip", "read more", "hang">>}
MCInvented == {0, 2}
\* the search has run nothing that lasts here, or two tests that do
MCLeft == {[created |-> 0, flips |-> 0], [created |-> 1, flips |-> 1]}
Written == INSTANCE Assertions WITH
  Suites <- MCSuites, MutantLists <- MCMutants, MaxLength <- 24, Left <- MCLeft, Invented <- MCInvented, Expected <- {1}, Foreign <- {2},
  suite <- v1, mutants <- v2, options <- v3, phase <- v4, todo <- v5, asserts <- v6, rows <- v7,
  info <- v8, broken <- v9, before <- v10, unpadded <- v11, file <- v12, world <- v13

(* Trees that hold what the operators look for, some of it nested. *)
Node(kind, up) == [kind |-> kind, up |-> up, value |-> 0, name |-> "", inherited |-> {}, traits |-> {}]
Module == Node("Module", 0)
Loop == <<Module, [Node("While", 1) EXCEPT !.traits = {"statement"}], Node("Break", 2)>>
Function ==
  <<Module, [Node("FunctionDef", 1) EXCEPT !.traits = {"decorated", "statement"}],
    [Node("Return", 2) EXCEPT !.traits = {"value", "statement"}], [Node("Num", 3) EXCEPT !.value = 1]>>
Class ==
  <<Module, [Node("ClassDef", 1) EXCEPT !.inherited = {"f", "v"}, !.traits = {"statement"}],
    [Node("Assign", 2) EXCEPT !.name = "v", !.traits = {"statement"}], Node("True", 3),
    [Node("FunctionDef", 2) EXCEPT !.name = "f", !.traits = {"super", "long", "statement"}]>>
Texts ==
  <<Module, [Node("Expr", 1) EXCEPT !.traits = {"statement"}], Node("Str", 2),
    [Node("ExceptHandler", 1) EXCEPT !.traits = {"passes"}],
    [Node("Raise", 4) EXCEPT !.name = "RuntimeError", !.traits = {"named", "statement"}], Node("JoinedStr", 5),
    [Node("Return", 1) EXCEPT !.traits = {"statement"}], Node("JoinedStr", 7), Node("FormattedValue", 8), Node("Str", 9)>>
Operators ==
  <<Module, [Node("AugAssign", 1) EXCEPT !.traits = {"statement"}], Node("Mod", 2), Node("-x", 2), Node("-", 4),
    [Node("Expr", 1) EXCEPT !.traits = {"statement"}], Node("GtE", 6), Node("NotIn", 6)>>
Trees == INSTANCE Mutants WITH
  Modules <- {Loop, Function, Class, Texts, Operators}, Caps <- {2, 4}, order <- 2,
  Strategies <- {"first_order", "first_to_last", "each_choice", "between", "random"},
  tree <- v1, strategy <- v2, maximum_mutants <- v3, pc <- v4, mutations <- v5, usage <- v6,
  group <- v7, applied <- v8, generators <- v9, created <- v10

(* Test cases whose statements use and check what others have bound; landscapes  *)
(* in which a goal needs some of the statements, and others stand in its way.    *)
S(id, var, uses, checks) == [id |-> id, var |-> var, uses |-> uses, checks |-> checks]
T1 == [stmts |-> <<S(1, 1, {}, {}), S(2, 2, {1}, {2}), S(3, 3, {2}, {})>>, raised |-> 0]
T1r == [T1 EXCEPT !.raised = 2]
T2 == [stmts |-> <<S(4, 1, {}, {}), S(5, 2, {}, {1}), S(6, None, {2}, {})>>, raised |-> 0]
T3 == [stmts |-> <<S(4, 1, {}, {1}), S(5, 2, {1}, {}), S(6, None, {1, 2}, {})>>, raised |-> 3]
MCInputs == {<<T1, T2>>, <<T1r, T1>>, <<T3, T2>>, <<T2, T2>>, <<T3>>}
MCNeeds == {{1}, {2, 3}, {4}, {6}}
MCBlocks == {{}, {1}, {4}}
MCLandscapes == [{g, h} -> [needs : MCNeeds, blocks : MCBlocks]]
Smaller == INSTANCE Minimization WITH
  Types <- {}, Goals <- {g, h}, Inputs <- MCInputs, Landscapes <- MCLandscapes, Metrics <- {{g, h}},
  Strategies <- {"NONE", "CASE", "SUITE", "COMBINED", "CRASH"},
  pc <- v1, strategy <- v2, forward <- v3, landscape <- v4, suite <- v5, changed <- v6, cached <- v7,
  original <- v8, work <- v9

(* Two generated tests, and what a model may make of them. *)
NoTest == [kind |-> "missing"]
NoCode == [kind |-> "none", name |-> "", imports |-> "none", needs |-> "none", before |-> "nothing", hangs |-> FALSE, asserts |-> <<>>, covers |-> {}]
Plain(t) == [text |-> t, nested |-> FALSE]
Nested(t) == [text |-> t, nested |-> TRUE]
Code == [kind |-> "test", name |-> "test_case_0", imports |-> "original", needs |-> "original", before |-> "nothing", hangs |-> FALSE,
         asserts |-> <<>>, covers |-> {1}]
MCTests == <<[Code EXCEPT !.asserts = <<Nested("o"), Plain("p")>>],
             [Code EXCEPT !.name = "test_case_1", !.asserts = <<Plain("o")>>, !.covers = {1, 2}]>>
Renamed == [Code EXCEPT !.name = "test_it", !.imports = "other"]
MCAnswers ==
  {NoCode,
   [Renamed EXCEPT !.asserts = <<Nested("o"), Plain("p"), Plain("new"), Plain("idle")>>],
   [Renamed EXCEPT !.asserts = <<Nested("o"), Plain("wrong"), Plain("same")>>, !.covers = {1, 2}],
   [Renamed EXCEPT !.needs = "other", !.covers = {1, 2}],
   [Renamed EXCEPT !.imports = "none", !.asserts = <<Plain("o")>>],
   [Renamed EXCEPT !.asserts = <<Plain("wrong_original"), Plain("wrong"), Plain("new")>>],
   [Renamed EXCEPT !.before = "value", !.covers = {1, 2}],
   [Renamed EXCEPT !.before = "function", !.asserts = <<Plain("wrong")>>, !.covers = {1, 2}],
   [Renamed EXCEPT !.hangs = TRUE]}
MCModuleAnswers ==
  {<<>>,
   [i \in 1..2 |-> IF i = 1 THEN [Code EXCEPT !.asserts = <<Nested("idle"), Plain("o"), Plain("p"), Plain("new"), Plain("same")>>]
                   ELSE NoTest],
   [i \in 1..2 |-> IF i = 1 THEN [Code EXCEPT !.asserts = <<Nested("o"), Plain("idle"), Plain("p")>>]
                   ELSE [Code EXCEPT !.name = "test_case_1", !.before = "value", !.asserts = <<Plain("wrong"), Plain("o")>>]]}
MCKills == [t \in {"o", "p", "new", "same", "idle", "wrong", "wrong_original"} |->
              CASE t = "o" -> {"m1"} [] t \in {"new", "same"} -> {"m2"} [] OTHER -> {}]
MCCovers == [t \in DOMAIN MCKills |-> IF t = "p" THEN {3} ELSE {}]
MCHolds == DOMAIN MCKills \ {"wrong", "wrong_original"}
Refined == INSTANCE Refinement WITH
  Tests <- MCTests, Answers <- MCAnswers, ModuleAnswers <- MCModuleAnswers, Holds <- MCHolds, Mutants <- {"m1", "m2"},
  Kills <- MCKills, Covers <- MCCovers, Granularities <- {"per test", "combined"},
  max_retries <- 2, max_mutation_iterations <- 1, max_tests <- 2,
  granularity <- v1, pc <- v2, module_answer <- v3, original <- v4, current <- v5, iteration <- v6,
  strengthened <- v7, repairs <- v8, discards <- v9, outcomes <- v10

ASSUME PartAssumption == Traces!FloatAssumption /\ Traces!TracerAssumption /\ Trees!OrderAssumption

--------------------------------------------------------------------------------
After10Rest == v11 = 0 /\ v12 = 0 /\ v13 = 0
After9Rest == v10 = 0 /\ After10Rest
After6Rest == v7 = 0 /\ v8 = 0 /\ v9 = 0 /\ After9Rest

MCInit ==
  /\ part \in Parts
  /\ \/ part = "traces" /\ Traces!Init /\ After6Rest
     \/ part = "minimisation" /\ Smaller!Init /\ After9Rest
     \/ part = "mutants" /\ Trees!Init /\ After10Rest
     \/ part = "assertions" /\ Written!AssertionsInit
     \/ part = "refinement" /\ Refined!Init /\ After10Rest

TracesNext ==
  \/ part = "traces" /\ (\E c \in MCCodeObjects : Traces!executed_code_object(c)) /\ UNCHANGED <<part, after6>>
  \/ part = "traces" /\ Traces!track_line_visit(1) /\ UNCHANGED <<part, after6>>
  \/ part = "traces" /\ (\E d \in MCOutcomes, p \in MCPredicates : Traces!_update_metrics(d, p)) /\ UNCHANGED <<part, after6>>
  \/ part = "traces" /\ (\E b \in BOOLEAN, p \in MCPredicates : Traces!executed_exception_match(b, p)) /\ UNCHANGED <<part, after6>>
  \/ part = "traces" /\ (\E i \in Traces!Instructions : Traces!track_generic(i)) /\ UNCHANGED <<part, after6>>
  \/ part = "traces" /\ Traces!track_assertion_position /\ UNCHANGED <<part, after6>>
  \/ part = "traces" /\ Traces!store_import_trace /\ UNCHANGED <<part, after6>>
  \/ part = "traces" /\ Traces!EndTest /\ UNCHANGED <<part, after6>>
MinimizationNext ==
  \/ part = "minimisation" /\ Smaller!MinimizeCrash /\ UNCHANGED <<part, after9>>
  \/ part = "minimisation" /\ Smaller!SaveCrash /\ UNCHANGED <<part, after9>>
  \/ part = "minimisation" /\ Smaller!Truncate /\ UNCHANGED <<part, after9>>
  \/ part = "minimisation" /\ Smaller!RemoveUnused /\ UNCHANGED <<part, after9>>
  \/ part = "minimisation" /\ Smaller!Visited /\ UNCHANGED <<part, after9>>
  \/ part = "minimisation" /\ Smaller!Iterate /\ UNCHANGED <<part, after9>>
  \/ part = "minimisation" /\ Smaller!RemoveTest /\ UNCHANGED <<part, after9>>
  \/ part = "minimisation" /\ Smaller!Combine /\ UNCHANGED <<part, after9>>
  \/ part = "minimisation" /\ Smaller!Check /\ UNCHANGED <<part, after9>>
  \/ part = "minimisation" /\ Smaller!RemoveEmpty /\ UNCHANGED <<part, after9>>
MutantsNext ==
  \/ part = "mutants" /\ Trees!Enumerate /\ UNCHANGED <<part, after10>>
  \/ part = "mutants" /\ Trees!generate /\ UNCHANGED <<part, after10>>
  \/ part = "mutants" /\ Trees!Apply /\ UNCHANGED <<part, after10>>
  \/ part = "mutants" /\ Trees!create_mutants /\ UNCHANGED <<part, after10>>
  \/ part = "mutants" /\ Trees!Finish /\ UNCHANGED <<part, after10>>
  \/ part = "mutants" /\ Trees!Done /\ UNCHANGED <<part, after10>>
AssertionsNext ==
  \/ part = "assertions" /\ (\E t \in Written!Tests : Written!Capture(t)) /\ UNCHANGED part
  \/ part = "assertions" /\ (\E t \in Written!Tests : Written!AskModel(t)) /\ UNCHANGED part
  \/ part = "assertions" /\ (\E t \in Written!Tests : Written!Filter(t)) /\ UNCHANGED part
  \/ part = "assertions" /\ Written!RunMutant /\ UNCHANGED part
  \/ part = "assertions" /\ Written!Summarise /\ UNCHANGED part
  \/ part = "assertions" /\ Written!RemoveIrrelevant /\ UNCHANGED part
  \/ part = "assertions" /\ Written!Export /\ UNCHANGED part
RefinementNext ==
  \/ part = "refinement" /\ (\E a \in MCModuleAnswers : Refined!_generate_module(a)) /\ UNCHANGED <<part, after10>>
  \/ part = "refinement" /\ Refined!_process_one_test /\ UNCHANGED <<part, after10>>
  \/ part = "refinement" /\ Refined!finish_refined_test /\ UNCHANGED <<part, after10>>
  \/ part = "refinement" /\ (\E a \in MCAnswers : Refined!refine_readability(a)) /\ UNCHANGED <<part, after10>>
  \/ part = "refinement" /\ (\E a \in MCAnswers : Refined!generate_semantic_assertions(a)) /\ UNCHANGED <<part, after10>>
  \/ part = "refinement" /\ Refined!Undocumented /\ UNCHANGED <<part, after10>>
  \/ part = "refinement" /\ Refined!FilterVacuous /\ UNCHANGED <<part, after10>>
  \/ part = "refinement" /\ (\E a \in MCAnswers : Refined!_run_mutation_strengthening_loop(a)) /\ UNCHANGED <<part, after10>>
  \/ part = "refinement" /\ Refined!Strengthened /\ UNCHANGED <<part, after10>>
  \/ part = "refinement" /\ Refined!Validated /\ UNCHANGED <<part, after10>>
  \/ part = "refinement" /\ Refined!TimedOut /\ UNCHANGED <<part, after10>>
  \/ part = "refinement" /\ Refined!GiveUp /\ UNCHANGED <<part, after10>>
  \/ part = "refinement" /\ Refined!Discard /\ UNCHANGED <<part, after10>>
  \/ part = "refinement" /\ (\E a \in MCAnswers : Refined!repair_test_code(a)) /\ UNCHANGED <<part, after10>>
  \/ part = "refinement" /\ Refined!_maybe_write_refined_file /\ UNCHANGED <<part, after10>>

MCNext == TracesNext \/ MinimizationNext \/ MutantsNext \/ AssertionsNext \/ RefinementNext
MCSpec == MCInit /\ [][MCNext]_all

--------------------------------------------------------------------------------
\* Traces merge to the same, in whatever order the tests are executed; a goal is
\* covered, at distance zero and counted all at once; and the lines of the report
\* add up to its rates and give a model to work on what is not covered
\* (tracer.py, fitness_metrics.py, report.py, llmosalgorithm.py).
TracesTellTheTruth ==
  part = "traces" => /\ Traces!MergeIsOrderFree /\ Traces!CoverageAgrees /\ Traces!ReachingIsNotWorse
                     /\ Traces!ReportAddsUp /\ Traces!UncoveredIsAskedFor

\* Minimising costs no coverage and no assertion, leaves nothing that could go, and
\* what is saved of a crash is that crash (postprocess.py, crash_minimization.py).
MinimisedIsTheSame ==
  /\ [](part = "minimisation" => Smaller!OneMinimal /\ Smaller!CoverageKept /\ Smaller!SavedCrashIsTheCrash)
  /\ [][part = "minimisation" => Smaller!AssertionsSurvive]_all

\* Every mutation of a mutant can be made and shows in it, and every mutation that
\* is found is in a mutant, in one only (mutators.py, strategies.py).
MutantsAreMade == part = "mutants" => Trees!AllTakeEffect /\ Trees!EachMutationOnce

\* An assertion that an execution refuted is gone; a mutant that hangs costs nothing
\* but itself; what is left kills the same mutants; and each value a statement
\* changed is asserted (assertiongenerator.py).
AssertionsHold ==
  part = "assertions" => /\ Written!RefutedIsGone /\ Written!AbortLosesNothing
                         /\ Written!KeptKillTheSame /\ Written!ChangeIsAsserted

\* The tests of the file that look at no state which outlives a test behave as its
\* annotations say (export.py).
WrittenAsItBehaves == part = "assertions" => Written!WrittenAsItBehaves

\* What replaces a test, and uses nothing before it, passes in the file and covers as
\* much, whatever a model has answered, and only what the model added is taken away
\* again (pipeline.py).
RefinedIsTheSame ==
  /\ [](part = "refinement" => Refined!RefinedIsChecked)
  /\ [][part = "refinement" => Refined!OnlyInferredGo]_all

\* A mutant counted as killed is told apart by some test, through an assertion that is
\* violated or an exception that the original does not raise (assertiongenerator.py:572, 583).
KilledIsDetected == part = "assertions" => Written!KilledIsDetected
================================================================================
