------------------------------- MODULE MCSubject -------------------------------
(* What happens to a program under test, side by side: in a behaviour its        *)
(* elements are collected (TestCluster), a code object is selected and            *)
(* instrumented (CoverLines, Instrumentation), its graphs are computed and it is  *)
(* executed (ControlFlow), the tracer measures a condition of it (Comparisons),   *)
(* or what a test executes is sliced (Slicer).  The parts share the variables;    *)
(* those a part does not need rest at 0.                                          *)
EXTENDS Integers, Sequences, FiniteSets, FiniteSetsExt, TLC

CONSTANT Parts   \* a subset of {"cluster", "lines", "instrumentation", "graphs", "comparisons", "slices"}

VARIABLES part, v1, v2, v3, v4, v5, v6, v7, v8, v9, v10, v11, v12, v13, v14, v15, v16, v17, v18, v19

\* What is left of the shared variables beside the first few.
after11 == <<v12, v13, v14, v15, v16, v17, v18, v19>>
after10 == <<v11, after11>>
after7 == <<v8, v9, v10, after10>>
after5 == <<v6, v7, after7>>
after2 == <<v3, v4, v5, after5>>
all == <<part, v1, v2, after2>>

--------------------------------------------------------------------------------
(* Blocks in all versions of the bytecode, and the programs around them. *)
InstrumentationData == INSTANCE MCInstrumentation WITH
  Programs <- {},
  program <- 0, code <- 0, block <- 0, pc <- 0, stack <- 0, frame <- 0, plain <- 0, told <- 0, due <- 0,
  crashed <- 0
InstrumentedPrograms == InstrumentationData!MCPrograms
Rewriting == INSTANCE Instrumentation WITH
  Programs <- InstrumentedPrograms,
  program <- v1, code <- v2, block <- v3, pc <- v4, stack <- v5, frame <- v6, plain <- v7, told <- v8,
  due <- v9, crashed <- v10

(* All code objects of three blocks that a compiler emits. *)
ControlFlowData == INSTANCE MCControlFlow WITH
  Programs <- {}, cfg <- 0, cdg <- 0, deps <- 0, roots <- 0, at <- 0, told <- 0, taken <- 0
GraphPrograms == ControlFlowData!MCPrograms
Flow == INSTANCE ControlFlow WITH
  Programs <- GraphPrograms, cfg <- v1, cdg <- v2, deps <- v3, roots <- v4, at <- v5, told <- v6, taken <- v7

(* A test that calls a function under test, in the shapes that MCSlicer lists. *)
SlicerData == INSTANCE MCSlicer WITH
  Programs <- {}, MaxExecuted <- 0,
  program <- 0, machine <- 0, executed <- 0, trace <- 0, state <- 0, slice <- 0, context <- 0,
  trace_stack <- 0, pending <- 0, expected <- 0, visited <- 0
SlicedPrograms == SlicerData!MCPrograms
Slicing == INSTANCE Slicer WITH
  Programs <- SlicedPrograms, MaxExecuted <- 50,
  program <- v1, machine <- v2, executed <- v3, trace <- v4, state <- v5, slice <- v6, context <- v7,
  trace_stack <- v8, pending <- v9, expected <- v10, visited <- v11

(* Two universes of modules and classes, one of them with two kinds of parameter. *)
ClusterData == INSTANCE MCTestCluster WITH
  Universes <- {}, KeptGuesses <- 0, CollectionSize <- 0, MaxExecutions <- 0,
  phase <- 0, current <- 0, wait_list <- 0, work_list <- 0, seen <- 0, generators <- 0, modifiers <- 0,
  under_test <- 0, return_type <- 0, usage_trace <- 0, guessed <- 0, executions <- 0, world <- 0, known <- 0,
  edges <- 0, attributes <- 0, work <- 0, reach_in <- 0, reach_out <- 0
AnalysedUniverses == ClusterData!MCUniverses
Cluster == INSTANCE TestCluster WITH
  Universes <- AnalysedUniverses, KeptGuesses <- 1, CollectionSize <- 1, MaxExecutions <- 2,
  phase <- v1, current <- v2, wait_list <- v3, work_list <- v4, seen <- v5, generators <- v6,
  modifiers <- v7, under_test <- v8, return_type <- v9, usage_trace <- v10, guessed <- v11,
  executions <- v12, world <- v13, known <- v14, edges <- v15, attributes <- v16, work <- v17,
  reach_in <- v18, reach_out <- v19

(* Syntax trees, with what is selected and excluded. *)
Selection == INSTANCE CoverLines WITH Modules <- {}, module <- 0, pending <- 0, instrumented <- 0, lines <- 0, conditions <- 0
Nothing == Selection!Nothing
N(kind, first, last) ==
  [kind |-> kind, first |-> first, last |-> last, body |-> Nothing, orelse |-> Nothing, final |-> Nothing,
   handlers |-> {}, dead |-> FALSE, decorators |-> 0]
Branch(kind, first, body, orelse) ==
  [N(kind, first, IF orelse = Nothing THEN body[2] ELSE orelse[2]) EXCEPT !.body = body, !.orelse = orelse]
H(first, body) == [first |-> first, body |-> body]
\* class C: def m: if/elif/else; def f: for with an if inside, else; while
Nested == {N("Module", 0, 16), N("ClassDef", 1, 9), N("FunctionDef", 2, 9),
           Branch("If", 3, <<4, 4>>, <<5, 8>>), Branch("If", 5, <<6, 6>>, <<8, 8>>),
           N("FunctionDef", 10, 16), Branch("For", 11, <<12, 14>>, <<16, 16>>), Branch("If", 12, <<13, 14>>, Nothing)}
\* def f: try with two handlers, else and finally; match with two cases; the main block
Handled == {N("Module", 0, 17), N("FunctionDef", 1, 15),
            [Branch("Try", 2, <<3, 3>>, Nothing) EXCEPT !.last = 10, !.orelse = <<8, 8>>, !.final = <<10, 10>>,
                                                        !.handlers = {H(4, <<5, 5>>), H(6, <<6, 6>>)}],
            [N("Match", 11, 15) EXCEPT !.handlers = {H(12, <<13, 13>>), H(14, <<15, 15>>)}],
            [N("match_case", 12, 13) EXCEPT !.body = <<13, 13>>], [N("match_case", 14, 15) EXCEPT !.body = <<15, 15>>],
            [Branch("If", 16, <<17, 17>>, Nothing) EXCEPT !.dead = TRUE]}
\* def outer: while with a function inside
Inner == {N("Module", 0, 8), N("FunctionDef", 1, 8), Branch("While", 2, <<3, 6>>, <<8, 8>>), N("FunctionDef", 4, 5)}
Few(s, k) == UNION {kSubset(i, s) : i \in 0..k}
Defs(nodes) == {n.first : n \in {x \in nodes : x.kind \in {"ClassDef", "FunctionDef"}}}
Funs(nodes) == {n.first : n \in {x \in nodes : x.kind = "FunctionDef"}}
With(nodes, only, no, pragmas) == {[nodes |-> nodes, only_cover |-> o, no_cover |-> x, pragmas |-> p] : o \in only, x \in no, p \in pragmas}
SelectedModules == UNION {With(nodes, Few(Funs(nodes), 2), Few(Defs(nodes), 1), Few(1..17, 2)) : nodes \in {Nested, Handled, Inner}}
Lines == INSTANCE CoverLines WITH Modules <- SelectedModules, module <- v1, pending <- v2, instrumented <- v3, lines <- v4, conditions <- v5

(* Operands of a condition: numbers, texts and what compares item by item. *)
int(n) == [type |-> "int", v |-> n]
float(n) == [type |-> "float", v |-> n]
decimal(n) == [type |-> "decimal", v |-> n]
str(s) == [type |-> "str", v |-> s]
bytes(s) == [type |-> "bytes", v |-> s]
list(s) == [type |-> "list", v |-> s]
iterator(s) == [type |-> "iterator", v |-> s]
object(n) == [type |-> "object", v |-> n]
Texts == {<<>>, <<1>>, <<0, 1>>, <<1, 0>>, <<1, 2>>, <<2, 0, 1>>}
Operands == {int(n) : n \in {-3, 0, 1, 2, 4}} \cup {float(2)} \cup {str(s) : s \in Texts} \cup {bytes(s) : s \in Texts}
  \cup {list(<<>>), list(<<int(1), str(<<1>>)>>), list(<<float(2), bytes(<<0>>)>>), object(1)}
Conditions == INSTANCE Comparisons WITH MaxExact <- 4, MaxFloat <- 100, Values <- Operands, condition <- v1, answer <- v2

ASSUME PartAssumption == Conditions!FloatAssumption

--------------------------------------------------------------------------------
After11Rest == v12 = 0 /\ v13 = 0 /\ v14 = 0 /\ v15 = 0 /\ v16 = 0 /\ v17 = 0 /\ v18 = 0 /\ v19 = 0
After10Rest == v11 = 0 /\ After11Rest
After7Rest == v8 = 0 /\ v9 = 0 /\ v10 = 0 /\ After10Rest
After5Rest == v6 = 0 /\ v7 = 0 /\ After7Rest
After2Rest == v3 = 0 /\ v4 = 0 /\ v5 = 0 /\ After5Rest

MCInit ==
  /\ part \in Parts
  /\ \/ part = "cluster" /\ Cluster!ClusterInit
     \/ part = "lines" /\ Lines!Init /\ After5Rest
     \/ part = "instrumentation" /\ Rewriting!Init /\ After10Rest
     \/ part = "graphs" /\ Flow!Init /\ After7Rest
     \/ part = "comparisons" /\ Conditions!Init /\ After2Rest
     \/ part = "slices" /\ Slicing!Init /\ After11Rest

ClusterNext ==
  \/ part = "cluster" /\ Cluster!__analyse_included_classes /\ UNCHANGED part
  \/ part = "cluster" /\ Cluster!__analyse_included_functions /\ UNCHANGED part
  \/ part = "cluster" /\ Cluster!TakeModule /\ UNCHANGED part
  \/ part = "cluster" /\ Cluster!PushDown /\ UNCHANGED part
  \/ part = "cluster" /\ Cluster!ExecuteTraced /\ UNCHANGED part
  \/ part = "cluster" /\ Cluster!get_parameter_types /\ UNCHANGED part
LinesNext ==
  \/ part = "lines" /\ (\E scope \in v2 : Lines!Skip(scope)) /\ UNCHANGED <<part, after5>>
  \/ part = "lines" /\ (\E scope \in v2 : Lines!_instrument_code_recursive(scope)) /\ UNCHANGED <<part, after5>>
InstrumentationNext ==
  \/ part = "instrumentation" /\ Rewriting!Crash /\ UNCHANGED <<part, after10>>
  \/ part = "instrumentation" /\ Rewriting!ExecuteArtificial /\ UNCHANGED <<part, after10>>
  \/ part = "instrumentation" /\ Rewriting!ExecuteOriginal /\ UNCHANGED <<part, after10>>
  \/ part = "instrumentation" /\ Rewriting!Jump /\ UNCHANGED <<part, after10>>
  \/ part = "instrumentation" /\ Rewriting!FallThrough /\ UNCHANGED <<part, after10>>
GraphsNext ==
  \/ part = "graphs" /\ Flow!Register /\ UNCHANGED <<part, after7>>
  \/ part = "graphs" /\ Flow!Step /\ UNCHANGED <<part, after7>>
ComparisonsNext ==
  \/ part = "comparisons" /\ Conditions!Compare /\ UNCHANGED <<part, after2>>
  \/ part = "comparisons" /\ Conditions!executed_bool_predicate /\ UNCHANGED <<part, after2>>
SlicesNext ==
  \/ part = "slices" /\ Slicing!Execute /\ UNCHANGED <<part, v6, v7, v8, v9, v10, after10>>
  \/ part = "slices" /\ Slicing!SliceStatement /\ UNCHANGED <<part, after11>>
  \/ part = "slices" /\ Slicing!track_assertion_position /\ UNCHANGED <<part, after11>>
  \/ part = "slices" /\ Slicing!Slice /\ UNCHANGED <<part, after11>>

MCNext == ClusterNext \/ LinesNext \/ InstrumentationNext \/ GraphsNext \/ ComparisonsNext \/ SlicesNext
MCSpec == MCInit /\ [][MCNext]_all

--------------------------------------------------------------------------------
\* A rewritten block decides, computes and raises what the original one does, the
\* tracer is told by a condition the branch it takes, and each operation once with its
\* own operands, in every version and with every choice of adapters (version/*.py).
InstrumentationIsFaithful ==
  part = "instrumentation" =>
    Rewriting!Transparent /\ Rewriting!BranchToldIsTaken /\ Rewriting!OperandsTold

\* Every block can reach the exit; the goals of a block that is executed hang on the
\* entry or on a condition whose outcome has been taken, one that is registered; and
\* the tracer hears of the outcomes taken and of no other (controlflow.py).
DependencesLeadToTheBlock ==
  part = "graphs" => /\ Flow!ExitIsReached /\ Flow!ReachedByItsDependences
                     /\ Flow!DependencesAreRegistered /\ Flow!ToldIsTaken

\* A function that is selected is instrumented although the scopes around it are not
\* selected, and a condition is a goal only if both its branches may be covered
\* (transformer.py, ModuleAstInfo and AstInfo).
SelectionIsKept == part = "lines" => Lines!SelectedIsInstrumented /\ Lines!ConditionHasTwoSides

\* Of the two distances of a condition exactly one is zero, that of the side the
\* program takes then (tracer.py, executed_compare_predicate).
OutcomeIsTold == part = "comparisons" => Conditions!OutcomeIsTold

\* The way back through a trace is the way forth; the slice misses nothing that the
\* criterion depends on; and what counts as checked has been executed, exceptions or
\* not (dynamicslicer.py, executionflowbuilder.py).
SlicesAreSound ==
  part = "slices" => Slicing!FlowIsReconstructed /\ Slicing!SliceIsSound /\ Slicing!CheckedIsExecuted

\* What is tested, what can modify an object, where an attribute belongs, under which
\* type a generator is filed and what proxies were checked against is the same in
\* whatever order modules, bases and executions come (module.py, typesystem.py).
ClusterIsComplete ==
  part = "cluster" => /\ Cluster!UnderTestIsItsOwn /\ Cluster!ModifiersAreInherited
                      /\ Cluster!AttributesAreTopMost /\ Cluster!FiledOnce /\ Cluster!ChecksAreKept
================================================================================
