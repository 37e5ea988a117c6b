---------------------------- MODULE ExecutionTracer ----------------------------
(* The execution tracer and the traces it writes (instrumentation/tracer.py),   *)
(* from the import of the module through the tests of a suite, and what fitness *)
(* and coverage functions read from them (ga/fitness_metrics.py,                *)
(* ga/coveragegoals.py, ga/computations.py, utils/controlflowdistance.py); and  *)
(* what the user and the language model are told of the coverage: the report    *)
(* with its lines (utils/report.py), and the callables that LLMOSA finds        *)
(* wanting in it (ga/algorithms/llmosalgorithm.py).                             *)
EXTENDS BranchDistance

CONSTANTS CodeObjects, Predicates, Lines,   \* existing_code_objects, existing_predicates, existing_lines
          CodeOf,       \* [Predicates -> CodeObjects]
          PathLength,   \* [Predicates -> [Predicates -> Nat]], in the control-dependence graph; Infinity: no path
          Diameter,     \* [CodeObjects -> Nat], of the control-flow graph
          Outcomes,     \* [status, true, false] the comparisons of the program can have
          MaxEvents, MaxTests,
          Source,       \* number of lines of the module under test
          LineOf,       \* [Predicates -> 1..Source]
          FirstLine,    \* [CodeObjects -> 1..Source]
          LineNumber,   \* [Lines -> 1..Source]
          Metrics,      \* a subset of {"BRANCH", "LINE"}
          Callables,    \* under test: [start, end], or [start |-> 0, end |-> 0] without source
          coverage_threshold    \* a pair of numbers

TracerAssumption ==
  /\ CodeOf \in [Predicates -> CodeObjects]
  /\ PathLength \in [Predicates -> [Predicates -> Nat]]
  /\ \A p, q \in Predicates : p # q => PathLength[p][q] > 0
  /\ Diameter \in [CodeObjects -> Nat] /\ \A p \in Predicates : Diameter[CodeOf[p]] > 0
  /\ LineOf \in [Predicates -> 1..Source] /\ FirstLine \in [CodeObjects -> 1..Source]
  /\ LineNumber \in [Lines -> 1..Source] /\ Metrics \subseteq {"BRANCH", "LINE"}

VARIABLES importing,    \* the module under test is being imported
          enabled,      \* of the current thread
          trace,        \* of the current thread
          import_trace,
          results,      \* the traces of the tests that have ended
          events        \* in the current execution

vars == <<importing, enabled, trace, import_trace, results, events>>

--------------------------------------------------------------------------------
(* ExecutionTrace.  A distance that is not known is Infinity.                   *)

EmptyTrace ==
  [executed_code_objects |-> {}, executed_predicates |-> [p \in Predicates |-> 0],
   true_distances |-> [p \in Predicates |-> Infinity], false_distances |-> [p \in Predicates |-> Infinity],
   covered_line_ids |-> {}, executed_instructions |-> <<>>, executed_assertions |-> <<>>]

Lower(d, e) == IF d < e THEN d ELSE e
\* the values of the other trace win
MergeLast(target, source) == [p \in Predicates |-> IF source[p] = Infinity THEN target[p] ELSE source[p]]
_merge_min(target, source) == [p \in Predicates |-> Lower(target[p], source[p])]

\* the positions of the other trace are kept as they are
Unshifted(position, shift) == position
Shifted(position, shift) == position + shift

merge(t, other) ==
  LET shift == Len(t.executed_instructions)
  IN  [executed_code_objects |-> t.executed_code_objects \cup other.executed_code_objects,
       executed_predicates |-> [p \in Predicates |-> t.executed_predicates[p] + other.executed_predicates[p]],
       true_distances |-> _merge_min(t.true_distances, other.true_distances),
       false_distances |-> _merge_min(t.false_distances, other.false_distances),
       covered_line_ids |-> t.covered_line_ids \cup other.covered_line_ids,
       executed_instructions |-> t.executed_instructions \o other.executed_instructions,
       executed_assertions |-> t.executed_assertions \o
         [i \in DOMAIN other.executed_assertions |->
            [position |-> Shifted(other.executed_assertions[i].position, shift),
             jump |-> other.executed_assertions[i].jump]]]

update_predicate_distances(t, d, p) ==
  [t EXCEPT !.executed_predicates[p] = @ + 1,
            !.true_distances[p] = Lower(@, d.true),
            !.false_distances[p] = Lower(@, d.false)]

analyze_results(traces) == FoldLeft(merge, EmptyTrace, traces)

--------------------------------------------------------------------------------
(* ExecutionTracer, in the thread that executes the test.                       *)

Init ==
  /\ importing = TRUE
  /\ enabled = TRUE /\ trace = EmptyTrace /\ import_trace = EmptyTrace
  /\ results = <<>> /\ events = 0

Running == events < MaxEvents /\ Len(results) < MaxTests
Record(t) ==
  /\ Running
  /\ events' = events + 1
  /\ trace' = IF enabled THEN t ELSE trace
  /\ UNCHANGED <<importing, import_trace, results>>

executed_code_object(c) ==
  /\ Record([trace EXCEPT !.executed_code_objects = @ \cup {c}])
  /\ UNCHANGED enabled
track_line_visit(l) ==
  /\ Record([trace EXCEPT !.covered_line_ids = @ \cup {l}])
  /\ UNCHANGED enabled

\* tracing is disabled while the distances are computed; an exception leaves it so
_update_metrics(d, p) ==
  /\ CodeOf[p] \in trace.executed_code_objects
  /\ Record(IF d.status = "told" THEN update_predicate_distances(trace, d, p) ELSE trace)
  /\ enabled' = (enabled /\ d.status = "told")

\* the handler of an exception: its class matches or it does not
executed_exception_match(matches, p) ==
  /\ _update_metrics([status |-> "told", true |-> IF matches THEN 0 ELSE One, false |-> IF matches THEN One ELSE 0], p)

\* an instruction that the slicer reads: a boolean jump or another
track_generic(i) ==
  /\ Record([trace EXCEPT !.executed_instructions = Append(@, i)])
  /\ UNCHANGED enabled

Jumps(t) == {i \in DOMAIN t.executed_instructions : t.executed_instructions[i].jump}
track_assertion_position ==
  LET last == Max(Jumps(trace))
  IN  /\ Jumps(trace) # {}
      /\ Record([trace EXCEPT !.executed_assertions =
                   Append(@, [position |-> last, jump |-> trace.executed_instructions[last].id])])
      /\ UNCHANGED enabled

\* a new thread, a trace that begins with what the import has left
init_trace(t) == merge(EmptyTrace, t)

store_import_trace ==
  /\ importing
  /\ importing' = FALSE
  /\ import_trace' = trace
  /\ trace' = init_trace(trace)
  /\ events' = 0
  /\ enabled' = TRUE
  /\ UNCHANGED results

EndTest ==
  /\ ~importing /\ Len(results) < MaxTests
  /\ results' = Append(results, trace)
  /\ trace' = init_trace(import_trace)
  /\ enabled' = TRUE
  /\ events' = 0
  /\ UNCHANGED <<importing, import_trace>>

Instructions == {[id |-> Cardinality(Jumps(trace)) + 10 * Len(results) + 1, jump |-> TRUE], [id |-> 0, jump |-> FALSE]}

Next ==
  \/ \E c \in CodeObjects : executed_code_object(c)
  \/ \E l \in Lines : track_line_visit(l)
  \/ \E d \in Outcomes, p \in Predicates : _update_metrics(d, p)
  \/ \E b \in BOOLEAN, p \in Predicates : executed_exception_match(b, p)
  \/ \E i \in Instructions : track_generic(i)
  \/ track_assertion_position
  \/ store_import_trace
  \/ EndTest
Spec == Init /\ [][Next]_vars

--------------------------------------------------------------------------------
(* Fitness and coverage.  A rational number is a pair of whole ones.            *)

branch_less_code_objects == CodeObjects \ {CodeOf[p] : p \in Predicates}
BranchGoals == Predicates \X BOOLEAN

Plus(x, y) == <<x[1] * y[2] + y[1] * x[2], x[2] * y[2]>>
NotAbove(x, y) == x[1] * y[2] <= y[1] * x[2]
normalise(d) == IF d >= Infinity THEN <<1, 1>> ELSE <<d, One + d>>

DistancesTo(t, value) == IF value THEN t.true_distances ELSE t.false_distances
is_covered(t, goal) == DistancesTo(t, goal[2])[goal[1]] = 0
LineIsCovered(t, l) == l \in t.covered_line_ids
BranchlessIsCovered(t, c) == c \in t.executed_code_objects

\* approach level and branch distance
Nearer(x, y) == x[1] < y[1] \/ (x[1] = y[1] /\ x[2] <= y[2])
get_root_control_flow_distance(t, c) == IF c \in t.executed_code_objects THEN <<0, 0>> ELSE <<1, 0>>
\* the distance to the other side
TheOtherSide(t, p, value) == <<0, DistancesTo(t, ~value)[p]>>
get_non_root_control_flow_distance(t, p, value) ==
  LET Candidate(e) == <<PathLength[e][p], Lower(Infinity, t.true_distances[e] + t.false_distances[e])>>
      reached == {Candidate(e) : e \in {x \in Predicates : t.executed_predicates[x] > 0 /\ CodeOf[x] = CodeOf[p]
                                                            /\ PathLength[x][p] < Infinity}}
      bounded == reached \cup {<<Diameter[CodeOf[p]], 0>>}
  IN  CASE CodeOf[p] \notin t.executed_code_objects -> <<Diameter[CodeOf[p]], 0>>
        [] t.executed_predicates[p] > 0 -> <<0, DistancesTo(t, value)[p]>>
        [] OTHER -> CHOOSE x \in bounded : \A y \in bounded : Nearer(x, y)

\* approach level and branch distance are added as they are
NotNormalised(distance) == <<One * distance[1] + distance[2], One>>
get_resulting_branch_fitness(distance) == Plus(<<distance[1], 1>>, normalise(distance[2]))
RootFitness(t, c) == get_resulting_branch_fitness(get_root_control_flow_distance(t, c))
TestFitness(t, goal) == get_resulting_branch_fitness(get_non_root_control_flow_distance(t, goal[1], goal[2]))

\* of a suite: a distance counts when the condition was executed twice
_predicate_fitness(t, goal) ==
  CASE is_covered(t, goal) -> <<0, 1>>
    [] t.executed_predicates[goal[1]] >= 2 -> normalise(DistancesTo(t, goal[2])[goal[1]])
    [] OTHER -> <<1, 1>>
compute_branch_distance_fitness(t, exclude_code, exclude) ==
  LET missing == Cardinality(branch_less_code_objects \ (t.executed_code_objects \cup exclude_code))
  IN  FoldSet(LAMBDA goal, sum : Plus(_predicate_fitness(t, goal), sum), <<missing, 1>>, BranchGoals \ exclude)

\* looks for the pair of predicate and distance among the keys of the distances
compute_branch_distance_fitness_is_covered(t, exclude_code, exclude) ==
  /\ branch_less_code_objects \subseteq t.executed_code_objects \cup exclude_code
  /\ BranchGoals \subseteq exclude

Existing == Cardinality(branch_less_code_objects) + 2 * Cardinality(Predicates)
compute_branch_coverage(t) ==
  IF Existing = 0 THEN <<1, 1>>
  ELSE <<Cardinality(t.executed_code_objects \cap branch_less_code_objects)
           + Cardinality({p \in Predicates : t.true_distances[p] = 0})
           + Cardinality({p \in Predicates : t.false_distances[p] = 0}), Existing>>
compute_line_coverage(t) ==
  IF Lines = {} THEN <<1, 1>> ELSE <<Cardinality(t.covered_line_ids), Cardinality(Lines)>>
compute_line_coverage_fitness_is_covered(t) == Cardinality(t.covered_line_ids) = Cardinality(Lines)

--------------------------------------------------------------------------------
(* The report.                                                                  *)

CoverageEntry(covered, existing) == [covered |-> covered, existing |-> existing]
Nothing == CoverageEntry(0, 0)
Sum(e, f) == CoverageEntry(e.covered + f.covered, e.existing + f.existing)
Total(entries) == FoldFunction(Sum, Nothing, entries)

\* the branches of the last condition of a line
LastOfLine(t) ==
  [n \in {LineOf[p] : p \in Predicates} |->
     LET p == CHOOSE q \in Predicates : LineOf[q] = n
     IN  CoverageEntry(Cardinality({v \in BOOLEAN : is_covered(t, <<p, v>>)}), 2)]
_get_line_to_branch_coverage(t) ==
  [n \in {LineOf[p] : p \in Predicates} |->
     LET goals == {g \in BranchGoals : LineOf[g[1]] = n}
     IN  CoverageEntry(Cardinality({g \in goals : is_covered(t, g)}), Cardinality(goals))]

_get_line_to_branchless_code_object_coverage(t) ==
  [n \in {FirstLine[c] : c \in branch_less_code_objects} |->
     LET here == {c \in branch_less_code_objects : FirstLine[c] = n}
     IN  CoverageEntry(Cardinality(here \cap t.executed_code_objects), Cardinality(here))]

At(entries, n) == IF n \in DOMAIN entries THEN entries[n] ELSE Nothing
_get_line_annotations_for_branch_coverage(t, n) ==
  LET branches == At(_get_line_to_branch_coverage(t), n)
      branchless == At(_get_line_to_branchless_code_object_coverage(t), n)
  IN  [branches |-> branches, branchless |-> branchless, lines |-> Nothing, total |-> Sum(branches, branchless)]

lineids_to_linenos(ids) == {LineNumber[l] : l \in ids}
comp_line_annotation(t, n) ==
  LET Listed(s) == IF n \in s THEN 1 ELSE 0
      line == CoverageEntry(Listed(lineids_to_linenos(t.covered_line_ids)), Listed(lineids_to_linenos(Lines)))
  IN  [branches |-> Nothing, branchless |-> Nothing, lines |-> line, total |-> line]

LineAnnotation(a, b) == [field \in DOMAIN a |-> Sum(a[field], b[field])]

get_coverage_report(t) ==
  LET none == [branches |-> Nothing, branchless |-> Nothing, lines |-> Nothing, total |-> Nothing]
      branch == "BRANCH" \in Metrics
      line == "LINE" \in Metrics
  IN  [branches |-> IF branch THEN Total(_get_line_to_branch_coverage(t)) ELSE Nothing,
       branchless |-> IF branch THEN Total(_get_line_to_branchless_code_object_coverage(t)) ELSE Nothing,
       lines |-> IF line THEN CoverageEntry(Cardinality(lineids_to_linenos(t.covered_line_ids)),
                                            Cardinality(lineids_to_linenos(Lines))) ELSE Nothing,
       line_annotations |->
         [n \in 1..Source |-> LineAnnotation(IF branch THEN _get_line_annotations_for_branch_coverage(t, n) ELSE none,
                                             IF line THEN comp_line_annotation(t, n) ELSE none)]]

\* the lines of the Cobertura file: [number -> [hits, condition coverage]]
render_xml_coverage_report(report) ==
  [n \in {m \in 1..Source : report.line_annotations[m].total.existing > 0} |->
     LET a == report.line_annotations[n]
         condition == Sum(a.branches, a.branchless)
     IN  [hits |-> IF a.lines.covered > 0 \/ condition.covered > 0 THEN 1 ELSE 0, condition |-> condition]]

--------------------------------------------------------------------------------
(* target_uncovered_callables                                                   *)

Inside(c, n) == c.start <= n /\ n <= c.end
\* the last line of a callable is not part of it
WithoutLastLine(report, c) ==
  Total([n \in {m \in 1..Source : c.start <= m /\ m < c.end} |-> report.line_annotations[n].total])
coverage_in_range(report, c) ==
  Total([n \in {m \in 1..Source : Inside(c, m)} |-> report.line_annotations[n].total])

calculate_gao_coverage_map(report) ==
  [c \in Callables |->
     LET points == coverage_in_range(report, c)
     IN  IF c.start = 0 \/ points.existing = 0 THEN <<0, 1>> ELSE <<points.covered, points.existing>>]

Below(x, y) == x[1] * y[2] < y[1] * x[2]
filter_gao_by_coverage(gao_coverage) == {c \in Callables : Below(gao_coverage[c], coverage_threshold)}

_diagnose_callable(report, c) ==
  LET points == coverage_in_range(report, c)
      OneSided(n) == LET b == report.line_annotations[n].branches IN 0 < b.covered /\ b.covered < b.existing
  IN  CASE c.start = 0 -> "none"
        [] c.start > 0 /\ points.existing > 0 /\ points.covered = 0 -> "never reached"
        [] c.start > 0 /\ points.covered > 0 /\ (\E n \in 1..Source : Inside(c, n) /\ OneSided(n)) -> "one outcome"
        [] OTHER -> "none"

target_uncovered_callables(report) ==
  {[callable |-> c, diagnosis |-> _diagnose_callable(report, c)] :
     c \in filter_gao_by_coverage(calculate_gao_coverage_map(report))}

Goals == {<<"branch", g[1], g[2]>> : g \in IF "BRANCH" \in Metrics THEN BranchGoals ELSE {}}
           \cup {<<"code", c>> : c \in IF "BRANCH" \in Metrics THEN branch_less_code_objects ELSE {}}
           \cup {<<"line", l>> : l \in IF "LINE" \in Metrics THEN Lines ELSE {}}
LineOfGoal(g) ==
  CASE g[1] = "branch" -> LineOf[g[2]] [] g[1] = "code" -> FirstLine[g[2]] [] g[1] = "line" -> LineNumber[g[2]]
CoveredGoals(t) ==
  {g \in Goals : CASE g[1] = "branch" -> is_covered(t, <<g[2], g[3]>>)
                   [] g[1] = "code" -> BranchlessIsCovered(t, g[2]) [] g[1] = "line" -> LineIsCovered(t, g[2])}

--------------------------------------------------------------------------------
Merged == analyze_results(results)

\* The result of a suite does not depend on the order of its tests, and every
\* assertion still points at the jump that evaluated it.
MergeIsOrderFree ==
  LET Read(t) == [t EXCEPT !.executed_instructions = 0, !.executed_assertions = 0]
  IN  /\ \A order \in SetToSeqs(DOMAIN results) :
           Read(analyze_results([i \in DOMAIN results |-> results[order[i]]])) = Read(Merged)
      /\ \A i \in DOMAIN Merged.executed_assertions :
           LET a == Merged.executed_assertions[i]
           IN  Merged.executed_instructions[a.position] = [id |-> a.jump, jump |-> TRUE]

\* Three answers to one question: what a goal calls covered, a fitness of zero and
\* the share of the coverage, of the tests and of their suite, agree.
CoverageAgrees ==
  /\ \A goal \in BranchGoals :
       /\ is_covered(Merged, goal) <=> \E i \in DOMAIN results : is_covered(results[i], goal)
       /\ \A i \in DOMAIN results : is_covered(results[i], goal) <=> TestFitness(results[i], goal)[1] = 0
  /\ \A c \in branch_less_code_objects, i \in DOMAIN results :
       BranchlessIsCovered(results[i], c) <=> RootFitness(results[i], c)[1] = 0
  /\ (compute_branch_distance_fitness(Merged, {}, {})[1] = 0) <=> (compute_branch_coverage(Merged)[1] = Existing)
  /\ compute_line_coverage_fitness_is_covered(Merged) <=> \A l \in Lines : LineIsCovered(Merged, l)

\* A test that reaches a condition is never rated worse, for either side of it,
\* than one that does not.
ReachingIsNotWorse ==
  \A i, j \in DOMAIN results, goal \in BranchGoals :
    results[i].executed_predicates[goal[1]] > 0 /\ results[j].executed_predicates[goal[1]] = 0
      => NotAbove(TestFitness(results[i], goal), TestFitness(results[j], goal))

\* A suite that has covered every branch is told so.
SuiteIsToldCovered ==
  (\A goal \in BranchGoals : is_covered(Merged, goal)) /\ branch_less_code_objects \subseteq Merged.executed_code_objects
    => compute_branch_distance_fitness_is_covered(Merged, {}, {})

\* What the report says line by line is what the search has counted goal by goal:
\* the totals are those of the coverage functions, and a line is hit exactly if
\* some goal on it is covered.
ReportAddsUp ==
  LET report == get_coverage_report(Merged)
      xml == render_xml_coverage_report(report)
      branches == Sum(report.branches, report.branchless)
  IN  events = 0 /\ results # <<>> =>
        /\ "BRANCH" \in Metrics => compute_branch_coverage(Merged) = <<branches.covered, branches.existing>>
        /\ "LINE" \in Metrics => compute_line_coverage(Merged) = <<report.lines.covered, report.lines.existing>>
        /\ Total([n \in 1..Source |-> report.line_annotations[n].total]) = Sum(branches, report.lines)
        /\ \A n \in 1..Source : n \in DOMAIN xml <=> \E g \in Goals : LineOfGoal(g) = n
        /\ \A n \in DOMAIN xml : xml[n].hits = 1 <=> \E g \in CoveredGoals(Merged) : LineOfGoal(g) = n

\* The model is asked for tests of every callable that has a goal left, and told
\* that a callable was never reached only if no goal of its lines is covered.
UncoveredIsAskedFor ==
  LET asked == target_uncovered_callables(get_coverage_report(Merged))
      Open(c) == \E g \in Goals \ CoveredGoals(Merged) : Inside(c, LineOfGoal(g))
  IN  events = 0 /\ results # <<>> /\ coverage_threshold = <<1, 1>> =>
        /\ \A c \in Callables : Open(c) => \E a \in asked : a.callable = c
        /\ \A a \in asked : a.diagnosis # "none" =>
             /\ Open(a.callable)
             /\ a.diagnosis = "never reached" <=> ~\E g \in CoveredGoals(Merged) : Inside(a.callable, LineOfGoal(g))
===============================================================================
