------------------------------ MODULE Assertions ------------------------------
(* Assertion generation (assertion/): a generated test is executed once and   *)
(* what can be observed after each statement becomes an assertion, executed   *)
(* again to drop what does not hold, and executed on the mutants of the       *)
(* module under test to count the mutants it detects and to drop the          *)
(* assertions that detect none.  Then the suite is written as a file of       *)
(* pytest functions.                                                          *)
(*                                                                            *)
(* A statement is one of five operations on a small module: "make" binds a    *)
(* new object (and counts it in a class field), "flip" changes the object     *)
(* made last and a module field without binding anything, "read" binds the    *)
(* object's field, "boom" raises, "luck" binds or raises by chance, "once"    *)
(* raises when an object has been made before.  A mutant changes what one     *)
(* operation does.                                                            *)
(*                                                                            *)
(* The two fields of the module and its class outlive a test: the tests run   *)
(* in a process, or on a mutant, share them (the module is taken from         *)
(* sys.modules and never loaded again), and so do the tests of the file.      *)
EXTENDS Integers, Sequences, FiniteSets, SequencesExt

CONSTANTS Suites,       \* the suites the search may return: sequences of tests
          MutantLists,  \* the sequences of mutants a module may have
          MaxLength,    \* test_case_output.max_length_test_case
          Invented,     \* what a language model may claim a read binds
          Expected,     \* the exceptions the callables of the module declare
          Foreign,      \* the exception types that are no builtins
          FloatReads,   \* what a read binds is a float
          Left          \* the states the search may leave the module in

VARIABLES suite, mutants, options,  \* fixed when the generation starts
          phase,                    \* "capture", "filter", "mutants", "summary", "done"
          todo,                     \* the tests the phase has not handled
          asserts,                  \* asserts[t][p]: the assertions of a statement
          rows,                     \* rows[t]: one result per checked mutant
          info,                     \* the summary: one record per checked mutant
          broken,                   \* assertions a filtering execution refuted
          before,                   \* the assertions before the irrelevant ones go
          unpadded,                 \* rows, had no execution been cut short
          world,                    \* the module in Pynguin's process, and in a child
          file                      \* <<>>, or one record: the functions and the imports

assertionVars == <<suite, mutants, options, phase, todo, asserts, rows, info,
                   broken, before, unpadded>>

Tests == DOMAIN suite
E == 1                              \* the exception type "boom" raises
F == 2                              \* another one
Unbound == -1

\* -- executing a test ------------------------------------------------------
\* The state of a module that has just been imported.
Imported == [created |-> 0, flips |-> 0]

\* A namespace that sees the module as it is, and the module it leaves behind.
Namespace(module) == [objects |-> <<>>, bound |-> <<>>] @@ module
Module(ns) == [created |-> ns.created, flips |-> ns.flips]

\* What a statement does to the namespace: its outcome is the new namespace,
\* the exception raised (0 for none) or a timeout.
Statement(op, ns, mutant, chance) ==
    LET bind(n, v) == [n EXCEPT !.bound = Append(@, v), !.objects = Append(@, Unbound)]
        lasts == {i \in DOMAIN ns.objects : ns.objects[i] # Unbound}
        last == CHOOSE i \in lasts : \A j \in lasts : j <= i
        raise(e) == [ns |-> bind(ns, Unbound), exc |-> e, hung |-> FALSE]
        give(n) == [ns |-> n, exc |-> 0, hung |-> FALSE]
    IN  CASE op = "make" ->
               give([bind(ns, Unbound) EXCEPT !.objects[Len(ns.bound) + 1] = 0,
                                              !.created = @ + 1])
          [] op \in {"flip", "read"} /\ lasts = {} -> raise(F)
          [] op = "flip" ->
               give([bind(ns, Unbound) EXCEPT
                       !.objects[last] = IF mutant = "no flip" THEN @ ELSE 1 - @,
                       !.flips = @ + 1])
          [] op = "read" /\ mutant = "hang" ->
               [ns |-> ns, exc |-> 0, hung |-> TRUE]
          [] op = "read" ->
               give(bind(ns, ns.objects[last] + (IF mutant = "read more" THEN 1 ELSE 0)))
          [] op = "boom" /\ mutant = "calm" -> give(bind(ns, Unbound))
          [] op = "once" -> IF ns.created > 0 THEN raise(E) ELSE give(bind(ns, Unbound))
          [] op = "boom" -> raise(IF mutant = "other" THEN F ELSE E)
          [] op = "luck" /\ chance = 2 -> raise(E)
          [] op = "luck" -> give(bind(ns, chance))

\* The execution of a test: the outcomes of its statements up to the first
\* one that raises, and the module behind them.  An execution that times out
\* reports nothing.
_execute_test_case(test, mutant, chance, module) ==
    LET steps[i \in 0..Len(test)] ==
            IF i = 0 THEN <<[ns |-> Namespace(module), exc |-> 0, hung |-> FALSE]>>
            ELSE LET prev == steps[i - 1]
                 IN  IF Last(prev).exc # 0 \/ Last(prev).hung THEN prev
                     ELSE Append(prev, Statement(test[i], Last(prev).ns, mutant, chance))
        all == Tail(steps[Len(test)])
        hung == all # <<>> /\ Last(all).hung
    IN  [timeout |-> hung, steps |-> IF hung THEN <<>> ELSE all,
         module |-> Module(Last(steps[Len(test)]).ns)]

\* All tests in order, on a module of their own.
execute_multiple(mutant, chance) ==
    LET result[t \in Tests] ==
            _execute_test_case(suite[t], mutant, chance,
                               IF t = 1 THEN Imported ELSE result[t - 1].module)
    IN  result

has_test_exceptions(result) ==
    \E i \in DOMAIN result.steps : result.steps[i].exc # 0

\* -- what the observer sees ------------------------------------------------
Assertion(kind, at, value) == [kind |-> kind, at |-> at, value |-> value]

\* The value an assertion is about, Unbound where the reference is not.
_resolve_source(a, ns) ==
    CASE a.kind = "value" -> IF a.at \in DOMAIN ns.bound THEN ns.bound[a.at] ELSE Unbound
      [] a.kind \in {"type", "field"} ->
           IF a.at \in DOMAIN ns.objects THEN ns.objects[a.at] ELSE Unbound
      [] a.kind = "module" -> ns.flips
      [] a.kind = "class" -> ns.created

\* An object is asserted on by its type and its fields.
_check_reference(i, ns) ==
    <<Assertion("type", i, 0), Assertion("field", i, ns.objects[i])>>

_check_static_class_fields(watched, ns) ==
    IF watched = <<>> THEN <<>> ELSE <<Assertion("class", 0, ns.created)>>

\* A statement that binds: its value once if it is primitive, and then every
\* watched object, the fields of the module and those of the watched classes.
_handle(ns, p) ==
    LET watched == SelectSeq([i \in 1..p |-> i], LAMBDA i : ns.objects[i] # Unbound)
    IN  (IF ns.bound[p] = Unbound THEN <<>> ELSE <<Assertion("value", p, ns.bound[p])>>)
        \o FlattenSeq([k \in DOMAIN watched |-> _check_reference(watched[k], ns)])
        \o <<Assertion("module", 0, ns.flips)>>
        \o _check_static_class_fields(watched, ns)

Binds(op) == op # "flip"

\* RemoteAssertionTraceObserver.after_statement_execution
Observed(op, step, p) ==
    IF step.exc # 0 THEN <<Assertion("raises", 0, step.exc)>>
    ELSE IF Binds(op) THEN _handle(step.ns, p) ELSE <<>>

has_only_exception_assertion(list) == Len(list) = 1 /\ list[1].kind = "raises"

\* RemoteAssertionVerificationObserver.after_statement_execution: the indices
\* of the assertions that fail, and of those whose evaluation raises.
Verify(list, step) ==
    IF has_only_exception_assertion(list)
    THEN [failed |-> IF step.exc = 0 THEN {1} ELSE {},
          error |-> IF step.exc \notin {0, list[1].value} THEN {1} ELSE {}]
    ELSE LET value(i) == _resolve_source(list[i], step.ns)
             checked == {i \in DOMAIN list : list[i].kind # "raises"}
             missing == {i \in checked : value(i) = Unbound}
         IN  [failed |-> {i \in checked \ missing :
                             list[i].kind # "type" /\ value(i) # list[i].value},
              error |-> missing]

FailedOnly(t, result) ==
    {<<p, i>> \in (DOMAIN result.steps) \X (1..MaxLength) :
        i \in DOMAIN asserts[t][p] /\ i \in Verify(asserts[t][p], result.steps[p]).failed}

\* The assertions of a test an execution refuted: pairs of a statement and an
\* index.  merge() is the union.
Violated(t, result) ==
    {<<p, i>> \in {<<p, i>> \in (DOMAIN result.steps) \X (1..MaxLength) :
                     i \in DOMAIN asserts[t][p]} :
        LET trace == Verify(asserts[t][p], result.steps[p])
        IN  i \in trace.failed \cup trace.error}

\* What it refuted, told from the values alone.
Refuted(t, result) ==
    {<<p, a>> \in UNION {{p} \X ToSet(asserts[t][p]) : p \in DOMAIN result.steps} :
        LET step == result.steps[p]
        IN  CASE a.kind = "raises" -> step.exc # a.value
              [] a.kind = "type" -> _resolve_source(a, step.ns) = Unbound
              [] OTHER -> _resolve_source(a, step.ns) # a.value}

\* -- the first execution ----------------------------------------------------
size_with_assertions(lists) ==
    FoldSeq(LAMBDA list, n : n + 1 + Len(list), 0, lists)

AddWhatIsNew(test, result) ==
    LET seen(p) == IF p \in DOMAIN result.steps
                   THEN Observed(test[p], result.steps[p], p) ELSE <<>>
    IN  [p \in DOMAIN test |-> SelectSeq(seen(p),
            LAMBDA a : \A q \in 1..(p - 1) : a \notin ToSet(seen(q)))]

\* Asserts what the previous binding statement did not leave the same, until
\* the test with its assertions has reached its maximal length.
_add_assertions_for(test, result) ==
    LET seen(p) == IF p \in DOMAIN result.steps
                   THEN Observed(test[p], result.steps[p], p) ELSE <<>>
        binding(p) == {q \in 1..(p - 1) : Binds(test[q])}
        previous(p) == IF binding(p) = {} THEN <<>>
                       ELSE seen(CHOOSE q \in binding(p) : \A r \in binding(p) : r <= q)
        new(p) == SelectSeq(seen(p), LAMBDA a : a \notin ToSet(previous(p)))
        room[p \in 0..Len(test)] ==
            IF p = 0 THEN MaxLength - Len(test)
            ELSE LET left == room[p - 1] - Len(new(p)) IN IF left < 0 THEN 0 ELSE left
        fit(p) == IF Len(new(p)) <= room[p - 1] THEN new(p)
                  ELSE SubSeq(new(p), 1, IF room[p - 1] > 0 THEN room[p - 1] ELSE 0)
    IN  [p \in DOMAIN test |-> fit(p)]

\* Where the plain executor executes, and where the filtering one does.
Plain == IF options.subprocess THEN "child" ELSE "here"
create_filtering_executor == IF options.apart THEN "child" ELSE Plain

\* A child, one for all tests of a phase, imports the module anew, or has it as
\* this process has left it: that depends on how the platform starts a process.
Capture(t) ==
    /\ phase = "capture" /\ t = Cardinality(Tests \ todo) + 1
    /\ \E chance \in IF "luck" \in ToSet(suite[t]) THEN 0..2 ELSE {0} :
         LET result == _execute_test_case(suite[t], "none", chance, world[Plain])
             ran == [world EXCEPT ![Plain] = result.module]
         IN  /\ asserts' = [asserts EXCEPT ![t] = _add_assertions_for(suite[t], result)]
             /\ IF todo = {t}
                THEN \E started \in {Imported, ran.here} : world' = [ran EXCEPT !.child = started]
                ELSE world' = ran
    /\ todo' = IF todo = {t} THEN Tests ELSE todo \ {t}
    /\ phase' = IF todo = {t} THEN "filter" ELSE phase
    /\ UNCHANGED <<suite, mutants, options, rows, info, broken, before, unpadded, file>>

\* A language model is asked instead: an assertion about a variable goes to
\* the statement that bound it, and nothing is executed before the mutants.
AskModel(t) ==
    /\ phase = "ask" /\ t = Cardinality(Tests \ todo) + 1
    /\ \E claims \in [{p \in DOMAIN suite[t] : suite[t][p] = "read"} -> Invented] :
           asserts' = [asserts EXCEPT ![t] = [p \in DOMAIN suite[t] |->
               IF p \in DOMAIN claims THEN <<Assertion("value", p, claims[p])>> ELSE <<>>]]
    /\ todo' = IF todo = {t} THEN Tests ELSE todo \ {t}
    /\ phase' = IF todo = {t} THEN "mutants" ELSE phase
    /\ UNCHANGED <<suite, mutants, options, rows, info, broken, before, unpadded, world, file>>

\* -- the filtering execution ------------------------------------------------
__remove_non_holding_assertions(lists, refuted) ==
    [p \in DOMAIN lists |->
        LET kept == SelectSeq([i \in DOMAIN lists[p] |-> i], LAMBDA i : <<p, i>> \notin refuted)
        IN  [k \in DOMAIN kept |-> lists[p][kept[k]]]]

\* The tests are executed again, in an order of their own.
Filter(t) ==
    /\ phase = "filter" /\ t \in todo
    /\ \E chance \in IF "luck" \in ToSet(suite[t]) THEN 0..2 ELSE {0} :
         LET where == create_filtering_executor
             result == _execute_test_case(suite[t], "none", chance, world[where])
         IN  /\ world' = [world EXCEPT ![where] = result.module]
             /\ asserts' = [asserts EXCEPT
                    ![t] = __remove_non_holding_assertions(@, Violated(t, result))]
             /\ broken' = broken \cup {<<t, x[1], x[2]>> : x \in Refuted(t, result)}
    /\ todo' = IF todo = {t} THEN Tests ELSE todo \ {t}
    /\ phase' = IF todo # {t} THEN phase
                ELSE IF options.generator = "simple" THEN "done" ELSE "mutants"
    /\ UNCHANGED <<suite, mutants, options, rows, info, before, unpadded, file>>

\* -- the mutants ------------------------------------------------------------
Skipped == [run |-> FALSE, timeout |-> FALSE, exceptions |-> FALSE, violated |-> {}]

Reported(t, result) ==
    [run |-> TRUE, timeout |-> result.timeout,
     exceptions |-> has_test_exceptions(result), violated |-> Violated(t, result)]

AbortOnTimeout(results) ==
    [t \in DOMAIN results |->
        IF \E s \in DOMAIN results : s <= t /\ results[s].timeout THEN Skipped ELSE results[t]]

\* Executing in this process stops at the first test that times out, and the
\* remaining tests count as not executed.
_abort_after_first_timeout(results) ==
    [t \in DOMAIN results |->
        IF \E s \in DOMAIN results : s < t /\ results[s].timeout THEN Skipped ELSE results[t]]

\* The next mutant: one that is no valid module is skipped, any other gets a
\* result of every test, and is a module of its own.
RunMutant ==
    /\ phase = "mutants" /\ mutants # <<>>
    /\ mutants' = Tail(mutants)
    /\ IF Head(mutants) = "invalid" THEN UNCHANGED <<rows, unpadded>>
       ELSE \E chance \in 0..(IF \E t \in Tests : "luck" \in ToSet(suite[t]) THEN 2 ELSE 0) :
              LET all == [t \in Tests |->
                             Reported(t, execute_multiple(Head(mutants), chance)[t])]
                  told == IF options.subprocess THEN all
                          ELSE _abort_after_first_timeout(all)
              IN  /\ rows' = [t \in Tests |-> Append(rows[t], told[t])]
                  /\ unpadded' = [t \in Tests |-> Append(unpadded[t], all[t])]
    /\ UNCHANGED <<suite, options, phase, todo, asserts, info, broken, before, world, file>>

\* A mutant is killed by a test that reports a violated assertion or an
\* exception, unless an earlier test timed out on it.
__compute_mutation_summary(results) ==
    LET count == Len(results[1])
        timeouts(m) == {t \in DOMAIN results : results[t][m].run /\ results[t][m].timeout}
        first(m) == {t \in timeouts(m) : \A s \in timeouts(m) : t <= s}
        counted(t, m) == results[t][m].run /\ \A s \in first(m) : t < s
    IN  [m \in 1..count |->
            [timed_out_by |-> first(m),
             killed_by |-> {t \in DOMAIN results :
                 /\ counted(t, m)
                 /\ results[t][m].violated # {} \/ results[t][m].exceptions}]]

get_survived(summary) ==
    {m \in DOMAIN summary : summary[m].killed_by = {} /\ summary[m].timed_out_by = {}}
get_killed(summary) ==
    {m \in DOMAIN summary : summary[m].killed_by # {} /\ summary[m].timed_out_by = {}}
get_timeout(summary) == {m \in DOMAIN summary : summary[m].timed_out_by # {}}

\* Once the mutants, or the time for them, are used up.
Summarise ==
    /\ phase = "mutants" /\ (mutants = <<>> \/ options.limited)
    /\ info' = __compute_mutation_summary(rows)
    /\ before' = asserts
    /\ phase' = "summary"
    /\ UNCHANGED <<suite, mutants, options, todo, asserts, rows, broken, unpadded, world, file>>

\* -- the relevant assertions ------------------------------------------------
Keys(lists) ==
    {<<p, i>> \in (DOMAIN lists) \X (1..MaxLength) : i \in DOMAIN lists[p]}
ValueKeys(lists) == {k \in Keys(lists) : ~has_only_exception_assertion(lists[k[1]])}
Earlier(a, b) == a[1] < b[1] \/ (a[1] = b[1] /\ a[2] < b[2])

\* The mutants each assertion of a test kills, those that timed out left out.
__build_kill_map(lists, results, summary) ==
    [k \in ValueKeys(lists) |->
        {m \in DOMAIN summary : /\ results[m].run /\ summary[m].timed_out_by = {}
                                /\ k \in results[m].violated}]

\* The greedy set cover: the assertion that kills most of what is left, the
\* earliest of those.
RECURSIVE Greedy(_, _, _)
Greedy(kills, uncovered, keep) ==
    LET gain(k) == Cardinality(kills[k] \cap uncovered)
        best == {k \in DOMAIN kills \ keep : gain(k) > 0
                   /\ \A j \in DOMAIN kills \ keep : gain(j) <= gain(k)}
    IN  IF best = {} THEN keep
        ELSE LET k == CHOOSE k \in best : \A j \in best : j = k \/ Earlier(k, j)
             IN  Greedy(kills, uncovered \ kills[k], keep \cup {k})

RECURSIVE PruneAll(_, _, _)
PruneAll(kills, keep, todoKeys) ==
    IF todoKeys = {} THEN keep
    ELSE LET k == CHOOSE k \in todoKeys : \A j \in todoKeys : j = k \/ Earlier(j, k)
             others == UNION {kills[j] : j \in keep}
         IN  PruneAll(kills, IF kills[k] \subseteq others THEN keep \ {k} ELSE keep, todoKeys \ {k})

\* The later assertions first, what the others kill anyway is given up.
RECURSIVE Prune(_, _, _)
Prune(kills, keep, todoKeys) ==
    IF todoKeys = {} THEN keep
    ELSE LET k == CHOOSE k \in todoKeys : \A j \in todoKeys : j = k \/ Earlier(j, k)
             others == UNION {kills[j] : j \in keep \ {k}}
         IN  Prune(kills, IF kills[k] \subseteq others THEN keep \ {k} ELSE keep, todoKeys \ {k})

_select_minimal_assertions(kills) ==
    LET chosen == Greedy(kills, UNION {kills[k] : k \in DOMAIN kills}, {})
    IN  Prune(kills, chosen, chosen)

\* Statements with nothing but an expected exception are left untouched.
__minimize_assertions(lists, results, summary) ==
    LET keep == _select_minimal_assertions(__build_kill_map(lists, results, summary))
    IN  __remove_non_holding_assertions(lists, ValueKeys(lists) \ keep)

\* Without minimisation every assertion goes that no counted mutant violates.
__remove_non_relevant_assertions(lists, results, summary) ==
    IF options.minimise THEN __minimize_assertions(lists, results, summary)
    ELSE LET merged == UNION {results[m].violated : m \in
                 {m \in DOMAIN summary : results[m].run /\ summary[m].timed_out_by = {}}}
         IN  __remove_non_holding_assertions(lists, Keys(lists) \ merged)

RemoveIrrelevant ==
    /\ phase = "summary"
    /\ asserts' = [t \in Tests |->
           __remove_non_relevant_assertions(asserts[t], rows[t], info)]
    /\ phase' = "done"
    /\ UNCHANGED <<suite, mutants, options, todo, rows, info, broken, before, unpadded, world, file>>

\* -- writing the file --------------------------------------------------------
\* Every test is executed once more, statement by statement, to tell which ones
\* raise (testcase/export.py).  A raising statement is wrapped in pytest.raises
\* where its callable declares the exception, and marks the whole test as an
\* expected failure where it does not.

\* Mutant: up to the first exception only.
UpToTheFirst(test, module) ==
    LET result == _execute_test_case(test, "none", 0, module)
    IN  [module |-> result.module,
         excs |-> [p \in DOMAIN test |-> IF p \in DOMAIN result.steps
                                         THEN result.steps[p].exc ELSE 0]]

\* The outcomes of the statements of a test, executed one after the other
\* whatever the ones before have raised.
OneByOne(test, module) ==
    LET outcome[i \in 0..Len(test)] ==
            IF i = 0 THEN [ns |-> Namespace(module), exc |-> 0, hung |-> FALSE]
            ELSE Statement(test[i], outcome[i - 1].ns, "none", 0)
    IN  outcome

\* The exceptions of the statements, and the module they leave behind.
_per_statement_exceptions(test, module) ==
    LET outcome == OneByOne(test, module)
    IN  [module |-> Module(outcome[Len(test)].ns),
         excs |-> [i \in DOMAIN test |-> outcome[i].exc]]

_is_expected_exception(exc) == exc \in Expected

\* What is written of the assertions of a statement.
assertion_to_cst(list) == SelectSeq(list, LAMBDA a : a.kind # "raises")

\* A test function: its statements, which of them are wrapped, the assertions
\* behind each, and whether the function is expected to fail.
_build_test_function(test, lists, excs, no_xfail) ==
    LET wrapped == {p \in DOMAIN test :
                       excs[p] # 0 /\ (no_xfail \/ _is_expected_exception(excs[p]))}
    IN  [test |-> test, wrapped |-> [p \in wrapped |-> excs[p]],
         asserts |-> [p \in DOMAIN lists |-> assertion_to_cst(lists[p])],
         xfail |-> \E p \in DOMAIN test \ wrapped : excs[p] # 0]

\* The tests in order, in this process: what each raises and leaves behind.
Told == LET told[t \in Tests] ==
              _per_statement_exceptions(suite[t], IF t = 1 THEN world.here ELSE told[t - 1].module)
        IN  told

\* pytest is imported when a statement raises or the random numbers are
\* seeded; an exception type when a wrapper names it and it is no builtin.
write(no_xfail, seeded) ==
    LET excs == [t \in Tests |-> Told[t].excs]
        fns == [t \in Tests |-> _build_test_function(suite[t], asserts[t], excs[t], no_xfail)]
        used == UNION {Range(fns[t].wrapped) : t \in Tests}
    IN  [functions |-> fns,
         pytest |-> seeded \/ \E t \in Tests : Range(excs[t]) # {0},
         types |-> used \cap Foreign]

Export ==
    /\ phase = "done" /\ file = <<>>
    /\ \E no_xfail, seeded \in BOOLEAN : file' = <<write(no_xfail, seeded)>>
    /\ world' = [world EXCEPT !.here = Told[Len(suite)].module]
    /\ UNCHANGED assertionVars

\* "apart" is filter_assertions_in_subprocess, which a plain executor in a
\* subprocess makes superfluous.
Options == {o \in [generator : {"simple", "mutation", "llm"}, minimise : BOOLEAN,
                   subprocess : BOOLEAN, apart : BOOLEAN, limited : BOOLEAN] :
               o.subprocess => ~o.apart}

AssertionsInit ==
    /\ suite \in Suites /\ mutants \in MutantLists /\ options \in Options
    /\ phase = IF options.generator = "llm" THEN "ask" ELSE "capture"
    /\ todo = Tests
    /\ asserts = [t \in Tests |-> [p \in DOMAIN suite[t] |-> <<>>]]
    /\ before = asserts
    /\ rows = [t \in Tests |-> <<>>] /\ unpadded = rows
    /\ info = <<>> /\ broken = {}
    /\ \E here \in IF options.subprocess THEN {Imported} ELSE Left :
           world = [here |-> here, child |-> Imported]
    /\ file = <<>>

\* -- properties --------------------------------------------------------------
\* The kills of an assertion kept by a test, on the mutants that are counted.
Kills(lists, t) == __build_kill_map(lists, rows[t], info)

\* No assertion a filtering execution refuted, by a failure or by an error,
\* is left: the removal addresses assertions by their place in a list it is
\* shortening (assertiongenerator.py, __remove_non_holding_assertions).
RefutedIsGone ==
    \A b \in broken : b[3] \notin ToSet(asserts[b[1]][b[2]])

\* Every checked mutant is counted in exactly one class, and in the same one
\* whether the tests after a timeout were executed or given up
\* (assertiongenerator.py, _abort_after_first_timeout: what follows the first
\* timeout is wasted).
AbortLosesNothing ==
    phase \in {"summary", "done"} /\ options.generator # "simple" =>
        LET full == __compute_mutation_summary(unpadded)
        IN  /\ \A f \in {<<get_killed(info), get_killed(full)>>,
                          <<get_survived(info), get_survived(full)>>,
                          <<get_timeout(info), get_timeout(full)>>} : f[1] = f[2]
            /\ Cardinality(get_killed(info)) + Cardinality(get_survived(info))
                  + Cardinality(get_timeout(info)) = Len(info)

\* Minimising loses no mutant a value assertion of the test killed, and what
\* it keeps is needed: the other assertions of the test kill fewer mutants
\* (assertiongenerator.py, _select_minimal_assertions).
KeptKillTheSame ==
    phase = "done" /\ options.generator # "simple" =>
        \A t \in Tests :
            LET old == Kills(before[t], t)
                all == UNION {old[k] : k \in DOMAIN old}
                kept == {k \in DOMAIN old : before[t][k[1]][k[2]] \in ToSet(asserts[t][k[1]])}
            IN  /\ UNION {old[k] : k \in kept} = all
                /\ options.minimise => \A k \in kept : UNION {old[j] : j \in kept \ {k}} # all

\* Where the observed execution is what happens again, an assertion says of
\* every watched reference what a binding statement changed, as far as the
\* length allows (assertiongenerator.py, _add_assertions_for).
ChangeIsAsserted ==
    phase = "filter" /\ todo = Tests =>
        \A t \in Tests :
            LET steps == _execute_test_case(suite[t], "none", 0, Imported).steps
                follows(p, q) == /\ q < p /\ Binds(suite[t][q]) /\ Binds(suite[t][p])
                                 /\ steps[p].exc = 0
                                 /\ \A r \in (q + 1)..(p - 1) : ~Binds(suite[t][r])
                free == /\ {"luck", "once"} \cap ToSet(suite[t]) = {}
                        /\ size_with_assertions(asserts[t]) < MaxLength
            IN  free => \A p, q \in DOMAIN steps : follows(p, q) =>
                    \A i \in DOMAIN steps[q].ns.objects :
                        LET now == steps[p].ns.objects[i]
                        IN  now # steps[q].ns.objects[i] =>
                                Assertion("field", i, now) \in ToSet(asserts[t][p])

\* A mutant counted as killed behaves, in some test, unlike the module the tests
\* were generated from: "check if we had a violated assertion", "Execution with
\* assertions should not raise exceptions" (assertiongenerator.py:572, 583).
KilledIsDetected ==
    \A m \in get_killed(info) : \E t \in Tests :
        \/ rows[t][m].violated # {}
        \/ rows[t][m].exceptions /\ ~has_test_exceptions(execute_multiple("none", 0)[t])

\* Running a function of the file: it fails, and stops, at the first statement
\* that raises unwrapped, does not raise wrapped, or has an assertion that does
\* not hold; a name that is not imported is an error.
RunFunction(fn, imports, module) ==
    LET wrapped(p) == p \in DOMAIN fn.wrapped
        known(e) == e \notin Foreign \/ e \in imports.types
        outcome == OneByOne(fn.test, module)
        approx(a) == a.kind \in {"value", "field"} /\ FloatReads
        holds(a, p) == /\ a.kind # "type" => _resolve_source(a, outcome[p].ns) = a.value
                       /\ approx(a) => imports.pytest
        wrong == {p \in DOMAIN fn.test :
            \/ ~wrapped(p) /\ outcome[p].exc # 0
            \/ wrapped(p) /\ ~(imports.pytest /\ known(fn.wrapped[p])
                                 /\ outcome[p].exc = fn.wrapped[p])
            \/ \E k \in DOMAIN fn.asserts[p] : ~holds(fn.asserts[p][k], p)}
        last == IF wrong = {} THEN Len(fn.test) ELSE Min(wrong)
    IN  [fails |-> wrong # {}, module |-> Module(outcome[last].ns)]

\* Running the file: it imports the module once, for all its functions.
RunFile(written) ==
    LET run[t \in Tests] == RunFunction(written.functions[t], written,
                                        IF t = 1 THEN Imported ELSE run[t - 1].module)
    IN  run

\* A written test is marked as it behaves: unmarked it passes, and marked
\* xfail(strict=True) it fails.  A test whose outcome is left to chance, or
\* whose assertions nobody checked, is left out.
Agrees(written, t) ==
    "luck" \notin ToSet(suite[t]) /\ options.generator # "llm" =>
        (RunFile(written)[t].fails <=> written.functions[t].xfail)

\* The function looks at state of the module that outlives a test: a statement
\* depends on it, or an assertion is about it.
LooksAtTheModule(fn) ==
    \/ "once" \in ToSet(fn.test)
    \/ \E p \in DOMAIN fn.asserts : \E k \in DOMAIN fn.asserts[p] :
           fn.asserts[p][k].kind \in {"module", "class"}

\* Every written test behaves as it is marked, whatever tests have run before
\* it here or in the file, unless it looks at state that outlives a test
\* (export.py, write and _build_test_function).
WrittenAsItBehaves ==
    \A i \in DOMAIN file : \A t \in Tests :
        ~LooksAtTheModule(file[i].functions[t]) => Agrees(file[i], t)

\* One that does is marked and asserted as this process has left the module,
\* and meets in the file what the tests before it there have left: what the
\* code does not keep.
WrittenStateAgrees == \A i \in DOMAIN file : \A t \in Tests : Agrees(file[i], t)
=============================================================================
