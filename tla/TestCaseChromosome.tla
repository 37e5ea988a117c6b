---------------------------- MODULE TestCaseChromosome ---------------------------
(***************************************************************************)
(* A test-case chromosome under the operators of the search                *)
(* (pynguin/ga/testcasechromosome.py, ga/operators/mutation.py and         *)
(* crossover.py, ga/testcasefactory.py): it is built from random calls,    *)
(* executed, mutated in place, crossed with a kept test case.  The flag    *)
(* `changed` tells the rest of the program that the result of the last     *)
(* execution, and every value computed from it, is out of date.            *)
(***************************************************************************)
EXTENDS TestFactory

CONSTANTS
    Offers,             \* the sets of accessibles a cluster can offer to call
    ChromosomeLength,   \* search_algorithm.chromosome_length
    Chop,               \* search_algorithm.chop_max_length
    Mates,              \* test cases of other members of the population
    MaxNames            \* bound, per set of accessibles: variables named in a test case

\* The other members of a population are what this one is (WellFormed).
ASSUME PopulationAssumption ==
    /\ Offers \subseteq SUBSET Accessibles
    /\ \A m \in Mates : m \in TestCases /\ DefinedBeforeUse(m) /\ NamesUnique(m)

VARIABLES
    offered,    \* accessible_objects_under_test
    tc,         \* _test_case
    changed,    \* changed
    thrown,     \* first position of an exception in the last result, 0 if none
    phase,      \* where mutate() stands
    backup,     \* its copy of the test case
    at,         \* the position its loop has reached
    last,       \* last_mutatable_statement of its loop
    told,       \* its local flag `changed`
    rescued     \* ghost: the fallback has inserted something

local == <<backup, at, last, told>>
vars == <<offered, tc, changed, thrown, phase, local, rescued>>

Small(t) == t.counter <= MaxNames[offered]

\* get_last_mutatable_statement: the one that raised, if there is such a position
LastMutatable(t) == IF thrown \in 1..size(t) THEN thrown ELSE size(t)

Init ==
    /\ offered \in Offers /\ tc = EmptyTestCase
    /\ changed = TRUE /\ thrown = 0 /\ phase = "build"
    /\ backup = EmptyTestCase
    /\ at = 0 /\ last = 0 /\ told = FALSE
    /\ rescued = FALSE

\* RandomLengthTestCaseFactory.get_test_case
Build ==
    /\ phase = "build" /\ size(tc) < ChromosomeLength
    /\ \E o \in InsertRandomStatement(tc, size(tc) + 1, offered) : Small(o.tc) /\ tc' = o.tc
    /\ UNCHANGED <<offered, changed, thrown, phase, local, rescued>>

BuildEnds ==
    /\ phase = "build" /\ size(tc) > 0
    /\ phase' = "idle"
    /\ UNCHANGED <<offered, tc, changed, thrown, local, rescued>>

\* A computation runs the test case if it has changed, and sets its result.
Execute ==
    /\ phase = "idle" /\ changed
    /\ changed' = FALSE
    /\ thrown' \in {0} \cup DOMAIN tc.stmts
    /\ UNCHANGED <<offered, tc, phase, local, rescued>>

--------------------------------------------------------------------------------
(* TestCaseMutation.mutate                                                  *)

Chopped == IF Chop /\ size(tc) >= ChromosomeLength THEN chop(tc, LastMutatable(tc)) ELSE tc

BeginMutate ==
    /\ phase = "idle"
    /\ tc' = Chopped /\ backup' = Chopped
    /\ told' = (Chop /\ size(tc) >= ChromosomeLength)
    /\ phase' = "delete" /\ at' = LastMutatable(Chopped)
    /\ UNCHANGED <<offered, changed, thrown, last, rescued>>

\* _mutation_delete: from the last mutatable statement backwards
Delete ==
    /\ phase = "delete" /\ at > 0
    /\ \/ at <= size(tc) /\ tc' = DeleteGracefully(tc, at) /\ told' = TRUE
       \/ UNCHANGED <<tc, told>>
    /\ at' = at - 1
    /\ UNCHANGED <<offered, changed, thrown, phase, backup, last, rescued>>

DeleteEnds ==
    /\ phase = "delete" /\ at = 0
    /\ phase' = "change" /\ at' = 1 /\ last' = LastMutatable(tc)
    /\ UNCHANGED <<offered, tc, changed, thrown, backup, told, rescued>>

\* _mutate_statement: another type, or else what fits the kind of the statement.
\* A field becomes another field, or else its receiver changes; a call gets new
\* arguments, or else becomes another call.
MutateStatement(t, i) ==
    LET call == t.stmts[i].call
        isField == call # None /\ Kind[call] = "field"
        undone(S) == {o.tc : o \in {p \in S : ~ p.done}}
        retyped == ChangeStatementType(t, i, offered) \cup NotDone({t})
        again == UNION {IF call = None THEN MutateValue(u, i)
                        ELSE IF isField THEN ChangeRandomField(u, i) ELSE MutateCall(u, i) : u \in undone(retyped)}
        anew == IF call = None THEN NotDone(undone(again))
                ELSE UNION {IF isField THEN MutateCall(u, i) ELSE ChangeRandomCall(u, i) : u \in undone(again)}
    IN {o \in retyped \cup again : o.done} \cup anew

\* _mutation_change: the bound of the loop is the one of its start.
Change ==
    /\ phase = "change" /\ at <= last /\ at <= size(tc)
    /\ \/ /\ tc.stmts[at].var # None
          /\ \E o \in MutateStatement(tc, at) :
                Small(o.tc) /\ tc' = o.tc /\ told' = (told \/ o.done)
       \/ UNCHANGED <<tc, told>>
    /\ at' = at + 1
    /\ UNCHANGED <<offered, changed, thrown, phase, backup, last, rescued>>

ChangeEnds ==
    /\ phase = "change" /\ (at > last \/ at > size(tc))
    /\ phase' = "insert"
    /\ UNCHANGED <<offered, tc, changed, thrown, local, rescued>>

\* The outcomes of one turn of _mutation_insert
Inserted == InsertRandomStatement(tc, LastMutatable(tc) + 1, offered)

Insert ==
    /\ phase = "insert" /\ size(tc) < ChromosomeLength
    /\ \E o \in Inserted : Small(o.tc) /\ tc' = o.tc /\ told' = (told \/ o.done)
    /\ UNCHANGED <<offered, changed, thrown, phase, backup, at, last, rescued>>

\* The test case still calls what is under test.
MutateEnds ==
    /\ phase = "insert" /\ has_call_on_sut(tc, offered)
    /\ phase' = "mutated" /\ changed' = (changed \/ told)
    /\ UNCHANGED <<offered, tc, thrown, local, rescued>>

\* Mutant: the test case is left without a call.
KeepWithoutCall ==
    /\ phase = "insert" /\ ~ has_call_on_sut(tc, offered)
    /\ phase' = "fallback"
    /\ UNCHANGED <<offered, tc, changed, thrown, local, rescued>>

\* It does not: back to the copy.
Restore ==
    /\ phase = "insert" /\ ~ has_call_on_sut(tc, offered)
    /\ phase' = "fallback" /\ tc' = backup
    /\ UNCHANGED <<offered, changed, thrown, local, rescued>>

\* _mutation_insert again; nobody looks at its answer.
InsertAgain ==
    /\ phase = "fallback" /\ size(tc) < ChromosomeLength
    /\ \E o \in Inserted : Small(o.tc) /\ tc' = o.tc /\ rescued' = (rescued \/ o.done)
    /\ UNCHANGED <<offered, changed, thrown, phase, local>>

FallbackEnds ==
    /\ phase = "fallback"
    /\ phase' = "mutated" /\ changed' = (changed \/ told)
    /\ UNCHANGED <<offered, tc, thrown, local, rescued>>

Mutated ==
    /\ phase = "mutated"
    /\ phase' = "idle"
    /\ backup' = EmptyTestCase /\ at' = 0 /\ last' = 0 /\ told' = FALSE /\ rescued' = FALSE
    /\ UNCHANGED <<offered, tc, changed, thrown>>

--------------------------------------------------------------------------------
\* The pairs of split points of SinglePointRelativeCrossOver: one relative
\* position for both parents, on a grid that separates all pairs.
SplitPoints(m, n) ==
    {<<k \div (n - 1) + 1, k \div (m - 1) + 1>> : k \in 0..((m - 1) * (n - 1) - 1)}

\* splice_test_case_chromosomes: the head of this parent, the tail of the other
CrossOver ==
    /\ phase = "idle"
    /\ \E mate \in {m \in Mates : size(m) >= 2 /\ size(tc) >= 2} :
        \E p \in SplitPoints(size(tc), size(mate)) :
            \E offspring \in append_test_case_from(chop(tc, p[1]), mate, p[2] + 1) :
                /\ Small(offspring) /\ size(offspring) < ChromosomeLength
                /\ tc' = offspring
    /\ changed' = TRUE
    /\ UNCHANGED <<offered, thrown, phase, local, rescued>>

\* RandomAlgorithm.generate_sequence: copies of test cases and one more call
GenerateSequence ==
    /\ phase = "idle"
    /\ \E mate \in Mates, t \in append_test_case_from(EmptyTestCase, tc, 1) :
        \E u \in append_test_case_from(t, mate, 1) :
            /\ Small(u)
            /\ \E o \in InsertRandomStatement(u, size(u) + 1, offered) : Small(o.tc) /\ tc' = o.tc
    /\ changed' = TRUE
    /\ UNCHANGED <<offered, thrown, phase, local, rescued>>

Next ==
    \/ Build \/ BuildEnds \/ Execute
    \/ BeginMutate \/ Delete \/ DeleteEnds \/ Change \/ ChangeEnds \/ Insert
    \/ MutateEnds \/ Restore \/ InsertAgain \/ FallbackEnds \/ Mutated
    \/ CrossOver \/ GenerateSequence

Spec == Init /\ [][Next]_vars

--------------------------------------------------------------------------------
\* Whatever is inserted, deleted, replaced or spliced, in every intermediate state
\* too: a statement reads only variables that earlier statements bind, and no
\* name is bound twice (the test case would otherwise fail with a NameError, or
\* a later binding would silently replace the value).
WellFormed == DefinedBeforeUse(tc) /\ NamesUnique(tc)

\* The operators report what they do: as long as none has told of a change, the
\* test case is the one that mutate() has begun with; and unless the fallback has
\* inserted something, the flag is set when mutate() returns with another one.
ChangeIsTold ==
    /\ phase \in {"delete", "change", "insert"} /\ ~ told => tc = backup
    /\ phase = "mutated" /\ ~ changed /\ ~ rescued => tc = backup

\* A test case that calls what is under test does not lose that in a mutation.
SutCallKept == phase = "mutated" /\ has_call_on_sut(backup, offered) => has_call_on_sut(tc, offered)

\* What computation_cache.py:127 takes an unset flag for: "The individual has not
\* changed"
UnflaggedIsUnchanged == phase = "mutated" /\ ~ changed => tc = backup
================================================================================
