------------------------------- MODULE LocalSearch ------------------------------
(***************************************************************************)
(* The local search on a test case (pynguin/testcase/localsearch.py,       *)
(* localsearchstatement.py, localsearchobjective.py): statement by         *)
(* statement values are changed in place, the test suite is executed, and  *)
(* a change that does not help is undone.                                  *)
(*                                                                         *)
(* What is undone are four fields of two objects: the statements of the    *)
(* test case, the result of its last execution, its flag `changed`, and    *)
(* the fitness that the suite has cached.  The strategies differ in when   *)
(* they take snapshots, when they restore them and when they look at the   *)
(* clock; values and fitness are kept abstract.                            *)
(***************************************************************************)
EXTENDS Naturals

CONSTANTS
    NumStatements,  \* the length of the test case
    Values,         \* the values of a statement
    Landscapes,     \* fitness functions: what an execution of a test case yields
    MaxTries,       \* bound: unsuccessful tries of a strategy, and rounds of rounding
    Generations     \* bound: how often the local search is called

Positions == 1..NumStatements
Contents == [Positions -> Values]

ASSUME LocalAssumption ==
    /\ NumStatements \in Nat \ {0}
    /\ Landscapes \subseteq [Contents -> Nat]
    /\ MaxTries \in Nat \ {0} /\ Generations \in Nat \ {0}

\* The types local search marks and randomises, and the other ones it knows.
Primitive == {"boolean", "integer", "float", "string", "bytes"}
Kinds == Primitive \cup {"other", "call"}

VARIABLES
    fitness,        \* the landscape
    content,        \* the statements of the test case
    result,         \* the content that the last execution result stems from
    changed,        \* the flag of the chromosome
    applied,        \* the statements with local_search_applied
    stored,         \* the archive's test case, from which this one is cloned
    cached,         \* the fitness the suite has cached
    latest,         \* the objective's latest fitness
    position,       \* the statement under search; 0: all are done
    doing,          \* what the search does with it
    kind,           \* and what kind of statement it is
    snapshot,       \* content, result and changed at the last _snapshot
    tries,          \* unsuccessful tries
    rounds,         \* rounds of rounding
    gain,           \* the running iterate() has improved the fitness
    improved,       \* the running iterate_directions() has
    timeUp,         \* limit_reached()
    generation

testVars == <<content, result, changed>>
clockVars == <<timeUp, generation>>
loopVars == <<tries, rounds, gain, improved>>
localVars == <<fitness, testVars, applied, stored, cached, latest, position, doing, kind,
          snapshot, loopVars, clockVars>>

\* Once the budget is used up it stays so.
Later == IF timeUp THEN {TRUE} ELSE BOOLEAN

Current == [content |-> content, result |-> result, changed |-> changed]

\* The content with another value at the statement under search.
Neighbours == {[content EXCEPT ![position] = v] : v \in Values \ {content[position]}}

--------------------------------------------------------------------------------
(* The objective.                                                           *)

Better(c) == fitness[c] < cached
Worse(c) == fitness[c] > cached

\* Mutant: the values of the suite are not set back.
HasChangedForgotten(c) ==
    /\ latest' = IF Better(c) THEN fitness[c] ELSE latest
    /\ cached' = fitness[c]

\* has_changed: the suite is executed with the new content of the test case.  An
\* improvement is remembered, and after a deterioration the suite gets back the
\* values remembered.
HasChanged(c) ==
    /\ latest' = IF Better(c) THEN fitness[c] ELSE latest
    /\ cached' = IF Worse(c) THEN latest ELSE fitness[c]

\* The execution stands, and is the new snapshot.
Keep(c, flag) ==
    /\ content' = c /\ result' = c /\ changed' = flag
    /\ snapshot' = [content |-> c, result |-> c, changed |-> flag]

\* Mutant: the statement alone is restored, and the last execution was that of c.
RestoreStatement(c) ==
    /\ content' = snapshot.content
    /\ result' = c /\ changed' = FALSE
    /\ UNCHANGED snapshot

\* _restore, when c was tried: all that the execution of c left is replaced.
Restore(c) ==
    /\ content' = snapshot.content
    /\ result' = snapshot.result
    /\ changed' = snapshot.changed
    /\ UNCHANGED snapshot

--------------------------------------------------------------------------------
\* A suite of clones is made and executed, and an objective takes its values.
StartOn(s) ==
    /\ content' = s.content
    /\ result' = IF s.changed THEN s.content ELSE s.result
    /\ changed' = FALSE
    /\ cached' = fitness[result'] /\ latest' = fitness[result']
    /\ position' = NumStatements /\ doing' = "between"

LocalInit ==
    /\ fitness \in Landscapes
    /\ \E c \in Contents :
        /\ content = c /\ result = c
        /\ stored = [content |-> c, result |-> c, changed |-> FALSE]
        /\ cached = fitness[c] /\ latest = fitness[c]
        /\ snapshot = stored
    /\ changed = FALSE /\ applied = {}
    /\ position = NumStatements
    /\ doing = "between" /\ kind = "other"
    /\ tries = 0 /\ rounds = 0 /\ gain = FALSE /\ improved = FALSE
    /\ timeUp = FALSE /\ generation = 1

\* Mutant: the loop goes past the first statement.
SkipPast ==
    /\ doing = "between" /\ ~ timeUp
    /\ position' = position - 1
    /\ UNCHANGED <<fitness, testVars, applied, stored, cached, latest, doing, kind,
                   snapshot, loopVars, clockVars>>

\* The statement is not chosen, or no strategy fits it.
Skip ==
    /\ doing = "between" /\ position > 0 /\ ~ timeUp
    /\ position' = position - 1
    /\ UNCHANGED <<fitness, testVars, applied, stored, cached, latest, doing, kind,
                   snapshot, loopVars, clockVars>>

FirstPhase(k) ==
    IF k \in {"integer", "float"} THEN "climb"
    ELSE IF k \in {"string", "bytes"} THEN "probe" ELSE "try"

Afresh == tries' = 0 /\ rounds' = 0 /\ gain' = FALSE /\ improved' = FALSE

\* _search_same_datatype: a statement that was searched before is randomised first.
\* The flag of the chromosome does not change.
StartSame(k) ==
    /\ doing \in {"between", "retyped"} /\ position > 0
    /\ doing = "between" => ~ timeUp
    /\ content' \in IF k \in Primitive /\ position \in applied
                    THEN Neighbours \cup {content} ELSE {content}
    /\ snapshot' = [Current EXCEPT !.content = content']
    /\ kind' = k /\ doing' = FirstPhase(k) /\ Afresh
    /\ UNCHANGED <<fitness, result, changed, applied, stored, cached, latest, position, clockVars>>

\* _search_different_datatype
StartDifferent ==
    /\ doing = "between" /\ position > 0 /\ ~ timeUp
    /\ snapshot' = Current
    /\ doing' = "retype" /\ Afresh
    /\ UNCHANGED <<fitness, testVars, applied, stored, cached, latest, position, kind, clockVars>>

\* The search of a statement has ended.
Leave ==
    /\ doing = "ended"
    /\ applied' = IF kind \in Primitive THEN applied \cup {position} ELSE applied
    /\ position' = position - 1
    /\ doing' = "between"
    /\ UNCHANGED <<fitness, testVars, stored, cached, latest, kind, snapshot, loopVars, clockVars>>

searchVars == <<fitness, applied, stored, position, kind, generation>>

--------------------------------------------------------------------------------
(* The strategies.                                                          *)

\* BooleanLocalSearch
Flip ==
    /\ doing = "try" /\ kind = "boolean"
    /\ \E c \in Neighbours :
        /\ HasChanged(c)
        /\ IF Better(c) THEN Keep(c, FALSE) ELSE Restore(c)
    /\ doing' = "ended"
    /\ UNCHANGED <<searchVars, loopVars, timeUp>>

\* Mutant: what is not worse is kept.
TryAnyway ==
    /\ doing = "try" /\ kind = "other" /\ ~ timeUp /\ tries < MaxTries
    /\ \E c \in Neighbours :
        /\ HasChanged(c)
        /\ IF tries = 0 THEN Keep(c, FALSE) ELSE Restore(c)
    /\ tries' = tries + 1
    /\ timeUp' \in Later
    /\ UNCHANGED <<searchVars, doing, rounds, gain, improved>>

\* The hill climbers for complex numbers, collections, fields and enumerations.
TryOther ==
    /\ doing = "try" /\ kind = "other" /\ ~ timeUp /\ tries < MaxTries
    /\ \E c \in Neighbours :
        /\ HasChanged(c)
        /\ IF Better(c) THEN Keep(c, FALSE) ELSE Restore(c)
        /\ tries' = IF Better(c) THEN 0 ELSE tries + 1
    /\ timeUp' \in Later
    /\ UNCHANGED <<searchVars, doing, rounds, gain, improved>>

EndTry ==
    /\ doing = "try" /\ kind \in {"other", "call"}
    /\ kind = "call" => timeUp \/ tries = MaxTries
    /\ doing' = "ended"
    /\ UNCHANGED <<searchVars, testVars, cached, latest, snapshot, loopVars, timeUp>>

\* The test case is set back to its clone and its last result; `changed` is not.
SetBack(executed) ==
    /\ content' = snapshot.content /\ result' = snapshot.result
    /\ changed' = (changed /\ ~ executed)
    /\ applied' = {}
    /\ UNCHANGED snapshot

\* ParametrizedStatementLocalSearch, _search_different_datatype: the test factory
\* changes the test case, also at other statements, or fails to.
ChangeCall ==
    /\ \/ doing = "try" /\ kind = "call"
       \/ doing = "retype"
    /\ ~ timeUp /\ tries < MaxTries
    /\ \/ \E c \in Contents :
            /\ HasChanged(c)
            /\ IF Better(c)
               THEN /\ Keep(c, FALSE) /\ UNCHANGED applied
                    /\ tries' = 0
                    /\ doing' = IF doing = "retype" THEN "retyped" ELSE doing
               ELSE SetBack(TRUE) /\ tries' = tries + 1 /\ UNCHANGED doing
       \/ SetBack(FALSE) /\ tries' = tries + 1 /\ UNCHANGED <<doing, cached, latest>>
    /\ timeUp' \in Later
    /\ UNCHANGED <<fitness, stored, position, kind, generation, rounds, gain, improved>>

EndRetype ==
    /\ doing = "retype" /\ (timeUp \/ tries = MaxTries)
    /\ position' = position - 1
    /\ doing' = "between"
    /\ UNCHANGED <<fitness, testVars, applied, stored, cached, latest, kind, snapshot,
                   loopVars, clockVars>>

\* iterate_directions looks at the clock before it tries a pair of directions.
OutOfTime == timeUp /\ tries = 0 /\ ~ gain

\* iterate: the clock is looked at after the execution, and the last change is undone
\* whether it was an improvement or not.
\* iterate_directions: a direction without gain is followed by the other one.
Climb ==
    /\ doing = "climb" /\ ~ OutOfTime
    /\ timeUp' \in Later
    /\ \E c \in Neighbours :
        /\ HasChanged(c)
        /\ IF Better(c) /\ ~ timeUp'
           THEN /\ Keep(c, FALSE)
                /\ gain' = TRUE /\ improved' = TRUE
                /\ UNCHANGED <<tries, doing>>
           ELSE /\ Restore(c)
                /\ gain' = FALSE
                /\ tries' = IF gain \/ tries = 1 THEN 0 ELSE 1
                /\ doing' = IF (gain /\ ~ timeUp') \/ (~ gain /\ tries = 0)
                            THEN "climb" ELSE "climbed"
                /\ UNCHANGED improved
    /\ UNCHANGED <<searchVars, rounds>>

\* The end of iterate_directions, and of the search for an integer.
EndClimb ==
    /\ doing = "climbed" \/ (doing = "climb" /\ OutOfTime)
    /\ changed' = (improved /\ changed)
    /\ doing' = IF kind = "float" THEN "round" ELSE "ended"
    /\ improved' = FALSE
    /\ UNCHANGED <<searchVars, content, result, cached, latest, snapshot, tries, rounds, gain, timeUp>>

\* Mutant: a rounding that makes it worse is kept.
RoundAnyway ==
    /\ doing = "round" /\ rounds < MaxTries /\ ~ timeUp
    /\ \E c \in Neighbours \cup {content} : HasChanged(c) /\ Keep(c, FALSE)
    /\ rounds' = rounds + 1
    /\ doing' = "climb"
    /\ timeUp' \in Later
    /\ UNCHANGED <<searchVars, tries, gain, improved>>

\* FloatLocalSearch: a rounding is kept unless it makes it worse.
Round ==
    /\ doing = "round" /\ rounds < MaxTries /\ ~ timeUp
    /\ \E c \in Neighbours \cup {content} :
        /\ HasChanged(c)
        /\ IF Worse(c) THEN snapshot' = Current /\ UNCHANGED testVars ELSE Keep(c, FALSE)
    /\ rounds' = rounds + 1
    /\ doing' = "climb"
    /\ timeUp' \in Later
    /\ UNCHANGED <<searchVars, tries, gain, improved>>

EndRound ==
    /\ doing = "round" /\ (rounds = MaxTries \/ timeUp)
    /\ doing' = "ended"
    /\ UNCHANGED <<searchVars, testVars, cached, latest, snapshot, loopVars, timeUp>>

\* apply_random_mutations: random values until one makes a difference.
Probe ==
    /\ doing = "probe"
    /\ \E c \in Neighbours \cup {content} :
        /\ HasChanged(c)
        /\ IF Better(c) THEN Keep(c, FALSE) ELSE Restore(c)
        /\ doing' = IF Better(c) \/ Worse(c) THEN "letters"
                    ELSE IF tries + 1 < MaxTries THEN "probe" ELSE "ended"
        /\ tries' = tries + 1
    /\ timeUp' \in Later
    /\ UNCHANGED <<searchVars, rounds, gain, improved>>

\* remove_chars, add_chars, remove_values, add_values: one letter is tried.
TryLetter ==
    /\ doing = "letters" /\ ~ timeUp
    /\ \E c \in Neighbours :
        /\ HasChanged(c)
        /\ IF Better(c) THEN Keep(c, FALSE) ELSE Restore(c)
    /\ timeUp' \in Later
    /\ UNCHANGED <<searchVars, doing, loopVars>>

\* replace_chars, replace_values, add_chars, add_values: a letter is climbed.
StartLetter ==
    /\ doing = "letters" /\ ~ timeUp
    /\ snapshot' = Current
    /\ doing' = "letter"
    /\ UNCHANGED <<searchVars, testVars, cached, latest, loopVars, timeUp>>

\* iterate_string: an improvement is kept, and the chromosome marked as changed.
\* The next letter may be out of range.
IterateString ==
    /\ doing = "letter" /\ kind = "string"
    /\ timeUp' \in Later
    /\ \E c \in Neighbours :
        /\ HasChanged(c)
        /\ IF Better(c)
           THEN Keep(c, TRUE) /\ doing' \in IF timeUp' THEN {"letters"} ELSE {"letter", "letters"}
           ELSE Restore(c) /\ doing' = "letters"
    /\ UNCHANGED <<searchVars, loopVars>>

\* _iterate_bytes looks at the clock first, like iterate.
IterateBytes ==
    /\ doing = "letter" /\ kind = "bytes"
    /\ timeUp' \in Later
    /\ \E c \in Neighbours :
        /\ HasChanged(c)
        /\ IF Better(c) /\ ~ timeUp'
           THEN Keep(c, TRUE) /\ doing' \in {"letter", "letters"}
           ELSE Restore(c) /\ doing' = "letters"
    /\ UNCHANGED <<searchVars, loopVars>>

EndLetters ==
    /\ doing = "letters"
    /\ doing' = "ended"
    /\ UNCHANGED <<searchVars, testVars, cached, latest, snapshot, loopVars, timeUp>>

--------------------------------------------------------------------------------
\* The archive may take the test case when it covers as much; a changed one is
\* executed for that.
Offer ==
    /\ doing = "between" /\ (position = 0 \/ timeUp)
    /\ result' = IF changed THEN content ELSE result
    /\ changed' = FALSE
    /\ \/ /\ fitness[result'] <= fitness[stored.result]
          /\ stored' = [content |-> content, result |-> result', changed |-> FALSE]
       \/ UNCHANGED stored
    /\ doing' = "offered"
    /\ UNCHANGED <<fitness, content, applied, cached, latest, position, kind, snapshot, loopVars, clockVars>>

\* Mutant: the mark of the statements is cloned too.
NextSearchMarked ==
    /\ doing = "offered" /\ generation < Generations
    /\ StartOn(stored)
    /\ timeUp' = FALSE /\ generation' = generation + 1
    /\ UNCHANGED <<fitness, applied, stored, kind, snapshot, loopVars>>

\* The next call of local_search, with a clone of the archive's test case.  clone
\* does not copy local_search_applied.
NextSearch ==
    /\ doing = "offered" /\ generation < Generations
    /\ StartOn(stored)
    /\ applied' = {}
    /\ timeUp' = FALSE /\ generation' = generation + 1
    /\ UNCHANGED <<fitness, stored, kind, snapshot, loopVars>>

LocalTerminated == doing = "offered" /\ generation = Generations /\ UNCHANGED localVars

Search ==
    \/ Flip \/ TryOther \/ EndTry \/ ChangeCall \/ EndRetype
    \/ Climb \/ EndClimb \/ Round \/ EndRound
    \/ Probe \/ TryLetter \/ StartLetter \/ IterateString \/ IterateBytes \/ EndLetters

LocalNext ==
    \/ Skip \/ StartDifferent \/ Leave \/ Search \/ Offer \/ NextSearch \/ LocalTerminated
    \/ \E k \in Kinds : StartSame(k)

LocalSpec == LocalInit /\ [][LocalNext]_localVars

--------------------------------------------------------------------------------
TestStates == [content : Contents, result : Contents, changed : BOOLEAN]

LocalTypeOK ==
    /\ fitness \in [Contents -> Nat]
    /\ content \in Contents /\ result \in Contents /\ changed \in BOOLEAN
    /\ applied \subseteq Positions
    /\ stored \in TestStates /\ snapshot \in TestStates
    /\ cached \in Nat /\ latest \in Nat
    /\ position \in Positions \cup {0}
    /\ doing \in {"between", "try", "retype", "retyped", "climb", "climbed", "round",
                  "probe", "letters", "letter", "ended", "offered"}
    /\ kind \in Kinds
    /\ tries \in 0..MaxTries \cup {1} /\ rounds \in 0..MaxTries
    /\ gain \in BOOLEAN /\ improved \in BOOLEAN
    /\ timeUp \in BOOLEAN /\ generation \in 1..Generations

\* A test case that is not marked as changed has the result of its own statements:
\* the fitness and the coverage of everything that is built on it come from this
\* result, without another execution.
ResultIsCurrent == ~ changed => result = content

\* The search of a statement leaves a test case that is no worse than the one the
\* search was started with.
NeverWorse == doing = "between" => fitness[content] <= fitness[stored.content]

\* As long as there is time, between two statements the values of the suite and of the
\* objective are those of the test case as it now is: the next change is compared
\* with them.  (An iterate() that the clock has cut off leaves better ones.)
FitnessIsCurrent ==
    doing = "between" /\ ~ timeUp => cached = fitness[content] /\ latest = fitness[content]

\* After a try that does not help everything is set back: an unmarked test case has
\* the result of its own statements, the values of suite and objective are those of
\* the test case, and no statement's search leaves it worse (localsearchstatement.py).
EverythingIsSetBack == LocalTypeOK /\ ResultIsCurrent /\ NeverWorse /\ FitnessIsCurrent

\* The docstring of iterate(): it returns True if at least one of its iterations
\* has improved the fitness; iterate_directions() then knows of it.
ImprovementReported == [][doing = "climb" /\ latest' < latest => improved']_localVars
================================================================================
