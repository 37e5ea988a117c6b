--------------------------- MODULE SubprocessExecutor ---------------------------
(***************************************************************************)
(* The subprocess test-case executor (pynguin/testcase/                    *)
(* subprocess_executor.py, class SubprocessTestCaseExecutor): a batch of   *)
(* test cases is executed in one child process, whose results come back    *)
(* through a pipe.  If they do not come back, the child is killed and      *)
(* every test case of the batch is executed in a child of its own, so that *)
(* a test case which crashes the process costs only its own result.        *)
(*                                                                         *)
(* The child runs the threaded executor (module TestExecutor).  What each  *)
(* test case does to the child is chosen once and for all.                 *)
(***************************************************************************)
EXTENDS Naturals, FiniteSets

CONSTANT
    NumTests    \* the test cases given to execute_multiple

ASSUME BatchAssumption == NumTests \in Nat \ {0}

Tests == 1..NumTests

\* A test case ends, yields no result whatever time it has (it never ends, or loses its
\* result by itself), brings the process down with a signal, or leaves something in its
\* result that cannot be sent.
Behaviours == {"passes", "hangs", "crashes", "spoils"}

VARIABLES
    behaviour,      \* what each test case does
    parent,         \* where execute_multiple stands
    batch,          \* the test cases of the current child
    queue,          \* the test cases the fallback has still to execute
    results,        \* the results of the test cases
    before, after,  \* how often the observers were told of each test case
    saved,          \* the test cases saved as crashing
    traced,         \* the main thread's tracer is enabled
    child,          \* the state of the current child process
    exit,           \* how it has ended
    done,           \* the results it has collected
    pipe,           \* what its end of the pipe holds
    hurried         \* ghost: test cases that a timeout has cut off though they may end

parentVars == <<parent, batch, queue, results, before, after, saved, traced>>
childVars == <<child, exit, done, pipe>>
vars == <<behaviour, parentVars, childVars, hurried>>

\* The child has closed its end of the pipe; its exit code may not be known yet.
Closed == child \in {"gone", "dead"}
Alive == child \in {"running", "ending"}

First(t, S) == t \in S /\ \A u \in S : t <= u

--------------------------------------------------------------------------------
Init ==
    /\ behaviour \in [Tests -> Behaviours]
    /\ parent = "new" /\ batch = {} /\ queue = {}
    /\ results = [t \in Tests |-> "none"]
    /\ before = [t \in Tests |-> 0] /\ after = [t \in Tests |-> 0]
    /\ saved = {} /\ traced = TRUE
    /\ child = "none" /\ exit = "none"
    /\ done = [t \in Tests |-> "none"]
    /\ pipe = "empty"
    /\ hurried = {}

(* The parent.                                                              *)

\* _setup_subprocess_execution: a pipe, and a process for the test cases S.
StartChild(S) ==
    /\ batch' = S
    /\ child' = "running" /\ exit' = "none" /\ pipe' = "empty"
    /\ done' = [t \in Tests |-> "none"]
    /\ parent' = "polling"

ExecuteMultiple ==
    /\ parent = "new"
    /\ before' = [t \in Tests |-> before[t] + 1]
    /\ StartChild(Tests)
    /\ UNCHANGED <<behaviour, queue, results, after, saved, traced, hurried>>

\* poll returns: there is something to read, or the end of the file.
PollReady ==
    /\ parent = "polling" /\ (pipe = "results" \/ Closed)
    /\ parent' = "receiving"
    /\ UNCHANGED <<behaviour, batch, queue, results, before, after, saved, traced, childVars, hurried>>

\* Mutant: the timeout runs only after the test cases have been executed.
PollTimeoutLate ==
    /\ parent = "polling" /\ pipe = "empty" /\ child = "ending"
    /\ parent' = "failed"
    /\ hurried' = IF Cardinality(batch) = 1 THEN hurried \cup batch ELSE hurried
    /\ UNCHANGED <<behaviour, batch, queue, results, before, after, saved, traced, childVars>>

\* poll times out.
PollTimeout ==
    /\ parent = "polling" /\ pipe = "empty" /\ Alive
    /\ parent' = "failed"
    /\ hurried' = IF Cardinality(batch) = 1 THEN hurried \cup batch ELSE hurried
    /\ UNCHANGED <<behaviour, batch, queue, results, before, after, saved, traced, childVars>>

Receive ==
    /\ parent = "receiving" /\ pipe = "results"
    /\ results' = [t \in Tests |-> IF t \in batch THEN done[t] ELSE results[t]]
    /\ parent' = "joining"
    /\ UNCHANGED <<behaviour, batch, queue, before, after, saved, traced, childVars, hurried>>

\* recv raises EOFError.  The exception passes through temporarily_disable, which
\* does not enable the tracer then.
ReceiveFails ==
    /\ parent = "receiving" /\ pipe = "empty"
    /\ traced' = FALSE
    /\ parent' = "failed"
    /\ UNCHANGED <<behaviour, batch, queue, results, before, after, saved, childVars, hurried>>

\* Mutant: a child that does not end is left alone.
JoinOnly ==
    /\ parent = "joining"
    /\ parent' = "next"
    /\ UNCHANGED <<behaviour, batch, queue, results, before, after, saved, traced, childVars, hurried>>

\* join has ended or timed out, and a process without an exit code is killed.
Join ==
    /\ parent = "joining"
    /\ child' = "dead"
    /\ parent' = "next"
    /\ UNCHANGED <<behaviour, batch, queue, results, before, after, saved, traced,
                   exit, done, pipe, hurried>>

\* The results of a single test case are lost: it counts as timed out.  A process
\* with the exit code of a signal has crashed, and its test case is saved, and
\* minimised by executing parts of it, whose crashes disable the tracer too.
FallbackSingle ==
    /\ parent = "failed" /\ Cardinality(batch) = 1
    /\ results' = [t \in Tests |-> IF t \in batch THEN "timeout" ELSE results[t]]
    /\ IF child = "dead" /\ exit = "signal"
       THEN saved' = saved \cup batch /\ traced' \in {traced, FALSE}
       ELSE UNCHANGED <<saved, traced>>
    /\ child' = "dead"
    /\ parent' = "next"
    /\ UNCHANGED <<behaviour, batch, queue, before, after, exit, done, pipe, hurried>>

\* Mutant: all test cases of the batch count as timed out.
FallbackMultipleAtOnce ==
    /\ parent = "failed" /\ Cardinality(batch) # 1
    /\ results' = [t \in Tests |-> IF t \in batch THEN "timeout" ELSE results[t]]
    /\ child' = "dead"
    /\ parent' = "next"
    /\ UNCHANGED <<behaviour, batch, queue, before, after, saved, traced, exit, done, pipe, hurried>>

\* Mutant: the test case the child was started for first is not repeated.
FallbackMultipleRest ==
    /\ parent = "failed" /\ Cardinality(batch) # 1
    /\ queue' = {t \in batch : ~ First(t, batch)}
    /\ child' = "dead"
    /\ parent' = "next"
    /\ UNCHANGED <<behaviour, batch, results, before, after, saved, traced, exit, done, pipe, hurried>>

\* The results of several test cases are lost: each is executed on its own.
FallbackMultiple ==
    /\ parent = "failed" /\ Cardinality(batch) # 1
    /\ queue' = batch
    /\ child' = "dead"
    /\ parent' = "next"
    /\ UNCHANGED <<behaviour, batch, results, before, after, saved, traced, exit, done, pipe, hurried>>

\* Mutant: the test case is executed by this executor, with its observers.
ExecuteNextObserved ==
    /\ parent = "next"
    /\ \E t \in queue :
        /\ First(t, queue)
        /\ queue' = queue \ {t}
        /\ StartChild({t})
        /\ before' = [before EXCEPT ![t] = @ + 1]
    /\ UNCHANGED <<behaviour, results, after, saved, traced, hurried>>

\* Another executor, without observers, executes the next test case in a child.
ExecuteNext ==
    /\ parent = "next"
    /\ \E t \in queue :
        /\ First(t, queue)
        /\ queue' = queue \ {t}
        /\ StartChild({t})
    /\ UNCHANGED <<behaviour, results, before, after, saved, traced, hurried>>

\* The observers are told of the results.
Return ==
    /\ parent = "next" /\ queue = {}
    /\ after' = [t \in Tests |-> after[t] + 1]
    /\ parent' = "returned"
    /\ UNCHANGED <<behaviour, batch, queue, results, before, saved, traced, childVars, hurried>>

Parent ==
    \/ ExecuteMultiple \/ PollReady \/ PollTimeout \/ Receive \/ ReceiveFails \/ Join
    \/ FallbackSingle \/ FallbackMultiple \/ ExecuteNext \/ Return

--------------------------------------------------------------------------------
(* The child.                                                               *)

Pending == {t \in batch : done[t] = "none"}

\* The next test case and what its execution by the threaded executor yields.
Collect(t, r) ==
    /\ child = "running" /\ First(t, Pending)
    /\ done' = [done EXCEPT ![t] = r]
    /\ UNCHANGED <<behaviour, parentVars, child, exit, pipe>>

RunTest(t) ==
    /\ behaviour[t] \in {"passes", "spoils"}
    /\ Collect(t, "result")
    /\ UNCHANGED hurried

\* The threaded executor gives the test case up, which never would have ended ...
RunHangs(t) ==
    /\ behaviour[t] = "hangs"
    /\ Collect(t, "timeout")
    /\ UNCHANGED hurried

\* ... or would have.
RunHurried(t) ==
    /\ behaviour[t] \in {"passes", "spoils"}
    /\ Collect(t, "timeout")
    /\ hurried' = hurried \cup {t}

\* The threaded executor has given the test case up and may have left its thread behind.
GivenUp(t) == done[t] = "timeout" /\ (behaviour[t] = "hangs" \/ t \in hurried)

\* The thread left behind by a test case before this one stops the tracer under it, and
\* it loses its result (LossExplained of TestExecutor).
RunDisturbed(t) ==
    /\ \E u \in batch : u < t /\ GivenUp(u)
    /\ Collect(t, "timeout")
    /\ UNCHANGED hurried

RunCrashes(t) ==
    /\ child = "running" /\ First(t, Pending)
    /\ behaviour[t] = "crashes"
    /\ child' = "gone" /\ exit' = "signal"
    /\ UNCHANGED <<behaviour, parentVars, done, pipe, hurried>>

\* All test cases are executed; what spoils a result is found when it is pickled,
\* and the exception is suppressed.
Send ==
    /\ child = "running" /\ Pending = {}
    /\ pipe' = IF \E t \in batch : behaviour[t] = "spoils" /\ done[t] = "result"
               THEN "empty" ELSE "results"
    /\ child' = "ending"
    /\ UNCHANGED <<behaviour, parentVars, exit, done, hurried>>

\* The process ends by itself, or crashes while it ends.
EndChild ==
    /\ child = "ending"
    /\ child' = "gone" /\ exit' \in {"normal", "signal"}
    /\ UNCHANGED <<behaviour, parentVars, done, pipe, hurried>>

\* From now on the parent finds an exit code.
ReapChild ==
    /\ child = "gone"
    /\ child' = "dead"
    /\ UNCHANGED <<behaviour, parentVars, exit, done, pipe, hurried>>

Child ==
    \/ \E t \in batch :
        RunTest(t) \/ RunHangs(t) \/ RunHurried(t) \/ RunDisturbed(t) \/ RunCrashes(t)
    \/ Send \/ EndChild \/ ReapChild

Terminated == parent = "returned" /\ UNCHANGED vars

Next == Parent \/ Child \/ Terminated

Spec == Init /\ [][Next]_vars

\* poll and join have timeouts, so the parent always goes on; the child need not.
FairSpec == Spec /\ WF_vars(Parent)

--------------------------------------------------------------------------------
TypeOK ==
    /\ behaviour \in [Tests -> Behaviours]
    /\ parent \in {"new", "polling", "receiving", "joining", "failed", "next", "returned"}
    /\ batch \subseteq Tests /\ queue \subseteq Tests
    /\ results \in [Tests -> {"none", "result", "timeout"}]
    /\ before \in [Tests -> Nat] /\ after \in [Tests -> Nat]
    /\ saved \subseteq Tests
    /\ traced \in BOOLEAN
    /\ child \in {"none", "running", "ending", "gone", "dead"}
    /\ exit \in {"none", "normal", "signal"}
    /\ done \in [Tests -> {"none", "result", "timeout"}]
    /\ pipe \in {"empty", "results"}
    /\ hurried \subseteq Tests

\* A crash or a spoilt result is never blamed on another test case: one that passes has a
\* result and is not saved as crashing, unless it was cut off itself, or shared its child
\* with a test case before it that was given up.  That one may cost it its result, and
\* such a result is not repeated; but one that has been executed in a child of its own
\* answers for nothing but itself (subprocess_executor.py:365-424).
OnlyCulpritsBlamed ==
    \A t \in Tests :
        (results[t] = "timeout" \/ t \in saved) /\ behaviour[t] = "passes" =>
            \/ t \in hurried
            \/ t \notin saved /\ batch = Tests /\ \E u \in Tests : u < t /\ GivenUp(u)

\* Without the exception: a passing test case that was not cut off itself has a result.
NobodyElseBlamed ==
    \A t \in Tests :
        (results[t] = "timeout" \/ t \in saved) /\ behaviour[t] = "passes" => t \in hurried

\* Every test case has a result when execute_multiple returns.
AllAnswered == parent = "returned" => \A t \in Tests : results[t] # "none"

\* The observers hear of every test case once before and once after it, however
\* often it was executed.
ObservedOnce ==
    \A t \in Tests :
        /\ before[t] <= 1 /\ after[t] <= before[t]
        /\ parent = "returned" => after[t] = 1

\* No child runs when execute_multiple returns, or starts another one.
NoChildLeft == parent \in {"next", "returned"} => ~ Alive

\* However often a test case is executed: it has one answer in the end, its observers
\* hear of it once, and no child outlives its execution (subprocess_executor.py:351-420).
AnsweredOnce == AllAnswered /\ ObservedOnce /\ NoChildLeft

\* execute_multiple returns.
Returns == <>(parent = "returned")

\* The tracer is disabled only while the results are unpickled.
TracerEnabledAgain == parent # "receiving" => traced
================================================================================
