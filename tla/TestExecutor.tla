------------------------------ MODULE TestExecutor ------------------------------
(***************************************************************************)
(* The threaded test-case executor (pynguin/testcase/execution.py, class   *)
(* TestCaseExecutor): each test case runs in a thread of its own, which    *)
(* the main thread gives up on after a timeout.  The threads share the     *)
(* execution tracer (pynguin/instrumentation/tracer.py, ExecutionTracer),  *)
(* whose _current_thread_identifier says who may go on running, the        *)
(* process' stdout (OutputSuppressionContext), and the patched functions   *)
(* of the file system (FilesystemIsolation).                               *)
(*                                                                         *)
(* Threads can only be asked to stop: a thread notices at its next call of *)
(* ExecutionTracer.check, and one that does not outlives the execution it  *)
(* belongs to.  A test case is identified with the thread that runs it.    *)
(***************************************************************************)
EXTENDS Naturals, FiniteSets

CONSTANTS
    NumTests,       \* test cases to execute one after the other
    NumStatements   \* statements of each of them

ASSUME ExecutorAssumption == NumTests \in Nat \ {0} /\ NumStatements \in Nat

Tests == 1..NumTests
None == 0           \* no thread, or the unpatched functions

VARIABLES
    main,           \* where execute() stands
    test,           \* the test case execute() was last called with
    results,        \* what execute() returned for each test case
    pc,             \* where each thread stands
    left,           \* the statements each thread has not begun
    outcome,        \* what each thread is going to put into its queue
    owner,          \* _current_thread_identifier
    enabled,        \* the thread-local flag of the tracer
    silenced,       \* sys.stdout is the null file
    restored,       \* _restored of each OutputSuppressionContext
    patched,        \* whose wrappers stand in for open, os.remove, ...
    replaced,       \* what each FilesystemIsolation found in their place
    abandoned,      \* threads alive when execute() returned without them
    faulty,         \* threads that met an exception of Pynguin's own code
    delegated       \* threads ended by the abort of a thread the subject started

mainVars == <<main, test, results>>
threadVars == <<pc, left, outcome>>
contextVars == <<silenced, restored, patched, replaced>>
ghosts == <<abandoned, faulty, delegated>>
vars == <<mainVars, threadVars, owner, enabled, contextVars, ghosts>>

Alive(t) == pc[t] \notin {"unborn", "dead"}

Goto(t, from, to) == pc[t] = from /\ pc' = [pc EXCEPT ![t] = to]

\* The thread leaves its loop for the exits of its contexts, with result r.
Unwind(t, r) ==
    /\ pc' = [pc EXCEPT ![t] = "leaveTracer"]
    /\ outcome' = [outcome EXCEPT ![t] = r]

--------------------------------------------------------------------------------
Init ==
    /\ main = "idle" /\ test = 0
    /\ results = [t \in Tests |-> "none"]
    /\ pc = [t \in Tests |-> "unborn"]
    /\ left = [t \in Tests |-> NumStatements]
    /\ outcome = [t \in Tests |-> "none"]
    /\ owner = None
    /\ enabled = [t \in Tests |-> TRUE]
    /\ silenced = FALSE
    /\ restored = [t \in Tests |-> FALSE]
    /\ patched = None
    /\ replaced = [t \in Tests |-> None]
    /\ abandoned = {} /\ faulty = {} /\ delegated = {}

(* The main thread: execute(test).                                          *)

\* A thread and a queue are created and the thread is started.
StartThread ==
    /\ main = "idle" /\ test < NumTests
    /\ main' = "firstJoin"
    /\ test' = test + 1
    /\ pc' = [pc EXCEPT ![test + 1] = "entered"]
    /\ UNCHANGED <<results, left, outcome, owner, enabled, contextVars, ghosts>>

Return(r) ==
    /\ main' = "idle"
    /\ results' = [results EXCEPT ![test] = r]

\* The thread has finished: its result is taken from the queue.  An empty queue
\* is logged as a bug in Pynguin and counts as a timeout.
TakeResult ==
    /\ main = "firstJoin" /\ ~ Alive(test)
    /\ Return(IF outcome[test] = "none" THEN "lost" ELSE outcome[test])
    /\ UNCHANGED <<test, threadVars, owner, enabled, contextVars, ghosts>>

\* The join has timed out, the thread is alive.
Timeout ==
    /\ main = "firstJoin" /\ Alive(test)
    /\ main' = "stop"
    /\ UNCHANGED <<test, results, threadVars, owner, enabled, contextVars, ghosts>>

\* tracer.stop(): from now on nobody is the current thread.
StopTracer ==
    /\ main = "stop"
    /\ owner' = None
    /\ main' = "secondJoin"
    /\ UNCHANGED <<test, results, threadVars, enabled, contextVars, ghosts>>

\* Mutant: the second join has no timeout.
GiveUpPatiently ==
    /\ main = "secondJoin" /\ ~ Alive(test)
    /\ restored' = [restored EXCEPT ![test] = TRUE]
    /\ silenced' = (silenced /\ restored[test])
    /\ Return("timeout")
    /\ UNCHANGED <<test, threadVars, owner, enabled, patched, replaced, ghosts>>

\* The second join is over, with or without the thread; stdout is restored
\* unless the thread has done so.
GiveUp ==
    /\ main = "secondJoin"
    /\ restored' = [restored EXCEPT ![test] = TRUE]
    /\ silenced' = (silenced /\ restored[test])
    /\ Return("timeout")
    /\ abandoned' = IF Alive(test) THEN abandoned \cup {test} ELSE abandoned
    /\ UNCHANGED <<test, threadVars, owner, enabled, patched, replaced, faulty, delegated>>

Main == StartThread \/ TakeResult \/ Timeout \/ StopTracer \/ GiveUp

--------------------------------------------------------------------------------
(* A thread: _execute_test_case.                                            *)

\* Mutant: a function that is patched already is not patched again.
EnterFilesystemUnpatched(t) ==
    /\ Goto(t, "entered", "isolated")
    /\ replaced' = [replaced EXCEPT ![t] = patched]
    /\ UNCHANGED <<mainVars, left, outcome, owner, enabled, silenced, restored, patched, ghosts>>

\* before_test_case_execution is done and the file system gets patched; the patches
\* remember what they replace.
EnterFilesystem(t) ==
    /\ Goto(t, "entered", "isolated")
    /\ patched' = t
    /\ replaced' = [replaced EXCEPT ![t] = patched]
    /\ UNCHANGED <<mainVars, left, outcome, owner, enabled, silenced, restored, ghosts>>

EnterOutput(t) ==
    /\ Goto(t, "isolated", "silent")
    /\ silenced' = TRUE
    /\ UNCHANGED <<mainVars, left, outcome, owner, enabled, restored, patched, replaced, ghosts>>

\* Mutant: the thread does not become the current one.
EnterTracerSilently(t) ==
    /\ Goto(t, "silent", "namespace")
    /\ UNCHANGED <<mainVars, left, outcome, owner, enabled, contextVars, ghosts>>

\* tracer.__enter__: whoever comes last is the current thread.
EnterTracer(t) ==
    /\ Goto(t, "silent", "namespace")
    /\ owner' = t
    /\ UNCHANGED <<mainVars, left, outcome, enabled, contextVars, ghosts>>

\* _build_namespace finds the module under test, or the test case counts as
\* timed out.
BuildNamespace(t) ==
    /\ pc[t] = "namespace"
    /\ \/ pc' = [pc EXCEPT ![t] = "before"] /\ UNCHANGED outcome
       \/ Unwind(t, "timeout")
    /\ UNCHANGED <<mainVars, left, owner, enabled, contextVars, ghosts>>

\* tracer.check() before a statement: a thread that is not the current one is
\* aborted.  After the last statement the loop is left with a result.
BeginStatement(t) ==
    /\ pc[t] = "before"
    /\ IF left[t] = 0
       THEN Unwind(t, "result") /\ UNCHANGED left
       ELSE IF owner # t
       THEN Unwind(t, "none") /\ UNCHANGED left
       ELSE /\ pc' = [pc EXCEPT ![t] = "running"]
            /\ left' = [left EXCEPT ![t] = @ - 1]
            /\ UNCHANGED outcome
    /\ UNCHANGED <<mainVars, owner, enabled, contextVars, ghosts>>

\* The statement reaches instrumented code: _early_return checks the thread unless
\* its tracer is disabled.  The code under test may swallow the exception.
ReachProbe(t) ==
    /\ pc[t] = "running" /\ enabled[t] /\ owner # t
    /\ Unwind(t, "none")
    /\ UNCHANGED <<mainVars, left, owner, enabled, contextVars, ghosts>>

\* The statement waits for the result of a thread the subject has started itself: that
\* one never is the tracer's current thread, is aborted at its first probe, and its
\* future raises the exception again here.  The code under test may swallow it.
AwaitAborted(t) ==
    /\ pc[t] = "running"
    /\ Unwind(t, "none")
    /\ delegated' = delegated \cup {t}
    /\ UNCHANGED <<mainVars, left, owner, enabled, contextVars, abandoned, faulty>>

\* The values of a comparison do not compare: the exception passes through
\* temporarily_disable, which has no finally, into the code under test, where it
\* is caught or ends the statement.
ComparisonRaises(t) ==
    /\ pc[t] = "running" /\ enabled[t] /\ owner = t
    /\ enabled' = [enabled EXCEPT ![t] = FALSE]
    /\ pc' \in {pc, [pc EXCEPT ![t] = "raised"]}
    /\ UNCHANGED <<mainVars, left, outcome, owner, contextVars, ghosts>>

\* The statement ends, with or without an exception.
EndStatement(t) ==
    /\ pc[t] = "running"
    /\ \E how \in {"after", "raised"} : pc' = [pc EXCEPT ![t] = how]
    /\ UNCHANGED <<mainVars, left, outcome, owner, enabled, contextVars, ghosts>>

\* tracer.check() after a statement; an exception of the statement ends the loop.
AfterStatement(t) ==
    /\ pc[t] \in {"after", "raised"}
    /\ IF owner # t THEN Unwind(t, "none")
       ELSE IF pc[t] = "raised" THEN Unwind(t, "result")
       ELSE pc' = [pc EXCEPT ![t] = "before"] /\ UNCHANGED outcome
    /\ UNCHANGED <<mainVars, left, owner, enabled, contextVars, ghosts>>

\* An observer of a statement, the compiler or the instrumentation raises: no
\* handler of the thread catches that, and nothing is put into the queue.
FaultInside(t) ==
    /\ pc[t] \in {"before", "after", "raised"} /\ owner = t
    /\ pc[t] = "before" => left[t] > 0
    /\ Unwind(t, "none")
    /\ faulty' = faulty \cup {t}
    /\ UNCHANGED <<mainVars, left, owner, enabled, contextVars, abandoned, delegated>>

\* The same before the contexts are entered or after they are left, by an
\* observer of the whole test case.
FaultOutside(t) ==
    /\ pc[t] = "entered" \/ (pc[t] = "report" /\ outcome[t] = "result")
    /\ pc' = [pc EXCEPT ![t] = "dead"]
    /\ outcome' = [outcome EXCEPT ![t] = "none"]
    /\ faulty' = faulty \cup {t}
    /\ UNCHANGED <<mainVars, left, owner, enabled, contextVars, abandoned, delegated>>

\* tracer.__exit__ stops the tracer, whoever is the current thread by now.
LeaveTracer(t) ==
    /\ Goto(t, "leaveTracer", "leaveOutput")
    /\ owner' = None
    /\ UNCHANGED <<mainVars, left, outcome, enabled, contextVars, ghosts>>

LeaveOutput(t) ==
    /\ Goto(t, "leaveOutput", "leaveFilesystem")
    /\ restored' = [restored EXCEPT ![t] = TRUE]
    /\ silenced' = (silenced /\ restored[t])
    /\ UNCHANGED <<mainVars, left, outcome, owner, enabled, patched, replaced, ghosts>>

\* Mutant: the patches stay.
LeaveFilesystemPatched(t) ==
    /\ Goto(t, "leaveFilesystem", "report")
    /\ UNCHANGED <<mainVars, left, outcome, owner, enabled, contextVars, ghosts>>

\* Every patch puts back what it found when it was made.
LeaveFilesystem(t) ==
    /\ Goto(t, "leaveFilesystem", "report")
    /\ patched' = replaced[t]
    /\ UNCHANGED <<mainVars, left, outcome, owner, enabled, silenced, restored, replaced, ghosts>>

\* The thread puts its result, if it has one, into the queue and ends.
Report(t) ==
    /\ Goto(t, "report", "dead")
    /\ UNCHANGED <<mainVars, left, outcome, owner, enabled, contextVars, ghosts>>

Thread(t) ==
    \/ EnterFilesystem(t) \/ EnterOutput(t) \/ EnterTracer(t) \/ BuildNamespace(t)
    \/ BeginStatement(t) \/ ReachProbe(t) \/ AwaitAborted(t) \/ ComparisonRaises(t)
    \/ EndStatement(t) \/ AfterStatement(t) \/ FaultInside(t) \/ FaultOutside(t)
    \/ LeaveTracer(t) \/ LeaveOutput(t) \/ LeaveFilesystem(t) \/ Report(t)

AllReturned == main = "idle" /\ test = NumTests

Terminated == AllReturned /\ (\A t \in Tests : ~ Alive(t)) /\ UNCHANGED vars

Next == Main \/ (\E t \in Tests : Thread(t)) \/ Terminated

Spec == Init /\ [][Next]_vars

\* Only the main thread is sure to make progress: its joins have timeouts, while a
\* test case may run forever.
FairSpec == Spec /\ WF_vars(Main)

--------------------------------------------------------------------------------
PCs == {"unborn", "entered", "isolated", "silent", "namespace", "before", "running",
        "after", "raised", "leaveTracer", "leaveOutput", "leaveFilesystem", "report", "dead"}

TypeOK ==
    /\ main \in {"idle", "firstJoin", "stop", "secondJoin"}
    /\ test \in 0..NumTests
    /\ results \in [Tests -> {"none", "result", "timeout", "lost"}]
    /\ pc \in [Tests -> PCs]
    /\ left \in [Tests -> 0..NumStatements]
    /\ outcome \in [Tests -> {"none", "result", "timeout"}]
    /\ owner \in Tests \cup {None}
    /\ enabled \in [Tests -> BOOLEAN]
    /\ silenced \in BOOLEAN
    /\ restored \in [Tests -> BOOLEAN]
    /\ patched \in Tests \cup {None}
    /\ replaced \in [Tests -> Tests \cup {None}]
    /\ abandoned \subseteq Tests /\ faulty \subseteq Tests /\ delegated \subseteq Tests

Executing(t) == pc[t] \in {"before", "running", "after", "raised"}

\* A thread that finished in time returned no result: then Pynguin's own code failed in
\* it, or its test case waited for a thread of the subject's own, or a thread of an
\* earlier test case was still alive.  The first thread of a process that has none of
\* these returns a result, whatever its statements do and when.  (The empty queue that
\* execute() logs as a bug in Pynguin, execution.py:403-414.)
LossExplained ==
    \A t \in Tests : results[t] = "lost" =>
        t \in faulty \/ t \in delegated \/ \E u \in abandoned : u < t

\* The log line itself: a finished thread has returned a result.
FinishedThreadReturned ==
    \A t \in Tests : results[t] = "lost" => t \in faulty

\* As long as every stopped thread has ended within the second join, nothing is left
\* of a test case when execute() returns: no thread may run, stdout is back, and the
\* file system's functions are the original ones.
CleanBetweenTests ==
    main = "idle" /\ abandoned = {} => owner = None /\ ~ silenced /\ patched = None

\* So long, the statements of the test case being executed go through its own
\* isolation of the file system and from there to the original functions, and their
\* output through its own redirection, which nobody has undone.
IsolatedWhileExecuting ==
    main # "idle" /\ Executing(test) /\ abandoned = {} =>
        patched = test /\ replaced[test] = None /\ silenced

\* As long as no thread was abandoned, each test case runs in its own isolation and
\* leaves nothing behind (execution.py:403-417, fs_isolation.py:268-288).
CleanlyIsolated == CleanBetweenTests /\ IsolatedWhileExecuting

\* execute() returns for every test case, whatever the test cases do.
EveryTestReturns == <>AllReturned
================================================================================
