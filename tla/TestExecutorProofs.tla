--------------------------- MODULE TestExecutorProofs ---------------------------
(***************************************************************************)
(* Why a thread that finished in time may leave its queue empty, and why   *)
(* execute() leaves a clean process behind, for any number of test cases   *)
(* and statements.                                                         *)
(***************************************************************************)
EXTENDS TestExecutor, TLAPS

\* Where a thread relies on being the tracer's current thread, and where it has
\* decided on what it reports.
Traced == {"namespace", "before", "running", "after", "raised"}
Leaving == {"leaveTracer", "leaveOutput", "leaveFilesystem", "report", "dead"}

\* A thread other than that of the running execute() has been abandoned, and was
\* started before it.
StaleThreads ==
    /\ test \in 0..NumTests
    /\ main # "idle" => test \in Tests /\ pc[test] # "unborn"
    /\ abandoned \subseteq 1..test
    /\ main # "idle" => test \notin abandoned
    /\ \A u \in Tests : u > test => pc[u] = "unborn"
    /\ \A u \in Tests : Alive(u) /\ (main = "idle" \/ u # test) => u \in abandoned

\* Undisturbed by abandoned threads, faults and threads of the subject, the thread of the running
\* execute() stays the current one and leaves with something to report.
Undisturbed ==
    main = "firstJoin" /\ abandoned = {} /\ test \notin faulty \cup delegated =>
        /\ pc[test] \in Traced => owner = test
        /\ pc[test] \in Leaving => outcome[test] # "none"

\* What the thread of the running execute() has entered and not left yet, and what it
\* finds there, as long as no thread was abandoned: the file system is patched by it
\* alone, stdout is redirected by it, and the tracer has no other thread.
InFilesystem == {"isolated", "silent", "leaveOutput", "leaveFilesystem", "leaveTracer"} \cup Traced
InOutput == {"silent", "leaveOutput", "leaveTracer"} \cup Traced
InTracer == {"leaveTracer"} \cup Traced

Contexts ==
    /\ \A u \in Tests : u > test => ~ restored[u]
    /\ abandoned = {} /\ main # "idle" =>
        /\ pc[test] \in InFilesystem => patched = test /\ replaced[test] = None
        /\ pc[test] \notin InFilesystem => patched = None
        /\ pc[test] \in InOutput \cup {"entered", "isolated"} => ~ restored[test]
        /\ silenced <=> pc[test] \in InOutput
        /\ pc[test] \notin InTracer => owner = None

Inv == TypeOK /\ StaleThreads /\ Undisturbed /\ LossExplained /\ CleanBetweenTests /\ Contexts

LEMMA InitInv == Init => Inv
<1> SUFFICES ASSUME Init PROVE Inv
  OBVIOUS
<1>1. TypeOK
  <2>1. 0 \in 0..NumTests /\ NumStatements \in 0..NumStatements
    BY ExecutorAssumption
  <2>2. /\ pc \in [Tests -> PCs]
        /\ left \in [Tests -> 0..NumStatements]
        /\ replaced \in [Tests -> Tests \cup {None}]
    BY <2>1 DEF Init, PCs
  <2> QED BY <2>1, <2>2 DEF Init, TypeOK
<1>2. StaleThreads
  BY ExecutorAssumption DEF Init, StaleThreads, Alive, Tests
<1> QED BY <1>1, <1>2 DEF Init, Inv, Undisturbed, LossExplained, CleanBetweenTests, Contexts

\* The state stays well-formed under the steps of the main thread and of a thread.
LEMMA MainType == ASSUME Inv, Main PROVE TypeOK'
<1> USE ExecutorAssumption DEF Inv, TypeOK, Tests, None, PCs
<1>1. CASE StartThread BY <1>1 DEF StartThread, contextVars, ghosts
<1>2. CASE TakeResult
  BY <1>2 DEF TakeResult, Return, StaleThreads, threadVars, contextVars, ghosts
<1>3. CASE Timeout BY <1>3 DEF Timeout, threadVars, contextVars, ghosts
<1>4. CASE StopTracer BY <1>4 DEF StopTracer, threadVars, contextVars, ghosts
<1>5. CASE GiveUp BY <1>5 DEF GiveUp, Return, StaleThreads, threadVars
<1> QED BY <1>1, <1>2, <1>3, <1>4, <1>5 DEF Main

LEMMA ThreadType == ASSUME Inv, NEW t \in Tests, Thread(t) PROVE TypeOK'
<1> USE DEF Inv, TypeOK, PCs, mainVars, contextVars, ghosts
<1>1. CASE EnterFilesystem(t) BY <1>1 DEF EnterFilesystem, Goto
<1>2. CASE EnterOutput(t) BY <1>2 DEF EnterOutput, Goto
<1>3. CASE EnterTracer(t) BY <1>3 DEF EnterTracer, Goto
<1>4. CASE BuildNamespace(t) BY <1>4 DEF BuildNamespace, Unwind
<1>5. CASE BeginStatement(t)
  BY <1>5, ExecutorAssumption DEF BeginStatement, Unwind
<1>6. CASE ReachProbe(t) \/ AwaitAborted(t) BY <1>6 DEF ReachProbe, AwaitAborted, Unwind
<1>7. CASE ComparisonRaises(t) BY <1>7 DEF ComparisonRaises
<1>8. CASE EndStatement(t) BY <1>8 DEF EndStatement
<1>9. CASE AfterStatement(t) BY <1>9 DEF AfterStatement, Unwind
<1>10. CASE FaultInside(t) BY <1>10 DEF FaultInside, Unwind
<1>11. CASE FaultOutside(t) BY <1>11 DEF FaultOutside
<1>12. CASE LeaveTracer(t) BY <1>12 DEF LeaveTracer, Goto
<1>13. CASE LeaveOutput(t) BY <1>13 DEF LeaveOutput, Goto
<1>14. CASE LeaveFilesystem(t) BY <1>14 DEF LeaveFilesystem, Goto
<1>15. CASE Report(t) BY <1>15 DEF Report, Goto
<1> QED BY <1>1, <1>2, <1>3, <1>4, <1>5, <1>6, <1>7, <1>8, <1>9, <1>10, <1>11, <1>12, <1>13, <1>14,
           <1>15 DEF Thread

\* execute() starts and returns in a clean process unless it abandons its thread.
LEMMA MainContexts == ASSUME Inv, Main PROVE CleanBetweenTests' /\ Contexts'
<1> USE ExecutorAssumption DEF Inv, InFilesystem, InOutput, InTracer, Traced
<1>1. CASE StartThread
  <2>1. /\ main = "idle" /\ main' = "firstJoin" /\ test' = test + 1 /\ test' \in Tests /\ test \in Nat
        /\ pc'[test'] = "entered"
        /\ UNCHANGED <<owner, silenced, restored, patched, replaced, abandoned>>
    BY <1>1 DEF StartThread, TypeOK, StaleThreads, Tests, ghosts, contextVars
  <2> QED BY <2>1 DEF CleanBetweenTests, Contexts, Tests
<1>2. CASE TakeResult
  <2>1. /\ main = "firstJoin" /\ main' = "idle" /\ pc[test] = "dead"
        /\ UNCHANGED <<test, pc, owner, silenced, restored, patched, replaced, abandoned>>
    BY <1>2 DEF TakeResult, Return, Alive, StaleThreads, threadVars, contextVars, ghosts
  <2> QED BY <2>1 DEF CleanBetweenTests, Contexts
<1>3. CASE Timeout \/ StopTracer
  <2>1. /\ main # "idle" /\ main' # "idle" /\ owner' \in {owner, None}
        /\ UNCHANGED <<test, pc, silenced, restored, patched, replaced, abandoned>>
    BY <1>3 DEF Timeout, StopTracer, threadVars, contextVars, ghosts
  <2> QED BY <2>1 DEF CleanBetweenTests, Contexts
<1>4. CASE GiveUp
  <2>1. /\ main = "secondJoin" /\ main' = "idle" /\ test \in Tests
        /\ UNCHANGED <<test, owner, patched>>
        /\ silenced' = (silenced /\ restored[test])
        /\ \A u \in Tests : u > test => restored'[u] = restored[u]
        /\ abandoned' = {} => abandoned = {} /\ ~ Alive(test)
    BY <1>4 DEF GiveUp, Return, TypeOK, StaleThreads, Tests
  <2>2. abandoned' = {} => pc[test] = "dead"
    BY <2>1 DEF Alive, StaleThreads
  <2> QED BY <2>1, <2>2 DEF CleanBetweenTests, Contexts
<1> QED BY <1>1, <1>2, <1>3, <1>4 DEF Main

\* The steps of the main thread: a thread is abandoned by GiveUp only, and a
\* result is taken by TakeResult only.
LEMMA MainInv == ASSUME Inv, Main PROVE Inv'
<1> USE ExecutorAssumption
<1>1. TypeOK' /\ CleanBetweenTests' /\ Contexts' BY MainType, MainContexts
<1>2. CASE StartThread
  <2>1. /\ test' = test + 1 /\ test' \in Tests /\ main' = "firstJoin" /\ main = "idle"
        /\ test \in Nat
        /\ UNCHANGED <<results, abandoned, faulty, delegated>>
        /\ \A u \in Tests : pc'[u] = IF u = test' THEN "entered" ELSE pc[u]
    BY <1>2 DEF StartThread, Inv, TypeOK, StaleThreads, Tests, ghosts
  <2>2. StaleThreads'
    BY <2>1 DEF Inv, StaleThreads, Alive, Tests
  <2>3. Undisturbed' /\ LossExplained'
    BY <2>1 DEF Inv, Undisturbed, LossExplained, Traced, Leaving
  <2> QED BY <1>1, <2>2, <2>3 DEF Inv
<1>3. CASE TakeResult
  <2>1. /\ main = "firstJoin" /\ main' = "idle" /\ ~ Alive(test) /\ test \in Tests
        /\ UNCHANGED <<test, pc, outcome, abandoned, faulty, delegated>>
        /\ \A u \in Tests : results'[u] = IF u # test THEN results[u]
                                         ELSE IF outcome[test] = "none" THEN "lost" ELSE outcome[test]
    BY <1>3 DEF TakeResult, Return, Inv, TypeOK, StaleThreads, threadVars, ghosts
  <2>2. StaleThreads' /\ Undisturbed'
    BY <2>1 DEF Inv, StaleThreads, Undisturbed, Alive
  <2>3. LossExplained'
    <3>1. CASE results'[test] # "lost"
      BY <2>1, <3>1 DEF Inv, LossExplained
    <3>2. CASE results'[test] = "lost"
      <4>1. outcome[test] = "none"
        BY <2>1, <3>2 DEF Inv, TypeOK
      <4>2. pc[test] = "dead"
        BY <2>1 DEF Alive, Inv, StaleThreads
      <4>3. test \in faulty \cup delegated \/ abandoned # {}
        BY <2>1, <4>1, <4>2 DEF Inv, Undisturbed, Leaving
      <4>4. \A u \in abandoned : u < test
        BY <2>1 DEF Inv, StaleThreads, Tests
      <4> QED BY <2>1, <3>2, <4>3, <4>4 DEF Inv, LossExplained
    <3> QED BY <3>1, <3>2
  <2> QED BY <1>1, <2>2, <2>3 DEF Inv
<1>4. CASE Timeout
  BY <1>1, <1>4 DEF Timeout, Inv, StaleThreads, Undisturbed, LossExplained, Alive, threadVars, ghosts
<1>5. CASE StopTracer
  BY <1>1, <1>5 DEF StopTracer, Inv, StaleThreads, Undisturbed, LossExplained, Alive, threadVars, ghosts
<1>6. CASE GiveUp
  <2>1. /\ main # "idle" /\ main' = "idle" /\ test \in Tests
        /\ UNCHANGED <<test, pc, faulty, delegated>>
        /\ abandoned \subseteq abandoned' /\ abandoned' \subseteq abandoned \cup {test}
        /\ Alive(test) => test \in abandoned'
        /\ \A u \in Tests : results'[u] = IF u = test THEN "timeout" ELSE results[u]
    BY <1>6 DEF GiveUp, Return, Inv, TypeOK, StaleThreads, threadVars
  <2>2. StaleThreads'
    BY <2>1 DEF Inv, StaleThreads, Alive, Tests
  <2>3. Undisturbed' /\ LossExplained'
    BY <2>1 DEF Inv, Undisturbed, LossExplained
  <2> QED BY <1>1, <2>2, <2>3 DEF Inv
<1> QED BY <1>2, <1>3, <1>4, <1>5, <1>6 DEF Main

\* What every step of a thread has in common.
LEMMA ThreadFrame ==
    ASSUME Inv, NEW t \in Tests, Thread(t)
    PROVE  /\ UNCHANGED <<main, test, results, abandoned>>
           /\ Alive(t) /\ pc'[t] # "unborn"
           /\ \A u \in Tests \ {t} : pc'[u] = pc[u] /\ outcome'[u] = outcome[u]
           /\ faulty \subseteq faulty' /\ delegated \subseteq delegated'
<1> USE DEF Alive, mainVars, threadVars, ghosts, Inv, TypeOK
<1>1. CASE EnterFilesystem(t) \/ EnterOutput(t) \/ EnterTracer(t)
  BY <1>1 DEF EnterFilesystem, EnterOutput, EnterTracer, Goto
<1>2. CASE BuildNamespace(t) \/ BeginStatement(t)
  BY <1>2 DEF BuildNamespace, BeginStatement, Unwind
<1>3. CASE ReachProbe(t) \/ AwaitAborted(t) \/ ComparisonRaises(t) \/ EndStatement(t)
  BY <1>3 DEF ReachProbe, AwaitAborted, ComparisonRaises, EndStatement, Unwind
<1>4. CASE AfterStatement(t) \/ FaultInside(t) \/ FaultOutside(t)
  BY <1>4 DEF AfterStatement, FaultInside, FaultOutside, Unwind
<1>5. CASE LeaveTracer(t) \/ LeaveOutput(t) \/ LeaveFilesystem(t) \/ Report(t)
  BY <1>5 DEF LeaveTracer, LeaveOutput, LeaveFilesystem, Report, Goto
<1> QED BY <1>1, <1>2, <1>3, <1>4, <1>5 DEF Thread

\* The steps of a thread that nobody disturbs.
LEMMA ThreadUndisturbed ==
    ASSUME Inv, NEW t \in Tests, Thread(t)
    PROVE  Undisturbed'
<1> SUFFICES ASSUME main' = "firstJoin", abandoned' = {}, test' \notin (faulty \cup delegated)'
             PROVE  /\ pc'[test'] \in Traced => owner' = test'
                    /\ pc'[test'] \in Leaving => outcome'[test'] # "none"
  BY DEF Undisturbed
<1>1. main = "firstJoin" /\ abandoned = {} /\ test' = test /\ test \notin faulty \cup delegated
  BY ThreadFrame
<1>2. t = test
  BY <1>1, ThreadFrame DEF Inv, StaleThreads
<1>3. /\ pc[test] \in Traced => owner = test
      /\ pc[test] \in Leaving => outcome[test] # "none"
  BY <1>1 DEF Inv, Undisturbed
<1>4. pc \in [Tests -> PCs] /\ outcome \in [Tests -> {"none", "result", "timeout"}]
  BY DEF Inv, TypeOK
<1> USE <1>1, <1>2, <1>3, <1>4 DEF Traced, Leaving
<1>5. CASE EnterFilesystem(t) \/ EnterOutput(t) \/ EnterTracer(t)
  BY <1>5 DEF EnterFilesystem, EnterOutput, EnterTracer, Goto
<1>6. CASE BuildNamespace(t) BY <1>6 DEF BuildNamespace, Unwind
<1>7. CASE BeginStatement(t) BY <1>7 DEF BeginStatement, Unwind
<1>8. CASE ReachProbe(t) \/ AwaitAborted(t) BY <1>8 DEF ReachProbe, AwaitAborted
<1>9. CASE ComparisonRaises(t) BY <1>9 DEF ComparisonRaises
<1>10. CASE EndStatement(t) BY <1>10 DEF EndStatement
<1>11. CASE AfterStatement(t) BY <1>11 DEF AfterStatement, Unwind
<1>12. CASE FaultInside(t) BY <1>12 DEF FaultInside
<1>13. CASE FaultOutside(t) BY <1>13 DEF FaultOutside
<1>14. CASE LeaveTracer(t) \/ LeaveOutput(t) \/ LeaveFilesystem(t) \/ Report(t)
  BY <1>14 DEF LeaveTracer, LeaveOutput, LeaveFilesystem, Report, Goto
<1> QED BY <1>5, <1>6, <1>7, <1>8, <1>9, <1>10, <1>11, <1>12, <1>13, <1>14 DEF Thread

\* A thread that nobody disturbs leaves what it has entered, in the reverse order.
LEMMA ThreadContexts ==
    ASSUME Inv, NEW t \in Tests, Thread(t)
    PROVE  CleanBetweenTests' /\ Contexts'
<1>1. /\ UNCHANGED <<main, test, abandoned>> /\ Alive(t)
      /\ abandoned = {} => main # "idle" /\ t = test
      /\ t <= test /\ test \in 0..NumTests
  BY ThreadFrame, ExecutorAssumption DEF Inv, StaleThreads, Alive, Tests
<1>2. CleanBetweenTests'
  BY <1>1 DEF CleanBetweenTests
<1>3. \A u \in Tests : u > test => restored'[u] = restored[u]
  <2>1. CASE LeaveOutput(t)
    <3>1. \A u \in Tests : u > test => u # t
      BY <1>1, ExecutorAssumption DEF Tests
    <3> QED BY <2>1, <3>1 DEF LeaveOutput, Inv, TypeOK
  <2>2. CASE ~ LeaveOutput(t)
    <3>1. restored' = restored
      BY <2>2 DEF Thread, EnterFilesystem, EnterOutput, EnterTracer, BuildNamespace, BeginStatement, ReachProbe,
         AwaitAborted, ComparisonRaises, EndStatement, AfterStatement, FaultInside, FaultOutside, LeaveTracer,
         LeaveFilesystem, Report, contextVars
    <3> QED BY <3>1
  <2> QED BY <2>1, <2>2
<1>4. ASSUME abandoned' = {}
      PROVE  /\ pc'[test] \in InFilesystem => patched' = test /\ replaced'[test] = None
             /\ pc'[test] \notin InFilesystem => patched' = None
             /\ pc'[test] \in InOutput \cup {"entered", "isolated"} => ~ restored'[test]
             /\ silenced' <=> pc'[test] \in InOutput
             /\ pc'[test] \notin InTracer => owner' = None
  <2>1. /\ test \in Tests /\ t = test
        /\ pc[test] \in InFilesystem => patched = test /\ replaced[test] = None
        /\ pc[test] \notin InFilesystem => patched = None
        /\ pc[test] \in InOutput \cup {"entered", "isolated"} => ~ restored[test]
        /\ silenced <=> pc[test] \in InOutput
        /\ pc[test] \notin InTracer => owner = None
    BY <1>1, <1>4 DEF Inv, Contexts
  <2>2. pc \in [Tests -> PCs] /\ restored \in [Tests -> BOOLEAN] /\ replaced \in [Tests -> Tests \cup {None}]
    BY DEF Inv, TypeOK
  <2> USE <2>1, <2>2 DEF InFilesystem, InOutput, InTracer, Traced, contextVars
  <2>3. CASE EnterFilesystem(t) BY <2>3 DEF EnterFilesystem, Goto
  <2>4. CASE EnterOutput(t) BY <2>4 DEF EnterOutput, Goto
  <2>5. CASE EnterTracer(t) BY <2>5 DEF EnterTracer, Goto
  <2>6. CASE BuildNamespace(t) BY <2>6 DEF BuildNamespace, Unwind
  <2>7. CASE BeginStatement(t) BY <2>7 DEF BeginStatement, Unwind
  <2>8. CASE ReachProbe(t) \/ AwaitAborted(t) BY <2>8 DEF ReachProbe, AwaitAborted, Unwind
  <2>9. CASE ComparisonRaises(t) BY <2>9 DEF ComparisonRaises
  <2>10. CASE EndStatement(t) BY <2>10 DEF EndStatement
  <2>11. CASE AfterStatement(t) BY <2>11 DEF AfterStatement, Unwind
  <2>12. CASE FaultInside(t) BY <2>12 DEF FaultInside, Unwind
  <2>13. CASE FaultOutside(t) BY <2>13 DEF FaultOutside
  <2>14. CASE LeaveTracer(t) BY <2>14 DEF LeaveTracer, Goto
  <2>15. CASE LeaveOutput(t) BY <2>15 DEF LeaveOutput, Goto
  <2>16. CASE LeaveFilesystem(t) BY <2>16 DEF LeaveFilesystem, Goto
  <2>17. CASE Report(t) BY <2>17 DEF Report, Goto
  <2> QED BY <2>3, <2>4, <2>5, <2>6, <2>7, <2>8, <2>9, <2>10, <2>11, <2>12, <2>13, <2>14, <2>15, <2>16, <2>17
          DEF Thread
<1> QED BY <1>1, <1>2, <1>3, <1>4 DEF Contexts, Inv

LEMMA ThreadInv == ASSUME Inv, NEW t \in Tests, Thread(t) PROVE Inv'
<1>1. TypeOK' BY ThreadType
<1>2. StaleThreads'
  <2>1. /\ UNCHANGED <<main, test, abandoned>>
        /\ Alive(t) /\ pc'[t] # "unborn" /\ pc[t] # "unborn"
        /\ \A u \in Tests \ {t} : pc'[u] = pc[u]
    BY ThreadFrame DEF Alive
  <2>2. \A u \in Tests : Alive(u)' => Alive(u)
    BY <2>1 DEF Alive
  <2>3. \A u \in Tests : pc[u] = "unborn" <=> pc'[u] = "unborn"
    BY <2>1
  <2> QED BY <2>1, <2>2, <2>3 DEF Inv, StaleThreads
<1>3. Undisturbed' BY ThreadUndisturbed
<1>4. LossExplained'
  BY ThreadFrame DEF Inv, LossExplained
<1>5. CleanBetweenTests' /\ Contexts' BY ThreadContexts
<1> QED BY <1>1, <1>2, <1>3, <1>4, <1>5 DEF Inv

THEOREM Invariance == Spec => []Inv
<1>1. Inv /\ [Next]_vars => Inv'
  <2> SUFFICES ASSUME Inv, [Next]_vars PROVE Inv'
    OBVIOUS
  <2>1. CASE Main BY <2>1, MainInv
  <2>2. CASE \E t \in Tests : Thread(t) BY <2>2, ThreadInv
  <2>3. CASE UNCHANGED vars
    BY <2>3 DEF vars, mainVars, threadVars, contextVars, ghosts, Inv, TypeOK, StaleThreads, Undisturbed,
       LossExplained, CleanBetweenTests, Contexts, Alive
  <2>4. CASE Terminated BY <2>3, <2>4 DEF Terminated
  <2> QED BY <2>1, <2>2, <2>3, <2>4 DEF Next
<1> QED BY <1>1, InitInv, PTL DEF Spec

\* The executor's state is well-formed.
THEOREM TypeCorrect == Spec => []TypeOK
<1>1. Inv => TypeOK BY DEF Inv
<1> QED BY <1>1, Invariance, PTL

\* An empty queue of a finished thread has one of three causes: Pynguin's own code
\* raised in it, its test case waited for a thread of the subject that was aborted, or a
\* thread of an earlier test case outlived its execution.
THEOREM LossIsExplained == Spec => []LossExplained
<1>1. Inv => LossExplained BY DEF Inv
<1> QED BY <1>1, Invariance, PTL

\* As long as no thread was abandoned, every test case runs in its own isolation of
\* the file system and of stdout, and execute() returns in a clean process, however
\* the test case ends: by its last statement, an exception, a fault of Pynguin's own,
\* or the tracer stopped at any moment by a timeout.
THEOREM IsolationIsClean == Spec => []CleanlyIsolated
<1>1. Inv => CleanlyIsolated
  BY DEF Inv, Contexts, CleanlyIsolated, IsolatedWhileExecuting, Executing, InFilesystem, InOutput, Traced
<1> QED BY <1>1, Invariance, PTL
================================================================================
