--------------------------- MODULE MasterWorkerProofs ---------------------------
(***************************************************************************)
(* Proofs about MasterWorker for every search time.  The bound on the      *)
(* restarts needs to know that a restarted worker still has search time    *)
(* and that subprocess mode, once forced, stays; the client's answer is    *)
(* related to the results sent through the pipe of the current worker.     *)
(***************************************************************************)
EXTENDS MasterWorker, TLAPS

\* What is in the pipe has been sent.
PipeIsSent == pipe # "empty" => pipe \in sent

\* The restarts and the time they have cost.
RestartsPaid ==
    /\ Budget > 0 => budget >= 0 /\ restarts + budget <= Budget
    /\ Budget <= 0 => restarts = 0 /\ budget = Budget

\* Subprocess mode has been forced by the first restart, which the client waits for.
Forced ==
    /\ client = "new" => restarts = 0
    /\ restarts > 0 => forced /\ (worker = "running" => isolated)

\* The worker of a task that is not in _running_tasks has answered, or there is none.
TaskFollowsClient == client \in {"waiting", "joining"} => task

\* An interrupt leaves the task in _running_tasks until its worker is stopped.
InterruptedTask ==
    code = "interrupted" =>
        /\ client \in {"stopping", "joining", "stopped", "exited"}
        /\ client \in {"stopping", "joining"} => task
        /\ client \in {"stopped", "exited"} => ~ Alive

IInv ==
    /\ TypeOK
    /\ PipeIsSent
    /\ RestartsPaid
    /\ Forced
    /\ HonestAnswer
    /\ TaskFollowsClient
    /\ InterruptedTask

\* The time left after a worker has died is less than before, if a time is set.
LEMMA RemainingIsLess ==
    ASSUME budget \in Int, NEW time \in Remaining
    PROVE  /\ time \in Int
           /\ budget > 0 => 0 <= time /\ time <= budget - 1
           /\ budget <= 0 => time = budget
BY DEF Remaining

\* A restart costs at least one second of the search time.
LEMMA RestartIsPaid ==
    ASSUME TypeOK, RestartsPaid, PrepareRestart
    PROVE  /\ budget' \in Int /\ restarts' \in Nat /\ forced'
           /\ RestartsPaid'
<1>1. PICK time \in Remaining : time > 0 /\ budget' = time
  BY DEF PrepareRestart
<1>2. restarts' = restarts + 1 /\ forced' = TRUE
  BY DEF PrepareRestart
<1>3. /\ time \in Int
      /\ budget > 0 => 0 <= time /\ time <= budget - 1
      /\ budget <= 0 => time = budget
  BY <1>1, RemainingIsLess DEF TypeOK
<1>. QED
  BY <1>1, <1>2, <1>3, BudgetAssumption DEF TypeOK, RestartsPaid

LEMMA Initially == Init => IInv
<1>. SUFFICES ASSUME Init PROVE IInv
  OBVIOUS
<1>1. TypeOK
  <2>1. task \in BOOLEAN /\ forced \in BOOLEAN /\ isolated \in BOOLEAN /\ aborted \in BOOLEAN
    BY Zenon DEF Init
  <2>2. budget \in Int /\ restarts \in Nat
    BY BudgetAssumption DEF Init
  <2>. QED
    BY <2>1, <2>2 DEF Init, TypeOK
<1>4. RestartsPaid
  BY BudgetAssumption DEF Init, RestartsPaid
<1>2. PipeIsSent /\ HonestAnswer /\ TaskFollowsClient /\ InterruptedTask
  BY DEF Init, PipeIsSent, HonestAnswer, TaskFollowsClient, InterruptedTask
<1>3. Forced
  BY DEF Init, Forced
<1>. QED
  BY <1>1, <1>2, <1>3, <1>4 DEF IInv

LEMMA Preserved == IInv /\ [Next]_vars => IInv'
<1>. SUFFICES ASSUME IInv, [Next]_vars PROVE IInv'
  OBVIOUS
<1>. USE DEF IInv, masterVars, workerVars
<1>1. CASE StartTask
  <2>1. task' \in BOOLEAN /\ isolated' \in BOOLEAN /\ TaskFollowsClient'
    BY <1>1, Zenon DEF StartTask, StartWorker, TaskFollowsClient
  <2>2. restarts = 0
    BY <1>1 DEF StartTask, Forced
  <2>. QED
    BY <1>1, <2>1 DEF StartTask, StartWorker, TypeOK, PipeIsSent, RestartsPaid, Forced,
        HonestAnswer, InterruptedTask, Alive
<1>2. CASE StartTaskFails
  BY <1>2 DEF StartTaskFails, Answer, TypeOK, PipeIsSent, RestartsPaid, Forced, HonestAnswer,
      TaskFollowsClient, InterruptedTask, Alive, ReturnCodes
<1>3. CASE ReceiveResult
  BY <1>3 DEF ReceiveResult, Answer, TypeOK, PipeIsSent, RestartsPaid, Forced, HonestAnswer,
      TaskFollowsClient, InterruptedTask, Alive, ReturnCodes
<1>4. CASE GiveUp
  <2>1. PICK time \in Remaining : time <= 0 /\ budget' = time
    BY <1>4 DEF GiveUp
  <2>2. /\ time \in Int
        /\ budget > 0 => 0 <= time /\ time <= budget - 1
        /\ budget <= 0 => time = budget
    BY <2>1, RemainingIsLess DEF TypeOK
  <2>3. RestartsPaid'
    BY <1>4, <2>1, <2>2, BudgetAssumption DEF GiveUp, RestartsPaid, TypeOK
  <2>. QED
    BY <1>4, <2>1, <2>2, <2>3 DEF GiveUp, Answer, TypeOK, PipeIsSent, Forced, HonestAnswer,
        TaskFollowsClient, InterruptedTask, Alive, ReturnCodes
<1>5. CASE Restart
  <2>1. budget' \in Int /\ restarts' \in Nat /\ forced' /\ RestartsPaid'
    BY <1>5, RestartIsPaid DEF Restart
  <2>2. forced' \in BOOLEAN
    BY <1>5 DEF Restart, PrepareRestart
  <2>. QED
    BY <1>5, <2>1, <2>2 DEF Restart, WorkerLost, StartWorker, TypeOK, PipeIsSent, Forced,
        HonestAnswer, TaskFollowsClient, InterruptedTask, Alive
<1>6. CASE RestartFails
  <2>1. budget' \in Int /\ restarts' \in Nat /\ forced' /\ RestartsPaid'
    BY <1>6, RestartIsPaid DEF RestartFails
  <2>2. forced' \in BOOLEAN
    BY <1>6 DEF RestartFails, PrepareRestart
  <2>. QED
    BY <1>6, <2>1, <2>2 DEF RestartFails, WorkerLost, Answer, TypeOK, PipeIsSent, Forced,
        HonestAnswer, TaskFollowsClient, InterruptedTask, Alive, ReturnCodes
<1>7. CASE Interrupt
  BY <1>7 DEF Interrupt, Answer, TypeOK, PipeIsSent, RestartsPaid, Forced, HonestAnswer,
      TaskFollowsClient, InterruptedTask, Alive, ReturnCodes
<1>8. CASE Stop
  BY <1>8 DEF Stop, TypeOK, PipeIsSent, RestartsPaid, Forced, HonestAnswer,
      TaskFollowsClient, InterruptedTask, Alive
<1>9. CASE Kill
  BY <1>9 DEF Kill, TypeOK, PipeIsSent, RestartsPaid, Forced, HonestAnswer,
      TaskFollowsClient, InterruptedTask, Alive
<1>10. CASE Exit
  BY <1>10 DEF Exit, TypeOK, PipeIsSent, RestartsPaid, Forced, HonestAnswer,
      TaskFollowsClient, InterruptedTask, Alive
<1>11. CASE \E c \in ReturnCodes \cup {"failed"} : Send(c)
  BY <1>11 DEF Send, TypeOK, PipeIsSent, RestartsPaid, Forced, HonestAnswer,
      TaskFollowsClient, InterruptedTask, Alive, ReturnCodes
<1>12. CASE EndSilently
  BY <1>12 DEF EndSilently, TypeOK, PipeIsSent, RestartsPaid, Forced, HonestAnswer,
      TaskFollowsClient, InterruptedTask, Alive
<1>13. CASE Crash
  BY <1>13 DEF Crash, TypeOK, PipeIsSent, RestartsPaid, Forced, HonestAnswer,
      TaskFollowsClient, InterruptedTask, Alive
<1>14. CASE UNCHANGED vars
  BY <1>14 DEF vars, TypeOK, PipeIsSent, RestartsPaid, Forced, HonestAnswer,
      TaskFollowsClient, InterruptedTask, Alive
<1>. QED
  BY <1>1, <1>2, <1>3, <1>4, <1>5, <1>6, <1>7, <1>8, <1>9, <1>10, <1>11, <1>12, <1>13, <1>14
  DEF Next, Master, Worker, Finish, Raise, EndProcess, Terminated

LEMMA Invariance == Spec => []IInv
BY Initially, Preserved, PTL DEF Spec

\* The state of the master and of its worker is well typed.
THEOREM TypeCorrect == Spec => []TypeOK
BY Invariance, PTL DEF IInv

\* However workers crash, the master restarts them at most as often as the search
\* time has seconds, and never if no search time is set.
THEOREM RestartsAreBounded == Spec => []RestartsBounded
<1>1. IInv => RestartsBounded
  BY DEF IInv, RestartsPaid, RestartsBounded
<1>. QED
  BY <1>1, Invariance, PTL

\* A worker started after a crash executes its test cases in subprocesses.
THEOREM RestartsAreIsolated == Spec => []RestartedIsolated
<1>1. IInv => RestartedIsolated
  BY DEF IInv, Forced, RestartedIsolated
<1>. QED
  BY <1>1, Invariance, PTL

\* Crashes of the worker are contained: restarts are bounded and isolated.
THEOREM CrashesAreContained == Spec => []RestartsContained
BY RestartsAreBounded, RestartsAreIsolated, PTL DEF RestartsContained

\* The client reports a success only after a worker has.
THEOREM AnswersAreHonest == Spec => []HonestAnswer
BY Invariance, PTL DEF IInv

\* After an interrupt the client stops only when no worker runs any more.
THEOREM InterruptStopsWorker == Spec => []GivenUpIsStopped
<1>1. IInv => GivenUpIsStopped
  BY DEF IInv, InterruptedTask, GivenUpIsStopped
<1>. QED
  BY <1>1, Invariance, PTL

\* A success that the client reports was sent, an interrupt has stopped the worker.
THEOREM EndsAreHonest == Spec => []HonestEnd
BY AnswersAreHonest, InterruptStopsWorker, PTL DEF HonestEnd

\* A result in the pipe is neither dropped for a restart nor for an error.
THEOREM ResultsAreNotDropped == Spec => ResultNotDropped
<1>1. [Next]_vars => [client = "waiting" /\ pipe # "empty" => UNCHANGED <<restarts, aborted>>]_vars
  BY DEF Next, Master, Worker, Finish, Raise, EndProcess, Terminated, vars, masterVars, workerVars,
      StartTask, StartTaskFails, ReceiveResult, GiveUp, Restart, RestartFails, Interrupt, Stop, Kill,
      Exit, Send, EndSilently, Crash, WorkerLost
<1>. QED
  BY <1>1, PTL DEF Spec, ResultNotDropped
================================================================================
