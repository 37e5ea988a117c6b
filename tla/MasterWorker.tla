------------------------------ MODULE MasterWorker ------------------------------
(***************************************************************************)
(* The master-worker architecture (pynguin/master_worker): the client      *)
(* starts one task, the master runs it in a worker process and restarts    *)
(* the worker when it dies without a result, with what is left of the      *)
(* search time and in subprocess mode.  The worker sends at most one       *)
(* result through its pipe and may die, or fail to end, at any time.       *)
(***************************************************************************)
EXTENDS Integers

CONSTANT
    Budget      \* maximum_search_time of the configuration, -1 (the default) if it is not set

ASSUME BudgetAssumption == Budget \in Int

VARIABLES
    client,     \* where run_pynguin_with_master_worker stands
    code,       \* what it is going to return
    task,       \* the task is in _running_tasks
    budget,     \* maximum_search_time of the task's configuration
    forced,     \* _force_subprocess_mode
    restarts,   \* _restart_count
    worker,     \* the state of the current worker process
    isolated,   \* it was started with subprocess = True by the master
    pipe,       \* the result in the pipe of the current worker
    aborted,    \* ghost: the task was given up because there is no time left
    sent        \* ghost: the results the workers have sent so far

masterVars == <<client, code, task, budget, forced, restarts, aborted>>
workerVars == <<worker, isolated, pipe, sent>>
vars == <<masterVars, workerVars>>

ReturnCodes == {"OK", "SETUP_FAILED", "NO_TESTS_GENERATED", "FINAL_METRICS_TRACKING_FAILED"}

Alive == worker \in {"running", "ending"}

--------------------------------------------------------------------------------
Init ==
    /\ client = "new" /\ code = "none" /\ task = FALSE
    /\ budget = Budget /\ forced = FALSE /\ restarts = 0
    /\ worker = "none" /\ isolated = FALSE /\ pipe = "empty"
    /\ aborted = FALSE /\ sent = {}

(* The client and its master.                                               *)

\* _start_worker: a new pipe and a new process.
StartWorker(subprocess) ==
    /\ worker' = "running" /\ pipe' = "empty" /\ isolated' = subprocess

\* The client leaves its try block with c.
Answer(c) == client' = "stopping" /\ code' = c

StartTask ==
    /\ client = "new"
    /\ client' = "waiting"
    /\ task' = TRUE
    /\ StartWorker(FALSE)
    /\ UNCHANGED <<code, budget, forced, restarts, aborted, sent>>

\* The process does not start: the client catches the exception.
StartTaskFails ==
    /\ client = "new"
    /\ Answer("SETUP_FAILED")
    /\ UNCHANGED <<task, budget, forced, restarts, aborted, workerVars>>

\* Mutant: a worker that failed counts as a success.
ReceiveResultBlindly ==
    /\ client = "waiting" /\ pipe # "empty"
    /\ Answer(IF pipe = "failed" THEN "OK" ELSE pipe)
    /\ task' = FALSE
    /\ UNCHANGED <<budget, forced, restarts, aborted, workerVars>>

\* A result is in the pipe, whether or not the worker is still alive; an exception
\* in the worker comes without a return code.
ReceiveResult ==
    /\ client = "waiting" /\ pipe # "empty"
    /\ Answer(IF pipe = "failed" THEN "NO_TESTS_GENERATED" ELSE pipe)
    /\ task' = FALSE
    /\ UNCHANGED <<budget, forced, restarts, aborted, workerVars>>

\* Mutant: whatever is left in the pipe of a dead worker is dropped.
WorkerLostAnyway == client = "waiting" /\ worker = "dead"

\* recv raises: the worker has died and the pipe is empty.
WorkerLost == client = "waiting" /\ worker = "dead" /\ pipe = "empty"

\* Mutant: the elapsed time is rounded down.
RemainingOrAll == IF budget > 0 THEN 0..budget ELSE {budget}

\* What may be left of the search time, in full seconds, after the time the
\* worker has run; a search time that is not set is not touched.
Remaining == IF budget > 0 THEN 0..(budget - 1) ELSE {budget}

\* No search time is left: an error result for the client.
GiveUp ==
    /\ WorkerLost
    /\ \E time \in Remaining : time <= 0 /\ budget' = time
    /\ Answer("NO_TESTS_GENERATED")
    /\ task' = FALSE
    /\ aborted' = TRUE
    /\ UNCHANGED <<forced, restarts, workerVars>>

\* Mutant: subprocess mode is forced from the second restart on.
PrepareRestartLate ==
    /\ \E time \in Remaining : time > 0 /\ budget' = time
    /\ restarts' = restarts + 1
    /\ forced' = (restarts > 0)

\* Mutant: the search time is not adjusted, and restarts are not counted.
PrepareRestartForFree ==
    /\ budget > 0
    /\ forced' = TRUE
    /\ UNCHANGED <<budget, restarts>>

\* The first half of _restart: count it and force subprocess mode.
PrepareRestart ==
    /\ \E time \in Remaining : time > 0 /\ budget' = time
    /\ restarts' = restarts + 1
    /\ forced' = TRUE

Restart ==
    /\ WorkerLost
    /\ PrepareRestart
    /\ StartWorker(forced')
    /\ UNCHANGED <<client, code, task, aborted, sent>>

\* The new process does not start: MasterProcess.get_result catches the exception
\* and answers with an error; the task stays in _running_tasks.
RestartFails ==
    /\ WorkerLost
    /\ PrepareRestart
    /\ worker' = "none" /\ pipe' = "empty" /\ UNCHANGED isolated
    /\ Answer("NO_TESTS_GENERATED")
    /\ UNCHANGED <<task, aborted, sent>>

\* A KeyboardInterrupt passes through every handler up to the exit of the client.
Interrupt ==
    /\ client = "waiting"
    /\ Answer("interrupted")
    /\ UNCHANGED <<task, budget, forced, restarts, aborted, workerVars>>

\* Mutant: nothing is terminated.
StopNothing ==
    /\ client = "stopping"
    /\ client' = "stopped"
    /\ task' = FALSE
    /\ UNCHANGED <<code, budget, forced, restarts, aborted, workerVars>>

\* MasterProcess.stop(): only the worker of a task in _running_tasks is terminated.
Stop ==
    /\ client = "stopping"
    /\ IF task /\ Alive
       THEN client' = "joining" /\ UNCHANGED task
       ELSE client' = "stopped" /\ task' = FALSE
    /\ UNCHANGED <<code, budget, forced, restarts, aborted, workerVars>>

\* The join after SIGTERM is over; a worker that is still alive is killed.
Kill ==
    /\ client = "joining"
    /\ client' = "stopped"
    /\ task' = FALSE
    /\ worker' = "dead"
    /\ UNCHANGED <<code, budget, forced, restarts, aborted, isolated, pipe, sent>>

\* The interpreter ends once the worker, which is not a daemon, has ended.
Exit ==
    /\ client = "stopped" /\ ~ Alive
    /\ client' = "exited"
    /\ UNCHANGED <<code, task, budget, forced, restarts, aborted, workerVars>>

Master ==
    \/ StartTask \/ StartTaskFails \/ ReceiveResult \/ GiveUp \/ Restart \/ RestartFails
    \/ Stop \/ Kill \/ Exit

--------------------------------------------------------------------------------
(* The worker process: worker_main.                                         *)

Send(result) ==
    /\ worker = "running"
    /\ worker' = "ending"
    /\ pipe' = result
    /\ sent' = sent \cup {result}
    /\ UNCHANGED <<isolated, masterVars>>

Finish == \E c \in ReturnCodes : Send(c)

Raise == Send("failed")

\* The worker is interrupted, or its result cannot be sent.
EndSilently ==
    /\ worker = "running"
    /\ worker' = "ending"
    /\ UNCHANGED <<isolated, pipe, sent, masterVars>>

\* A signal, the memory limit or the master's SIGTERM kills the worker.
Crash ==
    /\ Alive
    /\ worker' = "dead"
    /\ UNCHANGED <<isolated, pipe, sent, masterVars>>

EndProcess == worker = "ending" /\ Crash

Worker == Finish \/ Raise \/ EndSilently \/ Crash \/ EndProcess

Terminated == client = "exited" /\ UNCHANGED vars

Next == Master \/ Interrupt \/ Worker \/ Terminated

Spec == Init /\ [][Next]_vars

\* The search of a worker stops by its stopping conditions, and a worker without
\* foreign threads ends after that: each of its states is left at some time.
FairSpec == Spec /\ WF_vars(Master) /\ WF_vars(Worker)

--------------------------------------------------------------------------------
TypeOK ==
    /\ client \in {"new", "waiting", "stopping", "joining", "stopped", "exited"}
    /\ code \in ReturnCodes \cup {"none", "interrupted"}
    /\ task \in BOOLEAN
    /\ budget \in Int
    /\ forced \in BOOLEAN
    /\ restarts \in Nat
    /\ worker \in {"none", "running", "ending", "dead"}
    /\ isolated \in BOOLEAN
    /\ pipe \in ReturnCodes \cup {"empty", "failed"}
    /\ aborted \in BOOLEAN
    /\ sent \subseteq ReturnCodes \cup {"failed"}

\* Every restart costs at least a second of the search time, and without a search
\* time there is none: the task is not restarted forever.
RestartsBounded ==
    /\ Budget > 0 => budget >= 0 /\ restarts + budget <= Budget
    /\ Budget <= 0 => restarts = 0

\* A worker that follows one that died runs its test cases in subprocesses.
RestartedIsolated == restarts > 0 /\ worker = "running" => isolated

\* Restarts come to an end, and what follows a crash is isolated (master.py:70-122).
RestartsContained == RestartsBounded /\ RestartedIsolated

\* The client reports success only if a worker has sent it.
HonestAnswer == code \in {"OK", "FINAL_METRICS_TRACKING_FAILED"} => code \in sent

\* A result that a worker has sent before it died is not thrown away for a restart
\* or an error.
ResultNotDropped ==
    [][client = "waiting" /\ pipe # "empty" => UNCHANGED <<restarts, aborted>>]_vars

\* The worker of a task that the client gives up (on an interrupt) does not run on.
GivenUpIsStopped == client = "stopped" /\ code = "interrupted" => ~ Alive

\* What the client tells in the end is true: of a success, and of a worker that it
\* has stopped (client.py:48-99).
HonestEnd == HonestAnswer /\ GivenUpIsStopped

\* The client comes to an end, however often workers die.
ClientExits == <>(client = "exited")
================================================================================
