------------------------ MODULE SubprocessExecutorProofs ------------------------
(***************************************************************************)
(* Proofs about SubprocessExecutor for every number of test cases.  The    *)
(* argument for the containment of crashes: a child that closes its pipe   *)
(* without results ran a test case that crashes or spoils a result, so     *)
(* when it ran a single test case, that is the culprit; and when it ran    *)
(* several, no result is decided, the queue takes them all.  Only what a   *)
(* shared child has sent can have been lost to another test case; then     *)
(* nothing is queued and no further child starts.                          *)
(***************************************************************************)
EXTENDS SubprocessExecutor, FiniteSetTheorems, TLAPS

\* A test case that passes has timed out only if something cut it off.
Excused(t) == behaviour[t] = "passes" => t \in hurried

\* It shares its child with a test case before it that was given up.
Disturbed(t) == \E u \in batch : u < t /\ GivenUp(u)

\* The observers' counters follow the execution.
Counters ==
    /\ \A t \in Tests : before[t] = IF parent = "new" THEN 0 ELSE 1
    /\ \A t \in Tests : after[t] = IF parent = "returned" THEN 1 ELSE 0

\* Between two children none is alive.
Quiet ==
    /\ parent \in {"new", "next", "returned"} => ~ Alive
    /\ parent = "returned" => queue = {}

\* What the child has collected is sent as a whole.
PipeComplete ==
    /\ pipe = "results" => child # "running" /\ \A t \in batch : done[t] # "none"
    /\ parent = "joining" => pipe = "results"
    /\ parent = "receiving" => pipe = "results" \/ Closed
    /\ \A t \in Tests : done[t] = "timeout" => Excused(t) \/ Disturbed(t)

\* A child that is done without results ran a culprit.
Culprit ==
    parent \notin {"next", "returned"} /\ child \in {"ending", "gone"} /\ pipe = "empty" =>
        \E t \in batch : behaviour[t] \in {"crashes", "spoils"}

\* The same for a child that is dead while its results are waited for.
DeadCulprit ==
    parent \in {"polling", "receiving"} /\ child = "dead" /\ pipe = "empty" =>
        \E t \in batch : behaviour[t] \in {"crashes", "spoils"}

\* A single test case without results is the culprit, or was cut off.
FailedExcused ==
    parent = "failed" /\ Cardinality(batch) = 1 => \A t \in batch : Excused(t)

\* Every test case is answered, or still queued or executed.
Pendings ==
    \A t \in Tests :
        \/ results[t] # "none"
        \/ t \in queue
        \/ parent = "new"
        \/ t \in batch /\ parent \in {"polling", "receiving", "failed"}

\* Test cases are queued only while single ones are executed.
OneByOne ==
    /\ parent = "new" => queue = {}
    /\ queue # {} => parent = "next" \/ Cardinality(batch) = 1

\* A child executes all test cases or one.
Batches == parent # "new" => batch = Tests \/ Cardinality(batch) = 1

\* The blame is settled: a test case that lost its result to another one was answered by
\* the shared child, and no other follows.
Blame ==
    \A t \in Tests :
        (results[t] = "timeout" \/ t \in saved) /\ ~ Excused(t) =>
            /\ t \notin saved /\ batch = Tests /\ Disturbed(t)
            /\ queue = {} /\ parent \in {"joining", "next", "returned"}

IInv ==
    /\ TypeOK
    /\ OneByOne
    /\ Counters
    /\ Quiet
    /\ PipeComplete
    /\ Culprit
    /\ DeadCulprit
    /\ FailedExcused
    /\ Batches
    /\ Blame
    /\ Pendings

LEMMA SingleBatch ==
    ASSUME batch \subseteq Tests, Cardinality(batch) = 1
    PROVE  \E t \in Tests : batch = {t}
<1>1. IsFiniteSet(Tests)
  BY FS_Interval, BatchAssumption DEF Tests
<1>2. IsFiniteSet(batch)
  BY <1>1, FS_Subset
<1>3. PICK t : batch = {t}
  BY <1>2, FS_Singleton
<1>. QED
  BY <1>3

LEMMA Initially == Init => IInv
<1>. SUFFICES ASSUME Init PROVE IInv
  OBVIOUS
<1>1. traced \in BOOLEAN
  BY Zenon DEF Init
<1>2. TypeOK
  BY <1>1 DEF Init, TypeOK
<1>3. Counters /\ Quiet /\ PipeComplete /\ Culprit /\ DeadCulprit
  BY DEF Init, Counters, Quiet, PipeComplete, Culprit, DeadCulprit, Alive
<1>5. OneByOne
  BY DEF Init, OneByOne
<1>4. FailedExcused /\ Batches /\ Blame /\ Pendings
  BY DEF Init, FailedExcused, Batches, Blame, Pendings
<1>. QED
  BY <1>2, <1>3, <1>4, <1>5 DEF IInv

\* A new child starts with nothing collected and nothing sent.
LEMMA NewChild ==
    ASSUME IInv, NEW S \in SUBSET Tests, StartChild(S),
           UNCHANGED <<behaviour, hurried, results, traced>>,
           queue' \subseteq Tests, before' \in [Tests -> Nat], after' = after, saved' = saved,
           parent = "new" \/ queue # {}
    PROVE  /\ TypeOK' /\ Quiet' /\ PipeComplete' /\ Culprit' /\ DeadCulprit'
           /\ FailedExcused' /\ Blame'
<1>. USE DEF IInv, StartChild
<1>1. TypeOK'
  BY DEF TypeOK
<1>2. Quiet' /\ Culprit' /\ DeadCulprit' /\ FailedExcused'
  BY DEF Quiet, Culprit, DeadCulprit, FailedExcused, Alive
<1>3. PipeComplete'
  BY DEF PipeComplete, TypeOK
<1>4. Blame'
  BY DEF Blame, Excused
<1>. QED
  BY <1>1, <1>2, <1>3, <1>4

LEMMA ParentKeepsOneByOne == IInv /\ Parent => OneByOne' /\ Batches'
<1>. SUFFICES ASSUME IInv, Parent PROVE OneByOne' /\ Batches'
  OBVIOUS
<1>. USE DEF IInv, OneByOne, Batches
<1>1. CASE ExecuteMultiple
  BY <1>1 DEF ExecuteMultiple, StartChild
<1>2. CASE ExecuteNext
  <2>1. PICK t \in queue : StartChild({t})
    BY <1>2 DEF ExecuteNext
  <2>2. Cardinality({t}) = 1
    BY FS_Singleton
  <2>. QED
    BY <2>1, <2>2 DEF StartChild
<1>3. CASE PollReady \/ PollTimeout \/ Receive \/ ReceiveFails
  BY <1>3 DEF PollReady, PollTimeout, Receive, ReceiveFails
<1>4. CASE Join \/ FallbackSingle \/ FallbackMultiple \/ Return
  BY <1>4 DEF Join, FallbackSingle, FallbackMultiple, Return
<1>. QED
  BY <1>1, <1>2, <1>3, <1>4 DEF Parent

LEMMA ParentPreserves == IInv /\ Parent => IInv'
<1>. SUFFICES ASSUME IInv, Parent PROVE IInv'
  OBVIOUS
<1>. USE DEF IInv, childVars
<1>0. OneByOne' /\ Batches'
  BY ParentKeepsOneByOne
<1>1. CASE ExecuteMultiple
  <2>1. before' \in [Tests -> Nat]
    BY <1>1 DEF ExecuteMultiple, TypeOK
  <2>2. /\ TypeOK' /\ Quiet' /\ PipeComplete' /\ Culprit' /\ DeadCulprit'
        /\ FailedExcused' /\ Blame'
    <3>1. /\ StartChild(Tests) /\ queue' \subseteq Tests /\ after' = after /\ saved' = saved
          /\ parent = "new"
      BY <1>1 DEF ExecuteMultiple, TypeOK
    <3>2. UNCHANGED <<behaviour, hurried, results, traced>>
      BY <1>1 DEF ExecuteMultiple
    <3>. QED
      BY <2>1, <3>1, <3>2, NewChild
  <2>3. Counters'
    BY <1>1 DEF ExecuteMultiple, StartChild, Counters, TypeOK
  <2>4. Pendings'
    BY <1>1 DEF ExecuteMultiple, StartChild, Pendings
  <2>. QED
    BY <1>0, <2>2, <2>3, <2>4
<1>2. CASE PollReady
  BY <1>0, <1>2 DEF PollReady, TypeOK, Counters, Quiet, PipeComplete, Culprit, DeadCulprit,
      FailedExcused, Blame, Pendings, Excused, Closed, Alive, Disturbed, GivenUp
<1>3. CASE PollTimeout
  <2>1. hurried' \subseteq Tests /\ hurried \subseteq hurried'
    BY <1>3 DEF PollTimeout, TypeOK
  <2>2. FailedExcused'
    BY <1>3 DEF PollTimeout, FailedExcused, Excused
  <2>3. TypeOK' /\ Counters' /\ Quiet' /\ Culprit' /\ DeadCulprit' /\ Pendings'
    BY <1>3, <2>1 DEF PollTimeout, TypeOK, Counters, Quiet, Culprit, DeadCulprit, Pendings, Alive
  <2>4. PipeComplete' /\ Blame'
    BY <1>3, <2>1 DEF PollTimeout, PipeComplete, Blame, Excused, Closed, Disturbed, GivenUp
  <2>. QED
    BY <1>0, <2>2, <2>3, <2>4
<1>4. CASE Receive
  <2>1. results' \in [Tests -> {"none", "result", "timeout"}]
    BY <1>4 DEF Receive, TypeOK
  <2>2. Blame'
    <3>1. parent = "receiving" /\ pipe = "results" /\ parent' = "joining"
          /\ UNCHANGED <<behaviour, batch, queue, saved, done, hurried>>
          /\ \A t \in Tests : results'[t] = IF t \in batch THEN done[t] ELSE results[t]
      BY <1>4 DEF Receive, TypeOK
    <3>2. ASSUME NEW t \in Tests, results'[t] = "timeout" \/ t \in saved, ~ Excused(t)
          PROVE  t \notin saved /\ batch = Tests /\ Disturbed(t) /\ queue = {}
      <4>1. results[t] # "timeout" /\ t \notin saved
        BY <3>1, <3>2 DEF Blame
      <4>2. t \in batch /\ Disturbed(t)
        BY <3>1, <3>2, <4>1 DEF PipeComplete
      <4>3. Cardinality(batch) # 1
        BY <4>2, SingleBatch, BatchAssumption DEF Disturbed, TypeOK, Tests
      <4>. QED
        BY <3>1, <4>1, <4>2, <4>3 DEF Batches, OneByOne
    <3>. QED
      BY <3>1, <3>2 DEF Blame, Excused, Disturbed, GivenUp
  <2>3. Pendings'
    BY <1>4 DEF Receive, Pendings, PipeComplete, TypeOK, Excused, Disturbed, GivenUp
  <2>4. TypeOK' /\ Counters' /\ Quiet' /\ PipeComplete' /\ Culprit' /\ DeadCulprit' /\ FailedExcused'
    BY <1>4, <2>1 DEF Receive, TypeOK, Counters, Quiet, PipeComplete, Culprit, DeadCulprit,
        FailedExcused, Excused, Alive, Closed, Disturbed, GivenUp
  <2>. QED
    BY <1>0, <2>2, <2>3, <2>4
<1>5. CASE ReceiveFails
  <2>1. traced' \in BOOLEAN
    BY <1>5, Zenon DEF ReceiveFails
  <2>2. \E t \in batch : behaviour[t] \in {"crashes", "spoils"}
    BY <1>5 DEF ReceiveFails, PipeComplete, Closed, Culprit, DeadCulprit, Excused, Disturbed, GivenUp
  <2>3. FailedExcused'
    <3>. SUFFICES ASSUME Cardinality(batch) = 1 PROVE \A t \in batch : behaviour[t] # "passes"
      BY <1>5 DEF ReceiveFails, FailedExcused, Excused
    <3>. QED
      BY <2>2, SingleBatch DEF TypeOK
  <2>4. TypeOK' /\ Counters' /\ Quiet' /\ Culprit' /\ DeadCulprit' /\ Pendings'
    BY <1>5, <2>1 DEF ReceiveFails, TypeOK, Counters, Quiet, Culprit, DeadCulprit, Pendings, Alive
  <2>5. PipeComplete' /\ Blame'
    BY <1>5 DEF ReceiveFails, PipeComplete, Blame, Excused, Closed, Disturbed, GivenUp
  <2>. QED
    BY <1>0, <2>3, <2>4, <2>5
<1>6. CASE Join
  BY <1>0, <1>6 DEF Join, TypeOK, Counters, Quiet, PipeComplete, Culprit, DeadCulprit,
      FailedExcused, Blame, Pendings, Excused, Closed, Alive, Disturbed, GivenUp
<1>7. CASE FallbackSingle
  <2>1. results' \in [Tests -> {"none", "result", "timeout"}]
    BY <1>7 DEF FallbackSingle, TypeOK
  <2>2. saved' \subseteq Tests /\ traced' \in BOOLEAN
    <3>1. CASE child = "dead" /\ exit = "signal"
      BY <1>7, <3>1 DEF FallbackSingle, TypeOK
    <3>2. CASE ~ (child = "dead" /\ exit = "signal")
      BY <1>7, <3>2 DEF FallbackSingle, TypeOK
    <3>. QED
      BY <3>1, <3>2
  <2>3. Blame'
    BY <1>7 DEF FallbackSingle, Blame, FailedExcused, Excused, TypeOK, Disturbed, GivenUp
  <2>4. Pendings'
    BY <1>7 DEF FallbackSingle, Pendings, TypeOK
  <2>5. TypeOK' /\ Counters' /\ Quiet' /\ Culprit' /\ DeadCulprit' /\ FailedExcused'
    BY <1>7, <2>1, <2>2 DEF FallbackSingle, TypeOK, Counters, Quiet, Culprit, DeadCulprit,
        FailedExcused, Alive
  <2>6. PipeComplete'
    BY <1>7 DEF FallbackSingle, PipeComplete, Excused, Disturbed, GivenUp
  <2>. QED
    BY <1>0, <2>3, <2>4, <2>5, <2>6
<1>8. CASE FallbackMultiple
  <2>1. TypeOK'
    BY <1>8 DEF FallbackMultiple, TypeOK
  <2>2. Counters' /\ Quiet' /\ PipeComplete' /\ Blame'
    BY <1>8 DEF FallbackMultiple, Counters, Quiet, PipeComplete, Blame, Excused, Alive, Disturbed, GivenUp
  <2>3. Culprit' /\ DeadCulprit' /\ FailedExcused'
    BY <1>8 DEF FallbackMultiple, Culprit, DeadCulprit, FailedExcused
  <2>4. Pendings'
    BY <1>8 DEF FallbackMultiple, OneByOne, Pendings
  <2>. QED
    BY <1>0, <2>1, <2>2, <2>3, <2>4
<1>9. CASE ExecuteNext
  <2>1. PICK t \in queue : queue' = queue \ {t} /\ StartChild({t})
    BY <1>9 DEF ExecuteNext
  <2>2. /\ TypeOK' /\ Quiet' /\ PipeComplete' /\ Culprit' /\ DeadCulprit'
        /\ FailedExcused' /\ Blame'
    <3>1. {t} \in SUBSET Tests /\ queue' \subseteq Tests /\ before' \in [Tests -> Nat] /\ queue # {}
      BY <1>9, <2>1 DEF ExecuteNext, TypeOK
    <3>2. UNCHANGED <<behaviour, hurried, results, traced>> /\ after' = after /\ saved' = saved
      BY <1>9 DEF ExecuteNext
    <3>. QED
      BY <2>1, <3>1, <3>2, NewChild
  <2>3. Counters'
    BY <1>9, <2>1 DEF ExecuteNext, StartChild, Counters
  <2>4. Pendings'
    BY <1>9, <2>1 DEF ExecuteNext, StartChild, Pendings
  <2>. QED
    BY <1>0, <2>2, <2>3, <2>4
<1>10. CASE Return
  <2>1. after' \in [Tests -> Nat] /\ Counters'
    BY <1>10 DEF Return, TypeOK, Counters
  <2>2. TypeOK' /\ Quiet' /\ Culprit' /\ DeadCulprit' /\ FailedExcused' /\ Pendings'
    BY <1>10, <2>1 DEF Return, TypeOK, Quiet, Culprit, DeadCulprit, FailedExcused, Pendings, Alive
  <2>3. PipeComplete' /\ Blame'
    BY <1>10 DEF Return, PipeComplete, Blame, Excused, Disturbed, GivenUp
  <2>. QED
    BY <1>0, <2>1, <2>2, <2>3
<1>. QED
  BY <1>1, <1>2, <1>3, <1>4, <1>5, <1>6, <1>7, <1>8, <1>9, <1>10 DEF Parent

LEMMA ChildPreserves == IInv /\ Child => IInv'
<1>. SUFFICES ASSUME IInv, Child PROVE IInv'
  OBVIOUS
<1>. USE DEF IInv, parentVars
<1>0. OneByOne' /\ Batches'
  BY DEF Child, Collect, RunTest, RunHangs, RunHurried, RunDisturbed, RunCrashes, Send, EndChild, ReapChild,
      OneByOne, Batches
<1>1. ASSUME NEW t \in batch, NEW r \in {"result", "timeout"}, Collect(t, r),
             hurried' \subseteq Tests, hurried \subseteq hurried',
             r = "timeout" => (Excused(t) \/ Disturbed(t))'
      PROVE  IInv'
  <2>1. TypeOK'
    BY <1>1 DEF Collect, TypeOK
  <2>0. /\ child = "running" /\ child' = "running" /\ done[t] = "none"
        /\ UNCHANGED <<behaviour, parent, batch, queue, results, saved, pipe>>
        /\ \A u \in Tests : done'[u] = IF u = t THEN r ELSE done[u]
    BY <1>1 DEF Collect, Pending, First, TypeOK
  <2>2. PipeComplete'
    <3>1. \A u \in Tests : Disturbed(u) => (Disturbed(u))'
      BY <1>1, <2>0 DEF Disturbed, GivenUp, TypeOK
    <3>2. \A u \in Tests : Excused(u) => (Excused(u))'
      BY <1>1, <2>0 DEF Excused
    <3>3. \A u \in Tests : done'[u] = "timeout" => (Excused(u) \/ Disturbed(u))'
      BY <1>1, <2>0, <3>1, <3>2 DEF PipeComplete
    <3>. QED
      BY <2>0, <3>3 DEF PipeComplete, Closed
  <2>3. Counters' /\ Quiet' /\ Culprit' /\ DeadCulprit' /\ Pendings'
    BY <1>1 DEF Collect, Counters, Quiet, Culprit, DeadCulprit, Pendings, Alive
  <2>4. FailedExcused'
    BY <1>1, <2>0 DEF FailedExcused, Excused
  <2>5. Blame'
    BY <1>1, <2>0 DEF Blame, Quiet, PipeComplete, Alive, Excused
  <2>. QED
    BY <1>0, <2>1, <2>2, <2>3, <2>4, <2>5
<1>2. ASSUME NEW t \in batch, RunTest(t) PROVE IInv'
  BY <1>1, <1>2 DEF RunTest, TypeOK
<1>3. ASSUME NEW t \in batch, RunHangs(t) \/ RunHurried(t) \/ RunDisturbed(t) PROVE IInv'
  <2>1. Collect(t, "timeout") /\ hurried' \subseteq Tests /\ hurried \subseteq hurried'
    BY <1>3 DEF RunHangs, RunHurried, RunDisturbed, TypeOK
  <2>2. (Excused(t) \/ Disturbed(t))'
    <3>1. CASE RunHangs(t) \/ RunHurried(t)
      BY <3>1, <2>1 DEF RunHangs, RunHurried, Collect, Excused
    <3>2. CASE RunDisturbed(t)
      <4>1. PICK u \in batch : u < t /\ GivenUp(u)
        BY <3>2 DEF RunDisturbed
      <4>2. u # t
        BY <4>1, BatchAssumption DEF TypeOK, Tests
      <4>3. done'[u] = done[u] /\ UNCHANGED <<behaviour, batch>>
        BY <2>1, <4>2 DEF Collect, TypeOK
      <4>. QED
        BY <2>1, <4>1, <4>3 DEF Disturbed, GivenUp
    <3>. QED
      BY <1>3, <3>1, <3>2
  <2>. QED
    BY <1>1, <2>1, <2>2
<1>4. ASSUME NEW t \in batch, RunCrashes(t) PROVE IInv'
  BY <1>0, <1>4 DEF RunCrashes, TypeOK, Counters, Quiet, PipeComplete, Culprit, DeadCulprit,
      FailedExcused, Blame, Pendings, Excused, Closed, Alive, Disturbed, GivenUp
<1>5. CASE Send
  <2>1. pipe' = "results" => \A t \in batch : done[t] # "none"
    BY <1>5 DEF Send, Pending
  <2>2. pipe' = "empty" => \E t \in batch : behaviour[t] \in {"crashes", "spoils"}
    BY <1>5 DEF Send
  <2>3. pipe' \in {"empty", "results"}
    BY <1>5 DEF Send
  <2>4. TypeOK' /\ Counters' /\ Quiet' /\ Pendings' /\ FailedExcused' /\ Blame'
    BY <1>5, <2>3 DEF Send, TypeOK, Counters, Quiet, Pendings, FailedExcused,
        Blame, Excused, Alive, Disturbed, GivenUp
  <2>5. PipeComplete'
    BY <1>5, <2>1 DEF Send, PipeComplete, Excused, Closed, Disturbed, GivenUp
  <2>6. Culprit' /\ DeadCulprit'
    BY <1>5, <2>2 DEF Send, Culprit, DeadCulprit
  <2>. QED
    BY <1>0, <2>4, <2>5, <2>6
<1>6. CASE EndChild
  BY <1>0, <1>6 DEF EndChild, TypeOK, Counters, Quiet, PipeComplete, Culprit, DeadCulprit,
      FailedExcused, Blame, Pendings, Excused, Closed, Alive, Disturbed, GivenUp
<1>7. CASE ReapChild
  BY <1>0, <1>7 DEF ReapChild, TypeOK, Counters, Quiet, PipeComplete, Culprit, DeadCulprit,
      FailedExcused, Blame, Pendings, Excused, Closed, Alive, Disturbed, GivenUp
<1>. QED
  BY <1>2, <1>3, <1>4, <1>5, <1>6, <1>7 DEF Child

LEMMA Stuttering == IInv /\ UNCHANGED vars => IInv'
BY DEF vars, parentVars, childVars, IInv, TypeOK, OneByOne, Counters, Quiet, PipeComplete, Culprit,
    DeadCulprit, FailedExcused, Batches, Blame, Pendings, Excused, Disturbed, GivenUp, Closed, Alive

LEMMA Invariance == Spec => []IInv
<1>1. IInv /\ [Next]_vars => IInv'
  BY ParentPreserves, ChildPreserves, Stuttering DEF Next, Terminated
<1>. QED
  BY <1>1, Initially, PTL DEF Spec

\* The state of the parent and of its child is well typed.
THEOREM TypeCorrect == Spec => []TypeOK
BY Invariance, PTL DEF IInv

\* A test case that passes loses its result only if it is cut off itself, or to the thread
\* that a test case before it in the shared child has left behind; never to a crash or to
\* a spoilt result, and never once it is executed in a child of its own.
THEOREM CrashesAreContained == Spec => []OnlyCulpritsBlamed
<1>1. IInv => OnlyCulpritsBlamed
  <2>. SUFFICES ASSUME IInv, NEW t \in Tests, results[t] = "timeout" \/ t \in saved,
                       behaviour[t] = "passes", t \notin hurried
                PROVE  t \notin saved /\ batch = Tests /\ \E u \in Tests : u < t /\ GivenUp(u)
    BY DEF OnlyCulpritsBlamed
  <2>. QED
    BY DEF IInv, Blame, Excused, Disturbed
<1>. QED
  BY <1>1, Invariance, PTL

\* The fallback leaves no test case of the batch without a result.
THEOREM EveryTestAnswered == Spec => []AllAnswered
<1>1. IInv => AllAnswered
  BY DEF IInv, AllAnswered, Pendings, Quiet
<1>. QED
  BY <1>1, Invariance, PTL

\* The observers hear of each test case once, however often it is executed.
THEOREM TestsAreObservedOnce == Spec => []ObservedOnce
<1>1. IInv => ObservedOnce
  BY DEF IInv, ObservedOnce, Counters
<1>. QED
  BY <1>1, Invariance, PTL

\* No child is alive between the executions and after them.
THEOREM ChildrenAreGone == Spec => []NoChildLeft
<1>1. IInv => NoChildLeft
  BY DEF IInv, NoChildLeft, Quiet
<1>. QED
  BY <1>1, Invariance, PTL

\* What the fallbacks repeat is answered once, observed once, and over in the end.
THEOREM BatchesAreAnswered == Spec => []AnsweredOnce
BY EveryTestAnswered, TestsAreObservedOnce, ChildrenAreGone, PTL DEF AnsweredOnce
================================================================================
