------------------------------- MODULE MCSearches -------------------------------
(* The search algorithms side by side: in a behaviour one part of them runs, the  *)
(* goals of DynaMOSA, the population of MOSA, the stopping conditions or the      *)
(* statistics.  The others rest in an initial state.                              *)
EXTENDS DynaMOSA, MOSA, Search, Timeline, TLC

CONSTANTS Parts,    \* a subset of {"dynamosa", "mosa", "stopping", "timeline"}
          gLeaf, gInner, gLoop, gOther, s1, s2, s3, s4, looping, straight, none

VARIABLE part

all == <<part, vars, mosaVars, searchVars, timelineVars>>

--------------------------------------------------------------------------------
(* The branch graph of a function with nested branches inside a loop: the    *)
(* loop's branch is a root that depends on itself, the inner branch lies in  *)
(* the loop, the leaf below it, and leaving the leaf leads back to the loop; *)
(* the fourth goal is a root in another function.  The first test case       *)
(* covers all of the first function at once, the others one level more each. *)
MCGoals == {gLeaf, gInner, gLoop, gOther}
MCRoots == {gLoop, gOther}
MCChildren == gLoop :> {gLoop, gInner} @@ gInner :> {gLeaf} @@ gLeaf :> {gLoop} @@ gOther :> {}
MCAccessibles == {looping, straight}
MCAccessibleOf == gLoop :> looping @@ gInner :> looping @@ gLeaf :> none @@ gOther :> straight
MCSolutions == {s1, s2, s3, s4}
MCCovers == s1 :> {gLoop, gInner, gLeaf} @@ s2 :> {gLoop} @@ s3 :> {gLoop, gInner} @@ s4 :> {gOther}
MCSize == s1 :> 2 @@ s2 :> 1 @@ s3 :> 1 @@ s4 :> 1
MCFailing == {s2}

(* Five tests that are better than one another in some goals and worse in others. *)
FitnessOf(x, y, z) == [k \in {"g", "h", "i"} |-> CASE k = "g" -> x [] k = "h" -> y [] OTHER -> z]
MosaTests == {"a", "b", "c", "d", "e"}
MosaFitness ==
  [t \in MosaTests |-> CASE t = "a" -> FitnessOf(2, 2, 1) [] t = "b" -> FitnessOf(1, 2, 2) [] t = "c" -> FitnessOf(2, 1, 2)
                         [] t = "d" -> FitnessOf(1, 1, 2) [] OTHER -> FitnessOf(0, 2, 2)]
MosaLength == [t \in MosaTests |-> CASE t = "e" -> 3 [] t = "b" -> 2 [] t = "d" -> 0 [] OTHER -> 1]
MosaDescendants ==
  [t \in MosaTests |-> CASE t = "a" -> {"b", "c"} [] t = "b" -> {"a", "d"} [] t = "c" -> {"b", "d"} [] OTHER -> {"b", "c", "e"}]
MosaGoals == <<"g", "h", "i">>

(* Each stopping condition alone or with another one, in each kind of loop. *)
Plain == [algorithm |-> "archive", iterations |-> -1, statements |-> -1, tests |-> -1, time |-> -1, coverage |-> 100,
          plateau |-> -1, minimum |-> 100, minimum_plateau |-> -1, memory |-> -1,
          window |-> 0, max_plateau_len |-> 1, max_interventions |-> -1, min_budget |-> 0]
MCConfigurations ==
  {Plain,
   [Plain EXCEPT !.iterations = 3, !.statements = 4],
   [Plain EXCEPT !.plateau = 2, !.memory = 1],
   [Plain EXCEPT !.tests = 3, !.minimum = 30, !.minimum_plateau = 2],
   [Plain EXCEPT !.coverage = 60, !.time = 2, !.plateau = 0],
   [Plain EXCEPT !.coverage = 60, !.time = 2],
   [Plain EXCEPT !.algorithm = "random_suite", !.iterations = 4, !.minimum = 60, !.minimum_plateau = 1],
   [Plain EXCEPT !.algorithm = "llm", !.iterations = 11],
   [Plain EXCEPT !.algorithm = "llm", !.time = 9, !.window = 2, !.min_budget = 3],
   [Plain EXCEPT !.algorithm = "llm", !.iterations = 8, !.max_interventions = 1]}
MCExecutions == {[tests |-> 0, statements |-> 0], [tests |-> 1, statements |-> 0], [tests |-> 2, statements |-> 3]}

--------------------------------------------------------------------------------
\* The parts that do not run: a search that has ended before it has begun, one without
\* limits, and the same test three times.
DynaMOSARests ==
  /\ objectives = Roots /\ uncovered = Roots /\ covered = NothingCovered
  /\ phase = "finished" /\ offered = <<>> /\ todo = {} /\ next = 1
  /\ current = Roots /\ targets = [a \in Accessibles |-> TargetsOf(a)]
  /\ iterations = 0 /\ continuation = "search"
MOSARests == population = <<"a", "a", "a">> /\ MOSAInit
SearchRests == config = Plain /\ SearchInit

MCInit ==
  /\ part \in Parts
  /\ IF part = "dynamosa" THEN Init ELSE DynaMOSARests
  /\ IF part = "mosa" THEN MOSAInit ELSE MOSARests
  /\ IF part = "stopping" THEN SearchInit ELSE SearchRests
  /\ TimelineInit

Exploring == part = "dynamosa" /\ UNCHANGED <<part, mosaVars, searchVars, timelineVars>>
Ranking == part = "mosa" /\ UNCHANGED <<part, vars, searchVars, timelineVars>>
Stopping == part = "stopping" /\ UNCHANGED <<part, vars, mosaVars, timelineVars>>
Statistics == part = "timeline" /\ UNCHANGED <<part, vars, mosaVars, searchVars>>

DynaMOSAPart ==
  \/ Exploring /\ InitialPopulation
  \/ Exploring /\ Evolve
  \/ Exploring /\ SearchLocally
  \/ Exploring /\ ConsiderBetter
  \/ Exploring /\ ConsiderOther
  \/ Exploring /\ SelectGoals
  \/ Exploring /\ Finish
MOSAPart ==
  \/ Ranking /\ BeginEvolve
  \/ Ranking /\ BreedPair
  \/ Ranking /\ InsertNew
  \/ Ranking /\ Survive
  \/ Ranking /\ MOSAFinish
StoppingPart ==
  \/ Stopping /\ Refuse
  \/ Stopping /\ \E e \in Executions, n \in 0..NumGoals, t \in Ticks : Begin(e, n, t)
  \/ Stopping /\ \E t \in Ticks : Watch(t)
  \/ Stopping /\ Continue
  \/ Stopping /\ \E e \in Executions, n \in 0..NumGoals, t \in Ticks, u \in Usages : Generation(e, n, t, u)
  \/ Stopping /\ EndSearch
TimelinePart ==
  \/ Statistics /\ \E s \in Steps : set_sequence_output_variable_start_time(s)
  \/ Statistics /\ \E s \in Steps, v \in Values : current_individual(s, v)
  \/ Statistics /\ \E n \in Names, v \in Values : track_output_variable(n, v)
  \/ Statistics /\ Collect
  \/ Statistics /\ write_statistics

MCNext == DynaMOSAPart \/ MOSAPart \/ StoppingPart \/ TimelinePart
MCSpec == MCInit /\ [][MCNext]_all
MCFairSpec == MCSpec /\ WF_all(DynaMOSAPart) /\ WF_all(StoppingPart)
================================================================================
