-------------------------------- MODULE DynaMOSA --------------------------------
(***************************************************************************)
(* The dynamic selection of goals of DynaMOSA                              *)
(* (pynguin/ga/algorithms/dynamosaalgorithm.py): the search loop of        *)
(* DynaMOSAAlgorithm, the _GoalsManager that adds a branch goal to the     *)
(* archive once a goal it depends on is covered, and the test cluster      *)
(* that the archive's callback narrows down to what is not covered yet     *)
(* (pynguin/analyses/module.py, FilteredModuleTestCluster).                *)
(*                                                                         *)
(* What evolution and local search produce is arbitrary: any sequence of   *)
(* executed test cases may be the next population.                         *)
(***************************************************************************)
EXTENDS CoverageArchive

CONSTANTS
    Roots,          \* goals that depend on no branch (_root_branches)
    Children,       \* Children[g]: successors of g in the _BranchFitnessGraph
    Accessibles,    \* callables of the module under test that hold goals
    AccessibleOf,   \* the accessible a goal lies in, NoAccessible for none
    NoAccessible,
    MaxIterations,  \* stopping.maximum_iterations
    LocalSearch     \* local_search.local_search

\* A test case that covers a branch went through the branches it is control
\* dependent on: no part of what it covers hangs in the air.
Grounded(S) ==
    \A X \in SUBSET S :
        X # {} => \E g \in X : g \in Roots \/ \E p \in S \ X : g \in Children[p]

ASSUME GraphAssumption ==
    /\ Roots \subseteq Goals
    /\ Children \in [Goals -> SUBSET Goals]
    /\ AccessibleOf \in [Goals -> Accessibles \cup {NoAccessible}]
    /\ NoAccessible \notin Accessibles
    /\ MaxIterations \in Nat
    /\ LocalSearch \in BOOLEAN

\* Every goal hangs off a root, and so does what a test case covers of them.
ASSUME ControlDependenceAssumption ==
    /\ Grounded(Goals)
    /\ \A s \in Solutions : Grounded(Covers[s])

VARIABLES
    current,        \* _current_goals of the _GoalsManager
    targets,        \* __accessible_to_targets of the FilteredModuleTestCluster
    iterations,     \* search iterations begun
    continuation    \* the phase that follows the running _GoalsManager.update

vars == <<archiveVars, current, targets, iterations, continuation>>

ChildrenOf(S) == UNION {Children[g] : g \in S}

TargetsOf(a) == {g \in Goals : AccessibleOf[g] = a}

\* The goals worth pursuing once those of C are covered.
Frontier(C) == (Roots \cup ChildrenOf(C)) \ C

--------------------------------------------------------------------------------
\* Mutant: the accessible leaves the cluster with its first covered target.
OnFirstTargetCovered(g) ==
    targets' = [b \in DOMAIN targets \ {AccessibleOf[g]} |-> targets[b]]

\* on_target_covered(g): the target leaves its accessible, and the accessible
\* leaves the cluster with its last target.
OnTargetCovered(g) ==
    LET a == AccessibleOf[g]
        left == targets[a] \ {g}
        kept == {b \in DOMAIN targets : b # a \/ left # {}}
    IN targets' = IF a = NoAccessible
                  THEN targets
                  ELSE [b \in kept |-> IF b = a THEN left ELSE targets[b]]

--------------------------------------------------------------------------------
\* Mutant: the archive starts with all goals, as it does for the other algorithms.
InitAllGoals ==
    /\ current = Roots
    /\ ArchiveInit(Goals)
    /\ targets = [a \in Accessibles |-> TargetsOf(a)]
    /\ iterations = 0
    /\ continuation = "search"

\* The cluster is built, then the _GoalsManager with the roots as its goals,
\* on an archive without objectives.
Init ==
    /\ current = Roots
    /\ ArchiveInit(Roots)
    /\ targets = [a \in Accessibles |-> TargetsOf(a)]
    /\ iterations = 0
    /\ continuation = "search"

\* The random initial population reaches _GoalsManager.update.
InitialPopulation ==
    /\ phase = "idle"
    /\ \E population \in Offers : BeginUpdate(population)
    /\ continuation' = "search"
    /\ UNCHANGED <<current, targets, iterations>>

\* evolve: the next population reaches _GoalsManager.update.
Evolve ==
    /\ phase = "search"
    /\ iterations < MaxIterations /\ uncovered # {}
    /\ \E population \in Offers : BeginUpdate(population)
    /\ continuation' = IF LocalSearch THEN "local" ELSE "search"
    /\ iterations' = iterations + 1
    /\ UNCHANGED <<current, targets>>

\* local_search: improved clones of the archive's tests reach the update; it
\* follows evolve in the same iteration even when evolve covered everything.
SearchLocally ==
    /\ phase = "local"
    /\ \E suite \in Offers : BeginUpdate(suite)
    /\ continuation' = "search"
    /\ UNCHANGED <<current, targets, iterations>>

\* archive.update stores a test case; a goal that was waiting is reported.
ConsiderBetter ==
    /\ StoreCandidate
    /\ IF objective \in uncovered THEN OnTargetCovered(objective) ELSE UNCHANGED targets
    /\ UNCHANGED <<current, iterations, continuation>>

ConsiderOther ==
    /\ PassCandidate \/ NextObjective \/ EndUpdate
    /\ UNCHANGED <<current, targets, iterations, continuation>>

\* Mutant: children covered earlier come back.
NewGoalsAgain == ChildrenOf(current \cap coveredGoals) \ current

\* Children of covered current goals that are neither current nor covered.
NewGoals == ChildrenOf(current \cap coveredGoals) \ (current \cup coveredGoals)

\* Mutants of the selection: one turn only; the goals still uncovered forgotten;
\* the new goals not handed to the archive.
SelectGoalsOnce ==
    /\ phase = "updated"
    /\ current' = (current \ coveredGoals) \cup NewGoals
    /\ AddGoals(current')
    /\ phase' = continuation
    /\ UNCHANGED <<todo, next, covered, offered, targets, iterations, continuation>>

SelectNewGoalsOnly ==
    /\ phase = "updated"
    /\ current' = NewGoals
    /\ AddGoals(current')
    /\ IF NewGoals # {}
       THEN phase' = "updating" /\ todo' = objectives' /\ next' = 1
       ELSE phase' = continuation /\ UNCHANGED <<todo, next>>
    /\ UNCHANGED <<covered, offered, targets, iterations, continuation>>

SelectGoalsUnregistered ==
    /\ phase = "updated"
    /\ current' = (current \ coveredGoals) \cup NewGoals
    /\ UNCHANGED <<objectives, uncovered>>
    /\ IF NewGoals # {}
       THEN phase' = "updating" /\ todo' = objectives' /\ next' = 1
       ELSE phase' = continuation /\ UNCHANGED <<todo, next>>
    /\ UNCHANGED <<covered, offered, targets, iterations, continuation>>

\* The rest of a turn of the loop in _GoalsManager.update: covered goals make
\* way for their new children; as long as there are any, the same test cases
\* go through the archive again.
SelectGoals ==
    /\ phase = "updated"
    /\ current' = (current \ coveredGoals) \cup NewGoals
    /\ AddGoals(current')
    /\ IF NewGoals # {}
       THEN /\ phase' = "updating"
            /\ todo' = objectives'
            /\ next' = 1
       ELSE /\ phase' = continuation
            /\ UNCHANGED <<todo, next>>
    /\ UNCHANGED <<covered, offered, targets, iterations, continuation>>

\* No resources left, which may be so at any turn, or nothing left to cover.
Finish ==
    /\ phase = "search"
    /\ phase' = "finished"
    /\ UNCHANGED <<objectives, uncovered, covered, offered, todo, next>>
    /\ UNCHANGED <<current, targets, iterations, continuation>>

Terminated == phase = "finished" /\ UNCHANGED vars

Next ==
    \/ InitialPopulation \/ Evolve \/ SearchLocally
    \/ ConsiderBetter \/ ConsiderOther \/ SelectGoals
    \/ Finish \/ Terminated

Spec == Init /\ [][Next]_vars

\* The search is one sequential computation that waits for nobody.
FairSpec == Spec /\ WF_vars(Next)

--------------------------------------------------------------------------------
TypeOK ==
    /\ ArchiveTypeOK
    /\ current \subseteq Goals
    /\ DOMAIN targets \subseteq Accessibles
    /\ targets \in [DOMAIN targets -> SUBSET Goals]
    /\ iterations \in 0..MaxIterations
    /\ continuation \in {"search", "local"}

\* _GoalsManager.update has returned.
Settled == phase \in {"search", "local", "finished"}

\* Between updates the current goals are exactly the uncovered roots and the
\* uncovered children of covered goals, and they are what the archive's
\* uncovered_goals lists, on which the search loop decides to go on.
FrontierExact ==
    Settled => /\ current = Frontier(coveredGoals)
               /\ uncovered = current

\* Although a goal is an objective only once a goal it depends on is covered,
\* an update credits every goal its test cases cover, however deep below the
\* previous frontier it lies.
NoLostCoverage ==
    Settled => \A i \in 1..Len(offered) : Covers[offered[i]] \subseteq coveredGoals

\* With uncovered_goals empty the search stops: every goal is covered then, none
\* was left out because it never became an objective.
EmptyMeansCovered == Settled /\ uncovered = {} => coveredGoals = Goals

\* The cluster offers an accessible exactly as long as it has an uncovered
\* target.  In particular a callback always finds its target, which the
\* assertion and the OrderedSet.remove in on_target_covered rely on.
ClusterInStep ==
    /\ \A a \in Accessibles :
        a \in DOMAIN targets <=> (TargetsOf(a) = {} \/ TargetsOf(a) \ coveredGoals # {})
    /\ \A a \in DOMAIN targets : targets[a] = TargetsOf(a) \ coveredGoals

\* The loop `while new_goals_added` comes to an end on cyclic graphs too, and
\* with it the search.
SearchEnds == <>(phase = "finished")

\* What the goals manager promises: goals are covered one after the other, each
\* a root or a child of one covered before.
Exploration == INSTANCE GoalExploration WITH reached <- coveredGoals

ExploresInOrder == Exploration!Spec
================================================================================
