---------------------------- MODULE CoverageArchive ----------------------------
(***************************************************************************)
(* The archive of MOSA, DynaMOSA, LLMOSA and the whole-suite search        *)
(* (pynguin/ga/algorithms/archive.py, class CoverageArchive): for every    *)
(* covered objective the best test case seen so far, and the set of        *)
(* objectives that still wait for one.                                     *)
(*                                                                         *)
(* update() is a loop over the objectives with a loop over the offered     *)
(* test cases inside; one step of this module is one turn of the inner     *)
(* loop, so that a callback fired in the middle of an update sees the      *)
(* state the code shows it.                                                *)
(***************************************************************************)
EXTENDS Naturals, Sequences

CONSTANTS
    Goals,          \* the test-case fitness functions of the subject
    Solutions,      \* the executed test-case chromosomes a search can produce
    Covers,         \* Covers[s]: the goals that s.get_is_covered holds of
    Size,           \* Size[s]: the number of statements of s
    Failing,        \* those whose last execution timed out or raised
    MaxOffered      \* bound: the test cases offered to one update

ASSUME ArchiveAssumption ==
    /\ Covers \in [Solutions -> SUBSET Goals]
    /\ Size \in [Solutions -> Nat]
    /\ Failing \subseteq Solutions

VARIABLES
    objectives,     \* _objectives
    uncovered,      \* _uncovered
    covered,        \* _covered: a function from covered goals to solutions
    phase,          \* where the caller of update() stands
    offered,        \* the argument of the running or the last update()
    todo,           \* objectives the outer loop has not finished
    next            \* position of the inner loop in offered

archiveVars == <<objectives, uncovered, covered, phase, offered, todo, next>>

coveredGoals == DOMAIN covered

NothingCovered == [g \in {} |-> g]

Offers == UNION {[1..n -> Solutions] : n \in 0..MaxOffered}

--------------------------------------------------------------------------------
\* Mutants of the comparison: the longer test wins; an error-free candidate wins
\* over an error-free solution too.
PrefersLonger(current, candidate) ==
    \/ current \in Failing /\ candidate \notin Failing
    \/ Size[candidate] > Size[current]

IgnoresCurrentErrors(current, candidate) ==
    \/ candidate \notin Failing
    \/ Size[candidate] < Size[current]

\* _is_better_than_current: an error-free candidate beats a current solution
\* with errors; in every other case the lengths decide, whatever the errors.
IsBetterThanCurrent(current, candidate) ==
    \/ current \in Failing /\ candidate \notin Failing
    \/ Size[candidate] < Size[current]

\* Mutant: whether the candidate covers the objective is not asked.
ImprovesUnchecked(g, s) == g \in coveredGoals => IsBetterThanCurrent(covered[g], s)

\* A candidate takes the slot of an objective it covers when the slot is empty
\* or the candidate is the better one.
Improves(g, s) ==
    /\ g \in Covers[s]
    /\ g \in coveredGoals => IsBetterThanCurrent(covered[g], s)

\* The objective of the outer loop: the loop follows the insertion order of
\* the set, of which only its being fixed matters here.
objective == CHOOSE g \in todo : TRUE

\* Mutant: the objective stays among the uncovered ones.
StoreOnly(g, s) ==
    /\ covered' = [h \in coveredGoals \cup {g} |-> IF h = g THEN s ELSE covered[h]]
    /\ UNCHANGED uncovered

\* _covered gets the test case, _uncovered loses the objective.
Store(g, s) ==
    /\ covered' = [h \in coveredGoals \cup {g} |-> IF h = g THEN s ELSE covered[h]]
    /\ uncovered' = uncovered \ {g}

--------------------------------------------------------------------------------
\* __init__ with the given objectives
ArchiveInit(initial) ==
    /\ objectives = initial
    /\ uncovered = initial
    /\ covered = NothingCovered
    /\ phase = "idle"
    /\ offered = <<>>
    /\ todo = {}
    /\ next = 1

\* update(solutions) is called; where it stood before is the caller's matter.
BeginUpdate(solutions) ==
    /\ phase' = "updating"
    /\ offered' = solutions
    /\ todo' = objectives
    /\ next' = 1
    /\ UNCHANGED <<objectives, uncovered, covered>>

\* A turn of the inner loop that stores its candidate.
StoreCandidate ==
    /\ phase = "updating" /\ todo # {} /\ next <= Len(offered)
    /\ Improves(objective, offered[next])
    /\ Store(objective, offered[next])
    /\ next' = next + 1
    /\ UNCHANGED <<objectives, phase, offered, todo>>

\* A turn of the inner loop that leaves the archive alone.
PassCandidate ==
    /\ phase = "updating" /\ todo # {} /\ next <= Len(offered)
    /\ ~ Improves(objective, offered[next])
    /\ next' = next + 1
    /\ UNCHANGED <<objectives, uncovered, covered, phase, offered, todo>>

\* Mutant: the inner loop goes on where it ended, as with an argument that can be
\* iterated over once only.
NextObjectiveExhausted ==
    /\ phase = "updating" /\ todo # {} /\ next > Len(offered)
    /\ todo' = todo \ {objective}
    /\ UNCHANGED <<objectives, uncovered, covered, phase, offered, next>>

\* The inner loop is over: on to the next objective.
NextObjective ==
    /\ phase = "updating" /\ todo # {} /\ next > Len(offered)
    /\ todo' = todo \ {objective}
    /\ next' = 1
    /\ UNCHANGED <<objectives, uncovered, covered, phase, offered>>

\* update() returns.
EndUpdate ==
    /\ phase = "updating" /\ todo = {}
    /\ phase' = "updated"
    /\ UNCHANGED <<objectives, uncovered, covered, offered, todo, next>>

\* add_goals: goals that are already objectives, covered or not, are skipped.
AddGoals(new) ==
    /\ objectives' = objectives \cup new
    /\ uncovered' = uncovered \cup (new \ objectives)

\* reset: every objective is open again.
Reset ==
    /\ phase = "idle"
    /\ uncovered' = uncovered \cup objectives
    /\ covered' = NothingCovered
    /\ UNCHANGED <<objectives, phase, offered, todo, next>>

--------------------------------------------------------------------------------
(* The archive on its own, with any client.                                 *)

Update ==
    /\ phase = "idle"
    /\ \E solutions \in Offers : BeginUpdate(solutions)

Return ==
    /\ phase = "updated"
    /\ phase' = "idle"
    /\ UNCHANGED <<objectives, uncovered, covered, offered, todo, next>>

Extend ==
    /\ phase = "idle"
    /\ \E new \in SUBSET Goals : AddGoals(new)
    /\ UNCHANGED <<covered, phase, offered, todo, next>>

ArchiveNext ==
    \/ Update \/ StoreCandidate \/ PassCandidate \/ NextObjective \/ EndUpdate
    \/ Return \/ Extend \/ Reset

ArchiveStart == \E initial \in SUBSET Goals : ArchiveInit(initial)

ArchiveSpec == ArchiveStart /\ [][ArchiveNext]_archiveVars

--------------------------------------------------------------------------------
ArchiveTypeOK ==
    /\ objectives \subseteq Goals
    /\ uncovered \subseteq Goals
    /\ coveredGoals \subseteq Goals
    /\ covered \in [coveredGoals -> Solutions]
    /\ phase \in {"idle", "search", "updating", "updated", "local", "finished"}
    /\ offered \in Seq(Solutions)
    /\ todo \subseteq Goals
    /\ next \in Nat \ {0}

\* At every moment, in the middle of an update too, an objective is either
\* covered or waiting, and nothing else is: _covered and _uncovered are two
\* fields that update, add_goals and reset maintain separately.
Partition ==
    /\ objectives = coveredGoals \cup uncovered
    /\ coveredGoals \cap uncovered = {}

\* What the assertion in `solutions` states: the test case stored for a goal
\* covers that goal.
StoredCovers == \A g \in coveredGoals : g \in Covers[covered[g]]

\* When update() has returned no objective that one of the offered test cases
\* covers is left waiting.
NothingOverlooked ==
    phase = "updated" =>
        \A i \in 1..Len(offered) : Covers[offered[i]] \cap uncovered = {}

\* What a caller of update, add_goals and reset may rely on at every moment.
ArchiveSound == Partition /\ StoredCovers /\ NothingOverlooked

\* When the tests of an update that cover a goal agree in their error status,
\* what is stored afterwards is no longer than any of them: the inner loop keeps
\* the best of the candidates and of what an earlier update left.
ShortestKept ==
    phase = "updated" =>
        \A g \in coveredGoals :
            LET candidates == {i \in 1..Len(offered) : g \in Covers[offered[i]]}
            IN (\A i, j \in candidates : offered[i] \in Failing <=> offered[j] \in Failing)
                => \A i \in candidates : Size[covered[g]] <= Size[offered[i]]

\* Outside of reset a covered goal stays covered, and its test is replaced only
\* by one that is shorter or that does away with an error.
CoverageKept ==
    [][ \/ Reset
        \/ /\ coveredGoals \subseteq coveredGoals'
           /\ \A g \in coveredGoals :
                covered'[g] # covered[g] =>
                    \/ Size[covered'[g]] < Size[covered[g]]
                    \/ covered[g] \in Failing /\ covered'[g] \notin Failing ]_archiveVars

\* What is kept of the test cases offered is the best, and stays so.
BestKept == []ShortestKept /\ CoverageKept
================================================================================
