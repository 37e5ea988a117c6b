----------------------------- MODULE DynaMOSAProofs -----------------------------
(***************************************************************************)
(* What holds of the archive for all goals, test cases and updates; and of *)
(* the goals manager of DynaMOSA, for every branch graph, every set of     *)
(* test cases and every sequence of populations.                           *)
(***************************************************************************)
EXTENDS DynaMOSA, TLAPS

--------------------------------------------------------------------------------
(* The archive                                                              *)

\* The turns of update() still to come are the only reason why a goal that an
\* offered test case covers can be waiting.
UpdateProgress ==
    /\ phase \in {"updating", "updated"} =>
        /\ next <= Len(offered) + 1
        /\ todo \subseteq objectives
        /\ \A g \in objectives \ todo, i \in 1..Len(offered) :
                g \in Covers[offered[i]] => g \in coveredGoals
        /\ todo # {} =>
            \A i \in 1..(next - 1) : objective \in Covers[offered[i]] => objective \in coveredGoals
    /\ phase = "updated" => todo = {}

ArchiveInv == ArchiveTypeOK /\ Partition /\ StoredCovers /\ UpdateProgress

\* The loop variable of the outer loop is one of the objectives to do.
LEMMA ObjectiveInTodo == todo # {} => objective \in todo
  BY DEF objective

\* A newly created archive satisfies the invariant.
LEMMA InitInv == ASSUME NEW initial \in SUBSET Goals, ArchiveInit(initial)
                 PROVE  ArchiveInv
<1>1. coveredGoals = {} BY DEF ArchiveInit, NothingCovered, coveredGoals
<1>2. covered \in [coveredGoals -> Solutions]
  BY <1>1 DEF ArchiveInit, NothingCovered, coveredGoals
<1> QED BY <1>1, <1>2 DEF ArchiveInit, ArchiveInv, ArchiveTypeOK, Partition, StoredCovers, UpdateProgress

\* Calling update() keeps the invariant, whatever is offered.
LEMMA BeginUpdateInv == ASSUME ArchiveInv, NEW solutions \in Seq(Solutions), BeginUpdate(solutions)
                        PROVE  ArchiveInv'
  BY ObjectiveInTodo DEF ArchiveInv, ArchiveTypeOK, Partition, StoredCovers, UpdateProgress, BeginUpdate,
     coveredGoals

\* Storing a candidate moves its goal from the waiting to the covered ones.
LEMMA StoreCandidateInv == ASSUME ArchiveInv, StoreCandidate
                           PROVE  ArchiveInv'
<1> DEFINE g == objective
           s == offered[next]
<1> USE DEF ArchiveInv
<1>1. g \in todo /\ g \in Goals /\ g \in objectives
  BY ObjectiveInTodo DEF StoreCandidate, ArchiveTypeOK, UpdateProgress
<1>2. s \in Solutions /\ g \in Covers[s]
  BY DEF StoreCandidate, ArchiveTypeOK, Improves
<1>3. coveredGoals' = coveredGoals \cup {g}
  BY DEF StoreCandidate, Store, coveredGoals
<1>4. /\ covered'[g] = s
      /\ \A o \in coveredGoals \ {g} : covered'[o] = covered[o]
  BY DEF StoreCandidate, Store, coveredGoals
<1>5. /\ uncovered' = uncovered \ {g}
      /\ next' = next + 1
      /\ UNCHANGED <<objectives, phase, offered, todo>>
      /\ phase = "updating" /\ todo # {} /\ next <= Len(offered)
  BY DEF StoreCandidate, Store
<1>6. covered' \in [coveredGoals' -> Solutions]
  BY <1>1, <1>2, <1>3 DEF StoreCandidate, Store, ArchiveTypeOK, coveredGoals
<1>7. ArchiveTypeOK'
  BY <1>1, <1>3, <1>5, <1>6 DEF ArchiveTypeOK
<1>8. Partition'
  BY <1>1, <1>3, <1>5 DEF Partition
<1>9. StoredCovers'
  BY <1>2, <1>3, <1>4 DEF StoredCovers
<1>10. objective' = g
  BY <1>5 DEF objective
<1>11. UpdateProgress'
  <2>1. next \in Nat /\ Len(offered) \in Nat
    BY DEF ArchiveTypeOK
  <2>2. \A i \in 1..(next' - 1) : g \in Covers[offered[i]] => g \in coveredGoals'
    BY <1>3
  <2>3. \A o \in objectives \ todo, i \in 1..Len(offered) :
            o \in Covers[offered[i]] => o \in coveredGoals'
    BY <1>3, <1>5 DEF UpdateProgress
  <2> HIDE DEF g, s
  <2> QED BY <1>5, <1>10, <2>1, <2>2, <2>3 DEF UpdateProgress
<1> QED BY <1>7, <1>8, <1>9, <1>11

\* Passing over a candidate is right: its goal is covered or it covers another.
LEMMA PassCandidateInv == ASSUME ArchiveInv, PassCandidate
                          PROVE  ArchiveInv'
<1> USE DEF ArchiveInv
<1>1. /\ UNCHANGED <<objectives, uncovered, covered, phase, offered, todo, coveredGoals, objective>>
      /\ next' = next + 1
      /\ phase = "updating" /\ todo # {} /\ next <= Len(offered)
  BY DEF PassCandidate, coveredGoals, objective
<1>2. objective \in Covers[offered[next]] => objective \in coveredGoals
  BY DEF PassCandidate, Improves
<1>3. next \in Nat \ {0} /\ Len(offered) \in Nat
  BY DEF ArchiveTypeOK
<1>4. ArchiveTypeOK' /\ Partition' /\ StoredCovers'
  BY <1>1, <1>3 DEF ArchiveTypeOK, Partition, StoredCovers
<1>5. UpdateProgress'
  <2>1. \A i \in 1..(next' - 1) : i \in 1..(next - 1) \/ i = next
    BY <1>1, <1>3
  <2>2. \A i \in 1..(next' - 1) : objective \in Covers[offered[i]] => objective \in coveredGoals
    BY <1>1, <1>2, <2>1 DEF UpdateProgress
  <2>3. next' <= Len(offered) + 1
    BY <1>1, <1>3
  <2> QED BY <1>1, <2>2, <2>3 DEF UpdateProgress
<1> QED BY <1>4, <1>5

\* An objective is done when all candidates have been looked at.
LEMMA NextObjectiveInv == ASSUME ArchiveInv, NextObjective
                          PROVE  ArchiveInv'
<1> USE DEF ArchiveInv
<1>1. /\ UNCHANGED <<objectives, uncovered, covered, phase, offered, coveredGoals>>
      /\ next' = 1 /\ todo' = todo \ {objective}
      /\ phase = "updating" /\ todo # {} /\ next > Len(offered)
  BY DEF NextObjective, coveredGoals
<1>2. next \in Nat \ {0} /\ Len(offered) \in Nat
  BY DEF ArchiveTypeOK
<1>3. ArchiveTypeOK' /\ Partition' /\ StoredCovers'
  BY <1>1 DEF ArchiveTypeOK, Partition, StoredCovers
<1>4. UpdateProgress'
  <2>1. \A i \in 1..Len(offered) : objective \in Covers[offered[i]] => objective \in coveredGoals
    <3>1. 1..Len(offered) \subseteq 1..(next - 1)
      BY <1>1, <1>2
    <3> QED BY <1>1, <3>1 DEF UpdateProgress
  <2>2. \A g \in objectives \ todo', i \in 1..Len(offered) :
            g \in Covers[offered[i]] => g \in coveredGoals
    BY <1>1, <2>1 DEF UpdateProgress
  <2>3. todo' \subseteq objectives
    BY <1>1 DEF UpdateProgress
  <2>4. 1..(next' - 1) = {} /\ next' <= Len(offered) + 1
    BY <1>1, <1>2
  <2> QED BY <1>1, <2>2, <2>3, <2>4 DEF UpdateProgress
<1> QED BY <1>3, <1>4

\* Returning from the loop keeps the invariant.
LEMMA EndUpdateInv == ASSUME ArchiveInv, EndUpdate
                      PROVE  ArchiveInv'
  BY DEF EndUpdate, ArchiveInv, ArchiveTypeOK, Partition, StoredCovers, UpdateProgress, coveredGoals

\* The invariant holds of an archive in any client's hands.
THEOREM ArchiveInvariance == ArchiveSpec => []ArchiveInv
<1>1. ArchiveStart => ArchiveInv
  BY InitInv DEF ArchiveStart
<1>2. ArchiveInv /\ [ArchiveNext]_archiveVars => ArchiveInv'
  <2> SUFFICES ASSUME ArchiveInv, [ArchiveNext]_archiveVars PROVE ArchiveInv'
    OBVIOUS
  <2>1. CASE Update
    <3>1. PICK solutions \in Offers : BeginUpdate(solutions)
      BY <2>1 DEF Update
    <3>2. solutions \in Seq(Solutions)
      BY DEF Offers
    <3> QED BY <3>1, <3>2, BeginUpdateInv
  <2>2. CASE StoreCandidate BY <2>2, StoreCandidateInv
  <2>3. CASE PassCandidate BY <2>3, PassCandidateInv
  <2>4. CASE NextObjective BY <2>4, NextObjectiveInv
  <2>5. CASE EndUpdate BY <2>5, EndUpdateInv
  <2>6. CASE Return
    BY <2>6 DEF Return, ArchiveInv, ArchiveTypeOK, Partition, StoredCovers, UpdateProgress, coveredGoals
  <2>7. CASE Extend
    <3>1. PICK new \in SUBSET Goals : AddGoals(new)
      BY <2>7 DEF Extend
    <3>2. phase = "idle" /\ UNCHANGED <<covered, coveredGoals, phase, offered, todo, next>>
      BY <2>7 DEF Extend, coveredGoals
    <3> QED BY <3>1, <3>2 DEF AddGoals, ArchiveInv, ArchiveTypeOK, Partition, StoredCovers, UpdateProgress
  <2>8. CASE Reset
    <3>1. coveredGoals' = {} /\ covered' \in [coveredGoals' -> Solutions]
      BY <2>8 DEF Reset, NothingCovered, coveredGoals
    <3> QED BY <2>8, <3>1 DEF Reset, ArchiveInv, ArchiveTypeOK, Partition, StoredCovers, UpdateProgress
  <2>9. CASE UNCHANGED archiveVars
    BY <2>9 DEF archiveVars, ArchiveInv, ArchiveTypeOK, Partition, StoredCovers, UpdateProgress,
       coveredGoals, objective
  <2> QED BY <2>1, <2>2, <2>3, <2>4, <2>5, <2>6, <2>7, <2>8, <2>9 DEF ArchiveNext
<1> QED BY <1>1, <1>2, PTL DEF ArchiveSpec

\* The archive's state is well-formed.
THEOREM ArchiveTypeCorrect == ArchiveSpec => []ArchiveTypeOK
<1>1. ArchiveInv => ArchiveTypeOK BY DEF ArchiveInv
<1> QED BY <1>1, ArchiveInvariance, PTL

\* Objectives are covered or waiting, never both, in the middle of an update too.
THEOREM ArchivePartition == ArchiveSpec => []Partition
<1>1. ArchiveInv => Partition BY DEF ArchiveInv
<1> QED BY <1>1, ArchiveInvariance, PTL

\* A stored test case covers its goal: the assertion in `solutions` cannot fail.
THEOREM ArchiveStoredCovers == ArchiveSpec => []StoredCovers
<1>1. ArchiveInv => StoredCovers BY DEF ArchiveInv
<1> QED BY <1>1, ArchiveInvariance, PTL

\* No goal of an offered test case is left waiting by update().
THEOREM ArchiveNothingOverlooked == ArchiveSpec => []NothingOverlooked
<1>1. ArchiveInv => NothingOverlooked
  BY DEF ArchiveInv, ArchiveTypeOK, Partition, UpdateProgress, NothingOverlooked
<1> QED BY <1>1, ArchiveInvariance, PTL

\* The three together, which callers rely on.
THEOREM ArchiveIsSound == ArchiveSpec => []ArchiveSound
<1>1. ArchiveInv => ArchiveSound
  BY DEF ArchiveInv, ArchiveTypeOK, Partition, UpdateProgress, NothingOverlooked, ArchiveSound
<1> QED BY <1>1, ArchiveInvariance, PTL

--------------------------------------------------------------------------------
(* What is kept is the best.                                                *)

Candidates(g) == {i \in 1..Len(offered) : g \in Covers[offered[i]]}

\* The offered test cases that cover the goal all have errors, or none has.
Agree(g) == \A i, j \in Candidates(g) : offered[i] \in Failing <=> offered[j] \in Failing

\* The goal's test case is as good as the first n offered.  That it has no errors
\* when they have none is needed to see that no longer one can replace it.
BestOf(g, n) ==
    Agree(g) => \A i \in Candidates(g) : i <= n =>
        /\ g \in coveredGoals
        /\ Size[covered[g]] <= Size[offered[i]]
        /\ offered[i] \notin Failing => covered[g] \notin Failing

BestProgress ==
    phase \in {"updating", "updated"} =>
        /\ \A g \in objectives \ todo : BestOf(g, Len(offered))
        /\ todo # {} => BestOf(objective, next - 1)

\* A stored test case gives way only to a shorter one or to one without its errors.
LEMMA StoreImproves ==
    ASSUME ArchiveInv, StoreCandidate
    PROVE  /\ coveredGoals \subseteq coveredGoals'
           /\ \A g \in coveredGoals :
                covered'[g] # covered[g] =>
                    \/ Size[covered'[g]] < Size[covered[g]]
                    \/ covered[g] \in Failing /\ covered'[g] \notin Failing
<1>1. /\ coveredGoals' = coveredGoals \cup {objective}
      /\ covered'[objective] = offered[next]
      /\ \A o \in coveredGoals \ {objective} : covered'[o] = covered[o]
  BY DEF StoreCandidate, Store, coveredGoals
<1>2. objective \in coveredGoals => IsBetterThanCurrent(covered[objective], offered[next])
  BY DEF StoreCandidate, Improves
<1> QED BY <1>1, <1>2 DEF IsBetterThanCurrent

\* Whatever the turn of the inner loop did, the current candidate is accounted for.
LEMMA TurnBest ==
    ASSUME ArchiveInv, BestProgress, StoreCandidate \/ PassCandidate
    PROVE  BestOf(objective, next - 1)'
<1> DEFINE g == objective
           s == offered[next]
<1>1. /\ phase = "updating" /\ todo # {} /\ next \in 1..Len(offered) /\ next' = next + 1
      /\ UNCHANGED <<offered, todo, objective>>
      /\ s \in Solutions /\ Size[s] \in Nat
  BY ArchiveAssumption DEF StoreCandidate, PassCandidate, ArchiveInv, ArchiveTypeOK, objective
<1>2. /\ Candidates(g)' = Candidates(g) /\ Agree(g)' = Agree(g)
      /\ BestOf(g, next - 1)
      /\ \A i \in Candidates(g) : i \in Nat /\ Size[offered[i]] \in Nat
      /\ g \in coveredGoals => Size[covered[g]] \in Nat
  BY <1>1, ArchiveAssumption DEF Candidates, Agree, BestProgress, ArchiveInv, ArchiveTypeOK
<1> SUFFICES ASSUME Agree(g), NEW i \in Candidates(g), i <= next + 1 - 1
             PROVE  /\ g \in coveredGoals'
                    /\ Size[covered'[g]] <= Size[offered[i]]
                    /\ offered[i] \notin Failing => covered'[g] \notin Failing
  BY <1>1, <1>2 DEF BestOf
<1>3. i <= next - 1 \/ i = next
  BY <1>1, <1>2
<1>4. i <= next - 1 => /\ g \in coveredGoals
                       /\ Size[covered[g]] <= Size[offered[i]]
                       /\ offered[i] \notin Failing => covered[g] \notin Failing
  BY <1>2 DEF BestOf
<1>5. CASE StoreCandidate
  <2>1. /\ g \in coveredGoals' /\ covered'[g] = s /\ next \in Candidates(g)
        /\ g \in coveredGoals => IsBetterThanCurrent(covered[g], s)
    BY <1>1, <1>5 DEF StoreCandidate, Store, Improves, coveredGoals, Candidates
  <2>2. offered[i] \in Failing <=> s \in Failing
    BY <2>1 DEF Agree
  <2>3. CASE i = next
    BY <2>1, <2>3, <1>1
  <2>4. CASE i <= next - 1
    <3>1. Size[s] < Size[covered[g]]
      BY <1>4, <2>1, <2>2, <2>4 DEF IsBetterThanCurrent
    <3>2. Size[s] \in Nat /\ Size[offered[i]] \in Nat /\ Size[covered[g]] \in Nat
      BY <1>1, <1>2, <1>4, <2>4
    <3>3. Size[s] <= Size[offered[i]]
      BY <1>4, <2>4, <3>1, <3>2
    <3> QED BY <2>1, <2>2, <3>3
  <2> QED BY <1>3, <2>3, <2>4
<1>6. CASE PassCandidate
  <2>1. UNCHANGED <<covered, coveredGoals>> /\ ~ Improves(g, s)
    BY <1>6 DEF PassCandidate, coveredGoals
  <2>2. CASE i = next
    <3>1. g \in coveredGoals /\ ~ IsBetterThanCurrent(covered[g], s)
      BY <2>1, <2>2 DEF Improves, Candidates
    <3> QED BY <1>1, <1>2, <2>1, <2>2, <3>1 DEF IsBetterThanCurrent
  <2>3. CASE i <= next - 1
    BY <1>4, <2>1, <2>3
  <2> QED BY <1>3, <2>2, <2>3
<1> QED BY <1>5, <1>6

\* The turns for one objective leave what the others have got.
LEMMA TurnBestProgress ==
    ASSUME ArchiveInv, BestProgress, StoreCandidate \/ PassCandidate
    PROVE  BestProgress'
<1>1. /\ phase = "updating" /\ todo # {} /\ next' = next + 1 /\ next \in Nat
      /\ UNCHANGED <<phase, offered, todo, objective, objectives>>
      /\ coveredGoals \subseteq coveredGoals'
      /\ \A o \in coveredGoals \ {objective} : covered'[o] = covered[o]
  BY DEF StoreCandidate, PassCandidate, Store, ArchiveInv, ArchiveTypeOK, objective, coveredGoals
<1>2. BestOf(objective, next - 1)'
  BY <1>1, TurnBest DEF BestOf
<1>3. ASSUME NEW o \in objectives \ todo PROVE BestOf(o, Len(offered))'
  <2>1. o # objective
    BY <1>1, ObjectiveInTodo
  <2>2. BestOf(o, Len(offered)) /\ Candidates(o)' = Candidates(o) /\ Agree(o)' = Agree(o)
    BY <1>1 DEF BestProgress, Candidates, Agree
  <2> QED BY <1>1, <2>1, <2>2 DEF BestOf
<1> QED BY <1>1, <1>2, <1>3 DEF BestProgress

\* An objective is done when its test case is as good as all the candidates.
LEMMA NextObjectiveBest == ASSUME ArchiveInv, BestProgress, NextObjective
                           PROVE  BestProgress'
<1>1. /\ UNCHANGED <<objectives, covered, phase, offered, coveredGoals>>
      /\ next' = 1 /\ todo' = todo \ {objective} /\ todo # {}
      /\ phase = "updating" /\ next > Len(offered) /\ next \in Nat /\ Len(offered) \in Nat
  BY DEF NextObjective, coveredGoals, ArchiveInv, ArchiveTypeOK
<1>2. \A o, n : Candidates(o)' = Candidates(o) /\ Agree(o)' = Agree(o) /\ BestOf(o, n)' = BestOf(o, n)
  BY <1>1 DEF Candidates, Agree, BestOf
<1>3. BestOf(objective, Len(offered))
  <2>1. BestOf(objective, next - 1)
    BY <1>1 DEF BestProgress
  <2>2. \A i \in Candidates(objective) : i <= next - 1
    BY <1>1 DEF Candidates
  <2> QED BY <2>1, <2>2 DEF BestOf
<1>4. \A o : BestOf(o, 1 - 1)
  <2>1. \A o : \A i \in Candidates(o) : ~ (i <= 1 - 1)
    BY <1>1 DEF Candidates
  <2> QED BY <2>1 DEF BestOf
<1>5. \A o \in objectives \ todo' : BestOf(o, Len(offered))
  BY <1>1, <1>3 DEF BestProgress
<1>6. \A o \in objectives' \ todo' : BestOf(o, Len(offered))'
  BY <1>1, <1>2, <1>5
<1>7. BestOf(objective, next - 1)'
  <2>1. \A o : BestOf(o, 0)'
    BY <1>2, <1>4
  <2> QED BY <1>1, <2>1
<1> QED BY <1>6, <1>7 DEF BestProgress

\* The archive keeps the best in any client's hands.
THEOREM BestInvariance == ArchiveSpec => []BestProgress
<1>1. ArchiveStart => BestProgress
  BY DEF ArchiveStart, ArchiveInit, BestProgress
<1>2. ArchiveInv /\ BestProgress /\ [ArchiveNext]_archiveVars => BestProgress'
  <2> SUFFICES ASSUME ArchiveInv, BestProgress, [ArchiveNext]_archiveVars PROVE BestProgress'
    OBVIOUS
  <2>1. CASE Update
    <3>1. PICK solutions \in Offers : BeginUpdate(solutions)
      BY <2>1 DEF Update
    <3>2. todo' = objectives' /\ next' = 1 /\ offered' \in Seq(Solutions)
      BY <3>1 DEF BeginUpdate, Offers
    <3>3. \A g : \A i \in Candidates(g)' : ~ (i <= 1 - 1)
      BY <3>2 DEF Candidates
    <3> QED BY <3>2, <3>3 DEF BestProgress, BestOf
  <2>2. CASE StoreCandidate \/ PassCandidate BY <2>2, TurnBestProgress
  <2>3. CASE NextObjective BY <2>3, NextObjectiveBest
  <2>4. CASE EndUpdate \/ UNCHANGED archiveVars
    <3>1. /\ UNCHANGED <<objectives, covered, coveredGoals, offered, todo, next, objective>>
          /\ phase' \in {"updating", "updated"} => phase \in {"updating", "updated"}
      BY <2>4 DEF EndUpdate, archiveVars, coveredGoals, objective
    <3>2. \A g, n : BestOf(g, n)' = BestOf(g, n)
      BY <3>1 DEF BestOf, Agree, Candidates
    <3>3. \A g : BestOf(g, Len(offered))' = BestOf(g, Len(offered))
      BY <3>1 DEF BestOf, Agree, Candidates
    <3>4. BestOf(objective, next - 1)' = BestOf(objective, next - 1)
      BY <3>1 DEF BestOf, Agree, Candidates
    <3> QED BY <3>1, <3>3, <3>4 DEF BestProgress
  <2>5. CASE Return \/ Extend \/ Reset
    BY <2>5 DEF Return, Extend, Reset, BestProgress
  <2> QED BY <2>1, <2>2, <2>3, <2>4, <2>5 DEF ArchiveNext
<1> QED BY <1>1, <1>2, ArchiveInvariance, PTL DEF ArchiveSpec

\* Of the test cases that an update offers for a goal, if they agree in having errors
\* or none, none is shorter than the one that is stored behind it; and outside of
\* reset a stored test case gives way only to a better one, a goal never to none.
THEOREM ArchiveBestKept == ArchiveSpec => BestKept
<1>1. ArchiveInv /\ BestProgress => ShortestKept
  <2> SUFFICES ASSUME ArchiveInv, BestProgress, phase = "updated", NEW g \in coveredGoals, Agree(g),
                      NEW i \in Candidates(g)
               PROVE  Size[covered[g]] <= Size[offered[i]]
    BY DEF ShortestKept, Agree, Candidates
  <2>1. g \in objectives \ todo /\ Len(offered) \in Nat
    BY DEF ArchiveInv, ArchiveTypeOK, Partition, UpdateProgress
  <2> QED BY <2>1 DEF BestProgress, BestOf, Candidates
<1>2. ArchiveInv /\ [ArchiveNext]_archiveVars =>
        [ \/ Reset
          \/ /\ coveredGoals \subseteq coveredGoals'
             /\ \A g \in coveredGoals :
                  covered'[g] # covered[g] =>
                      \/ Size[covered'[g]] < Size[covered[g]]
                      \/ covered[g] \in Failing /\ covered'[g] \notin Failing ]_archiveVars
  <2> SUFFICES ASSUME ArchiveInv, ArchiveNext, ~ Reset
               PROVE  /\ coveredGoals \subseteq coveredGoals'
                      /\ \A g \in coveredGoals :
                            covered'[g] # covered[g] =>
                                \/ Size[covered'[g]] < Size[covered[g]]
                                \/ covered[g] \in Failing /\ covered'[g] \notin Failing
    OBVIOUS
  <2>1. CASE StoreCandidate BY <2>1, StoreImproves
  <2>2. CASE Update \/ PassCandidate \/ NextObjective \/ EndUpdate \/ Return \/ Extend
    <3>1. covered' = covered
      BY <2>2 DEF Update, BeginUpdate, PassCandidate, NextObjective, EndUpdate, Return, Extend
    <3> QED BY <3>1 DEF coveredGoals
  <2> QED BY <2>1, <2>2 DEF ArchiveNext
<1> QED BY <1>1, <1>2, ArchiveInvariance, BestInvariance, PTL DEF ArchiveSpec, BestKept, CoverageKept

--------------------------------------------------------------------------------
(* The goals manager                                                        *)

ManagerTypeOK ==
    /\ current \subseteq Goals
    /\ continuation \in {"search", "local"}
    /\ phase \in {"idle", "search", "updating", "updated", "local", "finished"}

\* The waiting objectives are current goals, the roots and all children of the
\* covered goals that are no longer current are objectives, and objectives are
\* only those that the covered goals led to.
FrontierInv ==
    /\ uncovered \subseteq current
    /\ current \subseteq objectives
    /\ Roots \subseteq objectives
    /\ ChildrenOf(coveredGoals \ current) \subseteq objectives
    /\ objectives \subseteq Roots \cup ChildrenOf(coveredGoals)

\* With the loop of the update over, no covered goal is current, and no objective
\* covered by the last test cases waits.
SettledInv ==
    /\ phase \in {"idle", "search", "local", "finished"} =>
        /\ phase # "idle" => current \cap coveredGoals = {}
        /\ \A i \in 1..Len(offered) : Covers[offered[i]] \cap uncovered = {}
    /\ phase = "idle" => offered = <<>>

Inv == ArchiveInv /\ ManagerTypeOK /\ FrontierInv /\ SettledInv

\* More covered goals have more children.
LEMMA ChildrenMonotone ==
    ASSUME NEW S, NEW T, S \subseteq T
    PROVE  ChildrenOf(S) \subseteq ChildrenOf(T)
  BY DEF ChildrenOf

LEMMA ChildrenUnion ==
    ASSUME NEW S, NEW T
    PROVE  ChildrenOf(S \cup T) = ChildrenOf(S) \cup ChildrenOf(T)
  BY DEF ChildrenOf

LEMMA ChildrenAreGoals ==
    ASSUME NEW S \in SUBSET Goals
    PROVE  ChildrenOf(S) \subseteq Goals
  BY GraphAssumption DEF ChildrenOf

\* The manager starts with the roots, all of them waiting.
LEMMA StartInv == Init => Inv
<1> SUFFICES ASSUME Init PROVE Inv
  OBVIOUS
<1>1. ArchiveInv
  BY InitInv, GraphAssumption DEF Init
<1>2. coveredGoals = {} /\ current = Roots /\ objectives = Roots /\ uncovered = Roots
  BY DEF Init, ArchiveInit, NothingCovered, coveredGoals
<1>3. ChildrenOf({}) = {}
  BY DEF ChildrenOf
<1>4. FrontierInv
  BY <1>2, <1>3 DEF FrontierInv
<1>5. phase = "idle" /\ offered = <<>> /\ Len(offered) = 0
  BY DEF Init, ArchiveInit
<1>6. ManagerTypeOK /\ SettledInv
  BY <1>2, <1>5, GraphAssumption DEF Init, ManagerTypeOK, SettledInv
<1> QED BY <1>1, <1>4, <1>6 DEF Inv

\* A call of the update only starts the loop.
LEMMA CallInv ==
    ASSUME Inv, NEW solutions \in Offers, BeginUpdate(solutions),
           current' = current, continuation' \in {"search", "local"}
    PROVE  Inv'
<1>1. solutions \in Seq(Solutions)
  BY DEF Offers
<1>2. ArchiveInv'
  BY <1>1, BeginUpdateInv DEF Inv
<1>3. UNCHANGED <<objectives, uncovered, coveredGoals>> /\ phase' = "updating"
  BY DEF BeginUpdate, coveredGoals
<1>4. ManagerTypeOK' /\ FrontierInv' /\ SettledInv'
  BY <1>3 DEF Inv, ManagerTypeOK, FrontierInv, SettledInv
<1> QED BY <1>2, <1>4 DEF Inv

\* A goal that gets covered takes its children's chance with it until the goals
\* are selected anew: it is still current.
LEMMA StoreInv ==
    ASSUME Inv, StoreCandidate, UNCHANGED <<current, continuation>>
    PROVE  Inv'
<1> DEFINE g == objective
<1>1. ArchiveInv'
  BY StoreCandidateInv DEF Inv
<1>2. /\ UNCHANGED <<objectives, phase>>
      /\ uncovered' = uncovered \ {g}
      /\ coveredGoals' = coveredGoals \cup {g}
      /\ phase = "updating"
  BY DEF StoreCandidate, Store, coveredGoals
<1>3. g \in objectives
  BY <1>2, ObjectiveInTodo DEF Inv, ArchiveInv, UpdateProgress, StoreCandidate
<1>4. g \in coveredGoals \/ g \in current
  BY <1>3 DEF Inv, ArchiveInv, Partition, FrontierInv
<1>5. coveredGoals' \ current = coveredGoals \ current
  BY <1>2, <1>4
<1>6. ChildrenOf(coveredGoals) \subseteq ChildrenOf(coveredGoals')
  BY <1>2, ChildrenMonotone
<1>7. FrontierInv'
  BY <1>2, <1>5, <1>6 DEF Inv, FrontierInv
<1>8. ManagerTypeOK' /\ SettledInv'
  BY <1>2 DEF Inv, ManagerTypeOK, SettledInv
<1> QED BY <1>1, <1>7, <1>8 DEF Inv

\* The other turns of the archive's loops change nothing the manager sees.
LEMMA LoopInv ==
    ASSUME Inv, PassCandidate \/ NextObjective \/ EndUpdate, UNCHANGED <<current, continuation>>
    PROVE  Inv'
<1>1. ArchiveInv'
  BY PassCandidateInv, NextObjectiveInv, EndUpdateInv DEF Inv
<1>2. UNCHANGED <<objectives, uncovered, coveredGoals>> /\ phase' \in {"updating", "updated"}
  BY DEF PassCandidate, NextObjective, EndUpdate, coveredGoals
<1>3. ManagerTypeOK' /\ FrontierInv' /\ SettledInv'
  BY <1>2 DEF Inv, ManagerTypeOK, FrontierInv, SettledInv
<1> QED BY <1>1, <1>3 DEF Inv

\* Selecting goals hands the covered ones' children over to the archive.
LEMMA SelectInv ==
    ASSUME Inv, SelectGoals
    PROVE  Inv'
<1> DEFINE C == coveredGoals
<1>1. /\ current' = (current \ C) \cup NewGoals
      /\ objectives' = objectives \cup current'
      /\ uncovered' = uncovered \cup (current' \ objectives)
      /\ UNCHANGED <<covered, offered, continuation>>
      /\ coveredGoals' = C
      /\ phase = "updated"
  BY DEF SelectGoals, AddGoals, coveredGoals
<1>2. /\ C \subseteq Goals /\ current \subseteq Goals /\ objectives = C \cup uncovered
      /\ C \cap uncovered = {}
  BY DEF Inv, ArchiveInv, ArchiveTypeOK, Partition, ManagerTypeOK
<1>3. current \ C = uncovered
  BY <1>2 DEF Inv, FrontierInv
<1>4. NewGoals \subseteq Goals /\ NewGoals \cap C = {} /\ NewGoals \cap current = {}
  BY <1>2, ChildrenAreGoals DEF NewGoals
<1>5. current' = uncovered' /\ current' \cap C = {}
  BY <1>1, <1>2, <1>3, <1>4
<1>6. ChildrenOf(C) = ChildrenOf(C \ current) \cup ChildrenOf(current \cap C)
  <2>1. C = (C \ current) \cup (current \cap C)
    OBVIOUS
  <2> QED BY <2>1, ChildrenUnion
<1>7. ChildrenOf(C) \subseteq objectives'
  <2>1. ChildrenOf(C \ current) \subseteq objectives
    BY DEF Inv, FrontierInv
  <2>2. ChildrenOf(current \cap C) \subseteq NewGoals \cup current \cup C
    BY DEF NewGoals
  <2>3. current \subseteq objectives /\ C \subseteq objectives
    BY <1>2 DEF Inv, FrontierInv
  <2> QED BY <1>1, <1>6, <2>1, <2>2, <2>3
<1>8. objectives' \subseteq Roots \cup ChildrenOf(C)
  <2>1. NewGoals \subseteq ChildrenOf(C)
    BY <1>6 DEF NewGoals
  <2>2. objectives \subseteq Roots \cup ChildrenOf(C)
    BY DEF Inv, FrontierInv
  <2> QED BY <1>1, <1>2, <1>3, <2>1, <2>2
<1>9. FrontierInv'
  <2>1. C \ current' = C
    BY <1>5
  <2>2. Roots \subseteq objectives'
    BY <1>1 DEF Inv, FrontierInv
  <2> QED BY <1>1, <1>5, <1>7, <1>8, <2>1, <2>2 DEF FrontierInv
<1>10. CASE NewGoals # {}
  <2>1. phase' = "updating" /\ todo' = objectives' /\ next' = 1
    BY <1>10 DEF SelectGoals
  <2>2. objectives' \subseteq Goals /\ uncovered' \subseteq Goals
    BY <1>1, <1>2, <1>4 DEF Inv, ArchiveInv, ArchiveTypeOK
  <2>3. ArchiveTypeOK'
    BY <1>1, <2>1, <2>2 DEF Inv, ArchiveInv, ArchiveTypeOK
  <2>4. Partition' /\ StoredCovers'
    BY <1>1, <1>2, <1>5 DEF Inv, ArchiveInv, Partition, StoredCovers
  <2>5. Len(offered) \in Nat
    BY DEF Inv, ArchiveInv, ArchiveTypeOK
  <2>6. UpdateProgress'
    BY <1>1, <2>1, <2>5 DEF UpdateProgress
  <2>7. ManagerTypeOK' /\ SettledInv'
    BY <1>1, <1>2, <1>4, <2>1 DEF Inv, ManagerTypeOK, SettledInv
  <2> QED BY <1>9, <2>3, <2>4, <2>6, <2>7 DEF Inv, ArchiveInv
<1>11. CASE NewGoals = {}
  <2>1. phase' = continuation /\ UNCHANGED <<todo, next>>
    BY <1>11 DEF SelectGoals
  <2>2. uncovered' = uncovered /\ objectives' = objectives
    BY <1>1, <1>2, <1>3, <1>11
  <2>3. phase' \in {"search", "local"}
    BY <2>1 DEF Inv, ManagerTypeOK
  <2>4. ArchiveTypeOK'
    BY <1>1, <2>1, <2>2, <2>3 DEF Inv, ArchiveInv, ArchiveTypeOK
  <2>5. Partition' /\ StoredCovers'
    BY <1>1, <2>2 DEF Inv, ArchiveInv, Partition, StoredCovers
  <2>6. UpdateProgress'
    BY <2>3 DEF UpdateProgress
  <2>7. \A i \in 1..Len(offered) : Covers[offered[i]] \cap uncovered = {}
    BY <1>1, <1>2 DEF Inv, ArchiveInv, UpdateProgress
  <2>8. SettledInv'
    BY <1>1, <1>5, <2>2, <2>3, <2>7 DEF SettledInv
  <2>9. ManagerTypeOK'
    BY <1>1, <1>2, <1>4, <2>3 DEF Inv, ManagerTypeOK
  <2> QED BY <1>9, <2>4, <2>5, <2>6, <2>8, <2>9 DEF Inv, ArchiveInv
<1> QED BY <1>10, <1>11

\* The invariant is preserved by the whole next-state relation.
LEMMA StepInv == Inv /\ [Next]_vars => Inv'
<1> SUFFICES ASSUME Inv, [Next]_vars PROVE Inv'
  OBVIOUS
<1>1. CASE InitialPopulation BY <1>1, CallInv DEF InitialPopulation
<1>2. CASE Evolve BY <1>2, CallInv DEF Evolve
<1>3. CASE SearchLocally BY <1>3, CallInv DEF SearchLocally
<1>4. CASE ConsiderBetter BY <1>4, StoreInv DEF ConsiderBetter
<1>5. CASE ConsiderOther BY <1>5, LoopInv DEF ConsiderOther
<1>6. CASE SelectGoals BY <1>6, SelectInv
<1>7. CASE Finish
  BY <1>7 DEF Finish, Inv, ArchiveInv, ArchiveTypeOK, Partition, StoredCovers, UpdateProgress,
     ManagerTypeOK, FrontierInv, SettledInv, coveredGoals
<1>8. CASE UNCHANGED vars
  BY <1>8 DEF vars, archiveVars, Inv, ArchiveInv, ArchiveTypeOK, Partition, StoredCovers,
     UpdateProgress, ManagerTypeOK, FrontierInv, SettledInv, coveredGoals, objective
<1>9. CASE Terminated
  BY <1>8, <1>9 DEF Terminated
<1> QED BY <1>1, <1>2, <1>3, <1>4, <1>5, <1>6, <1>7, <1>8, <1>9 DEF Next

THEOREM Invariance == Spec => []Inv
  BY StartInv, StepInv, PTL DEF Spec

--------------------------------------------------------------------------------
\* What the invariant says of the moments between two updates.
LEMMA SettledFrontier ==
    ASSUME Inv, phase \in {"search", "local", "finished"}
    PROVE  /\ current = uncovered
           /\ current = Frontier(coveredGoals)
           /\ Roots \cup ChildrenOf(coveredGoals) \subseteq coveredGoals \cup uncovered
<1>1. current \cap coveredGoals = {}
  BY DEF Inv, SettledInv
<1>2. objectives = coveredGoals \cup uncovered /\ coveredGoals \cap uncovered = {}
  BY DEF Inv, ArchiveInv, Partition
<1>3. current = uncovered
  BY <1>1, <1>2 DEF Inv, FrontierInv
<1>4. coveredGoals \ current = coveredGoals
  BY <1>1
<1>5. Roots \cup ChildrenOf(coveredGoals) \subseteq objectives
  BY <1>4 DEF Inv, FrontierInv
<1>6. objectives \subseteq Roots \cup ChildrenOf(coveredGoals)
  BY DEF Inv, FrontierInv
<1> QED BY <1>1, <1>2, <1>3, <1>5, <1>6 DEF Frontier

\* Between two updates the current goals are the uncovered goals within reach,
\* and they are the archive's uncovered goals.
THEOREM FrontierIsExact == Spec => []FrontierExact
<1>1. Inv => FrontierExact
  BY SettledFrontier DEF FrontierExact, Settled
<1> QED BY <1>1, Invariance, PTL

\* A test case's whole coverage is credited, although the goals below the frontier
\* become objectives only as their parents are covered.
THEOREM CoverageIsNotLost == Spec => []NoLostCoverage
<1>1. Inv => NoLostCoverage
  <2> SUFFICES ASSUME Inv, Settled, NEW i \in 1..Len(offered)
               PROVE  Covers[offered[i]] \subseteq coveredGoals
    BY DEF NoLostCoverage
  <2> DEFINE S == Covers[offered[i]]
             X == S \ coveredGoals
  <2>1. phase \in {"search", "local", "finished"}
    BY DEF Settled
  <2>2. offered[i] \in Solutions
    BY DEF Inv, ArchiveInv, ArchiveTypeOK
  <2>3. S \in SUBSET Goals /\ Grounded(S)
    BY <2>2, ArchiveAssumption, ControlDependenceAssumption
  <2>4. S \cap uncovered = {}
    BY <2>1 DEF Inv, SettledInv
  <2>5. SUFFICES ASSUME X # {} PROVE FALSE
    OBVIOUS
  <2>6. PICK g \in X : g \in Roots \/ \E p \in S \ X : g \in Children[p]
    <3>1. X \in SUBSET S
      OBVIOUS
    <3> QED BY <2>3, <2>5, <3>1 DEF Grounded
  <2>7. g \in Roots \cup ChildrenOf(coveredGoals)
    BY <2>6 DEF ChildrenOf
  <2>8. g \in coveredGoals \cup uncovered
    BY <2>1, <2>7, SettledFrontier
  <2> QED BY <2>4, <2>6, <2>8
<1> QED BY <1>1, Invariance, PTL

\* The loop condition of the search is right: no uncovered objective, no
\* uncovered goal.
THEOREM StopsOnFullCoverage == Spec => []EmptyMeansCovered
<1>1. Inv => EmptyMeansCovered
  <2> SUFFICES ASSUME Inv, Settled, uncovered = {} PROVE coveredGoals = Goals
    BY DEF EmptyMeansCovered
  <2> DEFINE X == Goals \ coveredGoals
  <2>1. phase \in {"search", "local", "finished"}
    BY DEF Settled
  <2>2. coveredGoals \subseteq Goals
    BY DEF Inv, ArchiveInv, ArchiveTypeOK
  <2>3. SUFFICES ASSUME X # {} PROVE FALSE
    BY <2>2
  <2>4. PICK g \in X : g \in Roots \/ \E p \in Goals \ X : g \in Children[p]
    <3>1. X \in SUBSET Goals
      OBVIOUS
    <3> QED BY <2>3, <3>1, ControlDependenceAssumption DEF Grounded
  <2>5. g \in Roots \cup ChildrenOf(coveredGoals)
    BY <2>4 DEF ChildrenOf
  <2>6. g \in coveredGoals
    BY <2>1, <2>5, SettledFrontier
  <2> QED BY <2>4, <2>6
<1> QED BY <1>1, Invariance, PTL

--------------------------------------------------------------------------------
\* Goals are covered in the order of their dependences: the goals manager
\* implements the exploration of the branch graph.
THEOREM Refinement == Spec => ExploresInOrder
<1>1. Init => Exploration!Init
  BY DEF Init, ArchiveInit, NothingCovered, coveredGoals, Exploration!Init
<1>2. Inv /\ [Next]_vars => [Exploration!Cover]_coveredGoals
  <2> SUFFICES ASSUME Inv, [Next]_vars PROVE Exploration!Cover \/ UNCHANGED coveredGoals
    OBVIOUS
  <2>1. CASE ConsiderBetter
    <3> DEFINE g == objective
    <3>1. coveredGoals' = coveredGoals \cup {g}
      BY <2>1 DEF ConsiderBetter, StoreCandidate, Store, coveredGoals
    <3>2. g \in objectives
      BY <2>1, ObjectiveInTodo DEF ConsiderBetter, StoreCandidate, Inv, ArchiveInv, UpdateProgress
    <3>3. g \in Roots \cup ChildrenOf(coveredGoals)
      BY <3>2 DEF Inv, FrontierInv
    <3>4. CASE g \in coveredGoals
      BY <3>1, <3>4
    <3>5. CASE g \notin coveredGoals
      BY <3>1, <3>3, <3>5 DEF Exploration!Cover, ChildrenOf
    <3> QED BY <3>4, <3>5
  <2>2. CASE ~ ConsiderBetter
    <3>1. UNCHANGED covered
      BY <2>2 DEF Next, InitialPopulation, Evolve, SearchLocally, BeginUpdate, ConsiderOther,
         PassCandidate, NextObjective, EndUpdate, SelectGoals, Finish, Terminated, vars, archiveVars
    <3> QED BY <3>1 DEF coveredGoals
  <2> QED BY <2>1, <2>2
<1> QED BY <1>1, <1>2, Invariance, PTL DEF Spec, ExploresInOrder, Exploration!Spec

--------------------------------------------------------------------------------
\* A callback takes a covered target out of the cluster.
LEMMA CallbackKeepsStep ==
    ASSUME Inv, ClusterInStep, DOMAIN targets \subseteq Accessibles, ConsiderBetter
    PROVE  ClusterInStep' /\ (DOMAIN targets)' \subseteq Accessibles
<1> DEFINE g == objective
           a == AccessibleOf[g]
<1>1. coveredGoals' = coveredGoals \cup {g}
  BY DEF ConsiderBetter, StoreCandidate, Store, coveredGoals
<1>2. g \in objectives /\ g \in Goals
  BY ObjectiveInTodo DEF ConsiderBetter, StoreCandidate, Inv, ArchiveInv, UpdateProgress, ArchiveTypeOK
<1>3. CASE g \notin uncovered
  <2>1. g \in coveredGoals
    BY <1>2, <1>3 DEF Inv, ArchiveInv, Partition
  <2>2. coveredGoals' = coveredGoals /\ targets' = targets
    BY <1>1, <1>3, <2>1 DEF ConsiderBetter
  <2> QED BY <2>2 DEF ClusterInStep
<1>4. CASE g \in uncovered
  <2>1. g \notin coveredGoals
    BY <1>4 DEF Inv, ArchiveInv, Partition
  <2>2. OnTargetCovered(g)
    BY <1>4 DEF ConsiderBetter
  <2>3. \A b \in Accessibles \ {a} : g \notin TargetsOf(b)
    BY DEF TargetsOf
  <2>4. CASE a = NoAccessible
    <3>1. targets' = targets /\ a \notin Accessibles
      BY <2>2, <2>4, GraphAssumption DEF OnTargetCovered
    <3>2. \A b \in Accessibles : TargetsOf(b) \ coveredGoals' = TargetsOf(b) \ coveredGoals
      BY <1>1, <2>3, <3>1
    <3> QED BY <3>1, <3>2 DEF ClusterInStep
  <2>5. CASE a # NoAccessible
    <3> DEFINE left == targets[a] \ {g}
               kept == {b \in DOMAIN targets : b # a \/ left # {}}
    <3>1. a \in Accessibles /\ g \in TargetsOf(a)
      BY <1>2, <2>5, GraphAssumption DEF TargetsOf
    <3>2. a \in DOMAIN targets /\ targets[a] = TargetsOf(a) \ coveredGoals
      BY <2>1, <3>1 DEF ClusterInStep
    <3>3. left = TargetsOf(a) \ coveredGoals'
      BY <1>1, <3>2
    <3>4. targets' = [b \in kept |-> IF b = a THEN left ELSE targets[b]]
      BY <2>2, <2>5 DEF OnTargetCovered
    <3>5. \A b \in Accessibles \ {a} : TargetsOf(b) \ coveredGoals' = TargetsOf(b) \ coveredGoals
      BY <1>1, <2>3
    <3>6. DOMAIN targets' = kept
      BY <3>4
    <3>7. \A b \in Accessibles :
            b \in kept <=> (TargetsOf(b) = {} \/ TargetsOf(b) \ coveredGoals' # {})
      <4>1. \A b \in Accessibles \ {a} : b \in kept <=> b \in DOMAIN targets
        OBVIOUS
      <4>2. a \in kept <=> left # {}
        BY <3>2
      <4> HIDE DEF kept, left
      <4> QED BY <3>1, <3>3, <3>5, <4>1, <4>2 DEF ClusterInStep
    <3>8. \A b \in kept : targets'[b] = TargetsOf(b) \ coveredGoals'
      <4>1. targets'[a] = left \/ a \notin kept
        BY <3>4
      <4>2. \A b \in kept \ {a} : targets'[b] = targets[b] /\ b \in Accessibles /\ b \in DOMAIN targets
        BY <3>4
      <4> HIDE DEF kept, left
      <4> QED BY <3>3, <3>5, <4>1, <4>2 DEF ClusterInStep
    <3> QED BY <3>6, <3>7, <3>8 DEF ClusterInStep
  <2> QED BY <2>4, <2>5
<1> QED BY <1>3, <1>4

\* The test cluster and the archive never disagree on what is left to cover, and
\* so the assertion in on_target_covered cannot fail.
THEOREM ClusterStaysInStep == Spec => []ClusterInStep
<1> DEFINE ClusterInv == ClusterInStep /\ DOMAIN targets \subseteq Accessibles
<1>1. Init => ClusterInv
  <2> SUFFICES ASSUME Init PROVE ClusterInv
    OBVIOUS
  <2>1. coveredGoals = {}
    BY DEF Init, ArchiveInit, NothingCovered, coveredGoals
  <2>2. targets = [a \in Accessibles |-> TargetsOf(a)]
    BY DEF Init
  <2> QED BY <2>1, <2>2 DEF ClusterInStep
<1>2. Inv /\ ClusterInv /\ [Next]_vars => ClusterInv'
  <2> SUFFICES ASSUME Inv, ClusterInv, [Next]_vars PROVE ClusterInv'
    OBVIOUS
  <2>1. CASE ConsiderBetter
    BY <2>1, CallbackKeepsStep
  <2>2. CASE ~ ConsiderBetter
    <3>1. UNCHANGED <<covered, targets>>
      BY <2>2 DEF Next, InitialPopulation, Evolve, SearchLocally, BeginUpdate, ConsiderOther,
         PassCandidate, NextObjective, EndUpdate, SelectGoals, Finish, Terminated, vars, archiveVars
    <3> QED BY <3>1 DEF ClusterInStep, coveredGoals
  <2> QED BY <2>1, <2>2
<1> QED BY <1>1, <1>2, Invariance, PTL DEF Spec
================================================================================
