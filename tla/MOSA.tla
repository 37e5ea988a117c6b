--------------------------------- MODULE MOSA ---------------------------------
(* The many-objective search of MOSA, DynaMOSA and LLMOSA: breeding, ranking    *)
(* and survival in ga/algorithms/abstractmosaalgorithm.py, mosaalgorithm.py     *)
(* and ga/operators/{ranking,comparator,selection}.py.  A test-case chromosome  *)
(* is its content: chromosomes that are equal to Python are equal here.         *)
EXTENDS Integers, FiniteSets, SequencesExt

CONSTANTS Tests,        \* contents of a test-case chromosome
          GoalOrder,    \* the goals in the order of the fitness functions: a sequence
          Fitness,      \* [Tests -> [ToSet(GoalOrder) -> Nat]], 0: covered
          Length,       \* [Tests -> Nat]
          Descendants,  \* [Tests -> SUBSET Tests], what crossover and mutation can make of it
          PopulationSize,
          Insertions,   \* population * test_insertion_probability
          Bias          \* rank_bias in tenths

ASSUME MOSAAssumption ==
  /\ GoalOrder \in Seq(ToSet(GoalOrder))
  /\ Fitness \in [Tests -> [ToSet(GoalOrder) -> Nat]]
  /\ Length \in [Tests -> Nat]
  /\ Descendants \in [Tests -> SUBSET Tests]
  /\ PopulationSize \in Nat \ {0} /\ Insertions \in Nat
  /\ Bias \in 11..20

VARIABLES population, offspring,
          pairs,        \* turns of the breeding loop that are left
          inserts,      \* turns of the inserting loop that are left
          achievements, \* _archive.covered_goals
          ranked,       \* [union, goals, fronts]: what the last ranking was asked and said
          generation    \* where the search stands

mosaVars == <<population, offspring, pairs, inserts, achievements, ranked, generation>>

\* The elements of a sequence that are in S, in their order
Keeping(s, S) ==
  LET kept[n \in 0..Len(s)] ==
        IF n = 0 THEN <<>> ELSE IF s[n] \in S THEN Append(kept[n - 1], s[n]) ELSE kept[n - 1]
  IN  kept[Len(s)]

\* remaining.remove(element) for each element of a front that is there
Without(s, front) ==
  LET left[n \in 0..Len(front)] == IF n = 0 THEN s ELSE RemoveFirst(left[n - 1], front[n])
  IN  left[Len(front)]

uncovered_goals == Keeping(GoalOrder, ToSet(GoalOrder) \ achievements)
CoveredBy(tests) == {g \in ToSet(GoalOrder) : \E t \in ToSet(tests) : Fitness[t][g] = 0}

--------------------------------------------------------------------------------
(* Comparators.                                                                 *)

Dominates(t, u, goals) ==
  /\ \A g \in goals : Fitness[t][g] <= Fitness[u][g]
  /\ \E g \in goals : Fitness[t][g] < Fitness[u][g]

Preferred(t, u, goal) ==
  \/ Fitness[t][goal] < Fitness[u][goal]
  \/ Fitness[t][goal] = Fitness[u][goal] /\ Length[t] < Length[u]

--------------------------------------------------------------------------------
(* Ranking.                                                                     *)

\* best: what is left when the loop over the solutions ends, a coin deciding among equals
Best(solutions, g) == {t \in ToSet(solutions) : \A u \in ToSet(solutions) : ~Preferred(u, t, g)}

\* one of the best for each goal; equal ones once
_get_zero_front(solutions, goals) ==
  LET Add(front, t) == IF t \in ToSet(front) THEN front ELSE Append(front, t)
      fronts[n \in 0..Len(goals)] ==
        IF n = 0 THEN {<<>>}
        ELSE UNION {{Add(f, t) : t \in Best(solutions, goals[n])} : f \in fronts[n - 1]}
  IN  fronts[Len(goals)]

\* Mutant: nothing is taken out again
OfferOnly(front, s, goals) ==
  IF \E b \in ToSet(front) : Dominates(b, s, ToSet(goals)) THEN front ELSE Append(front, s)

\* one turn of the loop over the solutions
Offer(front, s, goals) ==
  IF \E b \in ToSet(front) : Dominates(b, s, ToSet(goals)) THEN front
  ELSE Append(Keeping(front, {b \in ToSet(front) : ~Dominates(s, b, ToSet(goals))}), s)

_get_non_dominated_solutions(solutions, goals) ==
  LET front[n \in 0..Len(solutions)] ==
        IF n = 0 THEN <<>> ELSE Offer(front[n - 1], solutions[n], goals)
  IN  front[Len(solutions)]

\* one turn of the loop that takes front after front off the rest until they fill a population
TakeFront(state, goals) ==
  IF state.ranked_solutions >= PopulationSize \/ state.remaining = <<>> THEN state
  ELSE LET front == _get_non_dominated_solutions(state.remaining, goals)
       IN  [fronts |-> Append(state.fronts, front), remaining |-> Without(state.remaining, front),
            ranked_solutions |-> state.ranked_solutions + Len(front)]

\* each turn ranks one solution at least
RankRest(zero, remaining, goals) ==
  LET after[n \in 0..PopulationSize] ==
        IF n = 0 THEN [fronts |-> <<zero>>, remaining |-> remaining, ranked_solutions |-> Len(zero)]
        ELSE TakeFront(after[n - 1], goals)
  IN  after[PopulationSize].fronts

\* Mutant: plain sorting by dominance
RankByDominance(solutions, goals) == {RankRest(<<>>, solutions, goals)}

\* the rankings that can come out
compute_ranking_assignment(solutions, goals) ==
  {IF Len(zero) < PopulationSize THEN RankRest(zero, Without(solutions, zero), goals)
   ELSE <<zero, Without(solutions, zero)>> : zero \in _get_zero_front(solutions, goals)}

\* the distance in parts of the length of the front
fast_epsilon_dominance_assignment(front, goals) ==
  LET Minimal(g) == {i \in DOMAIN front : \A j \in DOMAIN front : Fitness[front[i]][g] <= Fitness[front[j]][g]}
      Shares(i) == {Len(front) - Cardinality(Minimal(g)) : g \in {h \in ToSet(goals) : i \in Minimal(h)}}
  IN  [i \in DOMAIN front |-> Max({0} \cup Shares(i))]

\* the front by decreasing distance, the order kept among equals
SortedByDistance(front, goals) ==
  LET distance == fast_epsilon_dominance_assignment(front, goals)
      Ahead(i) == {j \in DOMAIN front : distance[j] > distance[i] \/ (distance[j] = distance[i] /\ j < i)}
  IN  [k \in DOMAIN front |-> front[CHOOSE i \in DOMAIN front : Cardinality(Ahead(i)) = k - 1]]

--------------------------------------------------------------------------------
(* Selection.                                                                   *)

\* RankSelection: the root of the quadratic equation, r being tenths of the unit interval
get_index(size, r) ==
  Max({k \in 0..size - 1 : 10 * (Bias * k * size - (Bias - 10) * k * k) <= 10 * r * size * size})
Parents == {population[get_index(Len(population), r) + 1] : r \in 0..9}

--------------------------------------------------------------------------------
(* The search.                                                                  *)

Unranked == [union |-> <<>>, goals |-> <<>>, fronts |-> <<<<>>>>]

MOSAInit ==
  /\ population \in [1..PopulationSize -> Tests]
  /\ offspring = <<>> /\ pairs = 0 /\ inserts = 0
  /\ achievements = CoveredBy(population)
  /\ ranked \in {[union |-> population, goals |-> uncovered_goals, fronts |-> f] :
                 f \in compute_ranking_assignment(population, uncovered_goals)}
  /\ generation = "search"

BeginEvolve ==
  /\ generation = "search"
  /\ uncovered_goals # <<>>
  /\ pairs' = PopulationSize \div 2 /\ inserts' = Insertions
  /\ offspring' = <<>> /\ ranked' = Unranked
  /\ generation' = "breed"
  /\ UNCHANGED <<population, achievements>>

\* only what is changed and not empty is kept of the two; nothing if the crossover fails
BreedPair ==
  /\ generation = "breed" /\ pairs > 0
  /\ pairs' = pairs - 1
  /\ \/ \E p1, p2 \in Parents : \E o1 \in Descendants[p1], o2 \in Descendants[p2] :
          offspring' = offspring \o Keeping(<<o1, o2>>, {o \in Tests : Length[o] > 0})
     \/ offspring' = offspring
  /\ UNCHANGED <<population, inserts, achievements, ranked, generation>>

\* a new test, or a mutant of a solution of the archive: any that is not empty
InsertNew ==
  /\ generation = "breed" /\ pairs = 0 /\ inserts > 0
  /\ inserts' = inserts - 1
  /\ \E t \in {x \in Tests : Length[x] > 0} : offspring' \in {offspring, Append(offspring, t)}
  /\ UNCHANGED <<population, pairs, achievements, ranked, generation>>

\* Mutant: only whole fronts survive
FillWhole(taken, front, goals) ==
  IF Len(taken) + Len(front) <= PopulationSize THEN taken \o front ELSE taken

\* one turn of the loop over the fronts; of the one that does not fit, those far from the others
Fill(taken, front, goals) ==
  LET remain == Len(population) - Len(taken)
  IN  IF remain >= Len(front) THEN taken \o front
      ELSE taken \o SubSeq(SortedByDistance(front, goals), 1, remain)

\* an empty front ends the loop
Survivors(fronts, goals) ==
  LET taken[n \in 0..Len(fronts)] ==
        IF n = 0 THEN <<>>
        ELSE IF \E m \in 1..n : fronts[m] = <<>> THEN taken[n - 1]
        ELSE Fill(taken[n - 1], fronts[n], goals)
  IN  taken[Len(fronts)]

Survive ==
  /\ generation = "breed" /\ pairs = 0 /\ inserts = 0
  /\ \E fronts \in compute_ranking_assignment(population \o offspring, uncovered_goals) :
       /\ ranked' = [union |-> population \o offspring, goals |-> uncovered_goals, fronts |-> fronts]
       /\ population' = Survivors(fronts, uncovered_goals)
  /\ achievements' = achievements \cup CoveredBy(population')
  /\ offspring' = <<>>
  /\ generation' = "search"
  /\ UNCHANGED <<pairs, inserts>>

\* the budget is used up or everything is covered
MOSAFinish ==
  /\ generation = "search"
  /\ generation' = "finished"
  /\ UNCHANGED <<population, offspring, pairs, inserts, achievements, ranked>>

MOSANext == BeginEvolve \/ BreedPair \/ InsertNew \/ Survive \/ MOSAFinish
MOSASpec == MOSAInit /\ [][MOSANext]_mosaVars

--------------------------------------------------------------------------------
\* The size of the population never changes, whatever failed while breeding and
\* however many equal chromosomes the union holds.
PopulationKept == Len(population) = PopulationSize

\* What the order-dependent loops compute is the sorting by dominance: the first
\* front has a preferred test for every goal; every other consists of the tests
\* that nothing left over dominates, and what is worse than a front waits behind.
FrontsAreLayers ==
  LET fronts == ranked.fronts
      goals == ToSet(ranked.goals)
      behind[n \in 0..Len(fronts)] == IF n = 0 THEN ranked.union ELSE Without(behind[n - 1], fronts[n])
  IN  /\ \A g \in goals : \E t \in ToSet(fronts[1]) : \A u \in ToSet(ranked.union) : ~Preferred(u, t, g)
      /\ Len(fronts[1]) < PopulationSize =>
           \A i \in 2..Len(fronts) :
             /\ \A t \in ToSet(fronts[i]) : \A u \in ToSet(behind[i - 1]) : ~Dominates(u, t, goals)
             /\ ToSet(fronts[i]) \subseteq ToSet(behind[i - 1])
             /\ \A u \in ToSet(behind[i]) : \E t \in ToSet(fronts[i]) : Dominates(t, u, goals)

\* As long as the population has room for a best test per open goal, no goal ever
\* gets farther away.
NoGoalGetsWorse ==
  \A g \in ToSet(uncovered_goals) :
    Len(uncovered_goals) <= PopulationSize =>
      \A t \in ToSet(population) : \E u \in ToSet(population') : Fitness[u][g] <= Fitness[t][g]

\* Whatever fails while breeding and however the loops over pairs go: the fronts are
\* the layers of dominance behind a best test for every goal, the population keeps
\* its size, and no open goal gets farther away (ranking.py, abstractmosaalgorithm.py).
RankingKeepsTheBest ==
  /\ [](PopulationKept /\ FrontsAreLayers)
  /\ [][NoGoalGetsWorse]_mosaVars
===============================================================================
