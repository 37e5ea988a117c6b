---------------------------- MODULE PopulationProofs ----------------------------
(***************************************************************************)
(* What holds of the populations of two searches: of MIO's, for all        *)
(* targets, test cases, heuristics and parameters, and of the suites of    *)
(* the whole-suite search, for all test cases, goals and changes; both of  *)
(* any size.  And what local search on a test case sets back, for every    *)
(* length of it, all values, every landscape of fitness and any number of  *)
(* tries and calls.                                                        *)
(***************************************************************************)
EXTENDS MIO, Suites, LocalSearch, SequenceTheorems, WellFoundedInduction, TLAPS

--------------------------------------------------------------------------------
(* MIO                                                                      *)

\* The population p of target x: sorted, no fuller than its capacity, and if there is
\* a test case that covers the target, it is the only one there is room for.
Populations == [capacity : Nat \ {0}, counter : 0..MaxCounter, solutions : Seq(Tests)]

Descending(solutions, x) ==
    \A i, j \in 1..Len(solutions) : i < j => h(solutions[i], x) >= h(solutions[j], x)
NoneCovers(solutions, x) == \A i \in 1..Len(solutions) : h(solutions[i], x) < Full

Sound(p, x) ==
    /\ p \in Populations
    /\ Len(p.solutions) <= p.capacity
    /\ Descending(p.solutions, x)
    /\ ~ IsCovered(p, x) => NoneCovers(p.solutions, x)

MIOInv ==
    /\ MIOTypeOK
    /\ stage = "update" => offspring \in Tests
    /\ \A x \in Targets : /\ Sound(population[x], x)
                          /\ ~ IsCovered(population[x], x) => SizeInStep(population[x])
    /\ ReportedOnce

--------------------------------------------------------------------------------
(* A population                                                             *)

\* The least-number principle
LEMMA LeastNumber ==
    ASSUME NEW T, T \subseteq Nat, T # {}
    PROVE  \E x \in T : \A y \in T : x <= y
<1> DEFINE R == OpToRel(<, Nat)
<1>1. IsWellFoundedOn(R, Nat)
  BY NatLessThanWellFounded
<1>2. \A x, y \in Nat : <<y, x>> \in R <=> y < x
  BY DEF OpToRel
<1> HIDE DEF R
<1>3. PICK x \in T : \A y \in T : ~ (<<y, x>> \in R)
  BY <1>1, WFMin
<1>4. ASSUME NEW y \in T PROVE x <= y
  <2>1. x \in Nat /\ y \in Nat
    OBVIOUS
  <2>2. ~ (y < x)
    BY <1>2, <1>3, <2>1
  <2> QED BY <2>1, <2>2
<1> QED BY <1>4

LEMMA LeastIsMin ==
    ASSUME NEW T, T \subseteq Nat, T # {}
    PROVE  Min(T) \in T /\ \A y \in T : Min(T) <= y
  BY LeastNumber DEF Min

\* What an insertion makes of a sequence
LEMMA Insertion ==
    ASSUME NEW S, NEW s \in Seq(S), NEW k \in 1..Len(s) + 1, NEW e \in S
    PROVE  /\ InsertAt(s, k, e) \in Seq(S)
           /\ Len(InsertAt(s, k, e)) = Len(s) + 1
           /\ \A i \in 1..Len(s) + 1 :
                InsertAt(s, k, e)[i] = IF i < k THEN s[i] ELSE IF i = k THEN e ELSE s[i - 1]
<1> DEFINE front == SubSeq(s, 1, k - 1)
           back == SubSeq(s, k, Len(s))
<1>1. Len(s) \in Nat /\ k \in Nat /\ \A i \in 1..Len(s) : s[i] \in S
  BY ElementOfSeq, LenProperties
<1>2. /\ front \in Seq(S) /\ Len(front) = k - 1
      /\ \A i \in 1..(k - 1) : front[i] = s[i]
  BY <1>1, SubSeqProperties
<1>3. /\ back \in Seq(S) /\ Len(back) = Len(s) - k + 1
      /\ \A i \in 1..(Len(s) - k + 1) : back[i] = s[k + i - 1]
  BY <1>1, SubSeqProperties
<1>4. <<e>> \in Seq(S) /\ Len(<<e>>) = 1 /\ <<e>>[1] = e
  OBVIOUS
<1> HIDE DEF front, back
<1>5. /\ front \o <<e>> \in Seq(S) /\ Len(front \o <<e>>) = k
      /\ \A i \in 1..k : (front \o <<e>>)[i] = IF i < k THEN s[i] ELSE e
  <2>1. /\ front \o <<e>> \in Seq(S) /\ Len(front \o <<e>>) = k - 1 + 1
        /\ \A i \in 1..(k - 1 + 1) : (front \o <<e>>)[i] = IF i <= k - 1 THEN front[i] ELSE <<e>>[i - (k - 1)]
    BY <1>2, <1>4, ConcatProperties
  <2> QED BY <2>1, <1>1, <1>2, <1>4
<1> DEFINE start == front \o <<e>>
           all == start \o back
<1>6. InsertAt(s, k, e) = all
  BY DEF InsertAt, front, back
<1> HIDE DEF start
<1>7. /\ all \in Seq(S)
      /\ Len(all) = Len(start) + Len(back)
      /\ \A i \in 1..Len(start) + Len(back) :
            all[i] = IF i <= Len(start) THEN start[i] ELSE back[i - Len(start)]
  <2>1. start \in Seq(S)
    BY <1>5 DEF start
  <2> HIDE DEF all
  <2>2. \A t, u \in Seq(S) :
            /\ t \o u \in Seq(S)
            /\ Len(t \o u) = Len(t) + Len(u)
            /\ \A i \in 1..Len(t) + Len(u) : (t \o u)[i] = IF i <= Len(t) THEN t[i] ELSE u[i - Len(t)]
    BY ConcatProperties
  <2> QED BY <2>1, <2>2, <1>3 DEF all
<1> HIDE DEF all
<1>8. Len(start) = k /\ \A i \in 1..k : start[i] = IF i < k THEN s[i] ELSE e
  BY <1>5 DEF start
<1>9. Len(all) = Len(s) + 1
  BY <1>1, <1>3, <1>7, <1>8
<1>10. ASSUME NEW i \in 1..Len(s) + 1
       PROVE  all[i] = IF i < k THEN s[i] ELSE IF i = k THEN e ELSE s[i - 1]
  <2>1. CASE i <= k
    BY <2>1, <1>1, <1>3, <1>7, <1>8
  <2>2. CASE i > k
    <3>1. all[i] = back[i - k] /\ i - k \in 1..(Len(s) - k + 1)
      BY <2>2, <1>1, <1>3, <1>7, <1>8
    <3>2. back[i - k] = s[k + (i - k) - 1] /\ k + (i - k) - 1 = i - 1
      BY <3>1, <1>1, <1>3
    <3> QED BY <3>1, <3>2, <2>2, <1>1
  <2> QED BY <2>1, <2>2, <1>1
<1> QED BY <1>6, <1>7, <1>9, <1>10

LEMMA HeuristicValues ==
    ASSUME NEW s \in Tests, NEW x \in Targets PROVE h(s, x) \in Nat /\ h(s, x) <= Full
  BY MIOAssumption DEF h

\* What an insertion makes of the solutions of a population: it keeps them sorted, and
\* makes none of the places worse.
LEMMA SortedInsertion ==
    ASSUME NEW x \in Targets, NEW old \in Seq(Tests), Descending(old, x), NEW s \in Tests
    PROVE  LET new == InsertSorted(old, x, s) IN
           /\ new \in Seq(Tests) /\ Len(new) = Len(old) + 1
           /\ Descending(new, x)
           /\ \A i \in 1..Len(old) : h(new[i], x) >= h(old[i], x)
           /\ new[Len(new)] = s \/ (Len(old) > 0 /\ new[Len(new)] = old[Len(old)])
           /\ h(s, x) < Full /\ NoneCovers(old, x) => NoneCovers(new, x)
<1> DEFINE worse == {i \in 1..Len(old) : h(old[i], x) < h(s, x)}
           k == Min(worse \cup {Len(old) + 1})
           new == InsertAt(old, k, s)
<1>1. Len(old) \in Nat /\ \A i \in 1..Len(old) : old[i] \in Tests /\ h(old[i], x) \in Nat
  BY ElementOfSeq, LenProperties, HeuristicValues
<1>2. k \in worse \cup {Len(old) + 1} /\ \A y \in worse \cup {Len(old) + 1} : k <= y
  <2> DEFINE places == worse \cup {Len(old) + 1}
  <2>1. places \subseteq Nat /\ places # {}
    BY <1>1
  <2> HIDE DEF places
  <2>2. Min(places) \in places /\ \A y \in places : Min(places) <= y
    BY <2>1, LeastIsMin
  <2> QED BY <2>2 DEF places
<1>3. k \in 1..Len(old) + 1 /\ h(s, x) \in Nat
  BY <1>1, <1>2, HeuristicValues
<1>4. \A i \in 1..Len(old) : i < k => h(old[i], x) >= h(s, x)
  <2> SUFFICES ASSUME NEW i \in 1..Len(old), i < k, ~ (h(old[i], x) >= h(s, x)) PROVE FALSE
    OBVIOUS
  <2>1. i \in worse
    BY <1>1, <1>3
  <2> QED BY <2>1, <1>1, <1>2, <1>3
<1>5. k <= Len(old) => h(old[k], x) < h(s, x)
  BY <1>1, <1>2
<1> HIDE DEF k
<1>6. \A i \in 1..Len(old) : i >= k => h(old[i], x) < h(s, x)
  BY <1>1, <1>3, <1>5 DEF Descending
<1>7. /\ new \in Seq(Tests) /\ Len(new) = Len(old) + 1
      /\ \A i \in 1..Len(old) + 1 : new[i] = IF i < k THEN old[i] ELSE IF i = k THEN s ELSE old[i - 1]
  BY <1>3, Insertion
<1> HIDE DEF new
<1>8. \A i \in 1..Len(old) + 1 :
        /\ i < k => new[i] = old[i] /\ i \in 1..Len(old)
        /\ i = k => new[i] = s
        /\ i > k => new[i] = old[i - 1] /\ i - 1 \in 1..Len(old) /\ i - 1 >= k
  BY <1>1, <1>3, <1>7
<1>9. ASSUME NEW i \in 1..Len(old) + 1, NEW j \in 1..Len(old) + 1, i < j
      PROVE  h(new[i], x) >= h(new[j], x)
  <2>1. CASE j < k
    <3>1. i < k /\ j < k /\ new[i] = old[i] /\ new[j] = old[j]
      BY <2>1, <1>1, <1>3, <1>8, <1>9
    <3>2. i \in 1..Len(old) /\ j \in 1..Len(old)
      BY <3>1, <1>8
    <3> QED BY <3>1, <3>2, <1>9 DEF Descending
  <2>2. CASE j = k
    BY <2>2, <1>1, <1>3, <1>4, <1>8, <1>9
  <2>3. CASE j > k /\ i < k
    <3>1. h(old[i], x) >= h(s, x) /\ h(old[j - 1], x) < h(s, x)
      BY <2>3, <1>4, <1>6, <1>8
    <3> QED BY <3>1, <2>3, <1>1, <1>3, <1>8
  <2>4. CASE j > k /\ i = k
    BY <2>4, <1>1, <1>3, <1>6, <1>8
  <2>5. CASE j > k /\ i > k
    <3>1. i - 1 < j - 1 /\ i - 1 \in 1..Len(old) /\ j - 1 \in 1..Len(old)
      BY <2>5, <1>1, <1>3, <1>8, <1>9
    <3> QED BY <3>1, <2>5, <1>8 DEF Descending
  <2> QED BY <2>1, <2>2, <2>3, <2>4, <2>5, <1>3
<1>10. ASSUME NEW i \in 1..Len(old) PROVE h(new[i], x) >= h(old[i], x)
  <2>1. i \in 1..Len(old) + 1
    BY <1>1
  <2>2. CASE i < k
    BY <2>1, <2>2, <1>1, <1>8
  <2>3. CASE i = k
    BY <2>1, <2>3, <1>1, <1>3, <1>5, <1>8
  <2>4. CASE i > k
    BY <2>1, <2>4, <1>1, <1>8 DEF Descending
  <2> QED BY <2>2, <2>3, <2>4, <1>3
<1>11. h(s, x) < Full /\ NoneCovers(old, x) => NoneCovers(new, x)
  <2> SUFFICES ASSUME h(s, x) < Full, NoneCovers(old, x), NEW i \in 1..Len(old) + 1
               PROVE  h(new[i], x) < Full
    BY <1>7 DEF NoneCovers
  <2> QED BY <1>8, <1>3 DEF NoneCovers
<1>12. InsertSorted(old, x, s) = new
  BY DEF InsertSorted, new, k
<1>13. new[Len(new)] = s \/ (Len(old) > 0 /\ new[Len(new)] = old[Len(old)])
  <2>1. Len(new) = Len(old) + 1 /\ Len(new) \in 1..Len(old) + 1 /\ k <= Len(new)
    BY <1>1, <1>3, <1>7
  <2>2. CASE k = Len(new)
    BY <2>1, <2>2, <1>8
  <2>3. CASE k < Len(new)
    <3>1. new[Len(new)] = old[Len(new) - 1] /\ Len(new) - 1 = Len(old) /\ Len(old) > 0
      BY <2>1, <2>3, <1>1, <1>8
    <3> QED BY <3>1
  <2> QED BY <2>1, <2>2, <2>3, <1>3, <1>1
<1> QED BY <1>7, <1>9, <1>10, <1>11, <1>12, <1>13 DEF Descending

LEMMA FrontProperty ==
    ASSUME NEW S, NEW s \in Seq(S), Len(s) >= 1
    PROVE  /\ Front(s) \in Seq(S) /\ Len(Front(s)) = Len(s) - 1
           /\ \A i \in 1..(Len(s) - 1) : Front(s)[i] = s[i]
<1>1. Len(s) \in Nat /\ \A i \in 1..(Len(s) - 1) : s[i] \in S
  BY ElementOfSeq, LenProperties
<1>2. /\ SubSeq(s, 1, Len(s) - 1) \in Seq(S)
      /\ Len(SubSeq(s, 1, Len(s) - 1)) = IF 1 <= Len(s) - 1 THEN (Len(s) - 1) - 1 + 1 ELSE 0
      /\ \A i \in 1..((Len(s) - 1) - 1 + 1) : SubSeq(s, 1, Len(s) - 1)[i] = s[1 + i - 1]
  <2> DEFINE n == Len(s) - 1
  <2>1. n \in Int /\ 1 \in Int /\ \A i \in 1..n : s[i] \in S
    BY <1>1
  <2> HIDE DEF n
  <2>2. /\ SubSeq(s, 1, n) \in Seq(S)
        /\ Len(SubSeq(s, 1, n)) = IF 1 <= n THEN n - 1 + 1 ELSE 0
        /\ \A i \in 1..(n - 1 + 1) : SubSeq(s, 1, n)[i] = s[1 + i - 1]
    BY <2>1, SubSeqProperties
  <2> QED BY <2>2 DEF n
<1>3. Len(SubSeq(s, 1, Len(s) - 1)) = Len(s) - 1
  <2>1. CASE 1 <= Len(s) - 1  BY <2>1, <1>1, <1>2
  <2>2. CASE ~ (1 <= Len(s) - 1)
    <3>1. Len(s) - 1 = 0
      <4>1. PICK n \in Nat : n = Len(s)
        BY <1>1
      <4>2. n >= 1 /\ ~ (1 <= n - 1)
        BY <4>1, <2>2
      <4>3. n = 1
        BY <4>2
      <4> QED BY <4>1, <4>3
    <3>2. Len(SubSeq(s, 1, Len(s) - 1)) = 0
      BY <2>2, <1>2
    <3> QED BY <3>1, <3>2
  <2> QED BY <2>1, <2>2
<1>4. ASSUME NEW i \in 1..(Len(s) - 1) PROVE SubSeq(s, 1, Len(s) - 1)[i] = s[i]
  <2>1. i \in 1..((Len(s) - 1) - 1 + 1) /\ 1 + i - 1 = i
    BY <1>1
  <2> QED BY <2>1, <1>2
<1> QED BY <1>2, <1>3, <1>4 DEF Front

LEMMA Beginning ==
    ASSUME NEW x, NEW old \in Seq(Tests), NEW new \in Seq(Tests), Len(new) <= Len(old),
           \A i \in 1..Len(new) : new[i] = old[i]
    PROVE  /\ Descending(old, x) => Descending(new, x)
           /\ NoneCovers(old, x) => NoneCovers(new, x)
<1>1. Len(new) \in Nat /\ Len(old) \in Nat /\ 1..Len(new) \subseteq 1..Len(old)
  BY LenProperties
<1> QED BY <1>1 DEF Descending, NoneCovers

\* What add_solution makes of the population of a target
LEMMA Added ==
    ASSUME NEW x \in Targets, NEW p, Sound(p, x), NEW s \in Tests, Accepts(p, x, s)
    PROVE  LET q == AddSolution(p, x, s) IN
           /\ Sound(q, x)
           /\ IsCovered(q, x) <=> h(s, x) = Full
           /\ IsCovered(p, x) => IsCovered(q, x)
           /\ ~ IsCovered(q, x) => q.capacity = p.capacity
           /\ \/ Len(q.solutions) = 1 /\ h(q.solutions[1], x) = Full
              \/ /\ Len(q.solutions) >= Len(p.solutions)
                 /\ \A i \in 1..Len(p.solutions) : h(q.solutions[i], x) >= h(p.solutions[i], x)
<1> DEFINE q == AddSolution(p, x, s)
           old == p.solutions
           rest == IF Len(old) < p.capacity THEN old ELSE Front(old)
           new == InsertSorted(rest, x, s)
<1>1. /\ p \in Populations /\ p.capacity \in Nat \ {0} /\ old \in Seq(Tests) /\ Len(old) \in Nat
      /\ Len(old) <= p.capacity /\ Descending(old, x)
      /\ \A i \in 1..Len(old) : old[i] \in Tests /\ h(old[i], x) \in Nat /\ h(old[i], x) <= Full
      /\ h(s, x) \in Nat /\ h(s, x) <= Full
  BY ElementOfSeq, LenProperties, HeuristicValues DEF Sound, Populations
<1> HIDE DEF old
<1>2. 0 \in 0..MaxCounter
  BY MIOAssumption
<1>3. CASE h(s, x) = Full
  <2>1. q = [capacity |-> 1, counter |-> 0, solutions |-> <<s>>]
    BY <1>3 DEF AddSolution
  <2>2. /\ q.capacity = 1 /\ q.solutions = <<s>> /\ q \in Populations
        /\ Len(q.solutions) = 1 /\ q.solutions[1] = s
    BY <2>1, <1>2 DEF Populations
  <2>3. Descending(q.solutions, x) /\ IsCovered(q, x)
    BY <2>2, <1>3 DEF Descending, IsCovered
  <2> QED BY <2>2, <2>3, <1>3 DEF Sound
<1>4. CASE h(s, x) # Full
  <2>1. ~ IsCovered(p, x) /\ NoneCovers(old, x) /\ h(s, x) < Full
    BY <1>4, <1>1, MIOAssumption DEF Accepts, Sound, old
  <2>2. /\ rest \in Seq(Tests) /\ Descending(rest, x) /\ NoneCovers(rest, x)
        /\ Len(rest) = IF Len(old) < p.capacity THEN Len(old) ELSE Len(old) - 1
        /\ \A i \in 1..Len(rest) : rest[i] = old[i]
    <3>1. CASE Len(old) < p.capacity
      BY <3>1, <1>1, <2>1
    <3>2. CASE ~ (Len(old) < p.capacity)
      <4>1. Len(old) >= 1
        BY <3>2, <1>1
      <4>2. /\ rest \in Seq(Tests) /\ Len(rest) = Len(old) - 1
            /\ \A i \in 1..(Len(old) - 1) : rest[i] = old[i]
        <5>1. /\ Front(old) \in Seq(Tests) /\ Len(Front(old)) = Len(old) - 1
              /\ \A i \in 1..(Len(old) - 1) : Front(old)[i] = old[i]
          BY <4>1, <1>1, FrontProperty
        <5>2. rest = Front(old)
          BY <3>2
        <5> HIDE DEF rest
        <5> QED BY <5>1, <5>2
      <4> HIDE DEF rest
      <4>3. Descending(rest, x) /\ NoneCovers(rest, x)
        BY <4>2, <1>1, <2>1, Beginning
      <4> QED BY <4>2, <4>3, <3>2, <1>1
    <3> QED BY <3>1, <3>2
  <2> HIDE DEF rest
  <2>3. /\ new \in Seq(Tests) /\ Len(new) = Len(rest) + 1
        /\ Descending(new, x) /\ NoneCovers(new, x)
        /\ \A i \in 1..Len(rest) : h(new[i], x) >= h(rest[i], x)
        /\ new[Len(new)] = s \/ (Len(rest) > 0 /\ new[Len(new)] = rest[Len(rest)])
    BY <2>1, <2>2, SortedInsertion
  <2> HIDE DEF new
  <2>4. q = [p EXCEPT !.counter = 0, !.solutions = new]
    BY <1>4 DEF AddSolution, new, rest, old
  <2>5. q \in Populations /\ q.capacity = p.capacity /\ q.solutions = new
    BY <2>3, <2>4, <1>1, <1>2 DEF Populations
  <2> HIDE DEF q
  <2>6. Len(new) \in Nat /\ Len(new) <= p.capacity /\ Len(new) >= Len(old)
    BY <2>2, <2>3, <1>1
  <2>7. ~ IsCovered(q, x)
    BY <2>3, <2>5, <2>6, MIOAssumption DEF IsCovered, NoneCovers
  <2>8. ASSUME NEW i \in 1..Len(old) PROVE h(new[i], x) >= h(old[i], x)
    <3>1. CASE i \in 1..Len(rest)
      BY <3>1, <2>2, <2>3
    <3>2. CASE i \notin 1..Len(rest)
      <4>1. i = Len(old) /\ i = Len(new) /\ Len(old) = p.capacity /\ Len(rest) = Len(old) - 1
        BY <3>2, <1>1, <2>2, <2>3
      <4>2. h(s, x) >= h(old[i], x)
        <5>1. IsPairBetterThanCurrent(old[i], s, x)
          BY <4>1, <2>1 DEF Accepts, Last, old
        <5> QED BY <5>1, <1>1 DEF IsPairBetterThanCurrent
      <4>3. Len(rest) > 0 => h(rest[Len(rest)], x) >= h(old[i], x)
        <5>1. ASSUME Len(rest) > 0
              PROVE  Len(rest) \in 1..Len(rest) /\ Len(rest) \in 1..Len(old) /\ Len(rest) < i
          <6>1. Len(old) \in Nat
            BY <1>1
          <6>2. Len(rest) \in Int
            BY <6>1, <4>1
          <6>3. Len(rest) \in 1..Len(rest)
            BY <6>2, <5>1
          <6>4. i = Len(old) /\ Len(rest) = Len(old) - 1
            BY <4>1
          <6>5. Len(rest) < Len(old)
            BY <6>1, <6>4
          <6>6. Len(rest) \in 1..Len(old)
            BY <6>1, <6>2, <6>5, <5>1
          <6> QED BY <6>3, <6>4, <6>5, <6>6
        <5>2. Len(rest) > 0 => h(old[Len(rest)], x) >= h(old[i], x)
          BY <5>1, <1>1 DEF Descending
        <5> QED BY <5>1, <5>2, <2>2
      <4> QED BY <4>1, <4>2, <4>3, <2>3
    <3> QED BY <3>1, <3>2
  <2> QED BY <2>1, <2>3, <2>5, <2>6, <2>7, <2>8, <1>4 DEF Sound, q, old
<1> QED BY <1>3, <1>4

\* What shrink_population makes of it
LEMMA Shrunk ==
    ASSUME NEW x \in Targets, NEW p, Sound(p, x), NEW n \in Nat \ {0}
    PROVE  LET q == ShrinkPopulation(p, x, n) IN
           /\ Sound(q, x)
           /\ IsCovered(q, x) <=> IsCovered(p, x)
           /\ ~ IsCovered(q, x) => q.capacity = n
           /\ IsPrefix(q.solutions, p.solutions)
<1> DEFINE q == ShrinkPopulation(p, x, n)
           old == p.solutions
           m == IF n < Len(old) THEN n ELSE Len(old)
           new == SubSeq(old, 1, m)
<1>1. /\ p \in Populations /\ old \in Seq(Tests) /\ Len(old) \in Nat
      /\ Descending(old, x) /\ \A i \in 1..Len(old) : old[i] \in Tests
  BY ElementOfSeq, LenProperties DEF Sound, Populations
<1>2. CASE IsCovered(p, x)
  <2>1. q = p
    BY <1>2 DEF ShrinkPopulation
  <2>2. IsPrefix(old, old)
    BY <1>1 DEF IsPrefix
  <2> QED BY <2>1, <2>2, <1>2
<1>3. CASE ~ IsCovered(p, x)
  <2>1. /\ m \in 0..Len(old) /\ m <= n
    BY <1>1
  <2>2. /\ new \in Seq(Tests) /\ Len(new) = m
        /\ \A i \in 1..m : new[i] = old[i]
    BY <2>1, <1>1, SubSeqProperties
  <2>3. IsPrefix(new, old)
    <3>1. SubSeq(new, 1, Len(new)) = new
      BY <2>2, SubSeqFull
    <3> QED BY <3>1, <2>1, <2>2 DEF IsPrefix
  <2> HIDE DEF new
  <2>4. q = [p EXCEPT !.capacity = n, !.solutions = new]
    BY <1>3 DEF ShrinkPopulation, new
  <2>5. q \in Populations /\ q.capacity = n /\ q.solutions = new
    BY <2>2, <2>4, <1>1 DEF Populations
  <2>6. Descending(new, x) /\ NoneCovers(new, x)
    BY <2>1, <2>2, <1>1, <1>3, Beginning DEF Sound
  <2>7. ~ IsCovered(q, x)
    BY <2>2, <2>5, <2>6, MIOAssumption DEF IsCovered, NoneCovers
  <2> QED BY <2>1, <2>2, <2>3, <2>5, <2>6, <2>7, <1>3 DEF Sound
<1> QED BY <1>2, <1>3

--------------------------------------------------------------------------------
(* The parameters                                                           *)

\* A part of a distance is no more than the distance.
LEMMA PartOf ==
    ASSUME NEW d \in Nat, NEW f \in Nat \ {0}, NEW p \in 0..f
    PROVE  (d * p) \div f \in 0..d /\ ((-d) * p) \div f \in (-d)..0
  OBVIOUS

LEMMA ScaledPositive ==
    ASSUME progress' \in 0..FocusAt, NEW i \in Nat \ {0}, NEW f \in Nat \ {0}
    PROVE  Scaled(i, f) \in Nat \ {0}
<1>1. FocusAt \in Nat \ {0}
  BY MIOAssumption
<1>2. CASE i >= f
  <2>1. i - f \in Nat
    BY <1>2
  <2>2. ((i - f) * progress') \div FocusAt \in 0..(i - f)
    BY <2>1, <1>1, PartOf
  <2> QED BY <2>2, <2>1 DEF Scaled
<1>3. CASE i < f
  <2>1. f - i \in Nat /\ -(f - i) = i - f
    BY <1>3
  <2>2. ((i - f) * progress') \div FocusAt \in (i - f)..0
    BY <2>1, <1>1, PartOf
  <2> QED BY <2>2, <2>1 DEF Scaled
<1> QED BY <1>2, <1>3

--------------------------------------------------------------------------------
(* The search                                                               *)

LEMMA InitMIO == MIOInit => MIOInv
<1> SUFFICES ASSUME MIOInit PROVE MIOInv
  OBVIOUS
<1>1. Initial.tests \in Nat \ {0} /\ {Builtin, Initial} \subseteq [tests : Nat \ {0}, mutations : Nat \ {0}]
      /\ 0 \in 0..MaxCounter /\ 0 \in 0..MaxProgress
  BY MIOAssumption
<1> DEFINE start == [capacity |-> Initial.tests, counter |-> 0, solutions |-> <<>>]
<1>2. /\ start \in Populations /\ start.capacity = Initial.tests /\ start.solutions = <<>>
      /\ Len(start.solutions) = 0
  BY <1>1 DEF Populations
<1>3. \A x \in Targets : population[x] = start
  BY DEF MIOInit
<1>4. population \in [Targets -> Populations]
  BY <1>2 DEF MIOInit
<1> HIDE DEF start
<1>5. \A x \in Targets : Sound(population[x], x) /\ ~ IsCovered(population[x], x)
  BY <1>1, <1>2, <1>3 DEF Sound, IsCovered, Descending, NoneCovers
<1>6. MIOTypeOK
  BY <1>1, <1>4 DEF MIOInit, MIOTypeOK, Populations
<1>7. ReportedOnce
  BY <1>5 DEF MIOInit, ReportedOnce, Covered
<1> QED BY <1>2, <1>3, <1>5, <1>6, <1>7 DEF MIOInit, MIOInv, SizeInStep

\* Nothing happens to the populations.
LEMMA PopulationsStay ==
    ASSUME MIOInv, UNCHANGED <<population, reports, parameters>>, MIOTypeOK',
           stage' = "update" => offspring' \in Tests
    PROVE  MIOInv'
  BY DEF MIOInv, ReportedOnce, Covered, Sound, Populations, IsCovered, Descending, NoneCovers, h, SizeInStep

LEMMA SampleStep ==
    ASSUME MIOInv, SampleArchive PROVE MIOInv' /\ NoPopulationWorsens
<1>1. PICK x \in PotentialTargets :
        population[x].counter < MaxCounter /\ population' = [population EXCEPT ![x].counter = @ + 1]
  BY DEF SampleArchive
<1>2. \A y \in Targets : population[y] \in Populations
  BY DEF MIOInv, Sound
<1>3. x \in Targets
  BY DEF PotentialTargets
<1> DEFINE q == [population[x] EXCEPT !.counter = @ + 1]
<1>4. /\ q \in Populations
      /\ q.capacity = population[x].capacity /\ q.solutions = population[x].solutions
  <2>1. population[x] \in Populations /\ population[x].counter + 1 \in 0..MaxCounter
    BY <1>1, <1>2, <1>3, MIOAssumption DEF Populations
  <2> QED BY <2>1 DEF Populations
<1>5. population' = [population EXCEPT ![x] = q]
  BY <1>1, <1>3, Zenon
<1> HIDE DEF q
<1>6. population' \in [Targets -> Populations]
  BY <1>2, <1>3, <1>4, <1>5 DEF MIOInv, MIOTypeOK, Populations
<1>7. \A y \in Targets : /\ population'[y] \in Populations
                         /\ population'[y].capacity = population[y].capacity
                         /\ population'[y].solutions = population[y].solutions
  BY <1>2, <1>3, <1>4, <1>5, <1>6 DEF MIOInv, MIOTypeOK
<1>8. \A y \in Targets : /\ IsCovered(population'[y], y) <=> IsCovered(population[y], y)
                         /\ Sound(population'[y], y)
  BY <1>7 DEF MIOInv, IsCovered, Sound
<1>9. UNCHANGED <<reports, parameters, focused, progress, solution>> /\ offspring' \in Tests
      /\ mutations' = 1 /\ stage' = "update"
  BY DEF SampleArchive, scheduleVars
<1>10. MIOTypeOK'
  BY <1>6, <1>9 DEF MIOInv, MIOTypeOK, Populations
<1>11. ReportedOnce'
  BY <1>8, <1>9 DEF MIOInv, ReportedOnce, Covered
<1>12. NoPopulationWorsens
  <2> SUFFICES ASSUME NEW y \in Targets
               PROVE  \A i \in 1..Len(population[y].solutions) :
                        h(population[y].solutions[i], y) >= h(population[y].solutions[i], y)
    BY <1>7, <1>2, LenProperties DEF NoPopulationWorsens, Populations
  <2> QED BY <1>2, ElementOfSeq, HeuristicValues DEF Populations
<1> QED BY <1>7, <1>8, <1>9, <1>10, <1>11, <1>12 DEF MIOInv, SizeInStep

\* If the populations do not change, none is worse.
LEMMA Reflexive ==
    ASSUME MIOInv, population' = population PROVE NoPopulationWorsens
<1> SUFFICES ASSUME NEW y \in Targets
             PROVE  \A i \in 1..Len(population[y].solutions) :
                      h(population[y].solutions[i], y) >= h(population[y].solutions[i], y)
  BY LenProperties DEF NoPopulationWorsens, MIOInv, Sound, Populations
<1> QED BY ElementOfSeq, HeuristicValues DEF MIOInv, Sound, Populations

LEMMA UpdateArchiveStep ==
    ASSUME MIOInv, UpdateArchive PROVE MIOInv' /\ NoPopulationWorsens
<1> DEFINE p(x) == population[x]
           s == offspring
           q(x) == IF Accepts(p(x), x, s) THEN AddSolution(p(x), x, s) ELSE p(x)
<1>1. /\ s \in Tests /\ stage' = "adjust"
      /\ population' = [x \in Targets |-> q(x)]
      /\ solution' \in {s, solution}
      /\ reports' = [x \in Targets |-> reports[x] + IF x \in NewlyCovered(s) THEN 1 ELSE 0]
      /\ UNCHANGED <<parameters, focused, progress, mutations, offspring>>
  BY DEF UpdateArchive, MIOInv, scheduleVars
<1>2. \A x \in Targets : population'[x] = q(x) /\ Sound(p(x), x)
  BY <1>1 DEF MIOInv
<1>3. ASSUME NEW x \in Targets
      PROVE  /\ Sound(q(x), x)
             /\ IsCovered(p(x), x) => IsCovered(q(x), x)
             /\ ~ IsCovered(q(x), x) => SizeInStep(q(x))
             /\ IsCovered(q(x), x) /\ ~ IsCovered(p(x), x) <=> x \in NewlyCovered(s)
             /\ \/ Len(q(x).solutions) = 1 /\ h(q(x).solutions[1], x) = Full
                \/ /\ Len(q(x).solutions) >= Len(p(x).solutions)
                   /\ \A i \in 1..Len(p(x).solutions) : h(q(x).solutions[i], x) >= h(p(x).solutions[i], x)
  <2>1. Sound(p(x), x) /\ (~ IsCovered(p(x), x) => SizeInStep(p(x)))
    BY DEF MIOInv
  <2>2. x \in NewlyCovered(s) <=> ~ IsCovered(p(x), x) /\ Accepts(p(x), x, s) /\ h(s, x) = Full
    BY DEF NewlyCovered, Covered
  <2>3. CASE Accepts(p(x), x, s)
    BY <2>1, <2>2, <2>3, <1>1, Added DEF SizeInStep
  <2>4. CASE ~ Accepts(p(x), x, s)
    <3>1. \A i \in 1..Len(p(x).solutions) : h(p(x).solutions[i], x) >= h(p(x).solutions[i], x)
      BY <2>1, ElementOfSeq, HeuristicValues DEF Sound, Populations
    <3>2. Len(p(x).solutions) >= Len(p(x).solutions)
      BY <2>1, LenProperties DEF Sound, Populations
    <3> QED BY <2>1, <2>2, <2>4, <3>1, <3>2
  <2> QED BY <2>3, <2>4
<1> HIDE DEF q
<1>4. population' \in [Targets -> Populations]
  BY <1>1, <1>3 DEF Sound
<1>5. reports' \in [Targets -> Nat]
  BY <1>1 DEF MIOInv, MIOTypeOK
<1>6. MIOTypeOK'
  BY <1>1, <1>4, <1>5 DEF MIOInv, MIOTypeOK, Populations
<1>7. ReportedOnce'
  <2> SUFFICES ASSUME NEW x \in Targets
               PROVE  reports'[x] = IF IsCovered(q(x), x) THEN 1 ELSE 0
    BY <1>2 DEF ReportedOnce, Covered
  <2>1. reports[x] = IF IsCovered(p(x), x) THEN 1 ELSE 0
    BY DEF MIOInv, ReportedOnce, Covered
  <2>2. reports'[x] = reports[x] + IF x \in NewlyCovered(s) THEN 1 ELSE 0
    BY <1>1
  <2>3. CASE x \in NewlyCovered(s)
    BY <2>1, <2>2, <2>3, <1>3
  <2>4. CASE x \notin NewlyCovered(s)
    BY <2>1, <2>2, <2>4, <1>3
  <2> QED BY <2>3, <2>4
<1>8. NoPopulationWorsens
  BY <1>2, <1>3 DEF NoPopulationWorsens
<1> QED BY <1>1, <1>2, <1>3, <1>6, <1>7, <1>8 DEF MIOInv, SizeInStep

LEMMA UpdateParametersStep ==
    ASSUME MIOInv, UpdateParameters PROVE MIOInv' /\ NoPopulationWorsens
<1>1. /\ progress' \in 0..MaxProgress /\ stage' = "search" /\ stage = "adjust"
      /\ focused' = (focused \/ progress' > FocusAt)
      /\ UNCHANGED <<reports, solution, mutations, offspring>>
  BY DEF UpdateParameters
<1>2. parameters' \in [tests : Nat \ {0}, mutations : Nat \ {0}]
  <2>1. CASE focused'
    BY <2>1, MIOAssumption DEF UpdateParameters
  <2>2. CASE ~ focused'
    <3>1. progress' \in 0..FocusAt
      <4>1. progress' \in Nat /\ FocusAt \in Nat
        BY <1>1, MIOAssumption
      <4>2. ~ (progress' > FocusAt)
        BY <1>1, <2>2
      <4> QED BY <4>1, <4>2
    <3>2. /\ Initial.tests \in Nat \ {0} /\ Focused.tests \in Nat \ {0}
          /\ Initial.mutations \in Nat \ {0} /\ Focused.mutations \in Nat \ {0}
      BY MIOAssumption
    <3>3. /\ Scaled(Initial.tests, Focused.tests) \in Nat \ {0}
          /\ Scaled(Initial.mutations, Focused.mutations) \in Nat \ {0}
      BY <3>1, <3>2, ScaledPositive
    <3>4. parameters' = [tests |-> Scaled(Initial.tests, Focused.tests),
                         mutations |-> Scaled(Initial.mutations, Focused.mutations)]
      BY <2>2 DEF UpdateParameters
    <3> QED BY <3>3, <3>4
  <2> QED BY <2>1, <2>2
<1>3. focused' \in BOOLEAN
  BY <1>1
<1>4. CASE parameters'.tests = parameters.tests
  <2>1. population' = population
    BY <1>4 DEF UpdateParameters
  <2>2. MIOTypeOK'
    BY <2>1, <1>1, <1>2, <1>3 DEF MIOInv, MIOTypeOK
  <2>3. ReportedOnce'
    BY <2>1, <1>1 DEF MIOInv, ReportedOnce, Covered
  <2> QED BY <2>1, <2>2, <2>3, <1>1, <1>4, Reflexive DEF MIOInv, SizeInStep
<1>5. CASE parameters'.tests # parameters.tests
  <2> DEFINE n == parameters'.tests
             q(x) == ShrinkPopulation(population[x], x, n)
  <2>1. n \in Nat \ {0} /\ population' = [x \in Targets |-> q(x)]
    BY <1>2, <1>5 DEF UpdateParameters
  <2>2. ASSUME NEW x \in Targets
        PROVE  /\ population'[x] = q(x) /\ Sound(q(x), x)
               /\ IsCovered(q(x), x) <=> IsCovered(population[x], x)
               /\ ~ IsCovered(q(x), x) => q(x).capacity = n
               /\ IsPrefix(q(x).solutions, population[x].solutions)
    BY <2>1, Shrunk DEF MIOInv
  <2> HIDE DEF q
  <2>3. population' \in [Targets -> Populations]
    BY <2>1, <2>2 DEF Sound
  <2>4. MIOTypeOK'
    BY <2>3, <1>1, <1>2, <1>3 DEF MIOInv, MIOTypeOK, Populations
  <2>5. ReportedOnce'
    BY <2>2, <1>1 DEF MIOInv, ReportedOnce, Covered
  <2>6. NoPopulationWorsens
    BY <2>2, <1>1 DEF NoPopulationWorsens
  <2> QED BY <2>2, <2>4, <2>5, <2>6, <1>1 DEF MIOInv, SizeInStep
<1> QED BY <1>4, <1>5

LEMMA MIOStep == MIOInv /\ [MIONext]_mioVars => MIOInv' /\ [NoPopulationWorsens]_mioVars
<1> SUFFICES ASSUME MIOInv, [MIONext]_mioVars PROVE MIOInv' /\ [NoPopulationWorsens]_mioVars
  OBVIOUS
<1>1. CASE MutateSolution \/ NewTest
  <2>1. /\ UNCHANGED <<population, reports, parameters, focused, progress, solution>>
        /\ offspring' \in Tests /\ mutations' \in Nat /\ stage' = "update"
    BY <1>1 DEF MutateSolution, NewTest, MIOInv, MIOTypeOK, populationVars, scheduleVars
  <2>2. MIOTypeOK'
    BY <2>1 DEF MIOInv, MIOTypeOK
  <2> QED BY <2>1, <2>2, PopulationsStay, Reflexive
<1>2. CASE Finish
  <2>1. /\ UNCHANGED <<population, reports, parameters, focused, progress, solution, offspring, mutations>>
        /\ stage' = "finished"
    BY <1>2 DEF Finish, populationVars, scheduleVars
  <2>2. MIOTypeOK'
    BY <2>1 DEF MIOInv, MIOTypeOK
  <2> QED BY <2>1, <2>2, PopulationsStay, Reflexive
<1>3. CASE UNCHANGED mioVars
  <2>1. UNCHANGED <<population, reports, parameters, focused, progress, solution, offspring, mutations, stage>>
    BY <1>3 DEF mioVars, populationVars, scheduleVars
  <2>2. MIOTypeOK'
    BY <2>1 DEF MIOInv, MIOTypeOK
  <2>3. stage' = "update" => offspring' \in Tests
    BY <2>1 DEF MIOInv
  <2> QED BY <2>1, <2>2, <2>3, PopulationsStay, <1>3
<1> QED
  BY <1>1, <1>2, <1>3, SampleStep, UpdateArchiveStep, UpdateParametersStep DEF MIONext, MIOTerminated

\* MIO's populations are sorted and no fuller than the parameters or a covered target
\* allow, and every covered target has been reported once.
THEOREM MIOInvariance == MIOSpec => []MIOInv
<1>1. MIOInv /\ [MIONext]_mioVars => MIOInv'
  BY MIOStep
<1> QED BY <1>1, InitMIO, PTL DEF MIOSpec

\* Shrinking and replacing may rely on the order, capacities follow every change of the
\* parameters, whatever size the archive and the parameters have started with, a target is
\* reported once, and no update makes a population worse in any of its places (archive.py,
\* MIOArchive and MIOPopulation).
THEOREM MIOPopulationsImprove == MIOSpec => PopulationsImprove
<1>1. MIOInv => MIOTypeOK /\ AlwaysSorted /\ CapacityInStep /\ ReportedOnce
  BY DEF MIOInv, AlwaysSorted, CapacityInStep, Covered, Sound, Descending, NoneCovers
<1>2. MIOInv /\ [MIONext]_mioVars => [NoPopulationWorsens]_mioVars
  BY MIOStep
<1> QED BY <1>1, <1>2, MIOInvariance, PTL DEF MIOSpec, PopulationsImprove

--------------------------------------------------------------------------------
(* The whole-suite search                                                   *)

\* The test cases whose values, unless marked, are those of their content.
FreshTests ==
    {t \in [content : Bodies, changed : BOOLEAN, result : Bodies \cup {None},
            cache : [SuiteGoals -> BOOLEAN \cup {None}]] :
        ~ t.changed => /\ t.result \in {None, t.content}
                       /\ \A g \in SuiteGoals : t.cache[g] \in {None, (g \in Reaches[t.content])}}

SuiteStates ==
    [tests : Seq(FreshTests), changed : BOOLEAN,
     fitness : (SUBSET SuiteGoals) \cup {None}, coverage : (SUBSET SuiteGoals) \cup {None}]

\* What a suite knows, when `gone` is no longer considered
FreshSuites(gone) ==
    {s \in SuiteStates :
        ~ s.changed => /\ s.fitness \in {None, (SuiteGoals \ gone) \ Reached(s)}
                       /\ s.coverage \in {None, Reached(s)}}

\* What a suite knows, it knows of the goals that are excluded now.
SuitesInv == suites \in [Slots -> FreshSuites(excluded)] /\ changes \in Nat

--------------------------------------------------------------------------------
(* Test cases                                                               *)

LEMMA NewTestFresh ==
    ASSUME NEW c \in Bodies PROVE NewTestCase(c) \in FreshTests
  BY DEF NewTestCase, FreshTests, NothingKnown

LEMMA MutatedTestFresh ==
    ASSUME NEW t \in FreshTests, NEW c \in Bodies
    PROVE  [t EXCEPT !.content = c, !.changed = TRUE] \in FreshTests
  BY DEF FreshTests

LEMMA RunInSuiteFresh ==
    ASSUME NEW t \in FreshTests
    PROVE  /\ RunInSuite(t) \in FreshTests
           /\ RunInSuite(t).content = t.content
           /\ RunInSuite(t).result = t.content
  BY DEF RunInSuite, RunTest, FreshTests, NothingKnown

LEMMA IsCoveredRight ==
    ASSUME NEW t \in FreshTests, NEW g \in SuiteGoals
    PROVE  get_is_covered(t, g).cache[g] = (g \in Reaches[t.content])
<1> DEFINE known == IF t.changed THEN [t EXCEPT !.cache = NothingKnown] ELSE t
           run == RunTest(known)
           right == (g \in Reaches[t.content])
<1>1. /\ known \in FreshTests /\ known.content = t.content /\ known.changed = t.changed
      /\ known.cache[g] \in {None, right}
  BY DEF FreshTests, NothingKnown
<1>2. /\ run.result = t.content /\ run.cache = known.cache
      /\ run.cache \in [SuiteGoals -> BOOLEAN \cup {None}]
      /\ run = [content |-> run.content, changed |-> run.changed, result |-> run.result, cache |-> run.cache]
  BY <1>1 DEF RunTest, FreshTests
<1>3. CASE t.changed \/ \E o \in SuiteGoals : known.cache[o] = None
  <2>1. get_is_covered(t, g) =
            [run EXCEPT !.changed = FALSE,
                !.cache[g] = IF @ = None THEN g \in Reaches[run.result] ELSE @]
    BY <1>3 DEF get_is_covered
  <2> QED BY <2>1, <1>1, <1>2
<1>4. CASE ~ (t.changed \/ \E o \in SuiteGoals : known.cache[o] = None)
  BY <1>4, <1>1 DEF get_is_covered
<1> QED BY <1>3, <1>4

LEMMA AskAllFresh ==
    ASSUME NEW t \in FreshTests
    PROVE  AskAll(t) \in FreshTests /\ AskAll(t).content = t.content
<1> DEFINE known == IF t.changed THEN [t EXCEPT !.cache = NothingKnown] ELSE t
           run == RunTest(known)
           Answer(g) == IF known.cache[g] = None THEN g \in Reaches[run.result] ELSE known.cache[g]
           answers == [g \in SuiteGoals |-> Answer(g)]
<1>1. /\ known \in FreshTests /\ known.content = t.content
      /\ \A g \in SuiteGoals : known.cache[g] \in {None, (g \in Reaches[t.content])}
  BY DEF FreshTests, NothingKnown
<1>2. /\ run.result = t.content /\ run.content = t.content
      /\ run \in [content : Bodies, changed : BOOLEAN, result : Bodies \cup {None},
                  cache : [SuiteGoals -> BOOLEAN \cup {None}]]
  BY <1>1 DEF RunTest, FreshTests
<1> HIDE DEF known, run
<1>3. \A g \in SuiteGoals : answers[g] = (g \in Reaches[t.content])
  <2>1. ASSUME NEW g \in SuiteGoals PROVE Answer(g) = (g \in Reaches[t.content])
    <3>1. CASE known.cache[g] = None  BY <3>1, <1>2
    <3>2. CASE known.cache[g] # None  BY <3>2, <1>1
    <3> QED BY <3>1, <3>2
  <2> HIDE DEF Answer
  <2> QED BY <2>1
<1>4. answers \in [SuiteGoals -> BOOLEAN]
  <2>1. ASSUME NEW g \in SuiteGoals PROVE Answer(g) \in BOOLEAN
    <3>1. CASE known.cache[g] = None  BY <3>1
    <3>2. CASE known.cache[g] # None
      BY <3>2, <1>1 DEF FreshTests
    <3> QED BY <3>1, <3>2
  <2> HIDE DEF Answer
  <2> QED BY <2>1
<1>5. CASE \E g \in SuiteGoals : known.cache[g] = None
  <2>1. AskAll(t) = [run EXCEPT !.changed = FALSE, !.cache = answers]
    BY <1>5 DEF AskAll, known, run
  <2> HIDE DEF answers
  <2>2. [run EXCEPT !.changed = FALSE, !.cache = answers] \in FreshTests
    BY <1>2, <1>3, <1>4 DEF FreshTests
  <2>3. [run EXCEPT !.changed = FALSE, !.cache = answers].content = t.content
    BY <1>2
  <2> QED BY <2>1, <2>2, <2>3
<1>6. CASE ~ \E g \in SuiteGoals : known.cache[g] = None
  <2>1. AskAll(t) = known
    BY <1>6 DEF AskAll, known, run
  <2> QED BY <2>1, <1>1
<1> QED BY <1>5, <1>6

--------------------------------------------------------------------------------
(* Suites                                                                   *)

\* Whatever happens to each of its test cases by itself, a suite reaches what it reached.
LEMMA EachByItself ==
    ASSUME NEW s \in Seq(FreshTests), NEW f,
           f = [i \in DOMAIN s |-> f[i]],
           \A i \in DOMAIN s : f[i] \in FreshTests
    PROVE  f \in Seq(FreshTests) /\ DOMAIN f = DOMAIN s
<1>1. Len(s) \in Nat /\ DOMAIN s = 1..Len(s)
  BY LenProperties
<1>2. f \in [1..Len(s) -> FreshTests] /\ DOMAIN f = DOMAIN s
  BY <1>1
<1> QED BY <1>1, <1>2

\* What a suite reaches is a matter of its test cases.
LEMMA ReachedByTests ==
    ASSUME NEW s, NEW q, q.tests = s.tests
    PROVE  Reached(q) = Reached(s) /\ Merged(q) = Merged(s)
  BY DEF Reached, Merged

LEMMA RunSuiteFresh ==
    ASSUME NEW s \in SuiteStates
    PROVE  /\ RunSuite(s) \in SuiteStates
           /\ RunSuite(s).fitness = s.fitness /\ RunSuite(s).coverage = s.coverage
           /\ Reached(RunSuite(s)) = Reached(s) /\ Merged(RunSuite(s)) = Reached(s)
<1> DEFINE ran == [i \in DOMAIN s.tests |-> RunInSuite(s.tests[i])]
           q == [s EXCEPT !.tests = ran]
<1>1. s.tests \in Seq(FreshTests)
  BY DEF SuiteStates
<1>2. \A i \in DOMAIN s.tests :
        ran[i] \in FreshTests /\ ran[i].content = s.tests[i].content /\ ran[i].result = s.tests[i].content
  BY <1>1, LenProperties, ElementOfSeq, RunInSuiteFresh
<1>3. ran \in Seq(FreshTests) /\ DOMAIN ran = DOMAIN s.tests
  BY <1>1, <1>2, EachByItself
<1> HIDE DEF ran
<1>4. /\ q \in SuiteStates /\ q.tests = ran
      /\ q.fitness = s.fitness /\ q.coverage = s.coverage
  BY <1>3 DEF SuiteStates
<1> HIDE DEF q
<1>5. Reached(q) = Reached(s) /\ Merged(q) = Reached(s)
  <2>1. Reached(q) = UNION {Reaches[ran[i].content] : i \in DOMAIN ran}
    BY <1>4 DEF Reached
  <2>2. Merged(q) = UNION {Reaches[ran[i].result] : i \in DOMAIN ran}
    BY <1>4 DEF Merged
  <2>3. {Reaches[ran[i].content] : i \in DOMAIN ran} = {Reaches[s.tests[i].content] : i \in DOMAIN s.tests}
    BY <1>2, <1>3
  <2>4. {Reaches[ran[i].result] : i \in DOMAIN ran} = {Reaches[s.tests[i].content] : i \in DOMAIN s.tests}
    BY <1>2, <1>3
  <2> QED BY <2>1, <2>2, <2>3, <2>4 DEF Reached
<1>6. RunSuite(s) = q
  BY DEF RunSuite, q, ran
<1> QED BY <1>4, <1>5, <1>6

LEMMA Invalidated ==
    ASSUME NEW s \in SuiteStates, NEW gone
    PROVE  /\ invalidate_cache(s) \in FreshSuites(gone)
           /\ invalidate_cache(s).fitness = None /\ invalidate_cache(s).coverage = None
           /\ Reached(invalidate_cache(s)) = Reached(s)
<1>1. /\ invalidate_cache(s) \in SuiteStates /\ invalidate_cache(s).tests = s.tests
      /\ invalidate_cache(s).fitness = None /\ invalidate_cache(s).coverage = None
  BY DEF SuiteStates, invalidate_cache
<1> QED BY <1>1, ReachedByTests DEF FreshSuites

\* What _check_cache leaves
LEMMA CheckedCache ==
    ASSUME NEW gone, NEW s \in FreshSuites(gone), NEW known,
           known = IF s.changed THEN invalidate_cache(s) ELSE s
    PROVE  /\ known \in FreshSuites(gone) /\ Reached(known) = Reached(s)
           /\ known.fitness \in {None, (SuiteGoals \ gone) \ Reached(s)}
           /\ known.coverage \in {None, Reached(s)}
<1>1. s \in SuiteStates
  BY DEF FreshSuites
<1>2. CASE s.changed
  BY <1>1, <1>2, Invalidated
<1>3. CASE ~ s.changed
  BY <1>3 DEF FreshSuites
<1> QED BY <1>2, <1>3

LEMMA ReachedGoals ==
    ASSUME NEW s \in SuiteStates PROVE Reached(s) \subseteq SuiteGoals
<1>1. \A i \in DOMAIN s.tests : s.tests[i].content \in Bodies
  BY ElementOfSeq, LenProperties DEF SuiteStates, FreshTests
<1> QED BY <1>1, SuitesAssumption DEF Reached

LEMMA FitnessRight ==
    ASSUME NEW s \in FreshSuites(excluded)
    PROVE  /\ get_fitness(s) \in FreshSuites(excluded)
           /\ get_fitness(s).fitness = (SuiteGoals \ excluded) \ Reached(s)
<1> DEFINE known == IF s.changed THEN invalidate_cache(s) ELSE s
           run == RunSuite(known)
           open == (SuiteGoals \ excluded) \ Reached(s)
           q == [run EXCEPT !.fitness = open, !.changed = FALSE]
<1>1. /\ known \in FreshSuites(excluded) /\ known \in SuiteStates /\ Reached(known) = Reached(s)
      /\ known.fitness \in {None, open} /\ known.coverage \in {None, Reached(s)}
  BY CheckedCache DEF FreshSuites
<1> HIDE DEF known
<1>2. /\ run \in SuiteStates /\ run.fitness = known.fitness /\ run.coverage = known.coverage
      /\ Reached(run) = Reached(s) /\ Merged(run) = Reached(s)
  BY <1>1, RunSuiteFresh
<1> HIDE DEF run
<1>3. CASE known.fitness # None
  BY <1>3, <1>1 DEF get_fitness, known
<1>4. CASE known.fitness = None
  <2>1. get_fitness(s) = q
    BY <1>4, <1>2 DEF get_fitness, known, run
  <2>2. /\ q \in SuiteStates /\ q.tests = run.tests
        /\ q.fitness = open /\ q.coverage = known.coverage
    BY <1>2 DEF SuiteStates
  <2> HIDE DEF q
  <2>3. Reached(q) = Reached(s)
    BY <2>2, <1>2, ReachedByTests
  <2> QED BY <2>1, <2>2, <2>3, <1>1 DEF FreshSuites
<1> QED BY <1>3, <1>4

LEMMA CoverageRight ==
    ASSUME NEW s \in FreshSuites(excluded)
    PROVE  /\ get_coverage(s) \in FreshSuites(excluded)
           /\ get_coverage(s).coverage = Reached(s)
<1> DEFINE known == IF s.changed THEN invalidate_cache(s) ELSE s
           run == RunSuite(known)
           q == [run EXCEPT !.coverage = Reached(s), !.changed = FALSE]
<1>1. /\ known \in FreshSuites(excluded) /\ known \in SuiteStates /\ Reached(known) = Reached(s)
      /\ known.fitness \in {None, (SuiteGoals \ excluded) \ Reached(s)}
      /\ known.coverage \in {None, Reached(s)}
  BY CheckedCache DEF FreshSuites
<1> HIDE DEF known
<1>2. /\ run \in SuiteStates /\ run.fitness = known.fitness /\ run.coverage = known.coverage
      /\ Reached(run) = Reached(s) /\ Merged(run) = Reached(s)
  BY <1>1, RunSuiteFresh
<1> HIDE DEF run
<1>3. CASE known.coverage # None
  BY <1>3, <1>1 DEF get_coverage, known
<1>4. CASE known.coverage = None
  <2>1. get_coverage(s) = q
    BY <1>4, <1>2 DEF get_coverage, known, run
  <2>2. /\ q \in SuiteStates /\ q.tests = run.tests
        /\ q.coverage = Reached(s) /\ q.fitness = known.fitness
    BY <1>2, <1>1, ReachedGoals DEF SuiteStates
  <2> HIDE DEF q
  <2>3. Reached(q) = Reached(s)
    BY <2>2, <1>2, ReachedByTests
  <2> QED BY <2>1, <2>2, <2>3, <1>1 DEF FreshSuites
<1> QED BY <1>3, <1>4

\* A suite whose test cases change is marked; what it knew is not asked for again.
LEMMA MarkedFresh ==
    ASSUME NEW gone, NEW s \in SuiteStates, NEW tests \in Seq(FreshTests)
    PROVE  [s EXCEPT !.tests = tests, !.changed = TRUE] \in FreshSuites(gone)
  BY DEF FreshSuites, SuiteStates

LEMMA AskedFresh ==
    ASSUME NEW gone, NEW s \in FreshSuites(gone),
           NEW q, q = [s EXCEPT !.tests = [i \in DOMAIN s.tests |-> AskAll(s.tests[i])]]
    PROVE  q \in FreshSuites(gone) /\ q \in SuiteStates
<1> DEFINE asked == [i \in DOMAIN s.tests |-> AskAll(s.tests[i])]
<1>1. s \in SuiteStates /\ s.tests \in Seq(FreshTests)
  BY DEF SuiteStates, FreshSuites
<1>2. \A i \in DOMAIN s.tests : asked[i] \in FreshTests /\ asked[i].content = s.tests[i].content
  BY <1>1, LenProperties, ElementOfSeq, AskAllFresh
<1>3. asked \in Seq(FreshTests) /\ DOMAIN asked = DOMAIN s.tests
  BY <1>1, <1>2, EachByItself
<1> HIDE DEF asked
<1>4. /\ q \in SuiteStates /\ q.tests = asked /\ q.changed = s.changed
      /\ q.fitness = s.fitness /\ q.coverage = s.coverage
  BY <1>1, <1>3 DEF SuiteStates, asked
<1>5. Reached(q) = Reached(s)
  <2>1. {Reaches[asked[i].content] : i \in DOMAIN asked} = {Reaches[s.tests[i].content] : i \in DOMAIN s.tests}
    BY <1>2, <1>3
  <2> QED BY <2>1, <1>4 DEF Reached
<1> QED BY <1>4, <1>5 DEF FreshSuites

--------------------------------------------------------------------------------
(* The population                                                           *)

LEMMA NewSuiteFresh ==
    ASSUME NEW gone, NEW tests \in Seq(FreshTests) PROVE NewSuite(tests) \in FreshSuites(gone)
<1>1. NewSuite(tests) \in SuiteStates /\ NewSuite(tests).changed
  BY DEF NewSuite, SuiteStates
<1> QED BY <1>1 DEF FreshSuites

LEMMA InitFresh == SuitesInit => SuitesInv
<1> SUFFICES ASSUME SuitesInit PROVE SuitesInv
  OBVIOUS
<1>1. changes \in Nat
  BY DEF SuitesInit
<1>2. ASSUME NEW cs \in BoundedSeq(Bodies, MaxTests)
      PROVE  NewSuite([i \in DOMAIN cs |-> NewTestCase(cs[i])]) \in FreshSuites(excluded)
  <2> DEFINE tests == [i \in DOMAIN cs |-> NewTestCase(cs[i])]
  <2>1. PICK n \in 0..MaxTests : cs \in [1..n -> Bodies]
    BY SuitesAssumption DEF BoundedSeq, SeqOf
  <2>2. n \in Nat /\ DOMAIN cs = 1..n /\ \A i \in 1..n : NewTestCase(cs[i]) \in FreshTests
    BY <2>1, SuitesAssumption, NewTestFresh
  <2>3. tests \in [1..n -> FreshTests]
    BY <2>2
  <2>4. tests \in Seq(FreshTests)
    BY <2>2, <2>3
  <2> QED BY <2>4, NewSuiteFresh
<1>3. suites \in [Slots -> FreshSuites(excluded)]
  <2> DEFINE new(cs) == NewSuite([i \in DOMAIN cs |-> NewTestCase(cs[i])])
  <2>1. \A cs \in BoundedSeq(Bodies, MaxTests) : new(cs) \in FreshSuites(excluded)
    BY <1>2
  <2>2. suites \in [Slots -> {new(cs) : cs \in BoundedSeq(Bodies, MaxTests) \ {<<>>}}]
    BY DEF SuitesInit
  <2> HIDE DEF new
  <2> QED BY <2>1, <2>2
<1> QED BY <1>1, <1>3 DEF SuitesInv

\* One suite becomes another that knows only what is right.
LEMMA BecomeFresh ==
    ASSUME SuitesInv, changes' \in Nat,
           NEW p \in Slots, NEW s, Become(p, s), s \in FreshSuites(excluded)
    PROVE  SuitesInv'
<1>1. excluded' = excluded /\ suites' = [suites EXCEPT ![p] = s]
  BY DEF Become
<1>2. suites' \in [Slots -> FreshSuites(excluded)]
  BY <1>1 DEF SuitesInv
<1>3. FreshSuites(excluded)' = FreshSuites(excluded')
  BY DEF FreshSuites, SuiteStates, FreshTests, Reached
<1> QED BY <1>1, <1>2, <1>3 DEF SuitesInv

LEMMA ReplaceFresh ==
    ASSUME SuitesInv, NEW p \in Slots, NEW s, Replace(p, s), s \in FreshSuites(excluded)
    PROVE  SuitesInv'
<1>1. changes' \in Nat /\ Become(p, s)
  BY DEF Replace, SuitesInv
<1> QED BY <1>1, BecomeFresh

LEMMA UpdateFresh == SuitesInv /\ _update_archive => SuitesInv'
<1> SUFFICES ASSUME SuitesInv, _update_archive PROVE SuitesInv'
  OBVIOUS
<1>1. ASSUME NEW p \in Slots
      PROVE  Asked[p] \in FreshSuites(excluded) /\ Asked[p] \in SuiteStates
  BY AskedFresh DEF Asked, SuitesInv
<1>2. changes' \in Nat
  BY DEF _update_archive, SuitesInv
<1>3. CASE NowCovered = archived
  <2>1. suites' = Asked /\ excluded' = excluded
    BY <1>3 DEF _update_archive
  <2>2. suites' \in [Slots -> FreshSuites(excluded')]
    BY <2>1, <1>1 DEF Asked
  <2> QED BY <2>2, <1>2 DEF SuitesInv, FreshSuites, SuiteStates, FreshTests, Reached
<1>4. CASE NowCovered # archived
  <2>1. suites' = [p \in Slots |-> invalidate_cache(Asked[p])]
    BY <1>4 DEF _update_archive
  <2>2. \A p \in Slots : invalidate_cache(Asked[p]) \in FreshSuites(excluded')
    BY <1>1, Invalidated
  <2>3. suites' \in [Slots -> FreshSuites(excluded')]
    BY <2>1, <2>2
  <2> QED BY <2>3, <1>2 DEF SuitesInv, FreshSuites, SuiteStates, FreshTests, Reached
<1> QED BY <1>3, <1>4

LEMMA SuitesStep == SuitesInv /\ [SuitesNext]_suitesVars => SuitesInv'
<1> SUFFICES ASSUME SuitesInv, [SuitesNext]_suitesVars PROVE SuitesInv'
  OBVIOUS
<1>1. \A p \in Slots : /\ suites[p] \in FreshSuites(excluded) /\ suites[p] \in SuiteStates
                       /\ suites[p].tests \in Seq(FreshTests)
  BY DEF SuitesInv, FreshSuites, SuiteStates
<1>2. ASSUME NEW p \in Slots, AskFitness(p) PROVE SuitesInv'
  <2>1. changes' \in Nat /\ Become(p, get_fitness(suites[p]))
    BY <1>2 DEF AskFitness, SuitesInv
  <2> QED BY <2>1, <1>1, FitnessRight, BecomeFresh
<1>3. ASSUME NEW p \in Slots, AskCoverage(p) PROVE SuitesInv'
  <2>1. changes' \in Nat /\ Become(p, get_coverage(suites[p]))
    BY <1>3 DEF AskCoverage, SuitesInv
  <2> QED BY <2>1, <1>1, CoverageRight, BecomeFresh
<1>4. ASSUME NEW p \in Slots, NEW tests \in Seq(FreshTests),
             Replace(p, [suites[p] EXCEPT !.tests = tests, !.changed = TRUE])
      PROVE  SuitesInv'
  BY <1>1, <1>4, MarkedFresh, ReplaceFresh
<1>5. ASSUME NEW p \in Slots, AddTest(p) PROVE SuitesInv'
  <2>1. PICK c \in Bodies :
            Replace(p, [suites[p] EXCEPT !.tests = Append(@, NewTestCase(c)), !.changed = TRUE])
    BY <1>5 DEF AddTest
  <2>2. Append(suites[p].tests, NewTestCase(c)) \in Seq(FreshTests)
    BY <1>1, NewTestFresh, AppendProperties
  <2>3. Replace(p, [suites[p] EXCEPT !.tests = Append(suites[p].tests, NewTestCase(c)), !.changed = TRUE])
    BY <2>1, Zenon
  <2> QED BY <2>2, <2>3, <1>4
<1>6. ASSUME NEW p \in Slots, NEW i \in DOMAIN suites[p].tests, MutateTest(p, i)
      PROVE  SuitesInv'
  <2> DEFINE before == suites[p].tests
             after(c) == [before EXCEPT ![i] = [before[i] EXCEPT !.content = c, !.changed = TRUE]]
  <2>1. PICK c \in Bodies : Replace(p, [suites[p] EXCEPT !.tests = after(c), !.changed = TRUE])
    BY <1>6 DEF MutateTest
  <2>2. before \in Seq(FreshTests) /\ i \in 1..Len(before) /\ before[i] \in FreshTests
    BY <1>1, LenProperties, ElementOfSeq
  <2> HIDE DEF before
  <2>3. after(c) \in Seq(FreshTests)
    BY <2>2, MutatedTestFresh, ExceptSeq
  <2> QED BY <2>1, <2>3, <1>4
<1>7. ASSUME NEW p \in Slots, NEW i \in DOMAIN suites[p].tests, EmptyTest(p, i)
      PROVE  SuitesInv'
  <2> DEFINE before == suites[p].tests
  <2>1. Replace(p, [suites[p] EXCEPT !.tests = RemoveAt(before, i), !.changed = TRUE])
    BY <1>7, Zenon DEF EmptyTest
  <2>2. before \in Seq(FreshTests) /\ i \in 1..Len(before) /\ Len(before) \in Nat
    BY <1>1, LenProperties
  <2> HIDE DEF before
  <2>3. /\ SubSeq(before, 1, i - 1) \in Seq(FreshTests)
        /\ SubSeq(before, i + 1, Len(before)) \in Seq(FreshTests)
    BY <2>2, ElementOfSeq, SubSeqProperties
  <2>4. RemoveAt(before, i) \in Seq(FreshTests)
    BY <2>3, ConcatProperties DEF RemoveAt
  <2> QED BY <2>1, <2>4, <1>4
<1>8. ASSUME NEW p \in Slots, NEW q \in Slots, Clone(p, q) PROVE SuitesInv'
  BY <1>8, <1>1, ReplaceFresh DEF Clone
<1>9. ASSUME NEW p \in Slots, NEW q \in Slots,
             NEW i \in DOMAIN suites[p].tests, NEW j \in DOMAIN suites[q].tests, CrossOver(p, q, i, j)
      PROVE  SuitesInv'
  <2> DEFINE head == SubSeq(suites[p].tests, 1, i)
             tail == SubSeq(suites[q].tests, j, Len(suites[q].tests))
  <2>1. Replace(p, [suites[p] EXCEPT !.tests = head \o tail, !.changed = TRUE])
    BY <1>9 DEF CrossOver
  <2>2. /\ Len(suites[p].tests) \in Nat /\ i \in 1..Len(suites[p].tests)
        /\ Len(suites[q].tests) \in Nat /\ j \in 1..Len(suites[q].tests)
    BY <1>1, LenProperties
  <2>3. head \in Seq(FreshTests) /\ tail \in Seq(FreshTests)
    BY <2>2, <1>1, ElementOfSeq, SubSeqProperties
  <2>4. head \o tail \in Seq(FreshTests)
    BY <2>3, ConcatProperties
  <2> QED BY <2>1, <2>4, <1>4
<1>10. CASE UNCHANGED suitesVars
  BY <1>10 DEF suitesVars, SuitesInv, FreshSuites, SuiteStates, FreshTests, Reached
<1> QED
  BY <1>2, <1>3, <1>5, <1>6, <1>7, <1>8, <1>9, <1>10, UpdateFresh DEF SuitesNext

\* The cached values that are not marked as out of date are right, along every history
\* of changes, clones, executions and restrictions.
THEOREM SuitesInvariance == SuitesSpec => []SuitesInv
  BY InitFresh, SuitesStep, PTL DEF SuitesSpec

LEMMA InvAnswersRight == SuitesInv => AnswersRight
<1> SUFFICES ASSUME SuitesInv, NEW p \in Slots
      PROVE  LET s == suites[p] IN
             /\ get_fitness(s).fitness = (SuiteGoals \ excluded) \ Reached(s)
             /\ get_coverage(s).coverage = Reached(s)
             /\ ~ s.changed => /\ s.fitness \in {None, (SuiteGoals \ excluded) \ Reached(s)}
                               /\ s.coverage \in {None, Reached(s)}
             /\ \A i \in DOMAIN s.tests : s.tests[i] \in FreshTests
  <2> QED BY IsCoveredRight DEF AnswersRight, AnswersFresh, NothingStale, FreshTests
<1>1. suites[p] \in FreshSuites(excluded)
  BY DEF SuitesInv
<1>2. \A i \in DOMAIN suites[p].tests : suites[p].tests[i] \in FreshTests
  BY <1>1, LenProperties, ElementOfSeq DEF FreshSuites, SuiteStates
<1> QED BY <1>1, <1>2, FitnessRight, CoverageRight DEF FreshSuites

\* Whoever is asked for a fitness, a coverage or a goal answers what computing it anew
\* would yield (computation_cache.py).
THEOREM CachesAnswerRight == SuitesSpec => []AnswersRight
<1>1. SuitesInv => AnswersRight
  BY InvAnswersRight
<1> QED BY <1>1, SuitesInvariance, PTL

--------------------------------------------------------------------------------
(* Local search                                                             *)

\* A statement is being searched, so that a snapshot may be restored.
Searching == doing \notin {"between", "offered"}

\* The last result is that of the statements, whether or not the test case is marked
\* as changed; and restoring the snapshot would not change them.
InStep ==
    /\ result = content
    /\ stored.result = stored.content
    /\ Searching => snapshot.content = content /\ snapshot.result = content

\* The suite and the objective agree.  Their value is that of the test case, unless an
\* improvement has been undone because the time was up, and no statement's search has
\* left the test case worse than the archive's.
Measured ==
    /\ latest = cached
    /\ cached <= fitness[content]
    /\ ~ timeUp => cached = fitness[content]
    /\ fitness[content] <= fitness[stored.content]

\* Only statements behind the one under search are marked, so that a statement is never
\* randomised without an execution.
Unmarked ==
    /\ \A p \in applied : p > position
    /\ Searching => position \in Positions
    /\ doing = "probe" => tries < MaxTries

LocalInv == LocalTypeOK /\ InStep /\ Measured /\ Unmarked

LEMMA NeighboursAreContents ==
    ASSUME content \in Contents, position \in Positions
    PROVE  Neighbours \subseteq Contents
  BY DEF Neighbours, Contents

LEMMA TestState ==
    ASSUME NEW c \in Contents, NEW r \in Contents, NEW flag \in BOOLEAN
    PROVE  /\ [content |-> c, result |-> r, changed |-> flag] \in TestStates
           /\ \A s \in TestStates : s.content \in Contents /\ s.result \in Contents /\ s.changed \in BOOLEAN
  BY DEF TestStates

LEMMA Bounds == /\ 0 \in 0..MaxTries /\ 1 \in 1..Generations /\ NumStatements \in Positions
                \* one more try than made so far
                /\ \A n \in 0..MaxTries \cup {1} : n < MaxTries => n + 1 \in 0..MaxTries
  BY LocalAssumption DEF Positions

\* What the suite and the objective know after a try.
LEMMA Tried ==
    ASSUME LocalInv, NEW c \in Contents, HasChanged(c)
    PROVE  /\ fitness[c] \in Nat /\ cached \in Nat /\ cached' \in Nat /\ latest' = cached'
           /\ Better(c) => cached' = fitness[c]
           /\ ~ Better(c) => cached' = cached
           /\ fitness[c] <= cached => cached' = fitness[c]
           /\ cached' <= cached
<1>1. fitness[c] \in Nat /\ cached \in Nat /\ latest = cached
  BY DEF LocalInv, LocalTypeOK, Measured
<1> QED BY <1>1 DEF HasChanged, Better, Worse

\* A try that is kept: an improvement, or one that makes no difference.
LEMMA Kept ==
    ASSUME LocalInv, NEW c \in Contents, NEW flag \in BOOLEAN, fitness[c] <= cached,
           HasChanged(c), Keep(c, flag), UNCHANGED <<fitness, stored>>
    PROVE  /\ InStep' /\ Measured'
           /\ content' \in Contents /\ result' \in Contents /\ changed' \in BOOLEAN
           /\ snapshot' \in TestStates /\ cached' \in Nat /\ latest' \in Nat
<1>1. /\ content' = c /\ result' = c /\ changed' = flag
      /\ snapshot' = [content |-> c, result |-> c, changed |-> flag]
  BY DEF Keep
<1>2. /\ fitness[c] \in Nat /\ fitness[content] \in Nat /\ fitness[stored.content] \in Nat
      /\ cached \in Nat /\ cached' = fitness[c] /\ latest' = fitness[c]
      /\ cached <= fitness[content] /\ fitness[content] <= fitness[stored.content]
  BY Tried DEF LocalInv, LocalTypeOK, Measured, TestStates
<1>3. InStep'
  BY <1>1 DEF InStep, LocalInv
<1>4. Measured'
  BY <1>1, <1>2 DEF Measured
<1> QED BY <1>1, <1>2, <1>3, <1>4, TestState

\* A try that is undone; if it was an improvement, only because the time is up.
LEMMA Undone ==
    ASSUME LocalInv, Searching, NEW c \in Contents,
           HasChanged(c), Better(c) => timeUp',
           content' = snapshot.content, result' = snapshot.result, UNCHANGED <<fitness, stored, snapshot>>,
           timeUp => timeUp'
    PROVE  /\ InStep' /\ Measured'
           /\ content' \in Contents /\ result' \in Contents
           /\ snapshot' \in TestStates /\ cached' \in Nat /\ latest' \in Nat
<1>1. content' = content /\ result' = content
  BY DEF LocalInv, InStep
<1>2. /\ fitness[content] \in Nat /\ cached \in Nat /\ cached' \in Nat /\ latest' = cached'
      /\ cached' <= cached /\ (~ Better(c) => cached' = cached)
  BY Tried DEF LocalInv, LocalTypeOK
<1>3. Measured'
  BY <1>1, <1>2 DEF Measured, LocalInv
<1>4. InStep'
  BY <1>1 DEF InStep, LocalInv
<1> QED BY <1>1, <1>2, <1>3, <1>4 DEF LocalInv, LocalTypeOK

\* A step that leaves the test case and what is known of it alone.
LEMMA Untouched ==
    ASSUME LocalInv, UNCHANGED <<fitness, content, result, stored, cached, latest, timeUp>>,
           changed' \in BOOLEAN,
           \/ snapshot' = snapshot /\ (Searching \/ ~ Searching')
           \/ snapshot' = Current
    PROVE  /\ InStep' /\ Measured'
           /\ content' \in Contents /\ result' \in Contents /\ snapshot' \in TestStates
           /\ cached' \in Nat /\ latest' \in Nat
<1>1. Measured'
  BY DEF LocalInv, Measured
<1>2. snapshot' \in TestStates
  BY TestState DEF LocalInv, LocalTypeOK, Current
<1>3. InStep'
  BY DEF InStep, LocalInv, Current
<1> QED BY <1>1, <1>2, <1>3 DEF LocalInv, LocalTypeOK

--------------------------------------------------------------------------------
(* The steps between the searches of two statements.                        *)

LEMMA InitInv == ASSUME LocalInit PROVE LocalInv
<1>1. PICK c \in Contents :
        /\ content = c /\ result = c
        /\ stored = [content |-> c, result |-> c, changed |-> FALSE]
        /\ cached = fitness[c] /\ latest = fitness[c]
        /\ snapshot = stored
  BY DEF LocalInit
<1>2. fitness \in [Contents -> Nat] /\ cached \in Nat
  BY <1>1, LocalAssumption DEF LocalInit
<1>3. stored \in TestStates /\ snapshot \in TestStates
  BY <1>1, TestState
<1>4. LocalTypeOK
  <2>1. applied \subseteq Positions /\ changed \in BOOLEAN /\ timeUp \in BOOLEAN /\ gain \in BOOLEAN /\ improved \in BOOLEAN
    BY DEF LocalInit
  <2>2. content \in Contents /\ result \in Contents /\ latest \in Nat
    BY <1>1, <1>2
  <2> QED BY <1>2, <1>3, <2>1, <2>2, Bounds DEF LocalInit, LocalTypeOK, Kinds
<1>5. InStep /\ Measured /\ Unmarked
  BY <1>1, <1>2 DEF LocalInit, InStep, Measured, Unmarked, Searching
<1> QED BY <1>4, <1>5 DEF LocalInv

LEMMA SkipInv == ASSUME LocalInv, Skip PROVE LocalInv'
<1>1. InStep' /\ Measured'
  BY Untouched DEF Skip, testVars, clockVars, LocalInv, LocalTypeOK, Searching
<1>2. position' \in Positions \cup {0} /\ position' < position
  BY LocalAssumption DEF Skip, LocalInv, LocalTypeOK, Positions
<1>3. \A p \in applied : p > position'
  BY <1>2, LocalAssumption DEF Skip, LocalInv, Unmarked, LocalTypeOK, Positions
<1>4. LocalTypeOK'
  BY <1>2 DEF Skip, testVars, clockVars, loopVars, LocalInv, LocalTypeOK
<1> QED BY <1>1, <1>3, <1>4 DEF Skip, testVars, clockVars, loopVars, LocalInv, Unmarked, Searching

\* The statement is not marked, so the test case is searched as it is.
LEMMA StartSameInv == ASSUME LocalInv, NEW k \in Kinds, StartSame(k) PROVE LocalInv'
<1>1. position \in Positions /\ position \notin applied
  BY LocalAssumption DEF StartSame, LocalInv, LocalTypeOK, Unmarked, Positions
<1>2. content' = content
  BY <1>1 DEF StartSame
<1>3. snapshot' = Current
  BY <1>2 DEF StartSame, Current
<1>4. InStep' /\ Measured' /\ content' \in Contents /\ snapshot' \in TestStates
  BY <1>2, <1>3, Untouched DEF StartSame, clockVars, LocalInv, LocalTypeOK
<1>5. doing' \in {"climb", "probe", "try"} /\ tries' = 0 /\ rounds' = 0 /\ gain' = FALSE /\ improved' = FALSE
  BY DEF StartSame, FirstPhase, Afresh
<1>6. LocalTypeOK'
  BY <1>2, <1>4, <1>5, Bounds DEF StartSame, clockVars, LocalInv, LocalTypeOK
<1>7. Unmarked'
  BY <1>1, <1>5, LocalAssumption DEF StartSame, LocalInv, Unmarked
<1> QED BY <1>4, <1>6, <1>7 DEF LocalInv

LEMMA StartDifferentInv == ASSUME LocalInv, StartDifferent PROVE LocalInv'
<1>1. InStep' /\ Measured' /\ snapshot' \in TestStates
  BY Untouched DEF StartDifferent, testVars, clockVars, LocalInv, LocalTypeOK
<1>2. LocalTypeOK'
  BY <1>1, Bounds DEF StartDifferent, testVars, clockVars, Afresh, LocalInv, LocalTypeOK
<1>3. Unmarked'
  BY DEF StartDifferent, LocalInv, LocalTypeOK, Unmarked
<1> QED BY <1>1, <1>2, <1>3 DEF LocalInv

\* Marking the statement behind which the search goes on.
LEMMA LeaveInv == ASSUME LocalInv, Leave \/ EndRetype PROVE LocalInv'
<1>1. /\ position \in Positions /\ position' = position - 1 /\ doing' = "between" /\ Searching
      /\ applied' \in {applied, applied \cup {position}}
      /\ UNCHANGED <<fitness, testVars, stored, cached, latest, kind, snapshot, loopVars, clockVars>>
  BY DEF Leave, EndRetype, LocalInv, Unmarked, Searching
<1>2. InStep' /\ Measured'
  BY <1>1, Untouched DEF testVars, clockVars, LocalInv, LocalTypeOK
<1>3. position' \in Positions \cup {0} /\ (\A p \in applied' : p > position') /\ applied' \subseteq Positions
  BY <1>1, LocalAssumption DEF Positions, LocalInv, LocalTypeOK, Unmarked
<1>4. LocalTypeOK'
  BY <1>1, <1>3 DEF testVars, clockVars, loopVars, LocalInv, LocalTypeOK
<1> QED BY <1>1, <1>2, <1>3, <1>4 DEF LocalInv, Unmarked, Searching

LEMMA OfferInv == ASSUME LocalInv, Offer PROVE LocalInv'
<1>1. /\ result' = content /\ changed' = FALSE /\ doing' = "offered"
      /\ stored' \in {stored, [content |-> content, result |-> content, changed |-> FALSE]}
      /\ UNCHANGED <<fitness, content, applied, cached, latest, position, kind, snapshot, loopVars, clockVars>>
  BY DEF Offer, LocalInv, InStep
<1>2. stored' \in TestStates
  BY <1>1, TestState DEF LocalInv, LocalTypeOK
<1>3. LocalTypeOK'
  BY <1>1, <1>2 DEF loopVars, clockVars, LocalInv, LocalTypeOK
<1>4. stored'.result = stored'.content
  BY <1>1 DEF LocalInv, InStep
<1>5. fitness[content] <= fitness[stored'.content]
  <2>1. fitness[content] \in Nat
    BY DEF LocalInv, LocalTypeOK
  <2> QED BY <1>1, <2>1 DEF LocalInv, Measured
<1> QED BY <1>1, <1>3, <1>4, <1>5 DEF clockVars, LocalInv, InStep, Measured, Unmarked, Searching

\* The next call starts on a clone of the archive's test case, no statement of which is
\* marked.
LEMMA NextSearchInv == ASSUME LocalInv, NextSearch PROVE LocalInv'
<1>1. stored \in TestStates /\ stored.content \in Contents /\ stored.result = stored.content
  BY TestState DEF LocalInv, LocalTypeOK, InStep
<1>2. /\ content' = stored.content /\ result' = stored.content /\ changed' = FALSE
      /\ cached' = fitness[content'] /\ latest' = cached'
      /\ position' = NumStatements /\ doing' = "between" /\ applied' = {} /\ timeUp' = FALSE
      /\ generation' \in 1..Generations
      /\ UNCHANGED <<fitness, stored, kind, snapshot, loopVars>>
  BY <1>1, LocalAssumption DEF NextSearch, StartOn, LocalInv, LocalTypeOK
<1>3. fitness[content'] \in Nat /\ position' \in Positions
  BY <1>1, <1>2, LocalAssumption DEF LocalInv, LocalTypeOK, Positions
<1>4. LocalTypeOK'
  BY <1>1, <1>2, <1>3 DEF loopVars, LocalInv, LocalTypeOK
<1> QED BY <1>1, <1>2, <1>3, <1>4 DEF LocalInv, InStep, Measured, Unmarked, Searching


--------------------------------------------------------------------------------
(* The strategies: a try is kept or undone.                                 *)

Phases == {"try", "retype", "retyped", "climb", "climbed", "round", "probe", "letters", "letter", "ended"}

\* What is left to say of a step of a search, once InStep and Measured are preserved.
LEMMA SearchStep ==
    ASSUME LocalInv, Searching, InStep', Measured',
           content' \in Contents, result' \in Contents, changed' \in BOOLEAN,
           snapshot' \in TestStates, cached' \in Nat, latest' \in Nat,
           UNCHANGED <<fitness, stored, position, kind, generation>>,
           applied' \in {applied, {}}, doing' \in Phases,
           tries' \in 0..MaxTries \cup {1}, rounds' \in 0..MaxTries, gain' \in BOOLEAN, improved' \in BOOLEAN,
           timeUp' \in BOOLEAN, doing' = "probe" => tries' < MaxTries
    PROVE  LocalInv'
<1>1. LocalTypeOK'
  BY DEF LocalInv, LocalTypeOK, Phases
<1>2. Unmarked'
  BY DEF LocalInv, Unmarked, Phases
<1> QED BY <1>1, <1>2 DEF LocalInv

\* The clock only runs on.
LEMMA LaterIsLater == ASSUME timeUp \in BOOLEAN, timeUp' \in Later
                      PROVE  timeUp' \in BOOLEAN /\ (timeUp => timeUp')
  BY DEF Later

\* An improvement is kept, everything else undone.
LEMMA KeptOrUndone ==
    ASSUME LocalInv, Searching, NEW c \in Contents, NEW flag \in BOOLEAN,
           HasChanged(c), IF Better(c) THEN Keep(c, flag) ELSE Restore(c),
           UNCHANGED <<fitness, stored>>, timeUp' \in Later
    PROVE  /\ InStep' /\ Measured'
           /\ content' \in Contents /\ result' \in Contents /\ changed' \in BOOLEAN
           /\ snapshot' \in TestStates /\ cached' \in Nat /\ latest' \in Nat
<1>1. CASE Better(c)
  <2>1. fitness[c] <= cached
    BY <1>1, Tried DEF Better
  <2> QED BY <1>1, <2>1, Kept
<1>2. CASE ~ Better(c)
  <2>1. /\ content' = snapshot.content /\ result' = snapshot.result /\ changed' = snapshot.changed
        /\ snapshot' = snapshot /\ (timeUp => timeUp')
    BY <1>2, LaterIsLater DEF Restore, LocalInv, LocalTypeOK
  <2>2. snapshot.changed \in BOOLEAN
    BY TestState DEF LocalInv, LocalTypeOK
  <2> QED BY <1>2, <2>1, <2>2, Undone
<1> QED BY <1>1, <1>2

\* The strategies that look at the clock before they try, or not at all.
LEMMA TriesInv ==
    ASSUME LocalInv, Flip \/ TryOther \/ Probe \/ TryLetter \/ IterateString
    PROVE  LocalInv'
<1>1. Searching /\ position \in Positions /\ content \in Contents /\ timeUp \in BOOLEAN
  BY DEF Flip, TryOther, Probe, TryLetter, IterateString, LocalInv, LocalTypeOK, Unmarked, Searching
<1>2. Neighbours \subseteq Contents
  BY <1>1, NeighboursAreContents
<1>3. PICK c \in Contents, flag \in BOOLEAN :
        HasChanged(c) /\ IF Better(c) THEN Keep(c, flag) ELSE Restore(c)
  BY <1>1, <1>2 DEF Flip, TryOther, Probe, TryLetter, IterateString
<1>4. timeUp' \in Later
  BY <1>1 DEF Flip, TryOther, Probe, TryLetter, IterateString, Later
<1>5. UNCHANGED <<fitness, applied, stored, position, kind, generation, rounds, gain, improved>>
  BY DEF Flip, TryOther, Probe, TryLetter, IterateString, searchVars, loopVars
<1>6. doing' \in Phases
  BY DEF Flip, TryOther, Probe, TryLetter, IterateString, Phases
<1>7. tries' \in 0..MaxTries \cup {1} /\ (doing' = "probe" => tries' < MaxTries)
  <2>1. CASE Flip \/ TryLetter \/ IterateString
    BY <2>1 DEF Flip, TryLetter, IterateString, loopVars, LocalInv, LocalTypeOK
  <2>2. CASE TryOther
    BY <2>2, Bounds DEF TryOther, LocalInv, LocalTypeOK
  <2>3. CASE Probe
    BY <2>3, Bounds DEF Probe, LocalInv, LocalTypeOK, Unmarked
  <2> QED BY <2>1, <2>2, <2>3
<1>8. /\ InStep' /\ Measured'
      /\ content' \in Contents /\ result' \in Contents /\ changed' \in BOOLEAN
      /\ snapshot' \in TestStates /\ cached' \in Nat /\ latest' \in Nat
  BY <1>1, <1>3, <1>4, <1>5, KeptOrUndone
<1> QED BY <1>1, <1>4, <1>5, <1>6, <1>7, <1>8, SearchStep, LaterIsLater DEF LocalInv, LocalTypeOK

\* The strategies that undo an improvement, too, when the time is up behind it.
LEMMA ClimbInv == ASSUME LocalInv, Climb \/ IterateBytes PROVE LocalInv'
<1>1. Searching /\ position \in Positions /\ content \in Contents /\ timeUp \in BOOLEAN
  BY DEF Climb, IterateBytes, LocalInv, LocalTypeOK, Unmarked, Searching
<1>2. Neighbours \subseteq Contents
  BY <1>1, NeighboursAreContents
<1>3. PICK c \in Contents, flag \in BOOLEAN :
        HasChanged(c) /\ IF Better(c) /\ ~ timeUp' THEN Keep(c, flag) ELSE Restore(c)
  BY <1>1, <1>2 DEF Climb, IterateBytes
<1>4. timeUp' \in Later
  BY DEF Climb, IterateBytes
<1>5. /\ UNCHANGED <<fitness, applied, stored, position, kind, generation, rounds>>
      /\ doing' \in Phases \ {"probe"}
      /\ tries' \in 0..MaxTries \cup {1} /\ gain' \in BOOLEAN /\ improved' \in BOOLEAN
  BY Bounds DEF Climb, IterateBytes, searchVars, loopVars, LocalInv, LocalTypeOK, Phases
<1>6. /\ InStep' /\ Measured'
      /\ content' \in Contents /\ result' \in Contents /\ changed' \in BOOLEAN
      /\ snapshot' \in TestStates /\ cached' \in Nat /\ latest' \in Nat
  <2>1. CASE Better(c) /\ ~ timeUp'
    <3>1. fitness[c] <= cached
      BY <1>3, <2>1, Tried DEF Better
    <3> QED BY <1>3, <1>5, <2>1, <3>1, Kept
  <2>2. CASE ~ (Better(c) /\ ~ timeUp')
    <3>1. /\ content' = snapshot.content /\ result' = snapshot.result /\ changed' = snapshot.changed
          /\ snapshot' = snapshot /\ (timeUp => timeUp') /\ (Better(c) => timeUp')
      BY <1>1, <1>3, <1>4, <2>2, LaterIsLater DEF Restore
    <3>2. snapshot.changed \in BOOLEAN
      BY TestState DEF LocalInv, LocalTypeOK
    <3> QED BY <1>1, <1>3, <1>5, <3>1, <3>2, Undone
  <2> QED BY <2>1, <2>2
<1> QED BY <1>1, <1>4, <1>5, <1>6, SearchStep, LaterIsLater DEF LocalInv, LocalTypeOK

\* A rounding is kept unless it makes it worse.
LEMMA RoundInv == ASSUME LocalInv, Round PROVE LocalInv'
<1>1. Searching /\ position \in Positions /\ content \in Contents /\ timeUp \in BOOLEAN
  BY DEF Round, LocalInv, LocalTypeOK, Unmarked, Searching
<1>2. Neighbours \cup {content} \subseteq Contents
  BY <1>1, NeighboursAreContents
<1>3. PICK c \in Contents :
        /\ HasChanged(c)
        /\ IF Worse(c) THEN snapshot' = Current /\ UNCHANGED testVars ELSE Keep(c, FALSE)
  BY <1>2 DEF Round
<1>4. /\ UNCHANGED <<fitness, applied, stored, position, kind, generation, tries, gain, improved>>
      /\ doing' = "climb" /\ rounds' \in 0..MaxTries /\ timeUp' \in Later
  BY Bounds DEF Round, searchVars, LocalInv, LocalTypeOK
<1>5. /\ InStep' /\ Measured'
      /\ content' \in Contents /\ result' \in Contents /\ changed' \in BOOLEAN
      /\ snapshot' \in TestStates /\ cached' \in Nat /\ latest' \in Nat
  <2>1. CASE Worse(c)
    <3>1. cached' = cached /\ latest' = latest
      BY <1>3, <2>1, Tried DEF Worse, Better, HasChanged, LocalInv, Measured
    <3>2. UNCHANGED <<content, result, changed>> /\ snapshot' = Current /\ (timeUp => timeUp')
      BY <1>1, <1>3, <1>4, <2>1, LaterIsLater DEF testVars
    <3>3. Measured'
      BY <1>4, <3>1, <3>2 DEF LocalInv, Measured
    <3>4. InStep' /\ snapshot' \in TestStates
      BY <1>4, <3>2, TestState DEF LocalInv, LocalTypeOK, InStep, Current
    <3> QED BY <3>1, <3>2, <3>3, <3>4 DEF LocalInv, LocalTypeOK
  <2>2. CASE ~ Worse(c)
    <3>1. fitness[c] <= cached
      BY <1>3, <2>2, Tried DEF Worse
    <3> QED BY <1>3, <1>4, <2>2, <3>1, Kept
  <2> QED BY <2>1, <2>2
<1> QED BY <1>1, <1>4, <1>5, SearchStep, LaterIsLater DEF LocalInv, LocalTypeOK, Phases

\* Another call, or another type of statement: both set the test case back themselves.
LEMMA ChangeCallInv == ASSUME LocalInv, ChangeCall PROVE LocalInv'
<1>1. Searching /\ timeUp \in BOOLEAN /\ timeUp' \in Later /\ tries < MaxTries
  BY DEF ChangeCall, LocalInv, LocalTypeOK, Searching
<1>2. UNCHANGED <<fitness, stored, position, kind, generation, rounds, gain, improved>>
  BY DEF ChangeCall
<1>3. tries' \in 0..MaxTries \cup {1} /\ doing' \in Phases \ {"probe"} /\ applied' \in {applied, {}}
  BY Bounds DEF ChangeCall, SetBack, LocalInv, LocalTypeOK, Phases
<1>4. /\ InStep' /\ Measured'
      /\ content' \in Contents /\ result' \in Contents /\ changed' \in BOOLEAN
      /\ snapshot' \in TestStates /\ cached' \in Nat /\ latest' \in Nat
  <2>1. CASE \E c \in Contents : HasChanged(c) /\ Better(c) /\ Keep(c, FALSE)
    <3>1. PICK c \in Contents : HasChanged(c) /\ Better(c) /\ Keep(c, FALSE)
      BY <2>1
    <3>2. fitness[c] <= cached
      BY <3>1, Tried DEF Better
    <3> QED BY <1>2, <3>1, <3>2, Kept
  <2>2. CASE \E c \in Contents : HasChanged(c) /\ ~ Better(c) /\ SetBack(TRUE)
    <3>1. PICK c \in Contents : HasChanged(c) /\ ~ Better(c) /\ SetBack(TRUE)
      BY <2>2
    <3>2. /\ content' = snapshot.content /\ result' = snapshot.result /\ changed' \in BOOLEAN
          /\ snapshot' = snapshot /\ (timeUp => timeUp')
      BY <1>1, <3>1, LaterIsLater DEF SetBack
    <3> QED BY <1>1, <1>2, <3>1, <3>2, Undone
  <2>3. CASE SetBack(FALSE) /\ UNCHANGED <<cached, latest>>
    <3>1. /\ content' = content /\ result' = result /\ changed' \in BOOLEAN
          /\ snapshot' = snapshot /\ (timeUp => timeUp')
      BY <1>1, <2>3, LaterIsLater DEF SetBack, LocalInv, InStep
    <3> QED BY <1>1, <1>2, <2>3, <3>1 DEF LocalInv, LocalTypeOK, InStep, Measured
  <2> QED BY <2>1, <2>2, <2>3 DEF ChangeCall
<1> QED BY <1>1, <1>2, <1>3, <1>4, SearchStep, LaterIsLater DEF LocalInv, LocalTypeOK

\* The ends of the strategies.
LEMMA EndsInv == ASSUME LocalInv, EndTry \/ EndClimb \/ EndRound \/ StartLetter \/ EndLetters PROVE LocalInv'
<1>1. /\ Searching /\ changed \in BOOLEAN /\ improved \in BOOLEAN
      /\ UNCHANGED <<fitness, applied, stored, position, kind, generation, content, result, cached, latest,
                     tries, rounds, gain, timeUp>>
      /\ doing' \in Phases \ {"probe"} /\ improved' \in BOOLEAN
      /\ snapshot' \in {snapshot, Current}
  BY DEF EndTry, EndClimb, EndRound, StartLetter, EndLetters, searchVars, testVars, loopVars, Searching,
     LocalInv, LocalTypeOK, Phases
<1>2. changed' \in BOOLEAN
  BY <1>1 DEF EndTry, EndClimb, EndRound, StartLetter, EndLetters, testVars
<1>3. /\ InStep' /\ Measured'
      /\ content' \in Contents /\ result' \in Contents
      /\ snapshot' \in TestStates /\ cached' \in Nat /\ latest' \in Nat
  BY <1>1, <1>2, Untouched
<1> QED BY <1>1, <1>2, <1>3, SearchStep DEF LocalInv, LocalTypeOK

--------------------------------------------------------------------------------
THEOREM LocalInvariance == LocalSpec => []LocalInv
<1>1. LocalInv /\ [LocalNext]_localVars => LocalInv'
  <2> SUFFICES ASSUME LocalInv, [LocalNext]_localVars PROVE LocalInv'
    OBVIOUS
  <2>1. CASE Skip BY <2>1, SkipInv
  <2>2. CASE StartDifferent BY <2>2, StartDifferentInv
  <2>3. CASE \E k \in Kinds : StartSame(k) BY <2>3, StartSameInv
  <2>4. CASE Leave \/ EndRetype BY <2>4, LeaveInv
  <2>5. CASE Flip \/ TryOther \/ Probe \/ TryLetter \/ IterateString BY <2>5, TriesInv
  <2>6. CASE Climb \/ IterateBytes BY <2>6, ClimbInv
  <2>7. CASE Round BY <2>7, RoundInv
  <2>8. CASE ChangeCall BY <2>8, ChangeCallInv
  <2>9. CASE EndTry \/ EndClimb \/ EndRound \/ StartLetter \/ EndLetters BY <2>9, EndsInv
  <2>10. CASE Offer BY <2>10, OfferInv
  <2>11. CASE NextSearch BY <2>11, NextSearchInv
  <2>12. CASE LocalTerminated \/ UNCHANGED localVars
    <3>1. UNCHANGED localVars
      BY <2>12 DEF LocalTerminated
    <3> QED BY <3>1 DEF localVars, testVars, loopVars, clockVars, LocalInv, LocalTypeOK, InStep, Measured,
               Unmarked, Searching
  <2> QED BY <2>1, <2>2, <2>3, <2>4, <2>5, <2>6, <2>7, <2>8, <2>9, <2>10, <2>11, <2>12 DEF LocalNext, Search
<1> QED BY <1>1, InitInv, PTL DEF LocalSpec

\* Wherever the clock stops which strategy, the last result is that of the statements
\* as they are, the values of the suite and the objective are those of the test case as
\* long as there is time, and no search of a statement leaves the test case worse.
THEOREM EverythingSetBack == LocalSpec => []EverythingIsSetBack
<1>1. LocalInv => EverythingIsSetBack
  BY DEF LocalInv, InStep, Measured, EverythingIsSetBack, ResultIsCurrent, NeverWorse, FitnessIsCurrent
<1> QED BY <1>1, LocalInvariance, PTL


\* No search starts by changing its statement: the randomisation of a statement that was
\* searched before, which marks nothing as changed, is never reached within a call, and
\* the next call starts on a clone without marks.
THEOREM NeverRandomised == LocalSpec => [][\A k \in Kinds : StartSame(k) => content' = content]_localVars
<1>1. LocalInv => (\A k \in Kinds : StartSame(k) => content' = content)
  <2> SUFFICES ASSUME LocalInv, NEW k \in Kinds, StartSame(k) PROVE content' = content
    OBVIOUS
  <2>1. position \in Positions /\ position \notin applied
    BY LocalAssumption DEF StartSame, LocalInv, LocalTypeOK, Unmarked, Positions
  <2> QED BY <2>1 DEF StartSame
<1> QED BY <1>1, LocalInvariance, PTL
================================================================================
