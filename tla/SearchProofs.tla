------------------------------ MODULE SearchProofs ------------------------------
(***************************************************************************)
(* What the counters of a search tell, for all configurations, numbers of  *)
(* goals and whatever a generation executes and gains; what its statistics *)
(* tell, for all times and values; and what the rankings of MOSA keep, for *)
(* all goals and fitness values.                                           *)
(***************************************************************************)
EXTENDS Search, Timeline, MOSA, FiniteSetTheorems, SequenceTheorems, WellFoundedInduction, TLAPS

--------------------------------------------------------------------------------
(* Recursion on numbers                                                     *)

\* The least-number principle
LEMMA LeastNumber ==
    ASSUME NEW T, T \subseteq Nat, T # {}
    PROVE  \E x \in T : \A y \in T : x <= y
<1> DEFINE R == OpToRel(<, Nat)
<1>1. IsWellFoundedOn(R, Nat)
  BY NatLessThanWellFounded
<1>2. \A x, y \in Nat : <<y, x>> \in R <=> y < x
  BY DEF OpToRel
<1> HIDE DEF R
<1>3. PICK x \in T : \A y \in T : ~ (<<y, x>> \in R)
  BY <1>1, WFMin
<1>4. ASSUME NEW y \in T PROVE x <= y
  <2>1. x \in Nat /\ y \in Nat
    OBVIOUS
  <2>2. ~ (y < x)
    BY <1>2, <1>3, <2>1
  <2> QED BY <2>1, <2>2
<1> QED BY <1>4

\* What holds of 0, and of each number up to n if it holds of the one before, holds of
\* all of them: T is where it holds.
LEMMA UpTo ==
    ASSUME NEW n \in Nat, NEW T, 0 \in T, \A k \in 1..n : k - 1 \in T => k \in T
    PROVE  \A k \in 0..n : k \in T
<1> DEFINE F == {k \in 0..n : k \notin T}
<1> SUFFICES ASSUME F # {} PROVE FALSE
  OBVIOUS
<1>1. PICK k \in F : \A l \in F : k <= l
  <2>1. F \subseteq Nat
    OBVIOUS
  <2> HIDE DEF F
  <2> QED BY <2>1, LeastNumber
<1>2. k \in 1..n /\ k - 1 \in 0..n /\ k \notin T
  BY <1>1
<1>3. k - 1 \notin F
  BY <1>1, <1>2
<1> QED BY <1>2, <1>3

\* A function can be defined by its value at 0 and by a step from each value to the next.
Recursive(f, n, S, base, step) ==
  f \in [0..n -> S] /\ f[0] = base /\ \A k \in 1..n : f[k] = step[<<k, f[k - 1]>>]

LEMMA Recursion ==
    ASSUME NEW n \in Nat, NEW S, NEW base \in S,
           NEW step, \A k \in 1..n : \A x \in S : step[<<k, x>>] \in S
    PROVE  \E f : Recursive(f, n, S, base, step)
<1> DEFINE T == {k \in 0..n : \E f : Recursive(f, k, S, base, step)}
<1>1. 0 \in T
  <2> DEFINE f == [i \in 0..0 |-> base]
  <2>1. f \in [0..0 -> S] /\ f[0] = base /\ 1..0 = {} /\ 0 \in 0..n
    OBVIOUS
  <2> HIDE DEF f
  <2>2. Recursive(f, 0, S, base, step)
    BY <2>1 DEF Recursive
  <2> QED BY <2>1, <2>2
<1>2. ASSUME NEW k \in 1..n, k - 1 \in T PROVE k \in T
  <2>1. PICK f : Recursive(f, k - 1, S, base, step)
    BY <1>2
  <2> DEFINE g == [i \in 0..k |-> IF i = k THEN step[<<k, f[k - 1]>>] ELSE f[i]]
  <2>2. /\ f \in [0..k - 1 -> S] /\ f[0] = base
        /\ \A i \in 1..k - 1 : f[i] = step[<<i, f[i - 1]>>]
    BY <2>1 DEF Recursive
  <2>3. f[k - 1] \in S /\ k \in 0..n /\ step[<<k, f[k - 1]>>] \in S
    BY <2>2
  <2>4. \A i \in 0..k : i # k => i \in 0..k - 1
    OBVIOUS
  <2>5. g \in [0..k -> S]
    BY <2>2, <2>3, <2>4
  <2>6. \A i \in 0..k - 1 : g[i] = f[i]
    OBVIOUS
  <2>7. \A i \in 1..k : g[i] = step[<<i, g[i - 1]>>]
    <3> SUFFICES ASSUME NEW i \in 1..k PROVE g[i] = step[<<i, g[i - 1]>>]
      OBVIOUS
    <3>1. i - 1 \in 0..k - 1
      OBVIOUS
    <3>2. CASE i = k
      <4>1. g[k] = step[<<k, f[k - 1]>>] /\ g[k - 1] = f[k - 1]
        BY <2>6, <3>1, <3>2
      <4> HIDE DEF g
      <4> QED BY <3>2, <4>1
    <3>3. CASE i # k
      <4>1. i \in 1..k - 1 /\ i \in 0..k - 1
        BY <3>3
      <4>2. f[i] = step[<<i, f[i - 1]>>]
        BY <2>2, <4>1
      <4> HIDE DEF g
      <4> QED BY <2>6, <3>1, <4>1, <4>2
    <3> QED BY <3>2, <3>3
  <2>8. g[0] = base
    BY <2>2, <2>6
  <2> HIDE DEF g
  <2>9. Recursive(g, k, S, base, step)
    BY <2>5, <2>7, <2>8 DEF Recursive
  <2> QED BY <2>3, <2>9
<1>3. \A k \in 0..n : k \in T
  <2> HIDE DEF T
  <2> QED BY <1>1, <1>2, UpTo
<1>4. n \in T
  BY <1>3
<1> QED BY <1>4

--------------------------------------------------------------------------------
(* What a search counts                                                     *)

\* What the doublings take, from one to the next
LEMMA Doublings ==
    ASSUME NEW n \in Nat
    PROVE  /\ Doubling(n)[0] = 0
           /\ \A k \in 1..Cap : Doubling(n)[k] = 2 * Doubling(n)[k - 1] + n
           /\ \A k \in 0..Cap : Doubling(n)[k] \in Nat
<1> DEFINE Next(f) == [k \in 0..Cap |-> IF k = 0 THEN 0 ELSE 2 * f[k - 1] + n]
           D == Doubling(n)
           step == [p \in (1..Cap) \X Nat |-> 2 * p[2] + n]
<1>1. Cap \in Nat
  BY SearchAssumption
<1>2. D = CHOOSE f : f = Next(f)
  BY DEF Doubling
<1>3. \E f : f = Next(f)
  <2>1. \A k \in 1..Cap, x \in Nat : step[<<k, x>>] = 2 * x + n
    OBVIOUS
  <2> HIDE DEF step
  <2>2. \A k \in 1..Cap : \A x \in Nat : step[<<k, x>>] \in Nat
    <3> TAKE k \in 1..Cap, x \in Nat
    <3>1. step[<<k, x>>] = 2 * x + n
      BY <2>1
    <3> QED BY <3>1
  <2>3. PICK f : Recursive(f, Cap, Nat, 0, step)
    <3> DEFINE Numbers == Nat
               zero == 0
    <3>1. zero \in Numbers /\ \A k \in 1..Cap : \A x \in Numbers : step[<<k, x>>] \in Numbers
      BY <2>2
    <3> HIDE DEF Numbers, zero
    <3>2. \E f : Recursive(f, Cap, Numbers, zero, step)
      BY <1>1, <3>1, Recursion
    <3> QED BY <3>2 DEF Numbers, zero
  <2>4. \A k \in 1..Cap : f[k] = 2 * f[k - 1] + n
    <3> TAKE k \in 1..Cap
    <3>1. k - 1 \in 0..Cap
      BY <1>1
    <3> QED BY <2>1, <2>3, <3>1 DEF Recursive
  <2>5. f = Next(f)
    <3>1. \A k \in 0..Cap : f[k] = IF k = 0 THEN 0 ELSE 2 * f[k - 1] + n
      BY <1>1, <2>3, <2>4 DEF Recursive
    <3>2. f = [k \in 0..Cap |-> f[k]]
      BY <2>3 DEF Recursive
    <3> QED BY <3>1, <3>2
  <2> QED BY <2>5
<1>4. D = Next(D)
  <2> HIDE DEF D, Next
  <2> QED BY <1>2, <1>3
<1>5. D[0] = 0 /\ \A k \in 1..Cap : D[k] = 2 * D[k - 1] + n
  <2> HIDE DEF D
  <2>1. \A k \in 0..Cap : D[k] = IF k = 0 THEN 0 ELSE 2 * D[k - 1] + n
    BY <1>4
  <2> QED BY <1>1, <2>1
<1>6. \A k \in 0..Cap : D[k] \in Nat
  <2> DEFINE T == {k \in 0..Cap : D[k] \in Nat}
  <2> HIDE DEF D
  <2>1. 0 \in T
    BY <1>1, <1>5
  <2>2. \A k \in 1..Cap : k - 1 \in T => k \in T
    BY <1>1, <1>5
  <2> HIDE DEF T
  <2>3. \A k \in 0..Cap : k \in T
    BY <1>1, <2>1, <2>2, UpTo
  <2> QED BY <2>3 DEF T
<1> QED BY <1>5, <1>6

\* A history and the one that a window leaves of it when x has happened
Extends(e, s, x) ==
  \E d \in 0..1 : /\ Len(e) = Len(s) + 1 - d /\ (d = 1 => Len(s) = Window)
                  /\ \A i \in 1..Len(s) - d : e[i] = s[i + d]
                  /\ e[Len(s) + 1 - d] = x

LEMMA WindowExtends ==
    ASSUME NEW S, NEW s \in Seq(S), NEW x \in S, Len(s) \in 1..Window,
           NEW e, e = LET all == Append(s, x) IN IF Len(all) > Window THEN Tail(all) ELSE all
    PROVE  e \in Seq(S) /\ Len(e) \in 1..Window /\ Extends(e, s, x)
<1> DEFINE all == Append(s, x)
<1>1. PICK n \in Nat : n = Len(s) /\ n >= 1 /\ n <= Window
  BY SearchAssumption
<1>2. all \in Seq(S) /\ Len(all) = n + 1 /\ all[n + 1] = x /\ \A i \in 1..n : all[i] = s[i]
  BY <1>1
<1>3. Window \in Nat
  BY SearchAssumption
<1>4. e = IF Len(all) > Window THEN Tail(all) ELSE all
  OBVIOUS
<1> HIDE DEF all
<1>5. CASE n + 1 > Window
  <2>1. e = Tail(all)
    BY <1>2, <1>4, <1>5
  <2>2. Tail(all) \in Seq(S) /\ Len(Tail(all)) = n /\ \A i \in 1..n : Tail(all)[i] = all[i + 1]
    BY <1>2, <1>1
  <2>3. n = Window
    BY <1>1, <1>3, <1>5
  <2>4. Len(e) = Len(s) + 1 - 1 /\ e[Len(s) + 1 - 1] = x
    BY <1>1, <1>2, <2>1, <2>2
  <2>5. \A i \in 1..Len(s) - 1 : e[i] = s[i + 1]
    BY <1>1, <1>2, <2>1, <2>2
  <2>6. Extends(e, s, x)
    BY <1>1, <2>3, <2>4, <2>5 DEF Extends
  <2> QED BY <1>1, <2>1, <2>2, <2>3, <2>6
<1>6. CASE ~ (n + 1 > Window)
  <2>1. e = all
    BY <1>2, <1>4, <1>6
  <2>2. n + 1 \in 1..Window
    BY <1>1, <1>3, <1>6
  <2>3. Len(e) = Len(s) + 1 - 0 /\ e[Len(s) + 1 - 0] = x
    BY <1>1, <1>2, <2>1
  <2>4. \A i \in 1..Len(s) - 0 : e[i] = s[i + 0]
    BY <1>1, <1>2, <2>1
  <2>5. Extends(e, s, x)
    BY <1>1, <2>3, <2>4 DEF Extends
  <2> QED BY <1>2, <2>1, <2>2, <2>5
<1> QED BY <1>5, <1>6

\* After one more report a history ends with m equal steps if the last step was one and it
\* has ended with m - 1 before.
LEMMA FlatNext ==
    ASSUME NEW e, NEW s, NEW x, Extends(e, s, x), Len(s) \in 1..Window, NEW m \in Int, m < Window
    PROVE  Flat(e, m) <=> m <= 0 \/ (x = s[Len(s)] /\ Flat(s, m - 1))
<1>1. PICK n \in Nat : n = Len(s) /\ n >= 1 /\ n <= Window
  BY SearchAssumption
<1>2. PICK d \in 0..1 : /\ Len(e) = n + 1 - d /\ (d = 1 => n = Window)
                        /\ \A i \in 1..n - d : e[i] = s[i + d]
                        /\ e[n + 1 - d] = x
  BY <1>1 DEF Extends
<1>3. PICK k \in Nat : k = n + 1 - d /\ k >= 1 /\ k = Len(e)
  <2>1. n + 1 - d \in Nat /\ n + 1 - d >= 1
    BY <1>1
  <2> QED BY <1>2, <2>1
<1>4. e[k] = x /\ (\A i \in 1..k - 1 : e[i] = s[i + d])
  BY <1>1, <1>2, <1>3
<1>5. CASE m <= 0
  <2>1. k > m /\ \A i \in k - m..k : i = k
    BY <1>3, <1>5
  <2> QED BY <1>3, <1>5, <2>1 DEF Flat
<1>6. CASE m > 0
  <2>1. k > m <=> n > m - 1
    BY <1>1, <1>2, <1>3, <1>6
  <2>2. ASSUME k > m, \A i \in k - m..k : e[i] = x
        PROVE  x = s[n] /\ \A i \in n - (m - 1)..n : s[i] = s[n]
    <3>1. \A i \in n - (m - 1)..n : s[i] = x
      <4> TAKE i \in n - (m - 1)..n
      <4>1. PICK j \in Int : j = i - d
        OBVIOUS
      <4>2. j \in k - m..k /\ j \in 1..k - 1 /\ i = j + d
        BY <1>3, <1>6, <2>2, <4>1
      <4> QED BY <1>4, <2>2, <4>2
    <3> QED BY <1>6, <3>1
  <2>3. ASSUME k > m, x = s[n], \A i \in n - (m - 1)..n : s[i] = s[n]
        PROVE  \A i \in k - m..k : e[i] = x
    <3> SUFFICES ASSUME NEW i \in k - m..k PROVE e[i] = x
      OBVIOUS
    <3>1. CASE i = k BY <1>4, <3>1
    <3>2. CASE i # k
      <4>1. i \in 1..k - 1 /\ i + d \in n - (m - 1)..n
        BY <1>3, <1>6, <2>3, <3>2
      <4> QED BY <1>4, <2>3, <4>1
    <3> QED BY <3>1, <3>2
  <2>4. Flat(e, m) <=> k > m /\ \A i \in k - m..k : e[i] = x
    BY <1>3, <1>4 DEF Flat
  <2>5. Flat(s, m - 1) <=> n > m - 1 /\ \A i \in n - (m - 1)..n : s[i] = s[n]
    BY <1>1 DEF Flat
  <2> QED BY <1>1, <1>6, <2>1, <2>2, <2>3, <2>4, <2>5
<1> QED BY <1>5, <1>6

--------------------------------------------------------------------------------
(* The stopping conditions and the stall                                    *)

\* The reports are a window on the coverage after each generation.
ReportsKept ==
  /\ config \in Configurations /\ achieved \in Nat
  /\ reports \in Seq(Nat) /\ Len(reports) \in 1..Window
  /\ pc \in {"configured", "refused", "search", "evolve", "finished"} /\ (pc = "configured" => reports = <<0>>)

\* What the conditions are told
ObservedFields ==
  /\ DOMAIN conditions = DOMAIN before_search_start(0)
  /\ conditions.plateau \in [previous : Nat, unchanged : Nat] /\ conditions.minimum \in [last : Nat, iterations : Nat]

\* A counter c of unchanged values has counted the flat end of the history s.
Counted(s, c) == c \in Nat /\ \A m \in Int : m < Window /\ m <= Cap => (c >= m <=> Flat(s, m))

PlateauCounted ==
  "plateau" \in get_stopping_conditions(config) /\ config.algorithm # "random_suite" =>
    /\ conditions.plateau.previous = reports[Len(reports)] /\ conditions.plateau.previous <= achieved
    /\ Counted(reports, conditions.plateau.unchanged)
MinimumCounted ==
  "minimum" \in get_stopping_conditions(config) =>
    /\ conditions.minimum.last = percents[Len(percents)]
    /\ Counted(percents, conditions.minimum.iterations)

\* The stall of LLMOSA after d plateaus, of which some were too late to ask: the next one
\* must be as long as all of them together.
StallTimed(d) ==
  LET D == Doubling(config.max_plateau_len)
  IN  /\ stall.queries <= d /\ D[stall.queries] <= D[d]
      /\ stall.max_plateau_len = D[d] + config.max_plateau_len
           \/ (stall.max_plateau_len >= Cap /\ D[d] + config.max_plateau_len >= Cap)
      /\ D[d] + d + stall.plateau_counter <= turns
StallCounted ==
  /\ turns \in 0..Cap /\ clock \in 0..Cap
  /\ stall \in [plateau_counter : Nat, max_plateau_len : Nat, last_covered : Nat, last_gain : Nat, queries : Nat]
  /\ stall.last_gain <= clock
  /\ pc \in {"configured", "refused"} => stall.queries = 0 /\ turns = 0
  /\ config.algorithm = "llm" /\ config.window <= 0 /\ turns < Cap /\ pc \in {"search", "evolve", "finished"}
       => \E d \in 0..Cap : StallTimed(d)
  /\ config.algorithm = "llm" /\ config.window > 0 => config.window * stall.queries <= stall.last_gain

SearchInv == ReportsKept /\ ObservedFields /\ PlateauCounted /\ MinimumCounted /\ StallCounted

\* A counter that starts again at a change and goes on otherwise keeps counting.
LEMMA CountedNext ==
    ASSUME NEW e, NEW s, NEW x, Extends(e, s, x), Len(s) \in 1..Window, NEW c, Counted(s, c),
           NEW d, d = IF x = s[Len(s)] THEN Capped(c + 1) ELSE 0
    PROVE  Counted(e, d)
<1>1. Window \in Nat /\ Cap \in Nat /\ c \in Nat
  BY SearchAssumption DEF Counted
<1>2. d \in Nat
  BY <1>1 DEF Capped
<1>3. ASSUME NEW m \in Int, m < Window, m <= Cap PROVE d >= m <=> Flat(e, m)
  <2>1. Flat(e, m) <=> m <= 0 \/ (x = s[Len(s)] /\ Flat(s, m - 1))
    BY <1>3, FlatNext
  <2>2. PICK k \in Int : k = m - 1 /\ k < Window /\ k <= Cap
    BY <1>1, <1>3
  <2>3. c >= k <=> Flat(s, k)
    BY <2>2 DEF Counted
  <2>4. CASE x = s[Len(s)]
    <3>1. d >= m <=> m <= 0 \/ c >= k
      BY <1>1, <1>3, <2>2, <2>4 DEF Capped
    <3> QED BY <2>1, <2>2, <2>3, <2>4, <3>1
  <2>5. CASE x # s[Len(s)]
    <3>1. d >= m <=> m <= 0
      BY <2>5
    <3> QED BY <2>1, <2>5, <3>1
  <2> QED BY <2>4, <2>5
<1> QED BY <1>2, <1>3 DEF Counted

\* Nothing has been counted of one report.
LEMMA CountedFirst ==
    ASSUME NEW s, Len(s) = 1
    PROVE  Counted(s, 0)
<1>1. ASSUME NEW m \in Int PROVE 0 >= m <=> Flat(s, m)
  <2>1. CASE m <= 0
    <3>1. \A i \in 1 - m..1 : i = 1
      BY <2>1
    <3> QED BY <2>1, <3>1 DEF Flat
  <2>2. CASE m > 0
    BY <2>2 DEF Flat
  <2> QED BY <2>1, <2>2
<1> QED BY <1>1 DEF Counted

LEMMA PercentOf == ASSUME NEW n \in Nat PROVE Percent(n) \in Nat
<1>1. 100 * n \in Nat /\ NumGoals \in Nat \ {0}
  BY SearchAssumption
<1> QED BY <1>1 DEF Percent

\* What the conditions are told of a generation
LEMMA GenerationObserved ==
    ASSUME ObservedFields, NEW e, NEW n, NEW u
    PROVE  LET c == after_search_iteration(Executed(conditions, e), n, u)
           IN  /\ DOMAIN c = DOMAIN conditions
               /\ c.plateau = IF "plateau" \in get_stopping_conditions(config)
                              THEN CoveragePlateau(conditions.plateau, n) ELSE conditions.plateau
               /\ c.minimum = IF "minimum" \in get_stopping_conditions(config)
                              THEN MinimumCoveragePlateau(conditions.minimum, n) ELSE conditions.minimum
<1> DEFINE ran == Executed(conditions, e)
           c == after_search_iteration(ran, n, u)
<1>1. {"plateau", "minimum", "tests", "statements", "iterations", "coverage", "memory"} \subseteq DOMAIN conditions
  BY DEF ObservedFields, before_search_start
<1>2. DOMAIN ran = DOMAIN conditions /\ ran.plateau = conditions.plateau /\ ran.minimum = conditions.minimum
  BY <1>1 DEF Executed, Observed
<1> HIDE DEF ran
<1>3. /\ DOMAIN c = DOMAIN ran
      /\ c.plateau = IF "plateau" \in get_stopping_conditions(config) THEN CoveragePlateau(ran.plateau, n) ELSE ran.plateau
      /\ c.minimum = IF "minimum" \in get_stopping_conditions(config)
                     THEN MinimumCoveragePlateau(ran.minimum, n) ELSE ran.minimum
  BY <1>1, <1>2 DEF after_search_iteration, Observed
<1> QED BY <1>2, <1>3 DEF ran

\* The settings, one by one
LEMMA SettingsRead ==
    ASSUME config \in Configurations
    PROVE  /\ config.max_plateau_len \in Nat /\ config.window \in Int
           /\ config.plateau \in Int /\ config.plateau < Window /\ config.plateau <= Cap
           /\ config.minimum \in Int
           /\ config.minimum_plateau \in Int /\ config.minimum_plateau < Window /\ config.minimum_plateau <= Cap
BY SearchAssumption DEF Settings

LEMMA LastReport ==
    ASSUME NEW e, NEW s, NEW x, Extends(e, s, x), Len(s) \in 1..Window
    PROVE  e[Len(e)] = x
<1>1. PICK n \in Nat : n = Len(s)
  BY SearchAssumption
<1>2. PICK d \in 0..1 : Len(e) = n + 1 - d /\ e[n + 1 - d] = x
  BY <1>1 DEF Extends
<1> QED BY <1>2

\* What a generation adds to the reports
LEMMA GenerationReported ==
    ASSUME ReportsKept, NEW n \in Nat,
           reports' = LET all == Append(reports, n) IN IF Len(all) > Window THEN Tail(all) ELSE all
    PROVE  /\ reports' \in Seq(Nat) /\ Len(reports') \in 1..Window
           /\ Extends(reports', reports, n) /\ Extends(percents', percents, Percent(n))
           /\ Len(percents) = Len(reports) /\ percents[Len(percents)] = Percent(reports[Len(reports)])
<1>1. reports \in Seq(Nat) /\ Len(reports) \in 1..Window
  BY DEF ReportsKept
<1>2. reports' \in Seq(Nat) /\ Len(reports') \in 1..Window /\ Extends(reports', reports, n)
  BY <1>1, WindowExtends
<1>3. PICK k \in Nat : k = Len(reports) /\ k \in 1..Window /\ DOMAIN reports = 1..k
  BY <1>1, SearchAssumption
<1>4. PICK d \in 0..1 : /\ Len(reports') = k + 1 - d /\ (d = 1 => k = Window)
                        /\ \A i \in 1..k - d : reports'[i] = reports[i + d]
                        /\ reports'[k + 1 - d] = n
  BY <1>2, <1>3 DEF Extends
<1>5. DOMAIN reports' = 1..k + 1 - d
  BY <1>2, <1>4
<1>6. percents = [i \in 1..k |-> Percent(reports[i])]
  BY <1>3 DEF percents
<1>7. percents' = [i \in 1..k + 1 - d |-> Percent(reports'[i])]
  BY <1>5 DEF percents, Percent
<1>8. Len(percents) = k /\ percents[k] = Percent(reports[k])
  BY <1>3, <1>6
<1>9. Len(percents') = k + 1 - d
  <2>1. k + 1 - d \in Nat
    BY <1>3
  <2> QED BY <1>7, <2>1
<1>10. \A i \in 1..k - d : percents'[i] = percents[i + d]
  <2> TAKE i \in 1..k - d
  <2>1. i \in 1..k + 1 - d /\ i + d \in 1..k
    BY <1>3
  <2>2. percents'[i] = Percent(reports'[i]) /\ percents[i + d] = Percent(reports[i + d])
    BY <1>6, <1>7, <2>1
  <2> QED BY <1>4, <2>2
<1>11. percents'[k + 1 - d] = Percent(n)
  <2>1. k + 1 - d \in 1..k + 1 - d
    BY <1>3
  <2>2. percents'[k + 1 - d] = Percent(reports'[k + 1 - d])
    BY <1>7, <2>1
  <2> QED BY <1>4, <2>2
<1>12. Extends(percents', percents, Percent(n))
  BY <1>4, <1>8, <1>9, <1>10, <1>11 DEF Extends
<1> QED BY <1>2, <1>3, <1>8, <1>12

\* In the beginning, and as long as nothing has been reported
LEMMA NothingCounted ==
    ASSUME reports = << 0 >>
    PROVE  /\ Counted(reports, 0) /\ Counted(percents, 0)
           /\ reports[Len(reports)] = 0 /\ percents[Len(percents)] = 0
           /\ reports \in Seq(Nat) /\ Len(reports) \in 1..Window
<1>1. Len(reports) = 1 /\ reports[1] = 0 /\ DOMAIN reports = 1..1 /\ reports \in Seq(Nat)
  OBVIOUS
<1>2. percents = [i \in 1..1 |-> Percent(reports[i])]
  BY <1>1 DEF percents
<1>3. Len(percents) = 1 /\ percents[1] = Percent(0)
  BY <1>1, <1>2
<1>4. Percent(0) = 0
  <2>1. 100 * 0 = 0 /\ NumGoals \in Nat \ {0}
    BY SearchAssumption
  <2>2. 0 \div NumGoals = 0
    BY <2>1
  <2> QED BY <2>1, <2>2 DEF Percent
<1>5. Window \in Nat \ {0}
  BY SearchAssumption
<1> QED BY <1>1, <1>3, <1>4, <1>5, CountedFirst

LEMMA SearchInitially == SearchInit => SearchInv
<1> SUFFICES ASSUME SearchInit PROVE SearchInv
  OBVIOUS
<1>1. /\ config \in Configurations /\ pc = "configured" /\ achieved = 0 /\ clock = 0 /\ turns = 0 /\ reports = <<0>>
      /\ conditions = before_search_start(0) /\ stall = NoStall
  BY DEF SearchInit
<1>2. Counted(reports, 0) /\ Counted(percents, 0) /\ reports[Len(reports)] = 0 /\ percents[Len(percents)] = 0
      /\ reports \in Seq(Nat) /\ Len(reports) \in 1..Window
  BY <1>1, NothingCounted
<1>3. conditions.plateau = [previous |-> 0, unchanged |-> 0] /\ conditions.minimum = [last |-> 0, iterations |-> 0]
  BY <1>1 DEF before_search_start
<1>4. /\ conditions.plateau.previous = 0 /\ conditions.plateau.unchanged = 0
      /\ conditions.minimum.last = 0 /\ conditions.minimum.iterations = 0
  BY <1>3
<1>5. ReportsKept
  BY <1>1, <1>2 DEF ReportsKept
<1>6. ObservedFields
  BY <1>1, <1>3 DEF ObservedFields
<1>7. PlateauCounted /\ MinimumCounted
  BY <1>1, <1>2, <1>4 DEF PlateauCounted, MinimumCounted
<1>8. /\ stall.queries = 0 /\ stall.last_gain = 0
      /\ stall \in [plateau_counter : Nat, max_plateau_len : Nat, last_covered : Nat, last_gain : Nat, queries : Nat]
  BY <1>1 DEF NoStall
<1>9. StallCounted
  <2>1. config.window \in Int /\ config.window * 0 = 0 /\ Cap \in Nat
    BY <1>1, SettingsRead, SearchAssumption
  <2> QED BY <1>1, <1>8, <2>1 DEF StallCounted
<1> QED BY <1>5, <1>6, <1>7, <1>9 DEF SearchInv

LEMMA BeginKeeps ==
    ASSUME SearchInv, NEW e, NEW n \in 0..NumGoals, NEW t \in Ticks, Begin(e, n, t)
    PROVE  SearchInv'
<1>1. /\ config' = config /\ reports' = reports /\ turns' = turns
      /\ pc = "configured" /\ pc' = "search" /\ achieved' = n /\ clock' = Capped(clock + t)
      /\ conditions' = Executed(before_search_start(clock), e)
      /\ stall' = [NoStall EXCEPT !.last_covered = n, !.max_plateau_len = config.max_plateau_len, !.last_gain = clock']
  BY DEF Begin
<1>2. /\ config \in Configurations /\ reports = <<0>> /\ turns = 0 /\ clock \in 0..Cap
      /\ n \in Nat /\ Cap \in Nat /\ t \in Nat
  BY <1>1, SearchAssumption DEF SearchInv, ReportsKept, StallCounted
<1>3. /\ DOMAIN conditions' = DOMAIN before_search_start(0)
      /\ conditions'.plateau = [previous |-> 0, unchanged |-> 0] /\ conditions'.minimum = [last |-> 0, iterations |-> 0]
  BY <1>1 DEF Executed, Observed, before_search_start
<1>4. /\ conditions'.plateau.previous = 0 /\ conditions'.plateau.unchanged = 0
      /\ conditions'.minimum.last = 0 /\ conditions'.minimum.iterations = 0
  BY <1>3
<1>5. Counted(reports, 0) /\ Counted(percents, 0) /\ reports[Len(reports)] = 0 /\ percents[Len(percents)] = 0
      /\ reports \in Seq(Nat) /\ Len(reports) \in 1..Window
  BY <1>2, NothingCounted
<1>6. percents' = percents /\ get_stopping_conditions(config)' = get_stopping_conditions(config)
  BY <1>1 DEF percents, get_stopping_conditions, Percent
<1>7. ReportsKept'
  BY <1>1, <1>2, <1>5 DEF ReportsKept
<1>8. ObservedFields'
  BY <1>3 DEF ObservedFields, before_search_start
<1>9. PlateauCounted' /\ MinimumCounted'
  BY <1>1, <1>2, <1>4, <1>5, <1>6 DEF PlateauCounted, MinimumCounted, Counted
<1>10. StallCounted'
  <2>1. clock' \in 0..Cap
    BY <1>1, <1>2 DEF Capped
  <2>3. config.max_plateau_len \in Nat /\ config.window \in Int /\ config.window * 0 = 0
    BY <1>2, SettingsRead
  <2>2. /\ stall'.queries = 0 /\ stall'.plateau_counter = 0
        /\ stall'.max_plateau_len = config.max_plateau_len /\ stall'.last_gain = clock'
        /\ stall' \in [plateau_counter : Nat, max_plateau_len : Nat, last_covered : Nat, last_gain : Nat, queries : Nat]
    <3>1. stall' = [plateau_counter |-> 0, max_plateau_len |-> config.max_plateau_len, last_covered |-> n,
                    last_gain |-> clock', queries |-> 0]
      BY <1>1 DEF NoStall
    <3> QED BY <1>2, <2>1, <2>3, <3>1
  <2>4. StallTimed(0)'
    <3>1. Doubling(config.max_plateau_len)' = Doubling(config.max_plateau_len)
      BY <1>1 DEF Doubling
    <3>2. Doubling(config.max_plateau_len)[0] = 0
      BY <2>3, Doublings
    <3> QED BY <1>1, <1>2, <2>2, <2>3, <3>1, <3>2 DEF StallTimed
  <2>5. 0 \in 0..Cap /\ turns' \in 0..Cap
    BY <1>1, <1>2
  <2> QED BY <1>1, <2>1, <2>2, <2>3, <2>4, <2>5 DEF StallCounted
<1> QED BY <1>7, <1>8, <1>9, <1>10 DEF SearchInv

LEMMA GenerationKeeps ==
    ASSUME SearchInv, NEW e, NEW n \in 0..NumGoals, NEW t \in Ticks, NEW u, Generation(e, n, t, u)
    PROVE  SearchInv'
<1>1. /\ config' = config /\ stall' = stall /\ turns' = turns
      /\ pc = "evolve" /\ pc' = "search" /\ achieved' = n /\ n \in Reachable /\ clock' = Capped(clock + t)
      /\ conditions' = after_search_iteration(Executed(conditions, e), n, u)
      /\ reports' = LET all == Append(reports, n) IN IF Len(all) > Window THEN Tail(all) ELSE all
  BY DEF Generation
<1>2. n \in Nat /\ t \in Nat /\ Cap \in Nat /\ achieved \in Nat /\ config \in Configurations
  BY SearchAssumption DEF SearchInv, ReportsKept
<1>3. /\ reports' \in Seq(Nat) /\ Len(reports') \in 1..Window
      /\ Extends(reports', reports, n) /\ Extends(percents', percents, Percent(n))
      /\ Len(percents) = Len(reports) /\ Len(reports) \in 1..Window
  BY <1>1, <1>2, GenerationReported DEF SearchInv, ReportsKept
<1>4. reports'[Len(reports')] = n /\ percents'[Len(percents')] = Percent(n)
  BY <1>3, LastReport
<1>5. get_stopping_conditions(config)' = get_stopping_conditions(config)
  BY <1>1 DEF get_stopping_conditions
<1>6. /\ DOMAIN conditions' = DOMAIN conditions
      /\ conditions'.plateau = IF "plateau" \in get_stopping_conditions(config)
                               THEN CoveragePlateau(conditions.plateau, n) ELSE conditions.plateau
      /\ conditions'.minimum = IF "minimum" \in get_stopping_conditions(config)
                               THEN MinimumCoveragePlateau(conditions.minimum, n) ELSE conditions.minimum
  BY <1>1, GenerationObserved DEF SearchInv
<1>7. ReportsKept'
  BY <1>1, <1>2, <1>3 DEF ReportsKept
<1>8. /\ conditions.plateau \in [previous : Nat, unchanged : Nat]
      /\ conditions.minimum \in [last : Nat, iterations : Nat]
      /\ DOMAIN conditions = DOMAIN before_search_start(0)
  BY DEF SearchInv, ObservedFields
<1>9. ObservedFields'
  <2>1. \A k \in Nat : Capped(k) \in Nat
    BY <1>2 DEF Capped
  <2>2. conditions'.plateau \in [previous : Nat, unchanged : Nat]
    BY <1>2, <1>6, <1>8, <2>1 DEF CoveragePlateau
  <2>3. conditions'.minimum \in [last : Nat, iterations : Nat]
    BY <1>2, <1>6, <1>8, <2>1, PercentOf DEF MinimumCoveragePlateau
  <2>4. DOMAIN before_search_start(0)' = DOMAIN before_search_start(0)
    BY DEF before_search_start
  <2> QED BY <1>6, <1>8, <2>2, <2>3, <2>4 DEF ObservedFields
<1>10. PlateauCounted'
  <2> SUFFICES ASSUME "plateau" \in get_stopping_conditions(config), config.algorithm # "random_suite"
               PROVE  /\ conditions'.plateau.previous = n
                      /\ Counted(reports', conditions'.plateau.unchanged)
    <3>1. n <= n
      BY <1>2
    <3> QED BY <1>1, <1>4, <1>5, <3>1, Zenon DEF PlateauCounted, Counted
  <2> DEFINE p == conditions.plateau
  <2>1. p.previous = reports[Len(reports)] /\ p.previous <= achieved /\ Counted(reports, p.unchanged)
    BY DEF SearchInv, PlateauCounted
  <2>2. n >= achieved
    BY <1>1, <1>2 DEF Reachable
  <2>3. conditions'.plateau = CoveragePlateau(p, n) /\ p \in [previous : Nat, unchanged : Nat]
    BY <1>6, <1>8
  <2>4. /\ conditions'.plateau.previous = n
        /\ conditions'.plateau.unchanged = IF n = reports[Len(reports)] THEN Capped(p.unchanged + 1) ELSE 0
    <3>1. CASE n > p.previous
      <4>1. conditions'.plateau = [previous |-> n, unchanged |-> 0]
        BY <2>3, <3>1 DEF CoveragePlateau
      <4> QED BY <1>2, <2>1, <2>3, <3>1, <4>1
    <3>2. CASE n = p.previous
      <4>1. conditions'.plateau = [p EXCEPT !.unchanged = Capped(@ + 1)]
        BY <1>2, <2>3, <3>2 DEF CoveragePlateau
      <4> QED BY <2>1, <2>3, <3>2, <4>1
    <3> QED BY <1>2, <2>1, <2>2, <2>3, <3>1, <3>2
  <2> QED BY <1>3, <2>1, <2>4, CountedNext
<1>11. MinimumCounted'
  <2> SUFFICES ASSUME "minimum" \in get_stopping_conditions(config)
               PROVE  /\ conditions'.minimum.last = Percent(n)
                      /\ Counted(percents', conditions'.minimum.iterations)
    BY <1>1, <1>4, <1>5 DEF MinimumCounted, Counted
  <2> DEFINE m == conditions.minimum
  <2>1. m.last = percents[Len(percents)] /\ Counted(percents, m.iterations)
    BY DEF SearchInv, MinimumCounted
  <2>2. conditions'.minimum = MinimumCoveragePlateau(m, n) /\ m \in [last : Nat, iterations : Nat]
    BY <1>6, <1>8
  <2>3. /\ conditions'.minimum.last = Percent(n)
        /\ conditions'.minimum.iterations = IF Percent(n) = percents[Len(percents)] THEN Capped(m.iterations + 1) ELSE 0
    <3>1. CASE m.last = Percent(n)
      <4>1. conditions'.minimum = [m EXCEPT !.iterations = Capped(@ + 1)]
        BY <2>2, <3>1 DEF MinimumCoveragePlateau
      <4> QED BY <2>1, <2>2, <3>1, <4>1
    <3>2. CASE m.last # Percent(n)
      <4>1. conditions'.minimum = [last |-> Percent(n), iterations |-> 0]
        BY <2>2, <3>2 DEF MinimumCoveragePlateau
      <4> QED BY <2>1, <3>2, <4>1
    <3> QED BY <3>1, <3>2
  <2> QED BY <1>3, <2>1, <2>3, CountedNext
<1>12. StallCounted'
  <2>1. clock \in 0..Cap /\ clock' \in 0..Cap /\ clock' >= clock
    BY <1>1, <1>2 DEF SearchInv, StallCounted, Capped
  <2>2. \A d : StallTimed(d)' <=> StallTimed(d)
    BY <1>1 DEF StallTimed, Doubling
  <2> QED BY <1>1, <2>1, <2>2 DEF SearchInv, StallCounted
<1> QED BY <1>7, <1>9, <1>10, <1>11, <1>12 DEF SearchInv

LEMMA WatchKeeps ==
    ASSUME SearchInv, NEW t \in Ticks, Watch(t)
    PROVE  SearchInv'
<1> DEFINE w == Watched(stall)
<1>1. /\ config' = config /\ reports' = reports /\ achieved' = achieved /\ conditions' = conditions
      /\ pc = "search" /\ pc' = "evolve" /\ config.algorithm = "llm" /\ turns' = Capped(turns + 1)
      /\ clock' = IF Stalled(w) /\ MayAsk THEN Capped(clock + t) ELSE clock
      /\ stall' = IF Stalled(w) THEN Asked(w, clock') ELSE w
  BY DEF Watch
<1>2. /\ t \in Nat /\ Cap \in Nat /\ config \in Configurations /\ turns \in 0..Cap /\ clock \in 0..Cap /\ achieved \in Nat
      /\ stall \in [plateau_counter : Nat, max_plateau_len : Nat, last_covered : Nat, last_gain : Nat, queries : Nat]
      /\ stall.last_gain <= clock
  BY SearchAssumption DEF SearchInv, ReportsKept, StallCounted
<1>3. clock' \in 0..Cap /\ clock' >= clock /\ turns' \in 0..Cap /\ (turns' < Cap => turns < Cap /\ turns' = turns + 1)
  BY <1>1, <1>2 DEF Capped
<1>4. ReportsKept' /\ ObservedFields' /\ PlateauCounted' /\ MinimumCounted'
  <2>1. percents' = percents /\ get_stopping_conditions(config)' = get_stopping_conditions(config)
    BY <1>1 DEF percents, get_stopping_conditions, Percent
  <2> QED BY <1>1, <2>1 DEF SearchInv, ReportsKept, ObservedFields, PlateauCounted, MinimumCounted, Counted, before_search_start
<1>5. /\ w.queries = stall.queries /\ w.max_plateau_len = stall.max_plateau_len
      /\ w.plateau_counter \in 0..stall.plateau_counter + 1 /\ w.plateau_counter <= Cap
      /\ w.last_gain \in stall.last_gain..clock
      /\ w \in [plateau_counter : Nat, max_plateau_len : Nat, last_covered : Nat, last_gain : Nat, queries : Nat]
  <2>1. PICK c \in Nat : c = stall.plateau_counter
    BY <1>2
  <2>2. Capped(c + 1) \in 0..c + 1 /\ Capped(c + 1) <= Cap
    BY <1>2, <2>1 DEF Capped
  <2>3. CASE achieved # stall.last_covered
    <3>1. w = [stall EXCEPT !.plateau_counter = 0, !.last_gain = clock, !.last_covered = achieved]
      BY <2>3 DEF Watched
    <3>2. w = [plateau_counter |-> 0, max_plateau_len |-> stall.max_plateau_len, last_covered |-> achieved,
               last_gain |-> clock, queries |-> stall.queries]
      BY <1>2, <3>1
    <3> HIDE DEF w
    <3> QED BY <1>2, <2>1, <3>2
  <2>4. CASE achieved = stall.last_covered
    <3>1. w = [stall EXCEPT !.plateau_counter = Capped(c + 1)]
      BY <2>1, <2>4 DEF Watched
    <3> HIDE DEF w
    <3> QED BY <1>2, <2>1, <2>2, <3>1
  <2> QED BY <2>3, <2>4
<1>6. config.window \in Int /\ config.max_plateau_len \in Nat
  BY <1>2, SettingsRead
<1>7. CASE ~Stalled(w)
  <2>1. stall' = w /\ clock' = clock
    BY <1>1, <1>7
  <2> HIDE DEF w
  <2>2. ASSUME config.window > 0 PROVE config.window * stall'.queries <= stall'.last_gain
    <3>1. PICK b \in Int : b = config.window * stall.queries /\ b <= stall.last_gain
      BY <1>1, <1>2, <1>6, <2>2 DEF SearchInv, StallCounted
    <3>2. stall'.queries = stall.queries /\ stall'.last_gain \in Nat /\ stall'.last_gain >= stall.last_gain /\ stall.last_gain \in Nat
      BY <1>2, <1>5, <2>1
    <3> QED BY <3>1, <3>2
  <2>3. ASSUME config.window <= 0, turns' < Cap PROVE \E d \in 0..Cap : StallTimed(d)'
    <3>1. PICK d \in 0..Cap : StallTimed(d)
      BY <1>1, <1>3, <2>3 DEF SearchInv, StallCounted
    <3>2. Doubling(config.max_plateau_len)' = Doubling(config.max_plateau_len)
      BY <1>1 DEF Doubling
    <3>3. Doubling(config.max_plateau_len)[d] \in Nat
      BY <1>6, Doublings
    <3>4. StallTimed(d)'
      BY <1>1, <1>2, <1>3, <1>5, <2>1, <2>3, <3>1, <3>2, <3>3 DEF StallTimed
    <3> QED BY <3>4
  <2>4. StallCounted'
    BY <1>1, <1>2, <1>3, <1>5, <2>1, <2>2, <2>3 DEF StallCounted
  <2> QED BY <1>4, <2>4 DEF SearchInv
<1>8. CASE Stalled(w)
  <2>1. stall' = Asked(w, clock')
    BY <1>1, <1>8
  <2>2. /\ stall'.plateau_counter = 0 /\ stall'.last_gain = clock'
        /\ stall'.queries \in {stall.queries, stall.queries + 1}
        /\ stall'.max_plateau_len = IF config.window > 0 THEN stall.max_plateau_len ELSE Capped(2 * stall.max_plateau_len)
        /\ stall' \in [plateau_counter : Nat, max_plateau_len : Nat, last_covered : Nat, last_gain : Nat, queries : Nat]
    <3>1. Capped(2 * w.max_plateau_len) \in Nat /\ w.queries + 1 \in Nat
      BY <1>2, <1>5 DEF Capped
    <3>2. stall' = [w EXCEPT !.plateau_counter = 0, !.last_gain = clock', !.queries = IF MayAsk THEN @ + 1 ELSE @,
                             !.max_plateau_len = IF config.window > 0 THEN @ ELSE Capped(2 * @)]
      BY <2>1 DEF Asked
    <3> HIDE DEF w
    <3>3. stall' = [plateau_counter |-> 0, last_covered |-> w.last_covered, last_gain |-> clock',
                    max_plateau_len |-> IF config.window > 0 THEN w.max_plateau_len ELSE Capped(2 * w.max_plateau_len),
                    queries |-> IF MayAsk THEN w.queries + 1 ELSE w.queries]
      BY <1>5, <3>2
    <3> QED BY <1>3, <1>5, <3>1, <3>3
  <2>3. ASSUME config.window > 0 PROVE config.window * stall'.queries <= stall'.last_gain
    <3>1. PICK q \in Nat : q = stall.queries
      BY <1>2
    <3>2. PICK win \in Int : win = config.window
      BY <1>6
    <3>3. win * q <= stall.last_gain
      BY <1>1, <2>3, <3>1, <3>2 DEF SearchInv, StallCounted
    <3>4. clock - w.last_gain >= win
      BY <1>8, <2>3, <3>2 DEF Stalled
    <3>5. win * (q + 1) = win * q + win /\ win * q \in Int
      BY <3>1, <3>2
    <3>6. PICK g \in Nat : g = w.last_gain /\ g >= stall.last_gain /\ stall.last_gain \in Nat
      BY <1>2, <1>5
    <3>7. win * q <= clock' /\ win * q + win <= clock'
      BY <1>2, <1>3, <2>3, <3>2, <3>3, <3>4, <3>5, <3>6
    <3> QED BY <2>2, <3>1, <3>2, <3>5, <3>7
  <2>4. ASSUME config.window <= 0, turns' < Cap PROVE \E d \in 0..Cap : StallTimed(d)'
    <3> DEFINE D == Doubling(config.max_plateau_len)
               m == config.max_plateau_len
    <3>1. PICK d \in 0..Cap : StallTimed(d)
      BY <1>1, <1>3, <2>4 DEF SearchInv, StallCounted
    <3>2. (\A k \in 1..Cap : D[k] = 2 * D[k - 1] + m) /\ \A k \in 0..Cap : D[k] \in Nat
      BY <1>6, Doublings
    <3>3. D' = D /\ m' = m
      BY <1>1 DEF Doubling
    <3> HIDE DEF D, m
    <3>4. /\ stall.queries <= d /\ D[stall.queries] <= D[d]
          /\ stall.max_plateau_len = D[d] + m \/ (stall.max_plateau_len >= Cap /\ D[d] + m >= Cap)
          /\ D[d] + d + stall.plateau_counter <= turns
      BY <3>1 DEF StallTimed, D, m
    <3>5. PICK q \in Nat, P \in Nat, c \in Nat : q = stall.queries /\ P = stall.max_plateau_len /\ c = stall.plateau_counter
      BY <1>2
    <3>6. PICK a \in Nat, b \in Nat : a = D[d] /\ b = D[q] /\ m \in Nat
      BY <1>2, <1>6, <3>2, <3>4, <3>5 DEF m
    <3>7. w.plateau_counter > P /\ w.plateau_counter \in 0..c + 1 /\ w.plateau_counter <= Cap
      BY <1>5, <1>8, <2>4, <1>6, <3>5 DEF Stalled
    <3>8. P = a + m /\ P <= c
      BY <1>2, <3>4, <3>5, <3>6, <3>7
    <3>9. a + d + c <= turns
      BY <3>4, <3>5, <3>6
    <3>10. (2 * a + m) + (d + 1) <= turns' /\ d + 1 \in 1..Cap
      BY <1>2, <1>3, <2>4, <3>6, <3>8, <3>9
    <3>11. D[d + 1] = 2 * a + m
      BY <3>2, <3>6, <3>10
    <3>12. D[q + 1] = 2 * b + m
      <4>1. q + 1 \in 1..Cap /\ (q + 1) - 1 = q
        BY <1>2, <3>4, <3>5, <3>10
      <4>2. D[q + 1] = 2 * D[(q + 1) - 1] + m
        BY <3>2, <4>1
      <4> QED BY <3>6, <4>1, <4>2
    <3>13. stall'.queries <= d + 1 /\ D[stall'.queries] <= D[d + 1]
      <4>1. b <= a /\ q <= d
        BY <3>4, <3>5, <3>6
      <4>2. CASE stall'.queries = q
        BY <3>6, <3>11, <4>1, <4>2
      <4>3. CASE stall'.queries = q + 1
        BY <3>6, <3>11, <3>12, <4>1, <4>3
      <4> QED BY <2>2, <3>5, <4>2, <4>3
    <3>14. stall'.max_plateau_len = Capped(2 * P)
      BY <1>6, <2>2, <2>4, <3>5
    <3>15. stall'.max_plateau_len = D[d + 1] + m \/ (stall'.max_plateau_len >= Cap /\ D[d + 1] + m >= Cap)
      BY <1>2, <3>6, <3>8, <3>11, <3>14 DEF Capped
    <3>16. D[d + 1] + (d + 1) + stall'.plateau_counter <= turns'
      BY <2>2, <3>6, <3>10, <3>11
    <3>17. StallTimed(d + 1)'
      <4>1. Doubling(config.max_plateau_len)' = D /\ config.max_plateau_len' = m
        BY <1>1, <3>3 DEF D, m
      <4> QED BY <3>13, <3>15, <3>16, <4>1 DEF StallTimed
    <3> QED BY <3>10, <3>17
  <2>5. StallCounted'
    BY <1>1, <1>2, <1>3, <2>2, <2>3, <2>4 DEF StallCounted
  <2> QED BY <1>4, <2>5 DEF SearchInv
<1> QED BY <1>7, <1>8

LEMMA SearchInvariant == SearchSpec => []SearchInv
<1> USE DEF searchVars
<1>1. SearchInit => SearchInv
  BY SearchInitially
<1>2. SearchInv /\ [SearchNext]_searchVars => SearchInv'
  <2> SUFFICES ASSUME SearchInv, [SearchNext]_searchVars PROVE SearchInv'
    OBVIOUS
  <2>1. ASSUME /\ config' = config /\ reports' = reports /\ achieved' = achieved /\ conditions' = conditions
               /\ stall' = stall /\ turns' = turns /\ clock' = clock
               /\ pc' = pc \/ (pc = "configured" /\ pc' = "refused") \/ (pc = "search" /\ pc' \in {"evolve", "finished"})
        PROVE  SearchInv'
    <3>1. percents' = percents /\ get_stopping_conditions(config)' = get_stopping_conditions(config)
      BY <2>1 DEF percents, get_stopping_conditions, Percent
    <3>2. ReportsKept' /\ ObservedFields' /\ PlateauCounted' /\ MinimumCounted'
      BY <2>1, <3>1 DEF SearchInv, ReportsKept, ObservedFields, PlateauCounted, MinimumCounted, Counted, before_search_start
    <3>3. \A d : StallTimed(d)' <=> StallTimed(d)
      BY <2>1 DEF StallTimed, Doubling
    <3>4. StallCounted'
      BY <2>1, <3>3 DEF SearchInv, StallCounted
    <3> QED BY <3>2, <3>4 DEF SearchInv
  <2>2. CASE Refuse \/ Continue \/ EndSearch \/ UNCHANGED searchVars
    BY <2>1, <2>2 DEF Refuse, Continue, EndSearch
  <2>3. CASE \E e \in Executions, n \in 0..NumGoals, t \in Ticks : Begin(e, n, t)
    BY <2>3, BeginKeeps
  <2>4. CASE \E t \in Ticks : Watch(t)
    BY <2>4, WatchKeeps
  <2>5. CASE \E e \in Executions, n \in 0..NumGoals, t \in Ticks, u \in Usages : Generation(e, n, t, u)
    BY <2>5, GenerationKeeps
  <2> QED BY <2>2, <2>3, <2>4, <2>5 DEF SearchNext
<1> QED BY <1>1, <1>2, PTL DEF SearchSpec

\* Whatever a generation executes, gains and takes: a plateau is noticed when the coverage
\* has been flat for as long as was asked for, and the model is asked so rarely that each
\* plateau is twice as long as the one before (stoppingcondition.py, llmosalgorithm.py).
THEOREM CountersAreRight == SearchSpec => []CountersTellTheTruth
<1>1. SearchInv => CountersTellTheTruth
  <2> SUFFICES ASSUME SearchInv PROVE PlateauIsNoticed /\ QueriesThinOut
    BY DEF CountersTellTheTruth
  <2>1. config \in Configurations
    BY DEF SearchInv, ReportsKept
  <2>2. ASSUME "plateau" \in get_stopping_conditions(config), config.algorithm # "random_suite"
        PROVE  is_fulfilled("plateau") <=> Flat(reports, config.plateau)
    <3>1. is_fulfilled("plateau") <=> conditions.plateau.unchanged >= config.plateau
      BY DEF is_fulfilled, LongPlateau
    <3> QED BY <2>1, <2>2, <3>1, SettingsRead DEF SearchInv, PlateauCounted, Counted
  <2>3. ASSUME "minimum" \in get_stopping_conditions(config)
        PROVE  is_fulfilled("minimum") <=>
                 Flat(percents, config.minimum_plateau) /\ percents[Len(percents)] >= config.minimum
    <3>1. is_fulfilled("minimum") <=> /\ conditions.minimum.iterations >= config.minimum_plateau
                                      /\ conditions.minimum.last >= config.minimum
      BY DEF is_fulfilled, LongPlateauAboveMinimum
    <3> QED BY <2>1, <2>3, <3>1, SettingsRead DEF SearchInv, MinimumCounted, Counted
  <2>4. QueriesThinOut
    <3> SUFFICES ASSUME config.algorithm = "llm"
                 PROVE  /\ config.window <= 0 /\ turns < Cap =>
                             Doubling(config.max_plateau_len)[stall.queries] + stall.queries <= turns
                        /\ config.window > 0 => config.window * stall.queries <= clock
      BY DEF QueriesThinOut
    <3> DEFINE D == Doubling(config.max_plateau_len)
    <3>1. /\ turns \in 0..Cap /\ Cap \in Nat /\ config.max_plateau_len \in Nat /\ config.window \in Int
          /\ stall.queries \in Nat /\ stall.plateau_counter \in Nat
          /\ stall.last_gain \in Nat /\ stall.last_gain <= clock /\ clock \in 0..Cap
          /\ pc \in {"configured", "refused", "search", "evolve", "finished"}
      BY <2>1, SettingsRead, SearchAssumption DEF SearchInv, ReportsKept, StallCounted
    <3>2. D[0] = 0 /\ \A k \in 0..Cap : D[k] \in Nat
      BY <3>1, Doublings
    <3> HIDE DEF D
    <3>3. ASSUME config.window <= 0, turns < Cap PROVE D[stall.queries] + stall.queries <= turns
      <4>1. CASE pc \in {"configured", "refused"}
        BY <3>2, <4>1 DEF SearchInv, StallCounted
      <4>2. CASE pc \in {"search", "evolve", "finished"}
        <5>1. PICK d \in 0..Cap : StallTimed(d)
          BY <3>3, <4>2 DEF SearchInv, StallCounted
        <5>2. PICK q \in Nat, c \in Nat : q = stall.queries /\ c = stall.plateau_counter
          BY <3>1
        <5>3. q <= d /\ D[q] <= D[d] /\ D[d] + d + c <= turns
          BY <5>1, <5>2 DEF StallTimed, D
        <5>4. q \in 0..Cap
          BY <3>1, <5>3
        <5>5. PICK a \in Nat, b \in Nat : a = D[d] /\ b = D[q]
          BY <3>2, <5>4
        <5>6. b + q <= turns
          BY <3>1, <5>3, <5>5
        <5> QED BY <5>2, <5>5, <5>6
      <4> QED BY <3>1, <4>1, <4>2
    <3>4. ASSUME config.window > 0 PROVE config.window * stall.queries <= clock
      <4>1. PICK b \in Int : b = config.window * stall.queries /\ b <= stall.last_gain
        BY <3>1, <3>4 DEF SearchInv, StallCounted
      <4> QED BY <3>1, <4>1
    <3> QED BY <3>3, <3>4 DEF D
  <2> QED BY <2>2, <2>3, <2>4 DEF PlateauIsNoticed
<1> QED BY <1>1, SearchInvariant, PTL

--------------------------------------------------------------------------------
(* Products                                                                 *)

LEMMA Products ==
    ASSUME NEW a \in Int, NEW b \in Int, NEW c \in Nat, a <= b
    PROVE  a * c <= b * c /\ c * a <= c * b /\ a * c \in Int /\ b * c \in Int
<1>1. (b - a) * c >= 0
  OBVIOUS
<1>2. (b - a) * c = b * c - a * c /\ a * c = c * a /\ b * c = c * b
  OBVIOUS
<1>3. a * c \in Int /\ b * c \in Int
  OBVIOUS
<1> QED BY <1>1, <1>2, <1>3

LEMMA Factors ==
    ASSUME NEW a \in Int, NEW b \in Int, NEW c \in Int
    PROVE  /\ a * b \in Int /\ a * b = b * a
           /\ (2 * a) * b = 2 * (a * b) /\ a * (2 * b) = 2 * (a * b)
           /\ a * (b - c) = a * b - a * c /\ a * (b + c) = a * b + a * c
           /\ (a * b) * c = a * (b * c)
           /\ a >= 0 /\ b >= 0 => a * b >= 0
OBVIOUS

\* The area between two heights up to m
LEMMA Trapezoid ==
    ASSUME NEW v \in Nat, NEW w \in Nat, NEW t \in Nat, NEW u \in Nat, NEW m \in Nat, t <= u, v <= m, w <= m
    PROVE  (v + w) * (u - t) \in Nat /\ (v + w) * (u - t) <= 2 * (m * u) - 2 * (m * t)
<1>1. PICK d \in Nat : d = u - t
  <2>1. u - t \in Nat
    OBVIOUS
  <2> QED BY <2>1
<1>2. PICK k \in Nat : k = v + w /\ k <= 2 * m
  <2>1. v + w \in Nat /\ v + w <= 2 * m
    OBVIOUS
  <2> QED BY <2>1
<1>3. 2 * m \in Int /\ k * d <= (2 * m) * d
  BY <1>2, Products
<1>4. k * d \in Nat
  BY Factors
<1>5. (2 * m) * d = 2 * (m * d)
  BY Factors
<1>6. m * d = m * u - m * t /\ m * u \in Int /\ m * t \in Int
  BY <1>1, Factors
<1>7. k * d <= 2 * (m * u) - 2 * (m * t)
  BY <1>3, <1>4, <1>5, <1>6
<1> QED BY <1>1, <1>2, <1>4, <1>7

--------------------------------------------------------------------------------
(* The statistics                                                           *)

\* What has been observed, each value later than the one before it
ValuesObserved ==
  /\ instant \in Nat /\ start_time \in 0..instant
  /\ time_stamps \in Seq(Nat) /\ values \in Seq(Values) /\ Len(values) = Len(time_stamps)
  /\ \A i \in 1..Len(time_stamps) :
       /\ time_stamps[i] + start_time <= instant
       /\ time_stamps[i] >= 1 /\ time_stamps[i] >= 2 * maximum_search_time
  /\ \A i \in 2..Len(time_stamps) : time_stamps[i - 1] < time_stamps[i]

\* v is the last value of n among the first i in the queue q, or the old one.
LastOf(n, v, q, i, old) ==
  \/ \E k \in 1..i : q[k].name = n /\ v = q[k].value /\ \A j \in k + 1..i : q[j].name # n
  \/ v = old[n] /\ \A j \in 1..i : q[j].name # n
Collected == [Names -> Values \cup {Nothing}]
TrackedKept ==
  /\ queue \in Seq([name : Names, value : Values])
  /\ output_variables \in Collected /\ told \in Collected
  /\ \A n \in Names : LastOf(n, told[n], queue, Len(queue), output_variables)

WrittenAtTheEnd ==
  \/ written = <<>>
  \/ /\ written = <<_get_output_variables>> /\ queue = <<>> /\ time_stamps # <<>>
     /\ "Timeline" \in OutputVariables => maximum_search_time >= 0

TimelineInv == ValuesObserved /\ TrackedKept /\ WrittenAtTheEnd

\* Collecting the variables in the order they were tracked in leaves the last values.
LEMMA LastCollected ==
    ASSUME TrackedKept
    PROVE  variables_generator \in Collected /\ \A n \in Names : variables_generator[n] = told[n]
<1>1. PICK len \in Nat : len = Len(queue)
  BY DEF TrackedKept
<1> DEFINE Next(f) == [i \in 0..len |-> IF i = 0 THEN output_variables ELSE set_output_variable(f[i - 1], queue[i])]
           Taken == CHOOSE f : f = Next(f)
           step == [p \in (1..len) \X Collected |-> set_output_variable(p[2], queue[p[1]])]
<1>2. variables_generator = Taken[len]
  BY <1>1 DEF variables_generator
<1>3. \A k \in 1..len : queue[k].name \in Names /\ queue[k].value \in Values
  <2> DEFINE Variables == [name : Names, value : Values]
  <2>1. queue \in Seq(Variables)
    BY DEF TrackedKept
  <2> HIDE DEF Variables
  <2>2. \A k \in 1..len : queue[k] \in Variables
    BY <1>1, <2>1
  <2> QED BY <2>2 DEF Variables
<1>4. \A k \in 1..len : \A f \in Collected : set_output_variable(f, queue[k]) \in Collected
  <2> TAKE k \in 1..len
  <2> TAKE f \in Collected
  <2> QED BY <1>3 DEF set_output_variable, Collected
<1>5. \E f : f = Next(f)
  <2>1. \A k \in 1..len, f \in Collected : step[<<k, f>>] = set_output_variable(f, queue[k])
    OBVIOUS
  <2> HIDE DEF step
  <2>2. \A k \in 1..len : \A f \in Collected : step[<<k, f>>] \in Collected
    BY <1>4, <2>1
  <2>3. output_variables \in Collected
    BY DEF TrackedKept
  <2>4. PICK f : Recursive(f, len, Collected, output_variables, step)
    BY <2>2, <2>3, Recursion
  <2>5. f \in [0..len -> Collected] /\ f[0] = output_variables /\ \A k \in 1..len : f[k] = step[<<k, f[k - 1]>>]
    BY <2>4 DEF Recursive
  <2>6. \A k \in 1..len : f[k] = set_output_variable(f[k - 1], queue[k])
    <3> TAKE k \in 1..len
    <3>1. k - 1 \in 0..len
      OBVIOUS
    <3>2. f[k - 1] \in Collected
      BY <2>5, <3>1
    <3> QED BY <2>1, <2>5, <3>2
  <2>7. \A k \in 0..len : f[k] = IF k = 0 THEN output_variables ELSE set_output_variable(f[k - 1], queue[k])
    BY <2>5, <2>6
  <2>8. f = [k \in 0..len |-> f[k]]
    BY <2>5
  <2>9. f = Next(f)
    BY <2>7, <2>8
  <2> QED BY <2>9
<1>6. Taken = Next(Taken)
  <2> HIDE DEF Next
  <2> QED BY <1>5
<1> HIDE DEF Taken
<1>7. Taken[0] = output_variables /\ \A k \in 1..len : Taken[k] = set_output_variable(Taken[k - 1], queue[k])
  <2>1. \A k \in 0..len : Taken[k] = IF k = 0 THEN output_variables ELSE set_output_variable(Taken[k - 1], queue[k])
    BY <1>6
  <2>2. \A k \in 1..len : k \in 0..len /\ k # 0
    OBVIOUS
  <2> QED BY <2>1, <2>2
<1> DEFINE T == {i \in 0..len : Taken[i] \in Collected /\ \A n \in Names : LastOf(n, Taken[i][n], queue, i, output_variables)}
<1>8. 0 \in T
  <2>1. \A n \in Names : LastOf(n, output_variables[n], queue, 0, output_variables)
    BY DEF LastOf
  <2> QED BY <1>7, <2>1 DEF TrackedKept
<1>9. ASSUME NEW i \in 1..len, i - 1 \in T PROVE i \in T
  <2> DEFINE f == Taken[i - 1]
             g == Taken[i]
  <2>1. f \in Collected /\ \A n \in Names : LastOf(n, f[n], queue, i - 1, output_variables)
    BY <1>9
  <2>2. g = [f EXCEPT ![queue[i].name] = queue[i].value]
    BY <1>7 DEF set_output_variable
  <2> HIDE DEF f, g
  <2>3. g \in Collected /\ g[queue[i].name] = queue[i].value /\ \A n \in Names : n # queue[i].name => g[n] = f[n]
    BY <1>3, <2>1, <2>2 DEF Collected
  <2>4. ASSUME NEW n \in Names PROVE LastOf(n, g[n], queue, i, output_variables)
    <3>1. CASE n = queue[i].name
      <4>1. i \in 1..i /\ \A j \in i + 1..i : FALSE
        OBVIOUS
      <4> QED BY <2>3, <3>1, <4>1 DEF LastOf
    <3>2. CASE n # queue[i].name
      <4>1. LastOf(n, f[n], queue, i - 1, output_variables) /\ g[n] = f[n]
        BY <2>1, <2>3, <3>2
      <4>2. \A j \in 1..i : j = i \/ j \in 1..i - 1
        OBVIOUS
      <4>3. CASE \E k \in 1..i - 1 : queue[k].name = n /\ f[n] = queue[k].value /\ \A j \in k + 1..i - 1 : queue[j].name # n
        <5>1. PICK k \in 1..i - 1 : queue[k].name = n /\ f[n] = queue[k].value /\ \A j \in k + 1..i - 1 : queue[j].name # n
          BY <4>3
        <5>2. k \in 1..i /\ \A j \in k + 1..i : j = i \/ j \in k + 1..i - 1
          OBVIOUS
        <5>3. \A j \in k + 1..i : queue[j].name # n
          BY <3>2, <5>1, <5>2
        <5> QED BY <4>1, <5>1, <5>2, <5>3 DEF LastOf
      <4>4. CASE f[n] = output_variables[n] /\ \A j \in 1..i - 1 : queue[j].name # n
        BY <3>2, <4>1, <4>2, <4>4 DEF LastOf
      <4> QED BY <4>1, <4>3, <4>4 DEF LastOf
    <3> QED BY <3>1, <3>2
  <2> QED BY <2>3, <2>4 DEF g
<1>10. len \in T
  <2> HIDE DEF T
  <2>1. \A i \in 0..len : i \in T
    BY <1>8, <1>9, UpTo
  <2> QED BY <2>1
<1>11. ASSUME NEW n \in Names PROVE Taken[len][n] = told[n]
  <2>1. LastOf(n, Taken[len][n], queue, len, output_variables) /\ LastOf(n, told[n], queue, len, output_variables)
    BY <1>1, <1>10 DEF TrackedKept
  <2>2. ASSUME NEW k \in 1..len, NEW l \in 1..len, queue[k].name = n, queue[l].name = n,
               \A j \in k + 1..len : queue[j].name # n, \A j \in l + 1..len : queue[j].name # n
        PROVE  k = l
    <3>1. ~ (k \in l + 1..len) /\ ~ (l \in k + 1..len)
      BY <2>2
    <3> QED BY <3>1
  <2> QED BY <2>1, <2>2 DEF LastOf
<1> QED BY <1>2, <1>10, <1>11

\* Tracking one more variable leaves the last values of the others.
LEMMA TrackKeeps ==
    ASSUME TrackedKept, NEW n \in Names, NEW v \in Values, track_output_variable(n, v)
    PROVE  TrackedKept'
<1> DEFINE one == [name |-> n, value |-> v]
           Variables == [name : Names, value : Values]
<1>1. PICK len \in Nat : len = Len(queue)
  BY DEF TrackedKept
<1>2. queue' = Append(queue, one) /\ told' = [told EXCEPT ![n] = v] /\ output_variables' = output_variables
  BY DEF track_output_variable
<1>3. one \in Variables /\ one.name = n /\ one.value = v /\ queue \in Seq(Variables)
  BY DEF TrackedKept
<1> HIDE DEF one, Variables
<1>4. /\ queue' \in Seq(Variables) /\ Len(queue') = len + 1
      /\ queue'[len + 1] = one /\ \A i \in 1..len : queue'[i] = queue[i]
  BY <1>1, <1>2, <1>3
<1>5. told \in Collected /\ output_variables \in Collected
  BY DEF TrackedKept
<1>6. told' \in Collected /\ told'[n] = v /\ \A m \in Names : m # n => told'[m] = told[m]
  BY <1>2, <1>5 DEF Collected
<1>7. ASSUME NEW m \in Names PROVE LastOf(m, told'[m], queue', len + 1, output_variables)
  <2>1. CASE m = n
    <3>1. len + 1 \in 1..len + 1 /\ (len + 1) + 1..len + 1 = {}
      OBVIOUS
    <3> QED BY <1>3, <1>4, <1>6, <2>1, <3>1 DEF LastOf
  <2>2. CASE m # n
    <3>1. LastOf(m, told[m], queue, len, output_variables) /\ told'[m] = told[m]
      BY <1>1, <1>6, <2>2 DEF TrackedKept
    <3>2. \A j \in 1..len + 1 : j = len + 1 \/ j \in 1..len
      OBVIOUS
    <3>3. queue'[len + 1].name # m
      BY <1>3, <1>4, <2>2
    <3>4. CASE \E k \in 1..len : queue[k].name = m /\ told[m] = queue[k].value /\ \A j \in k + 1..len : queue[j].name # m
      <4>1. PICK k \in 1..len : queue[k].name = m /\ told[m] = queue[k].value /\ \A j \in k + 1..len : queue[j].name # m
        BY <3>4
      <4>2. k \in 1..len + 1 /\ \A j \in k + 1..len + 1 : j = len + 1 \/ (j \in k + 1..len /\ j \in 1..len)
        OBVIOUS
      <4>3. \A j \in k + 1..len + 1 : queue'[j].name # m
        BY <1>4, <3>3, <4>1, <4>2
      <4>4. queue'[k] = queue[k]
        BY <1>4
      <4> QED BY <3>1, <4>1, <4>2, <4>3, <4>4 DEF LastOf
    <3>5. CASE told[m] = output_variables[m] /\ \A j \in 1..len : queue[j].name # m
      <4>1. \A j \in 1..len + 1 : queue'[j].name # m
        BY <1>4, <3>2, <3>3, <3>5
      <4> QED BY <3>1, <3>5, <4>1 DEF LastOf
    <3> QED BY <3>1, <3>4, <3>5 DEF LastOf
  <2> QED BY <2>1, <2>2
<1>8. queue' \in Seq([name : Names, value : Values])
  BY <1>4 DEF Variables
<1> QED BY <1>2, <1>4, <1>5, <1>6, <1>7, <1>8 DEF TrackedKept, Collected

LEMMA TimelineInitially == TimelineInit => TimelineInv
<1> SUFFICES ASSUME TimelineInit PROVE TimelineInv
  OBVIOUS
<1>1. ValuesObserved
  BY DEF TimelineInit, ValuesObserved
<1>2. TrackedKept
  BY DEF TimelineInit, TrackedKept, Collected, LastOf
<1> QED BY <1>1, <1>2 DEF TimelineInit, TimelineInv, WrittenAtTheEnd

LEMMA Appended ==
    ASSUME NEW S, NEW s \in Seq(S), NEW x \in S, NEW n \in Nat, n = Len(s), NEW t, t = Append(s, x)
    PROVE  t \in Seq(S) /\ Len(t) = n + 1 /\ t[n + 1] = x /\ \A i \in 1..n : t[i] = s[i]
OBVIOUS

LEMMA ObservationKeeps ==
    ASSUME ValuesObserved, NEW s \in Steps, NEW v \in Values, current_individual(s, v)
    PROVE  ValuesObserved'
<1>1. PICK n \in Nat : n = Len(time_stamps) /\ n = Len(values)
  BY DEF ValuesObserved
<1>2. s \in Nat /\ s >= 1 /\ s >= 2 * maximum_search_time /\ maximum_search_time \in Int
  BY TimelineAssumption
<1>3. instant \in Nat /\ start_time \in 0..instant /\ time_stamps \in Seq(Nat) /\ values \in Seq(Values)
  BY DEF ValuesObserved
<1>4. PICK new \in Nat : new = (instant + s) - start_time /\ new >= s /\ new + start_time = instant + s
  BY <1>2, <1>3
<1>5. /\ instant' = instant + s /\ start_time' = start_time
      /\ time_stamps' = Append(time_stamps, new) /\ values' = Append(values, v)
  BY <1>4 DEF current_individual
<1>6. /\ time_stamps' \in Seq(Nat) /\ Len(time_stamps') = n + 1 /\ time_stamps'[n + 1] = new
      /\ \A i \in 1..n : time_stamps'[i] = time_stamps[i]
      /\ values' \in Seq(Values) /\ Len(values') = n + 1
  <2> DEFINE Numbers == Nat
             x == new
  <2>1. time_stamps \in Seq(Numbers) /\ x \in Numbers /\ time_stamps' = Append(time_stamps, x) /\ n = Len(time_stamps)
    BY <1>1, <1>3, <1>4, <1>5
  <2> HIDE DEF Numbers, x
  <2>2. /\ time_stamps' \in Seq(Numbers) /\ Len(time_stamps') = n + 1
        /\ time_stamps'[n + 1] = x /\ \A i \in 1..n : time_stamps'[i] = time_stamps[i]
    BY <2>1, Appended
  <2>3. values' \in Seq(Values) /\ Len(values') = n + 1
    BY <1>1, <1>3, <1>5, Appended
  <2> QED BY <2>2, <2>3 DEF Numbers, x
<1>7. \A i \in 1..n : /\ time_stamps[i] \in Nat /\ time_stamps[i] + start_time <= instant
                      /\ time_stamps[i] >= 1 /\ time_stamps[i] >= 2 * maximum_search_time
  BY <1>1, <1>3 DEF ValuesObserved
<1>8. \A i \in 1..n + 1 : i = n + 1 \/ i \in 1..n
  OBVIOUS
<1>9. new >= 1 /\ new >= 2 * maximum_search_time
  BY <1>2, <1>4
<1>10. \A i \in 1..n + 1 : /\ time_stamps'[i] + start_time' <= instant'
                           /\ time_stamps'[i] >= 1 /\ time_stamps'[i] >= 2 * maximum_search_time
  <2> TAKE i \in 1..n + 1
  <2>1. CASE i = n + 1
    <3>1. time_stamps'[i] = new
      BY <1>6, <2>1
    <3>2. new + start_time' <= instant'
      BY <1>5, <1>2, <1>3, <1>4
    <3> QED BY <1>2, <1>4, <1>9, <3>1, <3>2
  <2>2. CASE i \in 1..n
    <3>1. time_stamps'[i] = time_stamps[i]
      BY <1>6, <2>2
    <3>2. time_stamps[i] + start_time <= instant
      BY <1>7, <2>2
    <3>3. instant <= instant'
      BY <1>5, <1>2, <1>3
    <3>4. time_stamps[i] \in Nat /\ instant' \in Nat /\ time_stamps[i] + start_time <= instant'
      BY <1>2, <1>3, <1>5, <1>7, <2>2, <3>2
    <3> QED BY <1>5, <1>7, <2>2, <3>1, <3>4
  <2> QED BY <1>8, <2>1, <2>2
<1>11. \A i \in 2..n + 1 : time_stamps'[i - 1] < time_stamps'[i]
  <2> TAKE i \in 2..n + 1
  <2>1. CASE i = n + 1
    <3>1. n \in 1..n /\ i - 1 = n
      BY <2>1
    <3>2. time_stamps[n] + start_time <= instant /\ time_stamps[n] \in Nat
      BY <1>7, <3>1
    <3>3. time_stamps[n] < new
      BY <1>5, <1>2, <1>3, <1>4, <3>2
    <3> QED BY <1>6, <2>1, <3>1, <3>3
  <2>2. CASE i \in 2..n
    <3>1. i \in 1..n /\ i - 1 \in 1..n
      BY <2>2
    <3>2. time_stamps[i - 1] < time_stamps[i]
      BY <1>1, <2>2 DEF ValuesObserved
    <3> QED BY <1>6, <3>1, <3>2
  <2> QED BY <2>1, <2>2
<1>12. instant' \in Nat /\ start_time' \in 0..instant'
  BY <1>5, <1>2, <1>3
<1> QED BY <1>12, <1>6, <1>10, <1>11 DEF ValuesObserved

LEMMA TimelineInvariant == TimelineSpec => []TimelineInv
<1> USE DEF timelineVars
<1>1. TimelineInit => TimelineInv
  BY TimelineInitially
<1>2. TimelineInv /\ [TimelineNext]_timelineVars => TimelineInv'
  <2> SUFFICES ASSUME TimelineInv, [TimelineNext]_timelineVars PROVE TimelineInv'
    OBVIOUS
  <2>1. ValuesObserved /\ TrackedKept /\ WrittenAtTheEnd
    BY DEF TimelineInv
  <2>2. ASSUME written = <<>>, written' = written, ValuesObserved', TrackedKept' PROVE TimelineInv'
    BY <2>2 DEF TimelineInv, WrittenAtTheEnd
  <2>3. ASSUME instant' = instant, start_time' = start_time, time_stamps' = time_stamps, values' = values
        PROVE  ValuesObserved'
    BY <2>1, <2>3 DEF ValuesObserved
  <2>4. ASSUME queue' = queue, output_variables' = output_variables, told' = told
        PROVE  TrackedKept'
    BY <2>1, <2>4 DEF TrackedKept, Collected
  <2>5. ASSUME NEW s \in Steps, set_sequence_output_variable_start_time(s) PROVE TimelineInv'
    <3>1. ValuesObserved'
      BY <2>1, <2>5, TimelineAssumption DEF set_sequence_output_variable_start_time, ValuesObserved
    <3> QED BY <2>2, <2>4, <2>5, <3>1 DEF set_sequence_output_variable_start_time, Unwritten
  <2>6. ASSUME NEW s \in Steps, NEW v \in Values, current_individual(s, v) PROVE TimelineInv'
    <3>1. ValuesObserved'
      BY <2>1, <2>6, ObservationKeeps
    <3> QED BY <2>2, <2>4, <2>6, <3>1 DEF current_individual, Unwritten
  <2>7. ASSUME NEW n \in Names, NEW v \in Values, track_output_variable(n, v) PROVE TimelineInv'
    <3>1. TrackedKept'
      BY <2>1, <2>7, TrackKeeps
    <3> QED BY <2>2, <2>3, <2>7, <3>1 DEF track_output_variable, Unwritten
  <2>8. ASSUME Collect PROVE TimelineInv'
    <3>1. variables_generator \in Collected /\ \A n \in Names : variables_generator[n] = told[n]
      BY <2>1, LastCollected
    <3>2. output_variables' = variables_generator /\ queue' = <<>> /\ told' = told
      BY <2>8 DEF Collect
    <3>3. \A n \in Names : LastOf(n, told'[n], queue', 0, output_variables')
      BY <3>1, <3>2 DEF LastOf
    <3>4. queue' \in Seq([name : Names, value : Values]) /\ Len(queue') = 0
      BY <3>2
    <3>5. TrackedKept'
      BY <2>1, <3>1, <3>2, <3>3, <3>4 DEF TrackedKept, Collected
    <3> QED BY <2>2, <2>3, <2>8, <3>5 DEF Collect, Unwritten
  <2>9. ASSUME write_statistics PROVE TimelineInv'
    <3>1. ValuesObserved' /\ TrackedKept'
      BY <2>3, <2>4, <2>9 DEF write_statistics
    <3>2. _get_output_variables' = _get_output_variables
      BY <2>9 DEF write_statistics, _get_output_variables, get_output_variables, area_under_curve, AreaParts, Trapezoids, Twice,
                  normalised_area_under_curve, _get_time_line_value, _calculate_number_of_intervals, Limit, Last, Interpolated
    <3>3. WrittenAtTheEnd'
      BY <2>9, <3>2 DEF WrittenAtTheEnd, write_statistics
    <3> QED BY <3>1, <3>3 DEF TimelineInv
  <2>10. CASE UNCHANGED timelineVars
    <3>1. _get_output_variables' = _get_output_variables
      BY <2>10 DEF _get_output_variables, get_output_variables, area_under_curve, AreaParts, Trapezoids, Twice,
                  normalised_area_under_curve, _get_time_line_value, _calculate_number_of_intervals, Limit, Last, Interpolated
    <3> QED BY <2>1, <2>3, <2>4, <2>10, <3>1 DEF TimelineInv, WrittenAtTheEnd
  <2> QED BY <2>5, <2>6, <2>7, <2>8, <2>9, <2>10 DEF TimelineNext
<1> QED BY <1>1, <1>2, PTL DEF TimelineSpec

\* The values one by one
LEMMA ValuesRead ==
    ASSUME ValuesObserved, time_stamps # <<>>, NEW n, n = Len(time_stamps)
    PROVE  /\ n \in Nat /\ n >= 1 /\ n = Len(values)
           /\ \A i \in 1..n : /\ time_stamps[i] \in Nat /\ time_stamps[i] >= 1 /\ time_stamps[i] >= 2 * maximum_search_time
                              /\ values[i] \in Nat /\ values[i] <= Unit
           /\ \A i \in 2..n : time_stamps[i - 1] < time_stamps[i]
<1>1. /\ time_stamps \in Seq(Nat) /\ values \in Seq(Values) /\ Len(values) = Len(time_stamps)
      /\ \A i \in 1..Len(time_stamps) : time_stamps[i] >= 1 /\ time_stamps[i] >= 2 * maximum_search_time
      /\ \A i \in 2..Len(time_stamps) : time_stamps[i - 1] < time_stamps[i]
  BY DEF ValuesObserved
<1>2. n \in Nat /\ n >= 1
  BY <1>1
<1>3. Values \subseteq 0..Unit /\ Unit \in Nat
  BY TimelineAssumption
<1>4. \A i \in 1..n : time_stamps[i] \in Nat
  BY <1>1
<1>5. \A i \in 1..n : values[i] \in Values
  BY <1>1
<1>6. \A i \in 1..n : values[i] \in Nat /\ values[i] <= Unit
  <2> TAKE i \in 1..n
  <2>1. values[i] \in 0..Unit
    BY <1>3, <1>5
  <2> QED BY <1>3, <2>1
<1> QED BY <1>1, <1>2, <1>4, <1>6

\* The trapezoids lie below the largest value, and the first one is only half as high.
LEMMA TrapezoidsBounded ==
    ASSUME ValuesObserved, time_stamps # <<>>
    PROVE  LET n == Len(time_stamps)
               area == Trapezoids[Len(values)]
           IN  area \in Nat /\ area + Unit * time_stamps[1] <= 2 * (Unit * time_stamps[n])
<1>1. PICK n \in Nat : n = Len(time_stamps)
  BY DEF ValuesObserved
<1>2. /\ n >= 1 /\ n = Len(values)
      /\ \A i \in 1..n : time_stamps[i] \in Nat /\ values[i] \in Nat /\ values[i] <= Unit
      /\ \A i \in 2..n : time_stamps[i - 1] < time_stamps[i]
  BY <1>1, ValuesRead
<1>3. Unit \in Nat
  BY TimelineAssumption
<1>4. ASSUME NEW i \in 2..n
      PROVE  Twice(i) \in Nat /\ Twice(i) <= 2 * (Unit * time_stamps[i]) - 2 * (Unit * time_stamps[i - 1])
  <2>1. i \in 1..n /\ i - 1 \in 1..n /\ i # 1
    BY <1>4
  <2>2. PICK v \in Nat, w \in Nat, t \in Nat, u \in Nat :
          v = values[i - 1] /\ w = values[i] /\ t = time_stamps[i - 1] /\ u = time_stamps[i] /\ t < u /\ v <= Unit /\ w <= Unit
    BY <1>2, <2>1
  <2>3. Twice(i) = (v + w) * (u - t)
    BY <2>1, <2>2 DEF Twice
  <2>4. t <= u
    BY <2>2
  <2>5. (v + w) * (u - t) \in Nat /\ (v + w) * (u - t) <= 2 * (Unit * u) - 2 * (Unit * t)
    BY <1>3, <2>2, <2>4, Trapezoid
  <2> QED BY <2>2, <2>3, <2>5
<1>5. Twice(1) \in Nat /\ Twice(1) <= Unit * time_stamps[1]
  <2>1. PICK w \in Nat, u \in Nat : w = values[1] /\ u = time_stamps[1] /\ w <= Unit
    BY <1>1, <1>2
  <2>2. Twice(1) = (0 + w) * (u - 0)
    BY <2>1 DEF Twice
  <2>3. w * u <= Unit * u /\ w * u \in Nat
    BY <1>3, <2>1, Products
  <2> QED BY <2>1, <2>2, <2>3
<1> DEFINE Next(f) == [i \in 0..n |-> IF i = 0 THEN 0 ELSE f[i - 1] + Twice(i)]
           step == [p \in (1..n) \X Nat |-> p[2] + Twice(p[1])]
           A == Trapezoids
<1>6. \A i \in 1..n : Twice(i) \in Nat
  <2> TAKE i \in 1..n
  <2>1. i = 1 \/ i \in 2..n
    OBVIOUS
  <2> QED BY <1>4, <1>5, <2>1
<1>7. A = CHOOSE f : f = Next(f)
  BY <1>2 DEF Trapezoids
<1>8. \E f : f = Next(f)
  <2>1. \A k \in 1..n, x \in Nat : step[<<k, x>>] = x + Twice(k)
    OBVIOUS
  <2> HIDE DEF step
  <2>2. \A k \in 1..n : \A x \in Nat : step[<<k, x>>] \in Nat
    <3> TAKE k \in 1..n, x \in Nat
    <3>1. step[<<k, x>>] = x + Twice(k) /\ Twice(k) \in Nat
      BY <1>6, <2>1
    <3> QED BY <3>1
  <2>3. PICK f : Recursive(f, n, Nat, 0, step)
    <3> DEFINE Numbers == Nat
               zero == 0
    <3>1. zero \in Numbers /\ \A k \in 1..n : \A x \in Numbers : step[<<k, x>>] \in Numbers
      BY <2>2
    <3> HIDE DEF Numbers, zero
    <3>2. \E f : Recursive(f, n, Numbers, zero, step)
      BY <3>1, Recursion
    <3> QED BY <3>2 DEF Numbers, zero
  <2>4. f \in [0..n -> Nat] /\ f[0] = 0 /\ \A k \in 1..n : f[k] = step[<<k, f[k - 1]>>]
    BY <2>3 DEF Recursive
  <2>5. \A k \in 1..n : f[k] = f[k - 1] + Twice(k)
    <3> TAKE k \in 1..n
    <3>1. k - 1 \in 0..n
      OBVIOUS
    <3>2. f[k - 1] \in Nat
      BY <2>4, <3>1
    <3> QED BY <2>1, <2>4, <3>2
  <2>6. \A k \in 0..n : f[k] = IF k = 0 THEN 0 ELSE f[k - 1] + Twice(k)
    BY <2>4, <2>5
  <2>7. f = [k \in 0..n |-> f[k]]
    BY <2>4
  <2>8. f = Next(f)
    BY <2>6, <2>7
  <2> QED BY <2>8
<1> HIDE DEF A
<1>9. A = Next(A)
  <2> HIDE DEF Next
  <2> QED BY <1>7, <1>8
<1>10. A[0] = 0 /\ \A k \in 1..n : A[k] = A[k - 1] + Twice(k)
  <2>1. \A k \in 0..n : A[k] = IF k = 0 THEN 0 ELSE A[k - 1] + Twice(k)
    BY <1>9
  <2>2. \A k \in 1..n : k \in 0..n /\ k # 0
    OBVIOUS
  <2>3. 0 \in 0..n
    OBVIOUS
  <2> QED BY <2>1, <2>2, <2>3
<1> DEFINE T == {k \in 0..n : A[k] \in Nat /\ (k # 0 => A[k] + Unit * time_stamps[1] <= 2 * (Unit * time_stamps[k]))}
<1>11. 0 \in T
  BY <1>10
<1>12. ASSUME NEW k \in 1..n, k - 1 \in T PROVE k \in T
  <2>1. k - 1 \in Nat /\ A[k - 1] \in Nat /\ A[k] = A[k - 1] + Twice(k) /\ Twice(k) \in Nat
    BY <1>6, <1>10, <1>12
  <2>2. PICK a \in Nat, b \in Nat : a = A[k - 1] /\ b = Twice(k) /\ A[k] = a + b
    BY <2>1
  <2>3. CASE k = 1
    <3>1. PICK x \in Nat : x = Unit * time_stamps[1]
      BY <1>2, <1>3
    <3>2. a = 0 /\ b <= x
      BY <1>5, <1>10, <2>2, <2>3, <3>1
    <3> QED BY <2>2, <2>3, <3>1, <3>2
  <2>4. CASE k # 1
    <3>1. k \in 2..n /\ k - 1 \in 1..n /\ 1 \in 1..n
      BY <2>4
    <3>2. PICK x \in Int, y \in Int, z \in Int :
            x = Unit * time_stamps[1] /\ y = Unit * time_stamps[k - 1] /\ z = Unit * time_stamps[k]
      <4>1. time_stamps[1] \in Int /\ time_stamps[k - 1] \in Int /\ time_stamps[k] \in Int
        BY <1>2, <3>1
      <4>2. Unit * time_stamps[1] \in Int /\ Unit * time_stamps[k - 1] \in Int /\ Unit * time_stamps[k] \in Int
        BY <1>3, <4>1, Factors
      <4> QED BY <4>2
    <3>3. a + x <= 2 * y
      BY <1>12, <2>2, <3>1, <3>2
    <3>4. b <= 2 * z - 2 * y
      BY <1>4, <2>2, <3>1, <3>2
    <3>5. (a + b) + x <= 2 * z
      BY <3>3, <3>4
    <3> QED BY <2>2, <3>2, <3>5
  <2> QED BY <2>3, <2>4
<1>13. n \in T
  <2> HIDE DEF T
  <2>1. \A k \in 0..n : k \in T
    BY <1>11, <1>12, UpTo
  <2> QED BY <2>1
<1>14. A[n] \in Nat /\ A[n] + Unit * time_stamps[1] <= 2 * (Unit * time_stamps[n])
  BY <1>2, <1>13
<1> QED BY <1>1, <1>2, <1>14 DEF A

\* What the rest of the time adds to an area A: it is not above the whole rectangle, if the
\* first of the trapezoids lasts as long as the error in the units.
LEMMA RestBounded ==
    ASSUME NEW A \in Nat, NEW S \in Nat, S >= 1, NEW U \in Nat, NEW V \in Nat, V <= U, NEW max \in Nat,
           NEW first \in Nat, first >= 2 * max, NEW T \in Nat, T <= max * S, A + U * first <= 2 * (U * T)
    PROVE  LET L == max * S
           IN  /\ (S * A + 2 * (L - T) * V) + 2 * S * V * (L - T) <= 2 * S * S * max * U
               /\ (S * A + 2 * (L - T) * V) + 2 * S * V * (L - T) >= 0
<1>1. PICK L \in Nat : L = max * S
  BY Factors
<1>2. PICK R \in Nat : R = L - T
  <2>1. L - T \in Nat
    BY <1>1
  <2> QED BY <2>1
<1>3. PICK p \in Nat : p = S * U
  BY Factors
<1>4. PICK f \in Nat : f = U * first
  BY Factors
<1>5. PICK g \in Nat : g = U * T
  BY Factors
<1>6. S * A \in Nat /\ S * A <= 2 * (p * T) - p * first
  <2>1. A <= 2 * g - f /\ 2 * g - f \in Int
    BY <1>4, <1>5
  <2>2. S * A <= S * (2 * g - f)
    BY <2>1, Products
  <2>3. S * (2 * g - f) = S * (2 * g) - S * f /\ S * (2 * g) = 2 * (S * g) /\ S * g \in Int /\ S * f \in Int
    BY Factors
  <2>4. S * g = p * T /\ S * f = p * first
    BY <1>3, <1>4, <1>5, Factors
  <2>5. S * A \in Nat
    BY Factors
  <2> QED BY <2>2, <2>3, <2>4, <2>5
<1>7. 2 * (R * V) \in Nat /\ 2 * (R * V) <= p * first
  <2>1. R * V <= R * U /\ R * V \in Nat /\ R * U \in Nat
    BY Products, Factors
  <2>2. R <= L
    BY <1>1, <1>2
  <2>3. R * U <= L * U /\ L * U \in Int
    BY <2>2, Products, Factors
  <2>4. L * U = max * p
    BY <1>1, <1>3, Factors
  <2>5. 2 * (max * p) = (2 * max) * p /\ (2 * max) * p <= first * p /\ first * p = p * first /\ max * p \in Int /\ p * first \in Int
    <3>1. 2 * max \in Int
      OBVIOUS
    <3> QED BY <3>1, Products, Factors
  <2> QED BY <2>1, <2>3, <2>4, <2>5
<1>8. 2 * ((S * V) * R) \in Nat /\ 2 * ((S * V) * R) <= 2 * (p * L) - 2 * (p * T)
  <2>1. S * V <= p /\ S * V \in Nat
    BY <1>3, Products, Factors
  <2>2. (S * V) * R <= p * R /\ (S * V) * R \in Nat
    BY <2>1, Products, Factors
  <2>3. p * R = p * L - p * T /\ p * L \in Int /\ p * T \in Int
    BY <1>2, Factors
  <2> QED BY <2>2, <2>3
<1>9. PICK x \in Int, y \in Int, z \in Int : x = p * T /\ y = p * first /\ z = p * L
  BY Factors
<1>10. PICK a \in Nat, b \in Nat, c \in Nat : a = S * A /\ b = 2 * (R * V) /\ c = 2 * ((S * V) * R)
  BY <1>6, <1>7, <1>8
<1>11. (a + b) + c <= 2 * z /\ (a + b) + c >= 0
  BY <1>6, <1>7, <1>8, <1>9, <1>10
<1>12. 2 * (L - T) * V = b
  <2>1. (2 * R) * V = 2 * (R * V)
    BY Factors
  <2> QED BY <1>2, <1>10, <2>1
<1>13. 2 * S * V * (L - T) = c
  <2>1. (2 * S) * V = 2 * (S * V) /\ S * V \in Int
    BY Factors
  <2>2. (2 * (S * V)) * R = 2 * ((S * V) * R)
    BY <2>1, Factors
  <2> QED BY <1>2, <1>10, <2>1, <2>2
<1>14. 2 * S * S * max * U = 2 * z
  <2>1. (2 * S) * S = 2 * (S * S) /\ S * S \in Int
    BY Factors
  <2>2. (2 * (S * S)) * max = 2 * ((S * S) * max) /\ (S * S) * max = S * L /\ S * L \in Int
    BY <1>1, <2>1, Factors
  <2>3. (2 * (S * L)) * U = 2 * ((S * L) * U) /\ (S * L) * U = p * L
    BY <1>3, <2>2, Factors
  <2> QED BY <1>9, <2>1, <2>2, <2>3
<1> QED BY <1>1, <1>10, <1>11, <1>12, <1>13, <1>14

LEMMA ShareInRange ==
    ASSUME ValuesObserved, time_stamps # <<>>, maximum_search_time >= 0
    PROVE  0 <= normalised_area_under_curve[1] /\ normalised_area_under_curve[1] <= normalised_area_under_curve[2]
<1>1. PICK n \in Nat : n = Len(time_stamps)
  BY DEF ValuesObserved
<1>2. /\ n >= 1 /\ n = Len(values)
      /\ \A i \in 1..n : /\ time_stamps[i] \in Nat /\ time_stamps[i] >= 2 * maximum_search_time
                         /\ values[i] \in Nat /\ values[i] <= Unit
  BY <1>1, ValuesRead
<1>3. PICK A \in Nat : A = Trapezoids[Len(values)] /\ A + Unit * time_stamps[1] <= 2 * (Unit * time_stamps[n])
  BY <1>1, TrapezoidsBounded
<1>4. PICK T \in Nat, V \in Nat, first \in Nat :
        /\ T = Last(time_stamps) /\ T = time_stamps[n] /\ V = Last(values) /\ V <= Unit
        /\ first = time_stamps[1] /\ first >= 2 * maximum_search_time
  <2>1. 1 \in 1..n /\ n \in 1..n
    BY <1>2
  <2>2. Last(time_stamps) = time_stamps[n] /\ Last(values) = values[n]
    BY <1>1, <1>2 DEF Last
  <2> QED BY <1>2, <2>1, <2>2
<1>5. PICK S \in Nat, U \in Nat, max \in Nat : S = Second /\ U = Unit /\ max = maximum_search_time /\ S >= 1
  BY TimelineAssumption
<1>6. PICK L \in Nat : L = max * S /\ L = Limit
  <2>1. max * S \in Nat
    BY Factors
  <2> QED BY <1>5, <2>1 DEF Limit
<1>7. A + U * first <= 2 * (U * T)
  BY <1>3, <1>4, <1>5
<1>8. CASE T >= L
  <2>1. AreaParts = S * A + 0
    <3>1. ~ (Last(time_stamps) < Limit)
      BY <1>4, <1>6, <1>8
    <3>2. AreaParts = Second * Trapezoids[Len(values)] + 0
      BY <3>1, Zenon DEF AreaParts
    <3> QED BY <1>3, <1>5, <3>2
  <2>2. normalised_area_under_curve = <<S * A + 0, 2 * S * T * U>>
    BY <1>4, <1>5, <1>6, <1>8, <2>1 DEF normalised_area_under_curve
  <2>3. U * first \in Nat /\ U * T \in Nat
    BY Factors
  <2>4. A <= 2 * (U * T) /\ 2 * (U * T) \in Int
    BY <1>7, <2>3
  <2>5. S * A <= S * (2 * (U * T)) /\ S * A \in Nat
    BY <2>4, Products, Factors
  <2>6. S * (2 * (U * T)) = 2 * (S * (U * T)) /\ U * T = T * U
    BY <2>3, Factors
  <2>7. (2 * S) * T = 2 * (S * T) /\ S * T \in Int
    BY Factors
  <2>8. (2 * (S * T)) * U = 2 * ((S * T) * U) /\ (S * T) * U = S * (T * U)
    BY <2>7, Factors
  <2>9. S * A + 0 = S * A
    BY <2>5
  <2> QED BY <2>2, <2>5, <2>6, <2>7, <2>8, <2>9
<1>9. CASE ~ (T >= L)
  <2>1. T < L
    BY <1>9
  <2>2. AreaParts = S * A + 2 * (L - T) * V
    BY <1>3, <1>4, <1>5, <1>6, <2>1 DEF AreaParts
  <2>3. normalised_area_under_curve =
          <<(S * A + 2 * (L - T) * V) + 2 * S * V * (L - T), 2 * S * S * max * U>>
    BY <1>4, <1>5, <1>6, <1>9, <2>2 DEF normalised_area_under_curve
  <2>4. T <= max * S /\ first >= 2 * max /\ V <= U
    BY <1>4, <1>5, <1>6, <2>1
  <2>5. /\ (S * A + 2 * (max * S - T) * V) + 2 * S * V * (max * S - T) <= 2 * S * S * max * U
        /\ (S * A + 2 * (max * S - T) * V) + 2 * S * V * (max * S - T) >= 0
    BY <1>5, <1>7, <2>4, RestBounded
  <2> QED BY <1>6, <2>3, <2>5
<1> QED BY <1>8, <1>9

--------------------------------------------------------------------------------
(* The points of the timeline                                               *)

\* The point at a time before the i-th observation, and after all of them
PointBefore(i, time, n) ==
  IF i = n + 1 THEN <<values[n], 1>>
  ELSE IF i = 1 THEN <<values[1], 1>>
  ELSE IF ~timeline_interpolation THEN <<values[i - 1], 1>>
  ELSE Interpolated(i, time)
Lower(i) == IF i = 1 THEN values[1] ELSE values[i - 1]
Upper(i, n) == IF i = n + 1 THEN values[n] ELSE values[i]

LEMMA PointFound ==
    ASSUME ValuesObserved, time_stamps # <<>>, NEW index \in Nat, NEW n, n = Len(time_stamps)
    PROVE  \E i \in 1..n + 1 :
             /\ \A j \in 1..i - 1 : time_stamps[j] < timeline_interval * index
             /\ i <= n => time_stamps[i] >= timeline_interval * index
             /\ _get_time_line_value(index) = PointBefore(i, timeline_interval * index, n)
<1>1. /\ n \in Nat /\ n >= 1 /\ n = Len(values) /\ DOMAIN time_stamps = 1..n
      /\ \A i \in 1..n : time_stamps[i] \in Nat
  BY ValuesRead DEF ValuesObserved
<1>2. PICK time \in Nat : time = timeline_interval * index
  BY TimelineAssumption, Factors
<1> DEFINE later == {i \in DOMAIN time_stamps : time_stamps[i] >= timeline_interval * index}
           i == CHOOSE i \in later : \A j \in later : i <= j
<1>3. later = {k \in 1..n : time_stamps[k] >= time}
  BY <1>1, <1>2
<1>4. CASE later = {}
  <2>1. _get_time_line_value(index) = <<Last(values), 1>>
    BY <1>4 DEF _get_time_line_value
  <2>2. Last(values) = values[n]
    BY <1>1 DEF Last
  <2>3. \A j \in 1..n : time_stamps[j] < time
    BY <1>1, <1>3, <1>4
  <2>4. n + 1 \in 1..n + 1 /\ (n + 1) - 1 = n /\ ~ (n + 1 <= n)
    BY <1>1
  <2> QED BY <1>2, <2>1, <2>2, <2>3, <2>4 DEF PointBefore
<1>5. CASE later # {}
  <2>1. i \in later /\ \A j \in later : i <= j
    <3>1. later \subseteq Nat
      BY <1>3
    <3>2. \E k \in later : \A j \in later : k <= j
      <4> HIDE DEF later
      <4> QED BY <1>5, <3>1, LeastNumber
    <3> HIDE DEF later
    <3> QED BY <3>2
  <2>2. i \in 1..n /\ time_stamps[i] >= time
    BY <1>3, <2>1
  <2>3. \A j \in 1..i - 1 : time_stamps[j] < time
    <3> HIDE DEF i
    <3> TAKE j \in 1..i - 1
    <3>1. j \in 1..n /\ ~ (i <= j)
      BY <2>2
    <3>2. ~ (j \in later)
      BY <2>1, <3>1
    <3> QED BY <1>1, <1>2, <1>3, <3>1, <3>2
  <2>4. _get_time_line_value(index) = IF i = 1 THEN <<values[1], 1>>
                                      ELSE IF ~timeline_interpolation THEN <<values[i - 1], 1>>
                                      ELSE Interpolated(i, timeline_interval * index)
    BY <1>5 DEF _get_time_line_value
  <2> HIDE DEF i
  <2>5. i # n + 1 /\ i \in 1..n + 1
    BY <1>1, <2>2
  <2> QED BY <1>2, <2>2, <2>3, <2>4, <2>5 DEF PointBefore
<1> QED BY <1>4, <1>5

\* Fractions with a number between them
LEMMA Between ==
    ASSUME NEW a \in Int, NEW b \in Nat, NEW c \in Int, NEW d \in Nat, NEW l \in Int, NEW m \in Int,
           a <= l * b, l <= m, m * d <= c
    PROVE  a * d <= c * b
<1>1. l * b \in Int /\ m * d \in Int /\ b * d \in Nat
  BY Factors
<1>2. a * d <= (l * b) * d /\ (m * d) * b <= c * b
  BY <1>1, Products
<1>3. (l * b) * d = l * (b * d) /\ (m * d) * b = m * (d * b) /\ b * d = d * b
  BY Factors
<1>4. l * (b * d) <= m * (b * d)
  BY <1>1, Products
<1>5. PICK x \in Int, y \in Int, z \in Int, w \in Int :
        x = a * d /\ y = l * (b * d) /\ z = m * (b * d) /\ w = c * b
  BY <1>1, Factors
<1>6. x <= y /\ y <= z /\ z <= w
  BY <1>2, <1>3, <1>4, <1>5
<1> QED BY <1>5, <1>6

\* A line that rises stays between its ends, and rises.
LEMMA Line ==
    ASSUME NEW v \in Nat, NEW w \in Nat, v <= w, NEW t \in Nat, NEW u \in Nat, t < u, NEW x \in Nat, t <= x, x <= u
    PROVE  LET a == v * (u - t) + (x - t) * (w - v)
           IN  /\ a \in Int /\ v * (u - t) <= a /\ a <= w * (u - t)
               /\ \A y \in Nat : x <= y =>
                    LET c == v * (u - t) + (y - t) * (w - v) IN c \in Int /\ a * (u - t) <= c * (u - t)
<1>1. PICK d \in Nat, k \in Nat, e \in Nat : d = u - t /\ k = x - t /\ e = w - v /\ k <= d
  <2>1. u - t \in Nat /\ x - t \in Nat /\ w - v \in Nat /\ x - t <= u - t
    OBVIOUS
  <2> QED BY <2>1
<1>2. k * e \in Nat /\ k * e <= d * e /\ v * d \in Nat /\ w * d \in Nat
  BY <1>1, Products, Factors
<1>3. d * e = w * d - v * d
  <2>1. d * e = d * w - d * v
    BY <1>1, Factors
  <2> QED BY <2>1, Factors
<1>4. PICK a \in Int : a = v * d + k * e /\ v * d <= a /\ a <= w * d
  BY <1>2, <1>3
<1>5. ASSUME NEW y \in Nat, x <= y
      PROVE  v * (u - t) + (y - t) * (w - v) \in Int /\ a * (u - t) <= (v * (u - t) + (y - t) * (w - v)) * (u - t)
  <2>1. PICK l \in Nat : l = y - t /\ k <= l
    <3>1. y - t \in Nat /\ x - t <= y - t
      BY <1>5
    <3> QED BY <1>1, <3>1
  <2>2. k * e <= l * e /\ l * e \in Int
    BY <2>1, Products, Factors
  <2>3. PICK c \in Int : c = v * d + l * e /\ a <= c
    BY <1>2, <1>4, <2>2
  <2>4. a * d <= c * d
    BY <2>3, Products
  <2> QED BY <1>1, <2>1, <2>3, <2>4
<1> QED BY <1>1, <1>4, <1>5

\* Values that do not fall from one to the next do not fall at all.
LEMMA RisingFar ==
    ASSUME NEW n \in Nat, NEW s, \A i \in 1..n : s[i] \in Nat, \A i \in 2..n : s[i - 1] <= s[i]
    PROVE  \A i, j \in 1..n : i <= j => s[i] <= s[j]
<1> SUFFICES ASSUME NEW i \in 1..n PROVE \A j \in 1..n : i <= j => s[i] <= s[j]
  OBVIOUS
<1> DEFINE T == {j \in 0..n : i <= j => s[i] <= s[j]}
<1>1. 0 \in T
  OBVIOUS
<1>2. ASSUME NEW j \in 1..n, j - 1 \in T PROVE j \in T
  <2>1. CASE i <= j - 1
    <3>1. j \in 2..n /\ j - 1 \in 1..n
      BY <2>1
    <3>2. s[i] <= s[j - 1] /\ s[j - 1] <= s[j]
      BY <1>2, <2>1, <3>1
    <3> QED BY <3>1, <3>2
  <2>2. CASE i = j
    BY <2>2
  <2>3. CASE i > j
    BY <2>3
  <2> QED BY <2>1, <2>2, <2>3
<1>3. \A j \in 0..n : j \in T
  <2> HIDE DEF T
  <2> QED BY <1>1, <1>2, UpTo
<1> QED BY <1>3

\* A point lies between the observations before and after it.
LEMMA PointBounded ==
    ASSUME ValuesObserved, time_stamps # <<>>, NEW n \in Nat, n = Len(time_stamps),
           \A i \in 2..n : values[i - 1] <= values[i],
           NEW time \in Nat, NEW i \in 1..n + 1, \A j \in 1..i - 1 : time_stamps[j] < time,
           i <= n => time_stamps[i] >= time
    PROVE  LET p == PointBefore(i, time, n)
           IN  /\ p[1] \in Int /\ p[2] \in Nat /\ Lower(i) \in Nat /\ Upper(i, n) \in Nat
               /\ Lower(i) * p[2] <= p[1] /\ p[1] <= Upper(i, n) * p[2]
<1>1. /\ n >= 1 /\ n = Len(values)
      /\ \A k \in 1..n : time_stamps[k] \in Nat /\ values[k] \in Nat
      /\ \A k \in 2..n : time_stamps[k - 1] < time_stamps[k]
  BY ValuesRead
<1> DEFINE p == PointBefore(i, time, n)
<1>2. CASE i = n + 1
  <2>1. i # 1 /\ i - 1 = n /\ n \in 1..n
    BY <1>1, <1>2
  <2>2. p = <<values[n], 1>> /\ Lower(i) = values[n] /\ Upper(i, n) = values[n]
    BY <1>2, <2>1 DEF PointBefore, Lower, Upper
  <2>3. PICK v \in Nat : v = values[n]
    BY <1>1, <2>1
  <2> QED BY <2>2, <2>3
<1>3. CASE i = 1
  <2>1. i # n + 1 /\ 1 \in 1..n
    BY <1>1, <1>3
  <2>2. p = <<values[1], 1>> /\ Lower(i) = values[1] /\ Upper(i, n) = values[1]
    BY <1>3, <2>1 DEF PointBefore, Lower, Upper
  <2>3. PICK v \in Nat : v = values[1]
    BY <1>1, <2>1
  <2> QED BY <2>2, <2>3
<1>4. CASE i \in 2..n
  <2>1. i # 1 /\ i # n + 1 /\ i \in 1..n /\ i - 1 \in 1..n /\ i - 1 \in 1..i - 1
    BY <1>4
  <2>2. PICK v \in Nat, w \in Nat, t \in Nat, u \in Nat :
          v = values[i - 1] /\ w = values[i] /\ t = time_stamps[i - 1] /\ u = time_stamps[i]
    BY <1>1, <2>1
  <2>3. v <= w
    BY <1>4, <2>2
  <2>4. t < u
    BY <1>1, <1>4, <2>2
  <2>5. t < time /\ time <= u
    BY <2>1, <2>2
  <2>6. Lower(i) = v /\ Upper(i, n) = w
    BY <2>1, <2>2 DEF Lower, Upper
  <2>7. CASE ~timeline_interpolation
    <3>1. p = <<v, 1>>
      BY <2>1, <2>2, <2>7 DEF PointBefore
    <3> QED BY <2>3, <2>6, <3>1
  <2>8. CASE timeline_interpolation
    <3>1. p = <<v * (u - t) + (time - t) * (w - v), u - t>>
      BY <2>1, <2>2, <2>8 DEF PointBefore, Interpolated
    <3>2. u - t \in Nat /\ t <= time
      BY <2>4, <2>5
    <3>3. /\ v * (u - t) + (time - t) * (w - v) \in Int
          /\ v * (u - t) <= v * (u - t) + (time - t) * (w - v)
          /\ v * (u - t) + (time - t) * (w - v) <= w * (u - t)
      BY <2>3, <2>4, <2>5, <3>2, Line
    <3> QED BY <2>6, <3>1, <3>2, <3>3
  <2> QED BY <2>7, <2>8
<1> QED BY <1>2, <1>3, <1>4

\* Two points, one at a later time than the other
LEMMA PointsRise ==
    ASSUME ValuesObserved, time_stamps # <<>>, NEW n \in Nat, n = Len(time_stamps),
           \A i \in 2..n : values[i - 1] <= values[i],
           NEW x \in Nat, NEW y \in Nat, x <= y,
           NEW i \in 1..n + 1, \A k \in 1..i - 1 : time_stamps[k] < x, i <= n => time_stamps[i] >= x,
           NEW j \in 1..n + 1, \A k \in 1..j - 1 : time_stamps[k] < y, j <= n => time_stamps[j] >= y
    PROVE  PointBefore(i, x, n)[1] * PointBefore(j, y, n)[2] <= PointBefore(j, y, n)[1] * PointBefore(i, x, n)[2]
<1>1. /\ n >= 1 /\ n = Len(values)
      /\ \A k \in 1..n : time_stamps[k] \in Nat /\ values[k] \in Nat
      /\ \A k \in 2..n : time_stamps[k - 1] < time_stamps[k]
  BY ValuesRead
<1> DEFINE p == PointBefore(i, x, n)
           q == PointBefore(j, y, n)
<1>2. /\ p[1] \in Int /\ p[2] \in Nat /\ Lower(i) \in Nat /\ Upper(i, n) \in Nat
      /\ Lower(i) * p[2] <= p[1] /\ p[1] <= Upper(i, n) * p[2]
  BY PointBounded
<1>3. /\ q[1] \in Int /\ q[2] \in Nat /\ Lower(j) \in Nat /\ Upper(j, n) \in Nat
      /\ Lower(j) * q[2] <= q[1] /\ q[1] <= Upper(j, n) * q[2]
  BY PointBounded
<1>4. CASE i < j
  <2>1. i \in 1..n /\ i # n + 1 /\ j # 1 /\ j - 1 \in 1..n /\ i <= j - 1
    BY <1>4
  <2>2. \A k, l \in 1..n : k <= l => values[k] <= values[l]
    BY <1>1, RisingFar
  <2>3. Upper(i, n) <= Lower(j)
    BY <2>1, <2>2 DEF Upper, Lower
  <2> HIDE DEF p, q
  <2>4. p[1] * q[2] <= q[1] * p[2]
    <3>1. PICK a \in Int, b \in Nat, l \in Int : a = p[1] /\ b = p[2] /\ l = Upper(i, n) /\ a <= l * b
      BY <1>2
    <3>2. PICK c \in Int, d \in Nat, m \in Int : c = q[1] /\ d = q[2] /\ m = Lower(j) /\ m * d <= c
      BY <1>3
    <3>3. l <= m
      BY <2>3, <3>1, <3>2
    <3>4. a * d <= c * b
      BY <3>1, <3>2, <3>3, Between
    <3> QED BY <3>1, <3>2, <3>4
  <2> QED BY <2>4 DEF p, q
<1>5. CASE i = j
  <2>1. CASE i \in 2..n /\ timeline_interpolation
    <3>1. i # 1 /\ i # n + 1 /\ i \in 1..n /\ i - 1 \in 1..n /\ i - 1 \in 1..i - 1
      BY <2>1
    <3>2. PICK v \in Nat, w \in Nat, t \in Nat, u \in Nat :
            v = values[i - 1] /\ w = values[i] /\ t = time_stamps[i - 1] /\ u = time_stamps[i]
      BY <1>1, <3>1
    <3>3. v <= w
      BY <2>1, <3>2
    <3>4. t < u
      BY <1>1, <2>1, <3>2
    <3>5. t <= x /\ x <= u
      BY <3>1, <3>2
    <3>6. p = <<v * (u - t) + (x - t) * (w - v), u - t>> /\ q = <<v * (u - t) + (y - t) * (w - v), u - t>>
      BY <1>5, <2>1, <3>1, <3>2 DEF PointBefore, Interpolated
    <3>7. (v * (u - t) + (x - t) * (w - v)) * (u - t) <= (v * (u - t) + (y - t) * (w - v)) * (u - t)
      BY <3>3, <3>4, <3>5, Line
    <3> QED BY <3>6, <3>7
  <2>2. CASE ~ (i \in 2..n /\ timeline_interpolation)
    <3>1. p = q
      BY <1>5, <2>2 DEF PointBefore
    <3> HIDE DEF p, q
    <3>2. p[1] * p[2] \in Int
      BY <1>2, Factors
    <3>3. p[1] * q[2] <= q[1] * p[2]
      BY <3>1, <3>2
    <3> QED BY <3>3 DEF p, q
  <2> QED BY <2>1, <2>2
<1>6. CASE i > j
  <2>1. j \in 1..n /\ j \in 1..i - 1
    BY <1>6
  <2>2. time_stamps[j] < x /\ time_stamps[j] >= y /\ time_stamps[j] \in Nat
    BY <1>1, <2>1
  <2> QED BY <2>2
<1> QED BY <1>4, <1>5, <1>6

\* The points of a timeline whose values do not fall
LEMMA PointsFollow ==
    ASSUME ValuesObserved, time_stamps # <<>>, maximum_search_time >= 0,
           \A i \in 2..Len(values) : values[i - 1] <= values[i]
    PROVE  /\ Len(get_output_variables) \in Nat
           /\ DOMAIN get_output_variables = 1..Len(get_output_variables)
           /\ \A k \in 2..Len(get_output_variables) :
                get_output_variables[k - 1][1] * get_output_variables[k][2]
                  <= get_output_variables[k][1] * get_output_variables[k - 1][2]
           /\ \A k \in 1..Len(get_output_variables) :
                /\ values[1] * get_output_variables[k][2] <= get_output_variables[k][1] * 1
                /\ get_output_variables[k][1] * 1 <= Last(values) * get_output_variables[k][2]
<1>1. PICK n \in Nat : n = Len(time_stamps)
  BY DEF ValuesObserved
<1>2. /\ n >= 1 /\ n = Len(values)
      /\ \A k \in 1..n : time_stamps[k] \in Nat /\ values[k] \in Nat
  BY <1>1, ValuesRead
<1>3. \A i \in 2..n : values[i - 1] <= values[i]
  BY <1>2
<1>4. PICK N \in Nat : N = _calculate_number_of_intervals
  <2>1. PICK l \in Nat : l = Limit
    <3>1. maximum_search_time * Second \in Nat
      BY TimelineAssumption, Factors
    <3> QED BY <3>1 DEF Limit
  <2>2. l \div timeline_interval \in Nat
    BY TimelineAssumption
  <2> QED BY <2>1, <2>2 DEF _calculate_number_of_intervals
<1>5. get_output_variables = [index \in 1..N |-> _get_time_line_value(index)]
  BY <1>4 DEF get_output_variables
<1> DEFINE points == get_output_variables
<1>6. Len(points) = N /\ DOMAIN points = 1..N /\ \A k \in 1..N : points[k] = _get_time_line_value(k)
  BY <1>5
<1> HIDE DEF points
<1> DEFINE Found(i, k) == /\ \A j \in 1..i - 1 : time_stamps[j] < timeline_interval * k
                          /\ i <= n => time_stamps[i] >= timeline_interval * k
                          /\ points[k] = PointBefore(i, timeline_interval * k, n)
<1>7. \A k \in 1..N : \E i \in 1..n + 1 : Found(i, k)
  <2> TAKE k \in 1..N
  <2>1. k \in Nat /\ points[k] = _get_time_line_value(k)
    BY <1>6
  <2> QED BY <1>1, <2>1, PointFound
<1>8. timeline_interval \in Nat
  BY TimelineAssumption
<1>9. ASSUME NEW k \in 2..N PROVE points[k - 1][1] * points[k][2] <= points[k][1] * points[k - 1][2]
  <2>1. k - 1 \in 1..N /\ k \in 1..N /\ k - 1 \in Nat /\ k \in Nat
    BY <1>9
  <2>2. PICK i \in 1..n + 1 : Found(i, k - 1)
    BY <1>7, <2>1
  <2>3. PICK j \in 1..n + 1 : Found(j, k)
    BY <1>7, <2>1
  <2>4. PICK x \in Nat, y \in Nat : x = timeline_interval * (k - 1) /\ y = timeline_interval * k /\ x <= y
    <3>1. timeline_interval * (k - 1) <= timeline_interval * k
      BY <1>8, <2>1, Products
    <3>2. timeline_interval * (k - 1) \in Nat /\ timeline_interval * k \in Nat
      BY <1>8, <2>1, Factors
    <3> QED BY <3>1, <3>2
  <2>5. /\ \A l \in 1..i - 1 : time_stamps[l] < x
        /\ i <= n => time_stamps[i] >= x
        /\ points[k - 1] = PointBefore(i, x, n)
    BY <2>2, <2>4
  <2>6. /\ \A l \in 1..j - 1 : time_stamps[l] < y
        /\ j <= n => time_stamps[j] >= y
        /\ points[k] = PointBefore(j, y, n)
    BY <2>3, <2>4
  <2>7. PointBefore(i, x, n)[1] * PointBefore(j, y, n)[2] <= PointBefore(j, y, n)[1] * PointBefore(i, x, n)[2]
    BY <1>1, <1>3, <2>4, <2>5, <2>6, PointsRise
  <2> QED BY <2>5, <2>6, <2>7
<1>10. ASSUME NEW k \in 1..N
       PROVE  values[1] * points[k][2] <= points[k][1] * 1 /\ points[k][1] * 1 <= Last(values) * points[k][2]
  <2>1. PICK i \in 1..n + 1 : Found(i, k)
    BY <1>7
  <2>2. PICK x \in Nat : x = timeline_interval * k
    <3>1. timeline_interval * k \in Nat
      BY <1>8, Factors
    <3> QED BY <3>1
  <2>3. /\ \A l \in 1..i - 1 : time_stamps[l] < x
        /\ i <= n => time_stamps[i] >= x
        /\ points[k] = PointBefore(i, x, n)
    BY <2>1, <2>2
  <2>4. /\ points[k][1] \in Int /\ points[k][2] \in Nat /\ Lower(i) \in Nat /\ Upper(i, n) \in Nat
        /\ Lower(i) * points[k][2] <= points[k][1] /\ points[k][1] <= Upper(i, n) * points[k][2]
    BY <1>1, <1>3, <2>3, PointBounded
  <2>5. \A l, m \in 1..n : l <= m => values[l] <= values[m]
    BY <1>2, <1>3, RisingFar
  <2>6. values[1] <= Lower(i) /\ values[1] \in Nat
    <3>1. CASE i = 1
      BY <1>2, <3>1 DEF Lower
    <3>2. CASE i # 1
      <4>1. i - 1 \in 1..n /\ 1 \in 1..n /\ 1 <= i - 1
        BY <3>2
      <4> QED BY <1>2, <2>5, <3>2, <4>1 DEF Lower
    <3> QED BY <3>1, <3>2
  <2>7. Upper(i, n) <= values[n] /\ values[n] \in Nat
    <3>1. CASE i = n + 1
      BY <1>2, <3>1 DEF Upper
    <3>2. CASE i # n + 1
      <4>1. i \in 1..n /\ n \in 1..n /\ i <= n
        BY <3>2
      <4> QED BY <1>2, <2>5, <3>2, <4>1 DEF Upper
    <3> QED BY <3>1, <3>2
  <2>8. PICK a \in Int, b \in Nat : a = points[k][1] /\ b = points[k][2]
    BY <2>4
  <2>9. PICK lo \in Int, l \in Int, u \in Int, hi \in Int :
          lo = values[1] /\ l = Lower(i) /\ u = Upper(i, n) /\ hi = values[n]
    BY <2>4, <2>6, <2>7
  <2>10. lo * b <= l * b /\ l * b <= a /\ a <= u * b /\ u * b <= hi * b
    BY <2>4, <2>6, <2>7, <2>8, <2>9, Products
  <2>11. lo * b <= a /\ a <= hi * b
    <3>1. lo * b \in Int /\ l * b \in Int /\ u * b \in Int /\ hi * b \in Int
      BY Factors
    <3> QED BY <2>10, <3>1
  <2>12. Last(values) = values[n]
    BY <1>2 DEF Last
  <2> QED BY <2>8, <2>9, <2>11, <2>12
<1> QED BY <1>6, <1>9, <1>10 DEF points

\* What is written at the end is what was told and seen in between: the last value of
\* each variable, points that follow the values, a share of the area between nothing and
\* all of it (stats.py, outputvariablefactory.py).
THEOREM StatisticsAreRight == TimelineSpec => []StatisticsTellTheTruth
<1>1. TimelineInv => StatisticsTellTheTruth
  <2> SUFFICES ASSUME TimelineInv, written # <<>> PROVE StatisticsTellTheTruth
    BY DEF StatisticsTellTheTruth, LastTold, TimelineFollowsValues, NormalisedInRange
  <2>1. /\ ValuesObserved /\ TrackedKept /\ written = <<_get_output_variables>> /\ queue = <<>> /\ time_stamps # <<>>
        /\ "Timeline" \in OutputVariables => maximum_search_time >= 0
    BY DEF TimelineInv, WrittenAtTheEnd
  <2>2. /\ written[1].direct = [n \in OutputVariables \cap Names |-> output_variables[n]]
        /\ "Timeline" \in OutputVariables =>
             /\ written[1].timeline.points = get_output_variables
             /\ written[1].timeline.share = normalised_area_under_curve
    BY <2>1 DEF _get_output_variables
  <2>3. LastTold
    <3>1. \A n \in Names : output_variables[n] = told[n]
      <4>1. Len(queue) = 0
        BY <2>1
      <4> QED BY <2>1, <4>1 DEF TrackedKept, LastOf
    <3> QED BY <2>2, <3>1 DEF LastTold
  <2>4. TimelineFollowsValues
    <3> SUFFICES ASSUME "Timeline" \in OutputVariables, \A i \in 2..Len(values) : values[i - 1] <= values[i]
                 PROVE  /\ \A k \in 2..Len(get_output_variables) :
                             get_output_variables[k - 1][1] * get_output_variables[k][2]
                               <= get_output_variables[k][1] * get_output_variables[k - 1][2]
                        /\ \A k \in DOMAIN get_output_variables :
                             /\ values[1] * get_output_variables[k][2] <= get_output_variables[k][1] * 1
                             /\ get_output_variables[k][1] * 1 <= Last(values) * get_output_variables[k][2]
      BY <2>2 DEF TimelineFollowsValues
    <3> QED BY <2>1, PointsFollow
  <2>5. NormalisedInRange
    BY <2>1, <2>2, ShareInRange DEF NormalisedInRange
  <2> QED BY <2>3, <2>4, <2>5 DEF StatisticsTellTheTruth
<1> QED BY <1>1, TimelineInvariant, PTL


--------------------------------------------------------------------------------
(* How often a test occurs in a sequence                                    *)

CopiesUpTo(s, k, x) == Cardinality({i \in 1..k : s[i] = x})
Copies(s, x) == CopiesUpTo(s, Len(s), x)

LEMMA CopiesAreNumbers ==
    ASSUME NEW s, NEW k \in Nat, NEW x
    PROVE  /\ CopiesUpTo(s, k, x) \in Nat /\ IsFiniteSet({i \in 1..k : s[i] = x})
           /\ CopiesUpTo(s, k, x) = 0 <=> \A i \in 1..k : s[i] # x
<1> DEFINE I == {i \in 1..k : s[i] = x}
<1>1. IsFiniteSet(1..k)
  BY FS_Interval
<1>2. IsFiniteSet(I)
  <2>1. I \subseteq 1..k
    OBVIOUS
  <2> HIDE DEF I
  <2> QED BY <1>1, <2>1, FS_Subset
<1>3. Cardinality(I) \in Nat /\ (Cardinality(I) = 0 <=> I = {})
  <2> HIDE DEF I
  <2> QED BY <1>2, FS_CardinalityType, FS_EmptySet
<1>4. I = {} <=> \A i \in 1..k : s[i] # x
  OBVIOUS
<1> QED BY <1>2, <1>3, <1>4 DEF CopiesUpTo

LEMMA CopiesNext ==
    ASSUME NEW s, NEW k \in Nat \ {0}, NEW x
    PROVE  CopiesUpTo(s, k, x) = CopiesUpTo(s, k - 1, x) + (IF s[k] = x THEN 1 ELSE 0)
<1> DEFINE I == {i \in 1..(k - 1) : s[i] = x}
           J == {i \in 1..k : s[i] = x}
<1>1. IsFiniteSet(I) /\ Cardinality(I) \in Nat
  <2>1. k - 1 \in Nat
    OBVIOUS
  <2> QED BY <2>1, CopiesAreNumbers DEF CopiesUpTo
<1>2. CASE s[k] = x
  <2>1. J = I \cup {k} /\ k \notin I
    BY <1>2
  <2> HIDE DEF I, J
  <2>2. Cardinality(J) = Cardinality(I) + 1
    BY <1>1, <2>1, FS_AddElement
  <2> QED BY <1>2, <2>2 DEF CopiesUpTo, I, J
<1>3. CASE s[k] # x
  <2>1. J = I
    BY <1>3
  <2> HIDE DEF I, J
  <2>2. Cardinality(J) = Cardinality(I) + 0
    BY <1>1, <2>1
  <2> QED BY <1>3, <2>2 DEF CopiesUpTo, I, J
<1> QED BY <1>2, <1>3

\* Only the sequence up to there counts.
LEMMA CopiesSame ==
    ASSUME NEW s, NEW t, NEW k \in Nat, NEW x, \A i \in 1..k : s[i] = t[i]
    PROVE  CopiesUpTo(s, k, x) = CopiesUpTo(t, k, x)
<1>1. {i \in 1..k : s[i] = x} = {i \in 1..k : t[i] = x}
  OBVIOUS
<1> QED BY <1>1 DEF CopiesUpTo

LEMMA CopiesGrow ==
    ASSUME NEW s, NEW k \in Nat, NEW n \in Nat, k <= n, NEW x
    PROVE  CopiesUpTo(s, k, x) <= CopiesUpTo(s, n, x)
<1> DEFINE I == {i \in 1..k : s[i] = x}
           J == {i \in 1..n : s[i] = x}
<1>1. IsFiniteSet(J)
  BY CopiesAreNumbers
<1>2. I \subseteq J
  OBVIOUS
<1> HIDE DEF I, J
<1>3. Cardinality(I) <= Cardinality(J)
  BY <1>1, <1>2, FS_Subset
<1> QED BY <1>3 DEF CopiesUpTo, I, J

LEMMA Members ==
    ASSUME NEW S, NEW s \in Seq(S)
    PROVE  /\ Len(s) \in Nat /\ DOMAIN s = 1..Len(s) /\ ToSet(s) \subseteq S
           /\ \A x : Copies(s, x) \in Nat /\ (x \in ToSet(s) <=> Copies(s, x) # 0)
           /\ \A x : x \in ToSet(s) <=> \E i \in 1..Len(s) : s[i] = x
<1>1. Len(s) \in Nat /\ DOMAIN s = 1..Len(s) /\ \A i \in 1..Len(s) : s[i] \in S
  OBVIOUS
<1>2. \A x : x \in ToSet(s) <=> \E i \in 1..Len(s) : s[i] = x
  BY <1>1 DEF ToSet
<1>3. \A x : Copies(s, x) \in Nat /\ (Copies(s, x) = 0 <=> \A i \in 1..Len(s) : s[i] # x)
  BY <1>1, CopiesAreNumbers DEF Copies
<1>4. ToSet(s) \subseteq S
  BY <1>1, <1>2
<1>5. ASSUME NEW x PROVE x \in ToSet(s) <=> Copies(s, x) # 0
  BY <1>2, <1>3
<1> QED BY <1>1, <1>2, <1>3, <1>4, <1>5

LEMMA CopiesAppended ==
    ASSUME NEW S, NEW s \in Seq(S), NEW e \in S, NEW x
    PROVE  Copies(Append(s, e), x) = Copies(s, x) + (IF x = e THEN 1 ELSE 0)
<1> DEFINE t == Append(s, e)
           n == Len(s)
<1>1. n \in Nat /\ Len(t) = n + 1 /\ t[n + 1] = e /\ \A i \in 1..n : t[i] = s[i]
  OBVIOUS
<1> HIDE DEF t, n
<1>2. CopiesUpTo(t, n + 1, x) = CopiesUpTo(t, n + 1 - 1, x) + (IF t[n + 1] = x THEN 1 ELSE 0)
  BY <1>1, CopiesNext
<1>3. CopiesUpTo(t, n, x) = CopiesUpTo(s, n, x)
  BY <1>1, CopiesSame
<1>4. n + 1 - 1 = n
  BY <1>1
<1> QED BY <1>1, <1>2, <1>3, <1>4 DEF Copies, t, n

\* Taking an occurrence out
LEMMA CopiesRemoved ==
    ASSUME NEW S, NEW s \in Seq(S), NEW p \in 1..Len(s)
    PROVE  /\ RemoveAt(s, p) \in Seq(S) /\ Len(RemoveAt(s, p)) = Len(s) - 1
           /\ \A x : Copies(RemoveAt(s, p), x) = Copies(s, x) - (IF x = s[p] THEN 1 ELSE 0)
<1> DEFINE n == Len(s)
           a == SubSeq(s, 1, p - 1)
           b == SubSeq(s, p + 1, n)
           t == a \o b
<1>1. n \in Nat /\ p \in Nat /\ 1 <= p /\ p <= n /\ \A i \in 1..n : s[i] \in S
  OBVIOUS
<1>2. a \in Seq(S) /\ Len(a) = p - 1 /\ \A i \in 1..(p - 1) : a[i] = s[i]
  OBVIOUS
<1>3. b \in Seq(S) /\ Len(b) = n - p /\ \A i \in 1..(n - p) : b[i] = s[p + i]
  OBVIOUS
<1>4. RemoveAt(s, p) = t
  BY DEF RemoveAt
<1> HIDE DEF a, b, n
<1>5. /\ t \in Seq(S) /\ Len(t) = n - 1
      /\ \A i \in 1..(n - 1) : t[i] = IF i < p THEN s[i] ELSE s[i + 1]
  <2>1. /\ t \in Seq(S) /\ Len(t) = Len(a) + Len(b)
        /\ \A i \in 1..(Len(a) + Len(b)) : t[i] = IF i <= Len(a) THEN a[i] ELSE b[i - Len(a)]
    BY <1>2, <1>3, ConcatProperties
  <2> HIDE DEF t
  <2>2. ASSUME NEW i \in 1..(n - 1) PROVE t[i] = IF i < p THEN s[i] ELSE s[i + 1]
    <3>1. i \in 1..(Len(a) + Len(b)) /\ i \in Nat
      BY <1>1, <1>2, <1>3
    <3>2. CASE i < p
      <4>1. i \in 1..(p - 1) /\ i <= p - 1
        BY <1>1, <3>1, <3>2
      <4>2. a[i] = s[i] /\ i <= Len(a)
        BY <1>2, <4>1
      <4> QED BY <2>1, <3>1, <3>2, <4>2
    <3>3. CASE ~ (i < p)
      <4>1. i - (p - 1) \in 1..(n - p) /\ p + (i - (p - 1)) = i + 1
        BY <1>1, <3>3
      <4>2. b[i - (p - 1)] = s[p + (i - (p - 1))]
        BY <1>3, <4>1
      <4>3. ~ (i <= p - 1)
        BY <1>1, <3>1, <3>3
      <4> QED BY <1>2, <2>1, <3>1, <3>3, <4>1, <4>2, <4>3
    <3> QED BY <3>2, <3>3
  <2> QED BY <1>1, <1>2, <1>3, <2>1, <2>2
<1> HIDE DEF t
<1>6. ASSUME NEW x PROVE Copies(t, x) = Copies(s, x) - (IF x = s[p] THEN 1 ELSE 0)
  <2> DEFINE A == {k \in 0..(n - 1) : CopiesUpTo(t, k, x) =
                     IF k < p THEN CopiesUpTo(s, k, x) ELSE CopiesUpTo(s, k + 1, x) - (IF x = s[p] THEN 1 ELSE 0)}
  <2>1. 0 \in A
    <3>1. CopiesUpTo(t, 0, x) = CopiesUpTo(s, 0, x)
      <4>1. 0 \in Nat /\ \A i \in 1..0 : t[i] = s[i]
        OBVIOUS
      <4> QED BY <4>1, CopiesSame
    <3> QED BY <1>1, <3>1
  <2>2. ASSUME NEW k \in 1..(n - 1), k - 1 \in A PROVE k \in A
    <3>1. k \in Nat \ {0} /\ k \in 0..(n - 1) /\ k + 1 \in Nat \ {0} /\ k + 1 - 1 = k /\ k - 1 \in Nat /\ k - 1 + 1 = k
      BY <1>1
    <3>2. CopiesUpTo(t, k, x) = CopiesUpTo(t, k - 1, x) + (IF t[k] = x THEN 1 ELSE 0)
      BY <3>1, CopiesNext
    <3>3. CopiesUpTo(s, k, x) = CopiesUpTo(s, k - 1, x) + (IF s[k] = x THEN 1 ELSE 0)
      BY <3>1, CopiesNext
    <3>4. CopiesUpTo(s, k + 1, x) = CopiesUpTo(s, k + 1 - 1, x) + (IF s[k + 1] = x THEN 1 ELSE 0)
      BY <3>1, CopiesNext
    <3>5. /\ CopiesUpTo(t, k - 1, x) \in Nat /\ CopiesUpTo(s, k - 1, x) \in Nat
          /\ CopiesUpTo(s, k, x) \in Nat /\ CopiesUpTo(s, k + 1, x) \in Nat
      BY <3>1, CopiesAreNumbers
    <3>6. CASE k < p
      <4>1. k - 1 < p /\ t[k] = s[k]
        BY <1>1, <1>5, <3>1, <3>6
      <4>2. CopiesUpTo(t, k, x) = CopiesUpTo(s, k, x)
        BY <2>2, <3>2, <3>3, <4>1
      <4> QED BY <3>1, <3>6, <4>2
    <3>7. CASE k = p
      <4>1. k - 1 < p /\ t[k] = s[k + 1] /\ ~ (k < p)
        BY <1>1, <1>5, <3>1, <3>7
      <4>2. CopiesUpTo(t, k - 1, x) = CopiesUpTo(s, k - 1, x)
        BY <2>2, <4>1
      <4>3. CopiesUpTo(t, k, x) = CopiesUpTo(s, k + 1, x) - (IF x = s[p] THEN 1 ELSE 0)
        BY <3>1, <3>2, <3>3, <3>4, <3>5, <3>7, <4>1, <4>2
      <4> QED BY <3>1, <4>1, <4>3
    <3>8. CASE k > p
      <4>1. ~ (k - 1 < p) /\ t[k] = s[k + 1] /\ ~ (k < p)
        BY <1>1, <1>5, <3>1, <3>8
      <4>2. CopiesUpTo(t, k - 1, x) = CopiesUpTo(s, k, x) - (IF x = s[p] THEN 1 ELSE 0)
        BY <2>2, <3>1, <4>1
      <4>3. CopiesUpTo(t, k, x) = CopiesUpTo(s, k + 1, x) - (IF x = s[p] THEN 1 ELSE 0)
        BY <3>1, <3>2, <3>4, <3>5, <4>1, <4>2
      <4> QED BY <3>1, <4>1, <4>3
    <3> QED BY <1>1, <3>1, <3>6, <3>7, <3>8
  <2>3. \A k \in 0..(n - 1) : k \in A
    <3>1. n - 1 \in Nat
      BY <1>1
    <3> HIDE DEF A
    <3> QED BY <2>1, <2>2, <3>1, UpTo
  <2>4. n - 1 \in 0..(n - 1) /\ n - 1 + 1 = n
    BY <1>1
  <2>5. CASE n - 1 < p
    <3>1. p = n /\ CopiesUpTo(t, n - 1, x) = CopiesUpTo(s, n - 1, x)
      BY <1>1, <2>3, <2>4, <2>5
    <3>2. CopiesUpTo(s, n, x) = CopiesUpTo(s, n - 1, x) + (IF s[n] = x THEN 1 ELSE 0)
      BY <1>1, <3>1, CopiesNext
    <3>3. CopiesUpTo(s, n - 1, x) \in Nat
      <4>1. n - 1 \in Nat
        BY <1>1
      <4> QED BY <4>1, CopiesAreNumbers
    <3> QED BY <1>5, <3>1, <3>2, <3>3 DEF Copies, n
  <2>6. CASE ~ (n - 1 < p)
    <3>1. CopiesUpTo(t, n - 1, x) = CopiesUpTo(s, n, x) - (IF x = s[p] THEN 1 ELSE 0)
      BY <2>3, <2>4, <2>6
    <3> QED BY <1>5, <3>1 DEF Copies, n
  <2> QED BY <2>5, <2>6
<1> QED BY <1>4, <1>5, <1>6 DEF n

LEMMA FirstRemoved ==
    ASSUME NEW S, NEW s \in Seq(S), NEW e, Copies(s, e) # 0
    PROVE  /\ RemoveFirst(s, e) \in Seq(S) /\ Len(RemoveFirst(s, e)) = Len(s) - 1
           /\ \A x : Copies(RemoveFirst(s, e), x) = Copies(s, x) - (IF x = e THEN 1 ELSE 0)
<1> DEFINE I == {i \in 1..Len(s) : s[i] = e}
           p == Min(I)
<1>1. I \subseteq Nat /\ I # {}
  BY Members
<1>2. p \in I
  <2> HIDE DEF I
  <2>1. \E x \in I : \A y \in I : x <= y
    BY <1>1, LeastNumber
  <2> QED BY <2>1 DEF Min
<1>3. RemoveFirst(s, e) = RemoveAt(s, p)
  BY <1>1 DEF RemoveFirst, SelectInSeq
<1>4. p \in 1..Len(s) /\ s[p] = e
  BY <1>2
<1> HIDE DEF p
<1> QED BY <1>3, <1>4, CopiesRemoved

LEMMA CopiesOfNone ==
    ASSUME NEW s, NEW x
    PROVE  CopiesUpTo(s, 0, x) = 0
<1>1. 0 \in Nat /\ \A i \in 1..0 : s[i] # x
  OBVIOUS
<1> QED BY <1>1, CopiesAreNumbers

LEMMA NoCopies ==
    ASSUME NEW S, NEW x
    PROVE  <<>> \in Seq(S) /\ Copies(<<>>, x) = 0 /\ ToSet(<<>>) = {}
<1> DEFINE e == <<>>
<1>1. e \in Seq(S) /\ Len(e) = 0
  OBVIOUS
<1> HIDE DEF e
<1>2. CopiesUpTo(e, 0, x) = 0
  BY CopiesOfNone
<1>3. ASSUME NEW y PROVE y \notin ToSet(e)
  <2>1. y \in ToSet(e) <=> \E i \in 1..Len(e) : e[i] = y
    BY <1>1, Members
  <2>2. 1..Len(e) = {}
    BY <1>1
  <2> QED BY <2>1, <2>2
<1>4. ToSet(e) = {}
  BY <1>3
<1> QED BY <1>1, <1>2, <1>4 DEF Copies, e

LEMMA KeepingKeeps ==
    ASSUME NEW S, NEW s \in Seq(S), NEW K
    PROVE  /\ Keeping(s, K) \in Seq(S)
           /\ \A x : Copies(Keeping(s, K), x) = IF x \in K THEN Copies(s, x) ELSE 0
<1> DEFINE N == Len(s)
           Turn(k, w) == IF s[k] \in K THEN Append(w, s[k]) ELSE w
           Whole(g) == [k \in 0..N |-> IF k = 0 THEN <<>> ELSE Turn(k, g[k - 1])]
           kept == CHOOSE g : g = Whole(g)
           step == [x \in (1..N) \X Seq(S) |-> Turn(x[1], x[2])]
<1>1. Keeping(s, K) = kept[N]
  BY DEF Keeping
<1>2. N \in Nat /\ \A k \in 1..N : s[k] \in S
  OBVIOUS
<1>3. ASSUME NEW k \in 1..N, NEW w \in Seq(S) PROVE Turn(k, w) \in Seq(S)
  BY <1>2
<1> HIDE DEF N
<1>4. ASSUME NEW k \in 1..N, NEW w \in Seq(S) PROVE step[<<k, w>>] = Turn(k, w) /\ Turn(k, w) \in Seq(S)
  <2>1. Turn(k, w) \in Seq(S)
    BY <1>3
  <2> HIDE DEF Turn
  <2> DEFINE x == <<k, w>>
  <2>2. x \in (1..N) \X Seq(S) /\ x[1] = k /\ x[2] = w
    OBVIOUS
  <2> HIDE DEF x
  <2>3. step[x] = Turn(k, w)
    BY <2>2
  <2> QED BY <2>1, <2>3 DEF x
<1> HIDE DEF step, Turn
<1>5. PICK r : Recursive(r, N, Seq(S), <<>>, step)
  <2> DEFINE results == Seq(S)
             base == <<>>
  <2>1. base \in results /\ \A k \in 1..N : \A x \in results : step[<<k, x>>] \in results
    BY <1>4
  <2> HIDE DEF results, base
  <2>2. \E r : Recursive(r, N, results, base, step)
    BY <1>2, <2>1, Recursion
  <2> QED BY <2>2 DEF results, base
<1>6. r = Whole(r)
  <2>1. r \in [0..N -> Seq(S)] /\ r[0] = <<>> /\ \A k \in 1..N : r[k] = step[<<k, r[k - 1]>>]
    BY <1>5 DEF Recursive
  <2>2. ASSUME NEW k \in 1..N PROVE r[k] = Turn(k, r[k - 1])
    <3>1. k - 1 \in 0..N
      BY <1>2
    <3>2. r[k - 1] \in Seq(S)
      BY <2>1, <3>1
    <3> QED BY <1>4, <2>1, <3>2
  <2>3. \A k \in 0..N : r[k] = IF k = 0 THEN <<>> ELSE Turn(k, r[k - 1])
    BY <1>2, <2>1, <2>2
  <2>4. r = [k \in 0..N |-> r[k]]
    BY <2>1
  <2> QED BY <2>3, <2>4
<1>7. kept = Whole(kept)
  <2> HIDE DEF Whole
  <2> QED BY <1>6
<1> HIDE DEF kept
<1>8. \A k \in 0..N : kept[k] = IF k = 0 THEN <<>> ELSE Turn(k, kept[k - 1])
  BY <1>7

<1> DEFINE Kept(k) == /\ kept[k] \in Seq(S)
                      /\ \A x : Copies(kept[k], x) = IF x \in K THEN CopiesUpTo(s, k, x) ELSE 0
           T == {k \in 0..N : Kept(k)}
<1>9. 0 \in T
  <2>1. 0 \in 0..N /\ 0 \in Nat /\ kept[0] = <<>>
    BY <1>2, <1>8
  <2>2. \A x : CopiesUpTo(s, 0, x) = 0
    BY CopiesOfNone
  <2> QED BY <2>1, <2>2, NoCopies
<1>10. ASSUME NEW k \in 1..N, k - 1 \in T PROVE k \in T
  <2>1. k \in 0..N /\ k # 0 /\ k \in Nat \ {0} /\ k - 1 \in Nat /\ Kept(k - 1)
    BY <1>2, <1>10
  <2> DEFINE w == kept[k - 1]
  <2>2. kept[k] = Turn(k, w)
    BY <1>8, <2>1
  <2>3. w \in Seq(S) /\ \A x : Copies(w, x) = IF x \in K THEN CopiesUpTo(s, k - 1, x) ELSE 0
    BY <2>1
  <2> HIDE DEF w
  <2>4. \A x : CopiesUpTo(s, k, x) = CopiesUpTo(s, k - 1, x) + (IF s[k] = x THEN 1 ELSE 0)
    BY <2>1, CopiesNext
  <2>5. \A x : CopiesUpTo(s, k - 1, x) \in Nat
    BY <2>1, CopiesAreNumbers
  <2>6. ASSUME NEW x PROVE Copies(kept[k], x) = IF x \in K THEN CopiesUpTo(s, k, x) ELSE 0
    <3>1. CASE s[k] \in K
      <4>1. kept[k] = Append(w, s[k])
        BY <2>2, <3>1 DEF Turn
      <4>2. Copies(kept[k], x) = Copies(w, x) + (IF x = s[k] THEN 1 ELSE 0)
        BY <1>2, <2>3, <4>1, CopiesAppended
      <4> QED BY <2>3, <2>4, <2>5, <3>1, <4>2
    <3>2. CASE s[k] \notin K
      <4>1. kept[k] = w
        BY <2>2, <3>2 DEF Turn
      <4> QED BY <2>3, <2>4, <2>5, <3>2, <4>1
    <3> QED BY <3>1, <3>2
  <2>7. kept[k] \in Seq(S)
    BY <1>4, <2>2, <2>3
  <2>8. Kept(k)
    BY <2>6, <2>7
  <2> HIDE DEF Kept
  <2> QED BY <2>1, <2>8
<1> HIDE DEF Kept
<1>11. N \in T
  <2>1. N \in 0..N
    BY <1>2
  <2> HIDE DEF T
  <2> QED BY <1>2, <1>9, <1>10, <2>1, UpTo
<1>12. Kept(N)
  BY <1>11
<1> QED BY <1>1, <1>12 DEF Kept, Copies, N

\* One after the other
LEMMA WithoutTypes ==
    ASSUME NEW S, NEW s \in Seq(S), NEW e
    PROVE  RemoveFirst(s, e) \in Seq(S)
<1>1. CASE Copies(s, e) # 0
  BY <1>1, FirstRemoved
<1>2. CASE Copies(s, e) = 0
  <2>1. ~ \E i \in 1..Len(s) : s[i] = e
    BY <1>2, Members
  <2> QED BY <2>1 DEF RemoveFirst
<1> QED BY <1>1, <1>2

LEMMA WithoutTakes ==
    ASSUME NEW S, NEW s \in Seq(S), NEW front \in Seq(S),
           \A x \in S : Copies(front, x) <= Copies(s, x)
    PROVE  /\ Without(s, front) \in Seq(S) /\ Len(Without(s, front)) = Len(s) - Len(front)
           /\ \A x \in S : Copies(Without(s, front), x) = Copies(s, x) - Copies(front, x)
<1> DEFINE N == Len(front)
           Turn(k, w) == RemoveFirst(w, front[k])
           Whole(g) == [k \in 0..N |-> IF k = 0 THEN s ELSE Turn(k, g[k - 1])]
           left == CHOOSE g : g = Whole(g)
           step == [x \in (1..N) \X Seq(S) |-> Turn(x[1], x[2])]
<1>1. Without(s, front) = left[N]
  BY DEF Without
<1>2. N \in Nat /\ \A k \in 1..N : front[k] \in S
  OBVIOUS
<1>3. ASSUME NEW k \in 1..N, NEW w \in Seq(S) PROVE Turn(k, w) \in Seq(S)
  BY <1>2, WithoutTypes
<1> HIDE DEF N
<1>4. ASSUME NEW k \in 1..N, NEW w \in Seq(S) PROVE step[<<k, w>>] = Turn(k, w) /\ Turn(k, w) \in Seq(S)
  <2>1. Turn(k, w) \in Seq(S)
    BY <1>3
  <2> HIDE DEF Turn
  <2> DEFINE x == <<k, w>>
  <2>2. x \in (1..N) \X Seq(S) /\ x[1] = k /\ x[2] = w
    OBVIOUS
  <2> HIDE DEF x
  <2>3. step[x] = Turn(k, w)
    BY <2>2
  <2> QED BY <2>1, <2>3 DEF x
<1> HIDE DEF step, Turn
<1>5. PICK r : Recursive(r, N, Seq(S), s, step)
  <2> DEFINE results == Seq(S)
             base == s
  <2>1. base \in results /\ \A k \in 1..N : \A x \in results : step[<<k, x>>] \in results
    BY <1>4
  <2> HIDE DEF results, base
  <2>2. \E r : Recursive(r, N, results, base, step)
    BY <1>2, <2>1, Recursion
  <2> QED BY <2>2 DEF results, base
<1>6. r = Whole(r)
  <2>1. r \in [0..N -> Seq(S)] /\ r[0] = s /\ \A k \in 1..N : r[k] = step[<<k, r[k - 1]>>]
    BY <1>5 DEF Recursive
  <2>2. ASSUME NEW k \in 1..N PROVE r[k] = Turn(k, r[k - 1])
    <3>1. k - 1 \in 0..N
      BY <1>2
    <3>2. r[k - 1] \in Seq(S)
      BY <2>1, <3>1
    <3> QED BY <1>4, <2>1, <3>2
  <2>3. \A k \in 0..N : r[k] = IF k = 0 THEN s ELSE Turn(k, r[k - 1])
    BY <1>2, <2>1, <2>2
  <2>4. r = [k \in 0..N |-> r[k]]
    BY <2>1
  <2> QED BY <2>3, <2>4
<1>7. left = Whole(left)
  <2> HIDE DEF Whole
  <2> QED BY <1>6
<1> HIDE DEF left
<1>8. \A k \in 0..N : left[k] = IF k = 0 THEN s ELSE Turn(k, left[k - 1])
  BY <1>7

<1> DEFINE Left(k) == /\ left[k] \in Seq(S) /\ Len(left[k]) = Len(s) - k
                      /\ \A x \in S : Copies(left[k], x) = Copies(s, x) - CopiesUpTo(front, k, x)
           T == {k \in 0..N : Left(k)}
<1>9. 0 \in T
  <2>0. 0 \in 0..N /\ 0 \in Nat
    BY <1>2
  <2>1. 0 \in 0..N /\ 0 \in Nat /\ left[0] = s
    BY <1>8, <2>0
  <2>2. \A x : CopiesUpTo(front, 0, x) = 0
    BY CopiesOfNone
  <2>3. Len(s) \in Nat /\ \A x \in S : Copies(s, x) \in Nat
    BY Members
  <2> QED BY <2>1, <2>2, <2>3
<1>10. ASSUME NEW k \in 1..N, k - 1 \in T PROVE k \in T
  <2>1. k \in 0..N /\ k # 0 /\ k \in Nat \ {0} /\ k - 1 \in Nat /\ k <= N /\ k \in Nat
    BY <1>2
  <2>0. Left(k - 1)
    BY <1>10
  <2> DEFINE w == left[k - 1]
             e == front[k]
  <2>2. left[k] = RemoveFirst(w, e)
    BY <1>8, <2>1 DEF Turn
  <2>3. /\ w \in Seq(S) /\ Len(w) = Len(s) - (k - 1) /\ e \in S
        /\ \A x \in S : Copies(w, x) = Copies(s, x) - CopiesUpTo(front, k - 1, x)
    BY <1>2, <2>0, <2>1
  <2>4. \A x : CopiesUpTo(front, k, x) = CopiesUpTo(front, k - 1, x) + (IF e = x THEN 1 ELSE 0)
    BY <2>1, CopiesNext
  <2> HIDE DEF w, e
  <2>5. \A x : CopiesUpTo(front, k - 1, x) \in Nat
    BY <2>1, CopiesAreNumbers
  <2>6. Len(s) \in Nat /\ \A x : Copies(s, x) \in Nat
    BY Members
  <2>7. Copies(w, e) # 0
    <3>1. CopiesUpTo(front, k, e) <= Copies(front, e)
      BY <1>2, <2>1, CopiesGrow DEF Copies, N
    <3>2. Copies(front, e) <= Copies(s, e) /\ Copies(front, e) \in Nat
      BY <2>3, Members
    <3>3. CopiesUpTo(front, k, e) = CopiesUpTo(front, k - 1, e) + 1
      BY <2>4
    <3>4. Copies(w, e) = Copies(s, e) - CopiesUpTo(front, k - 1, e)
      BY <2>3
    <3>5. CopiesUpTo(front, k - 1, e) \in Nat /\ Copies(s, e) \in Nat
      BY <2>5, <2>6
    <3> QED BY <3>1, <3>2, <3>3, <3>4, <3>5
  <2>8. /\ left[k] \in Seq(S) /\ Len(left[k]) = Len(w) - 1
        /\ \A x : Copies(left[k], x) = Copies(w, x) - (IF x = e THEN 1 ELSE 0)
    <3> DEFINE u == RemoveFirst(w, e)
    <3>1. u \in Seq(S) /\ Len(u) = Len(w) - 1 /\ \A x : Copies(u, x) = Copies(w, x) - (IF x = e THEN 1 ELSE 0)
      <4>1. w \in Seq(S) /\ Copies(w, e) # 0
        BY <2>3, <2>7
      <4> QED BY ONLY <4>1, FirstRemoved
    <3>2. left[k] = u
      BY <2>2
    <3> HIDE DEF u
    <3> QED BY <3>1, <3>2
  <2>9. ASSUME NEW x \in S PROVE Copies(left[k], x) = Copies(s, x) - CopiesUpTo(front, k, x)
    <3>1. Copies(left[k], x) = Copies(w, x) - (IF x = e THEN 1 ELSE 0)
      BY <2>8
    <3>2. Copies(w, x) = Copies(s, x) - CopiesUpTo(front, k - 1, x)
      BY <2>3
    <3>3. CopiesUpTo(front, k, x) = CopiesUpTo(front, k - 1, x) + (IF x = e THEN 1 ELSE 0)
      BY <2>4
    <3>4. CopiesUpTo(front, k - 1, x) \in Nat /\ Copies(s, x) \in Nat
      BY <2>5, <2>6
    <3> HIDE DEF e
    <3> QED BY <3>1, <3>2, <3>3, <3>4
  <2>10. Len(left[k]) = Len(s) - k
    BY <2>1, <2>3, <2>6, <2>8
  <2>11. Left(k)
    BY <2>8, <2>9, <2>10
  <2> HIDE DEF Left
  <2> QED BY <2>1, <2>11
<1> HIDE DEF Left
<1>11. N \in T
  <2>1. N \in 0..N
    BY <1>2
  <2> HIDE DEF T
  <2> QED BY <1>2, <1>9, <1>10, <2>1, UpTo
<1>12. Left(N)
  BY <1>11
<1> QED BY <1>1, <1>12 DEF Left, Copies, N

--------------------------------------------------------------------------------
(* Layers of dominance                                                      *)

LEMMA FitnessIsCounted ==
    ASSUME NEW t \in Tests, NEW g \in ToSet(GoalOrder)
    PROVE  Fitness[t][g] \in Nat
BY MOSAAssumption DEF MOSAAssumption

LEMMA DominanceIsAnOrder ==
    ASSUME NEW G, G \subseteq ToSet(GoalOrder)
    PROVE  /\ \A t \in Tests : ~ Dominates(t, t, G)
           /\ \A t, u, v \in Tests : Dominates(t, u, G) /\ Dominates(u, v, G) => Dominates(t, v, G)
<1>1. ASSUME NEW t \in Tests PROVE ~ Dominates(t, t, G)
  <2>1. \A g \in G : Fitness[t][g] \in Nat
    BY FitnessIsCounted
  <2> QED BY <2>1 DEF Dominates
<1>2. ASSUME NEW t \in Tests, NEW u \in Tests, NEW v \in Tests, Dominates(t, u, G), Dominates(u, v, G)
      PROVE  Dominates(t, v, G)
  <2>1. \A g \in G : Fitness[t][g] \in Nat /\ Fitness[u][g] \in Nat /\ Fitness[v][g] \in Nat
    BY FitnessIsCounted
  <2>2. /\ \A g \in G : Fitness[t][g] <= Fitness[u][g] /\ Fitness[u][g] <= Fitness[v][g]
        /\ \E g \in G : Fitness[t][g] < Fitness[u][g]
    BY <1>2 DEF Dominates
  <2>3. \A g \in G : Fitness[t][g] <= Fitness[v][g]
    BY <2>1, <2>2
  <2>4. \E g \in G : Fitness[t][g] < Fitness[v][g]
    BY <2>1, <2>2
  <2> QED BY <2>3, <2>4 DEF Dominates
<1> QED BY <1>1, <1>2

\* What a loop over solutions has kept: those that nothing seen so far dominates, as
\* often as they were seen; whatever was seen is kept or dominated by what is.
UndominatedOf(f, s, k, G) ==
    /\ f \in Seq(Tests)
    /\ \A x \in Tests : Copies(f, x) =
         IF \E i \in 1..k : Dominates(s[i], x, G) THEN 0 ELSE CopiesUpTo(s, k, x)
    /\ \A i \in 1..k : s[i] \in ToSet(f) \/ \E b \in ToSet(f) : Dominates(b, s[i], G)

LEMMA OfferKeepsUndominated ==
    ASSUME NEW goals, ToSet(goals) \subseteq ToSet(GoalOrder), NEW s, NEW k \in Nat \ {0},
           \A i \in 1..k : s[i] \in Tests,
           NEW f, UndominatedOf(f, s, k - 1, ToSet(goals))
    PROVE  UndominatedOf(Offer(f, s[k], goals), s, k, ToSet(goals))
<1> DEFINE G == ToSet(goals)
           e == s[k]
           new == Offer(f, e, goals)
           K == {b \in ToSet(f) : ~ Dominates(e, b, G)}
<1>1. /\ f \in Seq(Tests)
      /\ \A x \in Tests : Copies(f, x) =
           IF \E i \in 1..(k - 1) : Dominates(s[i], x, G) THEN 0 ELSE CopiesUpTo(s, k - 1, x)
      /\ \A i \in 1..(k - 1) : s[i] \in ToSet(f) \/ \E b \in ToSet(f) : Dominates(b, s[i], G)
  BY DEF UndominatedOf
<1>2. new = IF \E b \in ToSet(f) : Dominates(b, e, G) THEN f ELSE Append(Keeping(f, K), e)
  BY DEF Offer
<1>3. /\ e \in Tests /\ k \in 1..k /\ \A i \in 1..(k - 1) : i \in 1..k /\ s[i] \in Tests
      /\ \A i \in 1..k : i = k \/ i \in 1..(k - 1)
  OBVIOUS
<1>4. /\ \A t \in Tests : ~ Dominates(t, t, G)
      /\ \A t, u, v \in Tests : Dominates(t, u, G) /\ Dominates(u, v, G) => Dominates(t, v, G)
  BY DominanceIsAnOrder
<1>5. ToSet(f) \subseteq Tests /\ \A x : Copies(f, x) \in Nat /\ (x \in ToSet(f) <=> Copies(f, x) # 0)
  BY <1>1, Members
<1>6. \A x : CopiesUpTo(s, k, x) = CopiesUpTo(s, k - 1, x) + (IF e = x THEN 1 ELSE 0)
  BY CopiesNext
<1>7. \A x : CopiesUpTo(s, k - 1, x) \in Nat /\ (CopiesUpTo(s, k - 1, x) = 0 <=> \A i \in 1..(k - 1) : s[i] # x)
  <2>1. k - 1 \in Nat
    OBVIOUS
  <2> QED BY <2>1, CopiesAreNumbers
\* what is kept was seen
<1>8. \A x \in ToSet(f) : x \in Tests /\ \E i \in 1..(k - 1) : s[i] = x
  <2> SUFFICES ASSUME NEW x \in ToSet(f) PROVE x \in Tests /\ \E i \in 1..(k - 1) : s[i] = x
    OBVIOUS
  <2>1. x \in Tests /\ Copies(f, x) # 0
    BY <1>5
  <2>2. CopiesUpTo(s, k - 1, x) # 0
    BY <1>1, <2>1
  <2> QED BY <1>7, <2>1, <2>2
<1> HIDE DEF e, new, G
<1>9. CASE \E b \in ToSet(f) : Dominates(b, e, G)
  <2>1. PICK b \in ToSet(f) : Dominates(b, e, G)
    BY <1>9
  <2>2. new = f
    BY <1>2, <1>9
  <2>3. PICK j \in 1..(k - 1) : s[j] = b
    BY <1>8
  <2>4. b \in Tests /\ j \in 1..k
    BY <1>3, <1>8
  <2>5. ASSUME NEW x \in Tests
        PROVE  Copies(f, x) = IF \E i \in 1..k : Dominates(s[i], x, G) THEN 0 ELSE CopiesUpTo(s, k, x)
    <3>1. (\E i \in 1..k : Dominates(s[i], x, G)) <=> \E i \in 1..(k - 1) : Dominates(s[i], x, G)
      <4>1. ASSUME Dominates(e, x, G) PROVE Dominates(s[j], x, G)
        BY <1>3, <1>4, <2>1, <2>3, <2>4, <4>1
      <4> QED BY <1>3, <4>1 DEF e
    <3>2. x = e => Dominates(s[j], x, G)
      BY <2>1, <2>3
    <3>3. x # e => CopiesUpTo(s, k, x) = CopiesUpTo(s, k - 1, x)
      BY <1>6, <1>7
    <3>4. CASE x = e
      <4>1. \E i \in 1..k : Dominates(s[i], x, G)
        BY <2>4, <3>2, <3>4
      <4> QED BY <1>1, <3>1, <4>1 DEF G
    <3>5. CASE x # e
      BY <1>1, <3>1, <3>3, <3>5 DEF G
    <3> QED BY <3>4, <3>5
  <2>6. \A i \in 1..k : s[i] \in ToSet(f) \/ \E c \in ToSet(f) : Dominates(c, s[i], G)
    BY <1>1, <1>3, <2>1 DEF G, e
  <2> QED BY <1>1, <2>2, <2>5, <2>6 DEF UndominatedOf, G, new, e
<1>10. CASE ~ \E b \in ToSet(f) : Dominates(b, e, G)
  <2> DEFINE kept == Keeping(f, K)
  <2>1. new = Append(kept, e)
    BY <1>2, <1>10
  <2>2. kept \in Seq(Tests) /\ \A x : Copies(kept, x) = IF x \in K THEN Copies(f, x) ELSE 0
    BY <1>1, KeepingKeeps
  <2>3. \A x : x \in ToSet(kept) <=> Copies(kept, x) # 0
    BY <2>2, Members
  <2> HIDE DEF kept
  <2>4. new \in Seq(Tests) /\ \A x : Copies(new, x) = Copies(kept, x) + (IF x = e THEN 1 ELSE 0)
    BY <1>3, <2>1, <2>2, CopiesAppended
  <2>5. \A x : Copies(new, x) \in Nat /\ (x \in ToSet(new) <=> Copies(new, x) # 0)
    BY <2>4, Members
  <2>6. \A x : Copies(kept, x) \in Nat
    BY <2>2, Members
  <2>7. \A x : x \in ToSet(new) <=> (x \in K \/ x = e)
    <3> SUFFICES ASSUME NEW x PROVE x \in ToSet(new) <=> (x \in K \/ x = e)
      OBVIOUS
    <3>1. x \in ToSet(new) <=> (Copies(kept, x) # 0 \/ x = e)
      <4>1. Copies(new, x) = Copies(kept, x) + (IF x = e THEN 1 ELSE 0) /\ Copies(kept, x) \in Nat
        BY <2>4, <2>6
      <4>2. Copies(new, x) # 0 <=> (Copies(kept, x) # 0 \/ x = e)
        BY <4>1
      <4> QED BY <2>5, <4>2
    <3>2. Copies(kept, x) # 0 <=> x \in K
      BY <1>5, <2>2
    <3> QED BY <3>1, <3>2
  <2>8. \A i \in 1..(k - 1) : ~ Dominates(s[i], e, G)
    <3> SUFFICES ASSUME NEW i \in 1..(k - 1), Dominates(s[i], e, G) PROVE FALSE
      OBVIOUS
    <3>1. s[i] \notin ToSet(f)
      BY <1>10
    <3>2. PICK b \in ToSet(f) : Dominates(b, s[i], G)
      BY <1>1, <3>1 DEF G
    <3>3. Dominates(b, e, G)
      BY <1>3, <1>4, <1>8, <3>2
    <3> QED BY <1>10, <3>3
  <2>9. ASSUME NEW x \in Tests
        PROVE  Copies(new, x) = IF \E i \in 1..k : Dominates(s[i], x, G) THEN 0 ELSE CopiesUpTo(s, k, x)
    <3>1. (\E i \in 1..k : Dominates(s[i], x, G)) <=>
             Dominates(e, x, G) \/ \E i \in 1..(k - 1) : Dominates(s[i], x, G)
      BY <1>3 DEF e
    <3>2. Copies(new, x) = (IF x \in K THEN Copies(f, x) ELSE 0) + (IF x = e THEN 1 ELSE 0)
      BY <2>2, <2>4
    <3>3. /\ Copies(f, x) \in Nat /\ CopiesUpTo(s, k - 1, x) \in Nat
          /\ CopiesUpTo(s, k, x) = CopiesUpTo(s, k - 1, x) + (IF x = e THEN 1 ELSE 0)
      BY <1>5, <1>6, <1>7
    <3>4. Copies(f, x) = IF \E i \in 1..(k - 1) : Dominates(s[i], x, G) THEN 0 ELSE CopiesUpTo(s, k - 1, x)
      BY <1>1 DEF G
    <3>5. x \in K <=> Copies(f, x) # 0 /\ ~ Dominates(e, x, G)
      BY <1>5
    <3>6. CASE x = e
      <4>1. ~ Dominates(e, e, G)
        BY <1>3, <1>4
      <4>2. ~ \E i \in 1..k : Dominates(s[i], x, G)
        BY <2>8, <3>1, <3>6, <4>1
      <4>3. Copies(f, x) = CopiesUpTo(s, k - 1, x)
        BY <2>8, <3>4, <3>6
      <4>4. Copies(new, x) = CopiesUpTo(s, k, x)
        BY <3>2, <3>3, <3>5, <3>6, <4>1, <4>3
      <4> QED BY <4>2, <4>4
    <3>7. CASE x # e /\ Dominates(e, x, G)
      <4>1. x \notin K /\ Copies(new, x) = 0
        BY <3>2, <3>5, <3>7
      <4> QED BY <3>1, <3>7, <4>1
    <3>8. CASE x # e /\ ~ Dominates(e, x, G)
      <4>1. Copies(new, x) = Copies(f, x) /\ CopiesUpTo(s, k, x) = CopiesUpTo(s, k - 1, x)
        BY <3>2, <3>3, <3>5, <3>8
      <4> QED BY <3>1, <3>4, <3>8, <4>1
    <3> QED BY <3>6, <3>7, <3>8
  <2>10. ASSUME NEW i \in 1..k
         PROVE  s[i] \in ToSet(new) \/ \E b \in ToSet(new) : Dominates(b, s[i], G)
    <3>1. CASE i = k
      BY <2>7, <3>1 DEF e
    <3>2. CASE i \in 1..(k - 1) /\ s[i] \in ToSet(f)
      BY <2>7, <3>2
    <3>3. CASE i \in 1..(k - 1) /\ s[i] \notin ToSet(f)
      <4>1. PICK b \in ToSet(f) : Dominates(b, s[i], G)
        BY <1>1, <3>3 DEF G
      <4>2. CASE Dominates(e, b, G)
        <5>1. Dominates(e, s[i], G)
          BY <1>3, <1>4, <1>8, <3>3, <4>1, <4>2
        <5> QED BY <2>7, <5>1
      <4>3. CASE ~ Dominates(e, b, G)
        BY <2>7, <4>1, <4>3
      <4> QED BY <4>2, <4>3
    <3> QED BY <1>3, <3>1, <3>2, <3>3
  <2> QED BY <2>4, <2>9, <2>10 DEF UndominatedOf, G, new, e
<1> QED BY <1>9, <1>10

LEMMA NonDominated ==
    ASSUME NEW goals, ToSet(goals) \subseteq ToSet(GoalOrder), NEW s \in Seq(Tests)
    PROVE  UndominatedOf(_get_non_dominated_solutions(s, goals), s, Len(s), ToSet(goals))
<1> DEFINE N == Len(s)
           Turn(k, w) == Offer(w, s[k], goals)
           Whole(g) == [k \in 0..N |-> IF k = 0 THEN <<>> ELSE Turn(k, g[k - 1])]
           front == CHOOSE g : g = Whole(g)
           step == [x \in (1..N) \X Seq(Tests) |-> Turn(x[1], x[2])]
<1>1. _get_non_dominated_solutions(s, goals) = front[N]
  BY DEF _get_non_dominated_solutions
<1>2. N \in Nat /\ \A k \in 1..N : s[k] \in Tests
  OBVIOUS
<1>3. ASSUME NEW k \in 1..N, NEW w \in Seq(Tests) PROVE Turn(k, w) \in Seq(Tests)
  <2>1. \A K : Keeping(w, K) \in Seq(Tests)
    BY KeepingKeeps
  <2>2. \A K : Append(Keeping(w, K), s[k]) \in Seq(Tests)
    BY <1>2, <2>1
  <2> QED BY <2>2 DEF Offer
<1> HIDE DEF N
<1>4. ASSUME NEW k \in 1..N, NEW w \in Seq(Tests) PROVE step[<<k, w>>] = Turn(k, w) /\ Turn(k, w) \in Seq(Tests)
  <2>1. Turn(k, w) \in Seq(Tests)
    BY <1>3
  <2> HIDE DEF Turn
  <2> DEFINE x == <<k, w>>
  <2>2. x \in (1..N) \X Seq(Tests) /\ x[1] = k /\ x[2] = w
    OBVIOUS
  <2> HIDE DEF x
  <2>3. step[x] = Turn(k, w)
    BY <2>2
  <2> QED BY <2>1, <2>3 DEF x
<1> HIDE DEF step, Turn
<1>5. PICK r : Recursive(r, N, Seq(Tests), <<>>, step)
  <2> DEFINE results == Seq(Tests)
             base == <<>>
  <2>1. base \in results /\ \A k \in 1..N : \A x \in results : step[<<k, x>>] \in results
    BY <1>4
  <2> HIDE DEF results, base
  <2>2. \E r : Recursive(r, N, results, base, step)
    BY <1>2, <2>1, Recursion
  <2> QED BY <2>2 DEF results, base
<1>6. r = Whole(r)
  <2>1. r \in [0..N -> Seq(Tests)] /\ r[0] = <<>> /\ \A k \in 1..N : r[k] = step[<<k, r[k - 1]>>]
    BY <1>5 DEF Recursive
  <2>2. ASSUME NEW k \in 1..N PROVE r[k] = Turn(k, r[k - 1])
    <3>1. k - 1 \in 0..N
      BY <1>2
    <3>2. r[k - 1] \in Seq(Tests)
      BY <2>1, <3>1
    <3> QED BY <1>4, <2>1, <3>2
  <2>3. \A k \in 0..N : r[k] = IF k = 0 THEN <<>> ELSE Turn(k, r[k - 1])
    BY <1>2, <2>1, <2>2
  <2>4. r = [k \in 0..N |-> r[k]]
    BY <2>1
  <2> QED BY <2>3, <2>4
<1>7. front = Whole(front)
  <2> HIDE DEF Whole
  <2> QED BY <1>6
<1> HIDE DEF front
<1>8. \A k \in 0..N : front[k] = IF k = 0 THEN <<>> ELSE Turn(k, front[k - 1])
  BY <1>7

<1> DEFINE T == {k \in 0..N : UndominatedOf(front[k], s, k, ToSet(goals))}
<1>9. 0 \in T
  <2>1. 0 \in 0..N /\ 0 \in Nat /\ front[0] = <<>>
    BY <1>2, <1>8
  <2>2. <<>> \in Seq(Tests) /\ \A x : Copies(<<>>, x) = 0
    BY NoCopies
  <2>3. \A x : CopiesUpTo(s, 0, x) = 0
    BY CopiesOfNone
  <2> DEFINE e == <<>>
  <2>4. e \in Seq(Tests) /\ \A x : Copies(e, x) = 0
    BY <2>2
  <2> HIDE DEF e
  <2>5. UndominatedOf(e, s, 0, ToSet(goals))
    BY <2>3, <2>4 DEF UndominatedOf
  <2> QED BY <2>1, <2>5 DEF e
<1>10. ASSUME NEW k \in 1..N, k - 1 \in T PROVE k \in T
  <2>1. k \in 0..N /\ k # 0 /\ k \in Nat \ {0} /\ \A i \in 1..k : s[i] \in Tests
    BY <1>2
  <2>2. UndominatedOf(front[k - 1], s, k - 1, ToSet(goals))
    BY <1>10
  <2>3. UndominatedOf(Offer(front[k - 1], s[k], goals), s, k, ToSet(goals))
    BY <2>1, <2>2, OfferKeepsUndominated
  <2> QED BY <1>8, <2>1, <2>3 DEF Turn
<1> HIDE DEF T
<1>11. N \in T
  <2>1. N \in 0..N
    BY <1>2
  <2> QED BY <1>2, <1>9, <1>10, <2>1, UpTo
<1> QED BY <1>1, <1>11 DEF T, N

--------------------------------------------------------------------------------
(* The front of the preferred tests                                         *)

\* Distinct solutions, one of the best for each of the first n goals
Zero(f, solutions, goals, n) ==
    /\ f \in Seq(Tests) /\ ToSet(f) \subseteq ToSet(solutions) /\ Len(f) <= n
    /\ \A x : Copies(f, x) <= 1
    /\ \A m \in 1..n : \E t \in ToSet(f) : t \in Best(solutions, goals[m])

LEMMA ZeroNext ==
    ASSUME NEW solutions \in Seq(Tests), NEW goals, NEW n \in Nat \ {0}, NEW f, Zero(f, solutions, goals, n - 1),
           NEW t \in Best(solutions, goals[n])
    PROVE  Zero(IF t \in ToSet(f) THEN f ELSE Append(f, t), solutions, goals, n)
<1> DEFINE g == Append(f, t)
<1>1. t \in ToSet(solutions) /\ t \in Tests
  BY Members DEF Best
<1>2. /\ f \in Seq(Tests) /\ ToSet(f) \subseteq ToSet(solutions) /\ Len(f) <= n - 1 /\ Len(f) \in Nat
      /\ \A x : Copies(f, x) <= 1
      /\ \A m \in 1..(n - 1) : \E u \in ToSet(f) : u \in Best(solutions, goals[m])
  BY DEF Zero
<1>3. \A m \in 1..n : m = n \/ m \in 1..(n - 1)
  OBVIOUS
<1>4. CASE t \in ToSet(f)
  <2>1. \A m \in 1..n : \E u \in ToSet(f) : u \in Best(solutions, goals[m])
    BY <1>2, <1>3, <1>4
  <2>2. Len(f) <= n
    BY <1>2
  <2> QED BY <1>2, <1>4, <2>1, <2>2 DEF Zero
<1>5. CASE t \notin ToSet(f)
  <2>1. g \in Seq(Tests) /\ Len(g) = Len(f) + 1
    BY <1>1, <1>2
  <2>2. \A x : Copies(g, x) = Copies(f, x) + (IF x = t THEN 1 ELSE 0)
    BY <1>1, <1>2, CopiesAppended
  <2> HIDE DEF g
  <2>3. \A x : Copies(f, x) \in Nat /\ (x \in ToSet(f) <=> Copies(f, x) # 0)
    BY <1>2, Members
  <2>4. \A x : Copies(g, x) \in Nat /\ (x \in ToSet(g) <=> Copies(g, x) # 0)
    BY <2>1, Members
  <2>5. \A x : x \in ToSet(g) <=> x \in ToSet(f) \/ x = t
    <3> SUFFICES ASSUME NEW x PROVE x \in ToSet(g) <=> x \in ToSet(f) \/ x = t
      OBVIOUS
    <3>1. Copies(g, x) # 0 <=> Copies(f, x) # 0 \/ x = t
      BY <2>2, <2>3
    <3> QED BY <2>3, <2>4, <3>1
  <2>6. \A x : Copies(g, x) <= 1
    <3> SUFFICES ASSUME NEW x PROVE Copies(g, x) <= 1
      OBVIOUS
    <3>1. Copies(f, x) <= 1 /\ Copies(f, x) \in Nat /\ (x = t => Copies(f, x) = 0)
      BY <1>2, <1>5, <2>3
    <3> QED BY <2>2, <3>1
  <2>7. \A m \in 1..n : \E u \in ToSet(g) : u \in Best(solutions, goals[m])
    <3> SUFFICES ASSUME NEW m \in 1..n PROVE \E u \in ToSet(g) : u \in Best(solutions, goals[m])
      OBVIOUS
    <3>1. CASE m = n
      BY <2>5, <3>1
    <3>2. CASE m \in 1..(n - 1)
      BY <1>2, <2>5, <3>2
    <3> QED BY <1>3, <3>1, <3>2
  <2>8. ToSet(g) \subseteq ToSet(solutions) /\ Len(g) <= n
    BY <1>1, <1>2, <2>1, <2>5
  <2>9. Zero(g, solutions, goals, n)
    BY <2>1, <2>6, <2>7, <2>8 DEF Zero
  <2> QED BY <1>5, <2>9 DEF g
<1> QED BY <1>4, <1>5

LEMMA ZeroFronts ==
    ASSUME NEW solutions \in Seq(Tests), NEW goals, goals \in Seq(ToSet(GoalOrder))
    PROVE  \A f \in _get_zero_front(solutions, goals) : Zero(f, solutions, goals, Len(goals))
<1> DEFINE N == Len(goals)
           Add(f, t) == IF t \in ToSet(f) THEN f ELSE Append(f, t)
           Turn(k, W) == UNION {{Add(f, t) : t \in Best(solutions, goals[k])} : f \in W}
           Whole(g) == [n \in 0..N |-> IF n = 0 THEN {<<>>} ELSE Turn(n, g[n - 1])]
           fronts == CHOOSE g : g = Whole(g)
           step == [x \in (1..N) \X (SUBSET Seq(Tests)) |-> Turn(x[1], x[2])]
<1>1. _get_zero_front(solutions, goals) = fronts[N]
  BY DEF _get_zero_front
<1>2. N \in Nat
  OBVIOUS
<1>3. \A k, W : \A u \in Turn(k, W) : \E f \in W : \E t \in Best(solutions, goals[k]) : u = Add(f, t)
  <2> HIDE DEF Add
  <2> QED OBVIOUS
<1>4. ASSUME NEW k \in 1..N, NEW W \in SUBSET Seq(Tests) PROVE Turn(k, W) \in SUBSET Seq(Tests)
  <2> SUFFICES ASSUME NEW u \in Turn(k, W) PROVE u \in Seq(Tests)
    OBVIOUS
  <2> HIDE DEF Add, Turn
  <2>1. PICK f \in W : \E t \in Best(solutions, goals[k]) : u = Add(f, t)
    BY <1>3
  <2>2. PICK t \in Best(solutions, goals[k]) : u = Add(f, t)
    BY <2>1
  <2>3. f \in Seq(Tests) /\ t \in Tests
    BY Members DEF Best
  <2> QED BY <2>2, <2>3 DEF Add
<1> HIDE DEF N
<1>5. ASSUME NEW k \in 1..N, NEW w \in (SUBSET Seq(Tests)) PROVE step[<<k, w>>] = Turn(k, w) /\ Turn(k, w) \in (SUBSET Seq(Tests))
  <2>1. Turn(k, w) \in (SUBSET Seq(Tests))
    BY <1>4
  <2> HIDE DEF Turn
  <2> DEFINE x == <<k, w>>
  <2>2. x \in (1..N) \X (SUBSET Seq(Tests)) /\ x[1] = k /\ x[2] = w
    OBVIOUS
  <2> HIDE DEF x
  <2>3. step[x] = Turn(k, w)
    BY <2>2
  <2> QED BY <2>1, <2>3 DEF x
<1> HIDE DEF step, Turn
<1>6. PICK r : Recursive(r, N, (SUBSET Seq(Tests)), {<<>>}, step)
  <2> DEFINE results == (SUBSET Seq(Tests))
             base == {<<>>}
  <2>1. base \in results /\ \A k \in 1..N : \A x \in results : step[<<k, x>>] \in results
    BY <1>5
  <2> HIDE DEF results, base
  <2>2. \E r : Recursive(r, N, results, base, step)
    BY <1>2, <2>1, Recursion
  <2> QED BY <2>2 DEF results, base
<1>7. r = Whole(r)
  <2>1. r \in [0..N -> (SUBSET Seq(Tests))] /\ r[0] = {<<>>} /\ \A k \in 1..N : r[k] = step[<<k, r[k - 1]>>]
    BY <1>6 DEF Recursive
  <2>2. ASSUME NEW k \in 1..N PROVE r[k] = Turn(k, r[k - 1])
    <3>1. k - 1 \in 0..N
      BY <1>2
    <3>2. r[k - 1] \in (SUBSET Seq(Tests))
      BY <2>1, <3>1
    <3> QED BY <1>5, <2>1, <3>2
  <2>3. \A k \in 0..N : r[k] = IF k = 0 THEN {<<>>} ELSE Turn(k, r[k - 1])
    BY <1>2, <2>1, <2>2
  <2>4. r = [k \in 0..N |-> r[k]]
    BY <2>1
  <2> QED BY <2>3, <2>4
<1>8. fronts = Whole(fronts)
  <2> HIDE DEF Whole
  <2> QED BY <1>7
<1> HIDE DEF fronts
<1>9. \A k \in 0..N : fronts[k] = IF k = 0 THEN {<<>>} ELSE Turn(k, fronts[k - 1])
  BY <1>8

<1> DEFINE T == {k \in 0..N : \A f \in fronts[k] : Zero(f, solutions, goals, k)}
<1>10. 0 \in T
  <2>1. 0 \in 0..N /\ 0 \in Nat /\ fronts[0] = {<<>>}
    BY <1>2, <1>9
  <2> DEFINE e == <<>>
  <2>2. e \in Seq(Tests) /\ Len(e) = 0 /\ ToSet(e) = {} /\ \A x : Copies(e, x) = 0
    BY NoCopies
  <2> HIDE DEF e
  <2>3. Zero(e, solutions, goals, 0)
    BY <2>2 DEF Zero
  <2> QED BY <2>1, <2>3 DEF e
<1>11. ASSUME NEW k \in 1..N, k - 1 \in T PROVE k \in T
  <2>1. k \in 0..N /\ k # 0 /\ k \in Nat \ {0} /\ fronts[k] = Turn(k, fronts[k - 1])
    BY <1>2, <1>9
  <2> SUFFICES ASSUME NEW u \in fronts[k] PROVE Zero(u, solutions, goals, k)
    BY <2>1
  <2>2. PICK f \in fronts[k - 1] : \E t \in Best(solutions, goals[k]) : u = Add(f, t)
    BY <1>3, <2>1
  <2>3. PICK t \in Best(solutions, goals[k]) : u = Add(f, t)
    BY <2>2
  <2>4. Zero(f, solutions, goals, k - 1)
    BY <1>11
  <2> QED BY <2>1, <2>3, <2>4, ZeroNext
<1> HIDE DEF T
<1>12. N \in T
  <2>1. N \in 0..N
    BY <1>2
  <2> QED BY <1>2, <1>10, <1>11, <2>1, UpTo
<1> QED BY <1>1, <1>12 DEF T, N

--------------------------------------------------------------------------------
(* Front after front                                                        *)

\* The front consists of what nothing before dominates and dominates what is left after.
Layer(front, before, after, G) ==
    /\ \A t \in ToSet(front) : t \in ToSet(before) /\ \A u \in ToSet(before) : ~ Dominates(u, t, G)
    /\ \A u \in ToSet(after) : \E t \in ToSet(front) : Dominates(t, u, G)

LEMMA LayerTaken ==
    ASSUME NEW goals, ToSet(goals) \subseteq ToSet(GoalOrder), NEW s \in Seq(Tests), s # <<>>,
           NEW front, front = _get_non_dominated_solutions(s, goals)
    PROVE  /\ front \in Seq(Tests) /\ Len(front) >= 1
           /\ Without(s, front) \in Seq(Tests) /\ Len(Without(s, front)) = Len(s) - Len(front)
           /\ Layer(front, s, Without(s, front), ToSet(goals))
<1> DEFINE G == ToSet(goals)
           rest == Without(s, front)
<1>1. UndominatedOf(front, s, Len(s), G)
  BY NonDominated
<1>2. /\ front \in Seq(Tests)
      /\ \A x \in Tests : Copies(front, x) =
           IF \E i \in 1..Len(s) : Dominates(s[i], x, G) THEN 0 ELSE Copies(s, x)
      /\ \A i \in 1..Len(s) : s[i] \in ToSet(front) \/ \E b \in ToSet(front) : Dominates(b, s[i], G)
  BY <1>1 DEF UndominatedOf, Copies
<1> HIDE DEF G
<1>3. /\ Len(s) \in Nat /\ ToSet(s) \subseteq Tests /\ \A x : Copies(s, x) \in Nat /\ (x \in ToSet(s) <=> Copies(s, x) # 0)
      /\ \A x : x \in ToSet(s) <=> \E i \in 1..Len(s) : s[i] = x
  BY Members
<1>4. /\ Len(front) \in Nat /\ ToSet(front) \subseteq Tests
      /\ \A x : Copies(front, x) \in Nat /\ (x \in ToSet(front) <=> Copies(front, x) # 0)
  BY <1>2, Members
<1>5. rest \in Seq(Tests) /\ Len(rest) = Len(s) - Len(front)
      /\ \A x \in Tests : Copies(rest, x) = Copies(s, x) - Copies(front, x)
  <2>1. \A x \in Tests : Copies(front, x) <= Copies(s, x)
    BY <1>2, <1>3
  <2> QED BY <1>2, <2>1, WithoutTakes
<1>6. \A t \in ToSet(front) : t \in ToSet(s) /\ \A u \in ToSet(s) : ~ Dominates(u, t, G)
  <2> SUFFICES ASSUME NEW t \in ToSet(front) PROVE t \in ToSet(s) /\ \A u \in ToSet(s) : ~ Dominates(u, t, G)
    OBVIOUS
  <2>1. t \in Tests /\ Copies(front, t) # 0
    BY <1>4
  <2>2. Copies(s, t) # 0 /\ ~ \E i \in 1..Len(s) : Dominates(s[i], t, G)
    BY <1>2, <2>1
  <2>3. ASSUME NEW u \in ToSet(s), Dominates(u, t, G) PROVE FALSE
    BY <1>3, <2>2, <2>3
  <2> QED BY <1>3, <2>2, <2>3
<1> HIDE DEF rest
<1>7. \A u \in ToSet(rest) : \E t \in ToSet(front) : Dominates(t, u, G)
  <2> SUFFICES ASSUME NEW u \in ToSet(rest) PROVE \E t \in ToSet(front) : Dominates(t, u, G)
    OBVIOUS
  <2>1. u \in Tests /\ Copies(rest, u) # 0
    BY <1>5, Members
  <2>2. Copies(rest, u) = Copies(s, u) - Copies(front, u)
    BY <1>5, <2>1
  <2>3. Copies(front, u) \in Nat /\ Copies(s, u) \in Nat
    BY <1>3, <1>4
  <2>4. Copies(front, u) = IF \E i \in 1..Len(s) : Dominates(s[i], u, G) THEN 0 ELSE Copies(s, u)
    BY <1>2, <2>1
  <2>5. Copies(front, u) # Copies(s, u)
    BY <2>1, <2>2, <2>3
  <2>6. Copies(front, u) = 0 /\ Copies(s, u) # 0
    BY <2>4, <2>5
  <2>7. PICK j \in 1..Len(s) : s[j] = u
    BY <1>3, <2>6
  <2>8. u \notin ToSet(front)
    BY <1>4, <2>6
  <2> QED BY <1>2, <2>7, <2>8
<1>8. Len(front) >= 1
  <2>1. Len(s) >= 1
    BY <1>3
  <2>2. 1 \in 1..Len(s)
    BY <1>3, <2>1
  <2>3. \E b : b \in ToSet(front)
    BY <1>2, <2>2
  <2>4. \E i \in 1..Len(front) : TRUE
    BY <1>2, <2>3, Members
  <2> QED BY <1>4, <2>4
<1> QED BY <1>2, <1>5, <1>6, <1>7, <1>8 DEF Layer, G, rest

\* rests[i] is what the first i fronts have left of the solutions.
Peeled(fronts, rests, solutions) ==
    /\ fronts \in Seq(Seq(Tests)) /\ Len(fronts) >= 1
    /\ rests \in [0..Len(fronts) -> Seq(Tests)] /\ rests[0] = solutions
    /\ \A i \in 1..Len(fronts) :
         rests[i] = Without(rests[i - 1], fronts[i]) /\ Len(rests[i]) = Len(rests[i - 1]) - Len(fronts[i])

Layered(fronts, rests, G) == \A i \in 2..Len(fronts) : Layer(fronts[i], rests[i - 1], rests[i], G)

LEMMA OnePeeled ==
    ASSUME NEW solutions \in Seq(Tests), NEW zero \in Seq(Tests),
           Without(solutions, zero) \in Seq(Tests), Len(Without(solutions, zero)) = Len(solutions) - Len(zero)
    PROVE  \E rests : /\ Peeled(<<zero>>, rests, solutions) /\ rests[1] = Without(solutions, zero)
                      /\ \A G : Layered(<<zero>>, rests, G)
<1> DEFINE fronts == <<zero>>
           rests == [i \in 0..1 |-> IF i = 0 THEN solutions ELSE Without(solutions, zero)]
<1>1. fronts \in Seq(Seq(Tests)) /\ Len(fronts) = 1 /\ fronts[1] = zero
  <2> DEFINE S == Seq(Tests)
  <2>1. zero \in S
    OBVIOUS
  <2> HIDE DEF S
  <2>2. fronts \in Seq(S) /\ Len(fronts) = 1 /\ fronts[1] = zero
    BY <2>1
  <2> QED BY <2>2 DEF S
<1>2. rests \in [0..1 -> Seq(Tests)] /\ rests[0] = solutions /\ rests[1] = Without(solutions, zero)
  OBVIOUS
<1>3. 1..1 = {1} /\ 2..1 = {} /\ 1 - 1 = 0
  OBVIOUS
<1> HIDE DEF fronts, rests
<1>4. Peeled(fronts, rests, solutions)
  BY <1>1, <1>2, <1>3 DEF Peeled
<1>5. \A G : Layered(fronts, rests, G)
  BY <1>1, <1>3 DEF Layered
<1> QED BY <1>2, <1>4, <1>5 DEF fronts

LEMMA PeeledFurther ==
    ASSUME NEW fronts, NEW rests, NEW solutions, Peeled(fronts, rests, solutions),
           NEW front \in Seq(Tests), NEW rest \in Seq(Tests),
           rest = Without(rests[Len(fronts)], front), Len(rest) = Len(rests[Len(fronts)]) - Len(front)
    PROVE  \E more : /\ Peeled(Append(fronts, front), more, solutions) /\ more[Len(fronts) + 1] = rest
                     /\ Append(fronts, front)[1] = fronts[1]
                     /\ \A G : Layered(fronts, rests, G) /\ Layer(front, rests[Len(fronts)], rest, G)
                                 => Layered(Append(fronts, front), more, G)
<1> DEFINE N == Len(fronts)
           new == Append(fronts, front)
           more == [i \in 0..(N + 1) |-> IF i = N + 1 THEN rest ELSE rests[i]]
<1>0. N \in Nat
  <2>1. fronts \in Seq(Seq(Tests))
    BY DEF Peeled
  <2> DEFINE S == Seq(Tests)
  <2> HIDE DEF S
  <2> QED BY <2>1 DEF S
<1>1. /\ fronts \in Seq(Seq(Tests)) /\ N >= 1 /\ N \in Nat
      /\ rests \in [0..N -> Seq(Tests)] /\ rests[0] = solutions
      /\ \A i \in 1..N :
           rests[i] = Without(rests[i - 1], fronts[i]) /\ Len(rests[i]) = Len(rests[i - 1]) - Len(fronts[i])
  BY <1>0 DEF Peeled
<1>2. new \in Seq(Seq(Tests)) /\ Len(new) = N + 1 /\ new[N + 1] = front /\ \A i \in 1..N : new[i] = fronts[i]
  <2> DEFINE S == Seq(Tests)
  <2>1. front \in S /\ fronts \in Seq(S)
    BY <1>1
  <2> HIDE DEF S
  <2>2. new \in Seq(S) /\ Len(new) = N + 1 /\ new[N + 1] = front /\ \A i \in 1..N : new[i] = fronts[i]
    BY <2>1
  <2> QED BY <2>2 DEF S
<1> HIDE DEF N, new
<1>3. \A i \in 0..(N + 1) : i = N + 1 \/ (i \in 0..N /\ i # N + 1)
  BY <1>1
<1>4. more \in [0..(N + 1) -> Seq(Tests)] /\ more[N + 1] = rest /\ \A i \in 0..N : more[i] = rests[i]
  BY <1>1, <1>3
<1> HIDE DEF more
<1>5. \A i \in 1..(N + 1) : i - 1 \in 0..N /\ (i = N + 1 \/ (i \in 1..N /\ i \in 0..N)) /\ N + 1 - 1 = N
  BY <1>1
<1>10. N \in Nat /\ N + 1 - 1 = N /\ N \in 0..N
  BY <1>1
<1>11. more[N] = rests[N] /\ more[N + 1] = rest /\ new[N + 1] = front
  BY <1>2, <1>4, <1>10
<1>12. more[N + 1 - 1] = rests[N]
  BY <1>10, <1>11
<1>6. ASSUME NEW i \in 1..(N + 1)
      PROVE  more[i] = Without(more[i - 1], new[i]) /\ Len(more[i]) = Len(more[i - 1]) - Len(new[i])
  <2>1. CASE i = N + 1
    <3>1. more[i] = rest /\ more[i - 1] = rests[N] /\ new[i] = front
      <4>1. i - 1 = N
        BY ONLY <1>10, <2>1
      <4>2. more[i] = rest /\ new[i] = front
        BY ONLY <1>10, <1>11, <2>1
      <4>3. more[i - 1] = rests[N]
        BY ONLY <1>11, <4>1
      <4> QED BY <4>2, <4>3
    <3> QED BY <3>1 DEF N
  <2>2. CASE i \in 1..N
    <3>1. more[i] = rests[i] /\ more[i - 1] = rests[i - 1] /\ new[i] = fronts[i]
      BY <1>2, <1>4, <1>5, <2>2
    <3> QED BY <1>1, <2>2, <3>1
  <2> QED BY <1>5, <2>1, <2>2
<1>7. Peeled(new, more, solutions)
  <2>1. 0 \in 0..N /\ Len(new) >= 1
    BY <1>1, <1>2
  <2> QED BY <1>1, <1>2, <1>4, <1>6, <2>1 DEF Peeled
<1>8. ASSUME NEW G, Layered(fronts, rests, G), Layer(front, rests[N], rest, G)
      PROVE  Layered(new, more, G)
  <2> SUFFICES ASSUME NEW i \in 2..(N + 1) PROVE Layer(new[i], more[i - 1], more[i], G)
    BY <1>2 DEF Layered
  <2>1. i \in 1..(N + 1)
    BY <1>1
  <2>2. CASE i = N + 1
    <3>1. more[i] = rest /\ more[i - 1] = rests[N] /\ new[i] = front
      <4>1. i - 1 = N
        BY ONLY <1>10, <2>2
      <4>2. more[i] = rest /\ new[i] = front
        BY ONLY <1>10, <1>11, <2>2
      <4>3. more[i - 1] = rests[N]
        BY ONLY <1>11, <4>1
      <4> QED BY <4>2, <4>3
    <3> QED BY <1>8, <3>1
  <2>3. CASE i # N + 1
    <3>1. i \in 1..N /\ i \in 2..N
      BY <1>1, <2>3
    <3>2. more[i] = rests[i] /\ more[i - 1] = rests[i - 1] /\ new[i] = fronts[i]
      <4>1. i \in 0..N /\ i - 1 \in 0..N
        BY <1>5, <2>1, <3>1
      <4> QED BY <1>2, <1>4, <3>1, <4>1
    <3> QED BY <1>8, <3>1, <3>2 DEF Layered, N
  <2> QED BY <2>2, <2>3
<1>9. new[1] = fronts[1]
  BY <1>1, <1>2
<1> QED BY <1>4, <1>7, <1>8, <1>9 DEF N, new

RankingStates == [fronts : Seq(Seq(Tests)), remaining : Seq(Tests), ranked_solutions : Nat]

\* After n turns of the loop over the rest: the fronts are layers, and n solutions at least are
\* ranked, or a population of them, or all.
Ranks(state, zero, solutions, G, n) ==
    /\ state \in RankingStates /\ state.fronts[1] = zero
    /\ \E rests : /\ Peeled(state.fronts, rests, solutions) /\ Layered(state.fronts, rests, G)
                  /\ state.remaining = rests[Len(state.fronts)]
    /\ \A i \in 2..Len(state.fronts) : Len(state.fronts[i]) >= 1
    /\ state.ranked_solutions = Len(solutions) - Len(state.remaining)
    /\ state.ranked_solutions >= n \/ state.ranked_solutions >= PopulationSize \/ state.remaining = <<>>

LEMMA TakeFrontTypes ==
    ASSUME NEW goals, ToSet(goals) \subseteq ToSet(GoalOrder), NEW state \in RankingStates
    PROVE  TakeFront(state, goals) \in RankingStates
<1>1. CASE state.ranked_solutions >= PopulationSize \/ state.remaining = <<>>
  BY <1>1 DEF TakeFront
<1>2. CASE ~ (state.ranked_solutions >= PopulationSize \/ state.remaining = <<>>)
  <2> DEFINE front == _get_non_dominated_solutions(state.remaining, goals)
             S == Seq(Tests)
             n == state.ranked_solutions + Len(front)
             fronts == Append(state.fronts, front)
             rest == Without(state.remaining, front)
  <2>1. state.fronts \in Seq(S) /\ state.remaining \in Seq(Tests) /\ state.ranked_solutions \in Nat
    BY DEF RankingStates
  <2>2. front \in Seq(Tests) /\ rest \in S /\ Len(front) \in Nat
    BY <1>2, <2>1, LayerTaken, Members
  <2>3. TakeFront(state, goals) = [fronts |-> fronts, remaining |-> rest, ranked_solutions |-> n]
    BY <1>2 DEF TakeFront
  <2>4. n \in Nat /\ front \in S
    BY <2>1, <2>2
  <2> HIDE DEF front, S, n, rest
  <2>5. fronts \in Seq(S)
    BY <2>1, <2>4
  <2> HIDE DEF fronts
  <2> QED BY <2>2, <2>3, <2>4, <2>5 DEF RankingStates, S
<1> QED BY <1>1, <1>2

LEMMA TakeFrontRanks ==
    ASSUME NEW goals, ToSet(goals) \subseteq ToSet(GoalOrder), NEW solutions \in Seq(Tests), NEW zero,
           NEW n \in Nat \ {0}, NEW state, Ranks(state, zero, solutions, ToSet(goals), n - 1)
    PROVE  Ranks(TakeFront(state, goals), zero, solutions, ToSet(goals), n)
<1> DEFINE G == ToSet(goals)
           new == TakeFront(state, goals)
<1>1. /\ state \in RankingStates /\ state.fronts[1] = zero
      /\ \E rests : /\ Peeled(state.fronts, rests, solutions) /\ Layered(state.fronts, rests, G)
                    /\ state.remaining = rests[Len(state.fronts)]
      /\ \A i \in 2..Len(state.fronts) : Len(state.fronts[i]) >= 1
      /\ state.ranked_solutions = Len(solutions) - Len(state.remaining)
      /\ state.ranked_solutions >= n - 1 \/ state.ranked_solutions >= PopulationSize \/ state.remaining = <<>>
  BY DEF Ranks
<1> HIDE DEF G
<1>2. CASE state.ranked_solutions >= PopulationSize \/ state.remaining = <<>>
  <2>1. new = state
    BY <1>2 DEF TakeFront
  <2> HIDE DEF new
  <2> QED BY <1>1, <1>2, <2>1 DEF Ranks, G, new
<1>3. CASE ~ (state.ranked_solutions >= PopulationSize \/ state.remaining = <<>>)
  <2> DEFINE fronts == state.fronts
             remaining == state.remaining
             count == state.ranked_solutions
             front == _get_non_dominated_solutions(remaining, goals)
             rest == Without(remaining, front)
  <2>1. PICK rests : Peeled(fronts, rests, solutions) /\ Layered(fronts, rests, G) /\ remaining = rests[Len(fronts)]
    BY <1>1
  <2>2. remaining \in Seq(Tests) /\ count \in Nat /\ Len(remaining) \in Nat /\ remaining # <<>>
    BY <1>1, <1>3, Members DEF RankingStates
  <2>3. new = [fronts |-> Append(fronts, front), remaining |-> rest, ranked_solutions |-> count + Len(front)]
    BY <1>3 DEF TakeFront
  <2>4. new \in RankingStates
    BY <1>1, TakeFrontTypes
  <2>5. /\ front \in Seq(Tests) /\ Len(front) >= 1 /\ rest \in Seq(Tests) /\ Len(rest) = Len(remaining) - Len(front)
        /\ Layer(front, remaining, rest, G)
    BY <2>2, LayerTaken DEF G
  <2>6. Len(front) \in Nat /\ Len(solutions) \in Nat
    BY <2>5, Members
  <2>7. count = Len(solutions) - Len(remaining) /\ count >= n - 1
    BY <1>1, <1>3
  <2> HIDE DEF new, fronts, remaining, count, front
  <2>8. rest = Without(rests[Len(fronts)], front) /\ Len(rest) = Len(rests[Len(fronts)]) - Len(front)
    BY <2>1, <2>5
  <2> HIDE DEF rest
  <2>9. PICK more : /\ Peeled(Append(fronts, front), more, solutions) /\ more[Len(fronts) + 1] = rest
                    /\ Append(fronts, front)[1] = fronts[1]
                    /\ \A H : Layered(fronts, rests, H) /\ Layer(front, rests[Len(fronts)], rest, H)
                                => Layered(Append(fronts, front), more, H)
    BY <2>1, <2>5, <2>8, PeeledFurther
  <2>10. /\ new.fronts = Append(fronts, front) /\ new.remaining = rest
         /\ new.ranked_solutions = count + Len(front)
    BY <2>3
  <2>11. Len(new.fronts) = Len(fronts) + 1 /\ \A i \in 2..Len(new.fronts) : Len(new.fronts[i]) >= 1
    <3> DEFINE S == Seq(Tests)
               more_fronts == Append(fronts, front)
    <3>1. fronts \in Seq(S) /\ front \in S
      BY <1>1, <2>5 DEF RankingStates, fronts
    <3> HIDE DEF S
    <3>2. /\ Len(fronts) \in Nat /\ Len(more_fronts) = Len(fronts) + 1 /\ more_fronts[Len(fronts) + 1] = front
          /\ \A i \in 1..Len(fronts) : more_fronts[i] = fronts[i]
      BY <3>1
    <3>3. \A i \in 2..Len(fronts) : Len(fronts[i]) >= 1
      BY <1>1 DEF fronts
    <3> HIDE DEF more_fronts
    <3>4. ASSUME NEW i \in 2..(Len(fronts) + 1) PROVE Len(more_fronts[i]) >= 1
      <4>1. CASE i = Len(fronts) + 1
        BY <2>5, <3>2, <4>1
      <4>2. CASE i # Len(fronts) + 1
        <5>1. i \in 1..Len(fronts) /\ i \in 2..Len(fronts)
          BY <3>2, <4>2
        <5> QED BY <3>2, <3>3, <5>1
      <4> QED BY <4>1, <4>2
    <3>5. new.fronts = more_fronts
      BY <2>10 DEF more_fronts
    <3> QED BY <3>2, <3>4, <3>5
  <2>12. Layered(new.fronts, more, G)
    BY <2>1, <2>5, <2>9, <2>10
  <2>13. new.ranked_solutions = Len(solutions) - Len(new.remaining) /\ new.ranked_solutions >= n
    <3>1. Len(rest) \in Nat
      BY <2>5, Members
    <3>2. count + Len(front) = Len(solutions) - Len(rest) /\ count + Len(front) >= n
      <4>1. Len(rest) = Len(remaining) - Len(front) /\ Len(front) >= 1
        BY <2>5
      <4> HIDE DEF remaining, rest
      <4> QED BY <2>2, <2>6, <2>7, <4>1
    <3> QED BY <2>10, <3>2
  <2>14. new.fronts[1] = zero
    BY <1>1, <2>9, <2>10 DEF fronts
  <2>15. Peeled(new.fronts, more, solutions) /\ new.remaining = more[Len(new.fronts)]
    BY <2>9, <2>10, <2>11
  <2>16. Ranks(new, zero, solutions, G, n)
    BY <2>4, <2>11, <2>12, <2>13, <2>14, <2>15 DEF Ranks
  <2> QED BY <2>16 DEF G, new
<1> QED BY <1>2, <1>3

LEMMA RestRanked ==
    ASSUME NEW goals, ToSet(goals) \subseteq ToSet(GoalOrder), NEW solutions \in Seq(Tests), NEW zero \in Seq(Tests),
           NEW remaining \in Seq(Tests), remaining = Without(solutions, zero),
           Len(remaining) = Len(solutions) - Len(zero)
    PROVE  \E state : /\ Ranks(state, zero, solutions, ToSet(goals), PopulationSize)
                      /\ RankRest(zero, remaining, goals) = state.fronts
<1> DEFINE N == PopulationSize
           base == [fronts |-> <<zero>>, remaining |-> remaining, ranked_solutions |-> Len(zero)]
           Turn(k, w) == TakeFront(w, goals)
           Whole(g) == [n \in 0..N |-> IF n = 0 THEN base ELSE Turn(n, g[n - 1])]
           after == CHOOSE g : g = Whole(g)
           step == [x \in (1..N) \X RankingStates |-> Turn(x[1], x[2])]
<1>1. RankRest(zero, remaining, goals) = after[N].fronts
  BY DEF RankRest
<1>2. N \in Nat
  BY MOSAAssumption DEF MOSAAssumption
<1>3. ASSUME NEW k \in 1..N, NEW w \in RankingStates PROVE Turn(k, w) \in RankingStates
  BY TakeFrontTypes
<1>4. Ranks(base, zero, solutions, ToSet(goals), 0) /\ base \in RankingStates
  <2> DEFINE S == Seq(Tests)
             fronts == <<zero>>
  <2>1. zero \in S /\ Len(zero) \in Nat /\ Len(solutions) \in Nat
    BY Members
  <2> HIDE DEF S
  <2>2. fronts \in Seq(S) /\ fronts[1] = zero /\ Len(fronts) = 1
    BY <2>1
  <2>3. \E rests : /\ Peeled(fronts, rests, solutions) /\ rests[1] = Without(solutions, zero)
                   /\ \A G : Layered(fronts, rests, G)
    BY OnePeeled
  <2> HIDE DEF fronts
  <2>4. base.fronts = fronts /\ base.remaining = remaining /\ base.ranked_solutions = Len(zero)
    BY DEF fronts
  <2>5. base \in RankingStates
    BY <2>1, <2>2 DEF RankingStates, S, fronts
  <2> HIDE DEF base
  <2>6. Len(zero) = Len(solutions) - Len(remaining) /\ Len(zero) >= 0
    BY <2>1, Members
  <2>7. \A i \in 2..Len(fronts) : FALSE
    BY <2>2
  <2> QED BY <2>2, <2>3, <2>4, <2>5, <2>6, <2>7 DEF Ranks
<1> HIDE DEF N, base
<1>5. ASSUME NEW k \in 1..N, NEW w \in RankingStates PROVE step[<<k, w>>] = Turn(k, w) /\ Turn(k, w) \in RankingStates
  <2>1. Turn(k, w) \in RankingStates
    BY <1>3
  <2> HIDE DEF Turn
  <2> DEFINE x == <<k, w>>
  <2>2. x \in (1..N) \X RankingStates /\ x[1] = k /\ x[2] = w
    OBVIOUS
  <2> HIDE DEF x
  <2>3. step[x] = Turn(k, w)
    BY <2>2
  <2> QED BY <2>1, <2>3 DEF x
<1> HIDE DEF step, Turn
<1>6. PICK r : Recursive(r, N, RankingStates, base, step)
  <2> DEFINE results == RankingStates
               <2>1. base \in results /\ \A k \in 1..N : \A x \in results : step[<<k, x>>] \in results
    BY <1>4, <1>5
  <2> HIDE DEF results
  <2>2. \E r : Recursive(r, N, results, base, step)
    BY <1>2, <2>1, Recursion
  <2> QED BY <2>2 DEF results
<1>7. r = Whole(r)
  <2>1. r \in [0..N -> RankingStates] /\ r[0] = base /\ \A k \in 1..N : r[k] = step[<<k, r[k - 1]>>]
    BY <1>6 DEF Recursive
  <2>2. ASSUME NEW k \in 1..N PROVE r[k] = Turn(k, r[k - 1])
    <3>1. k - 1 \in 0..N
      BY <1>2
    <3>2. r[k - 1] \in RankingStates
      BY <2>1, <3>1
    <3> QED BY <1>5, <2>1, <3>2
  <2>3. \A k \in 0..N : r[k] = IF k = 0 THEN base ELSE Turn(k, r[k - 1])
    BY <1>2, <2>1, <2>2
  <2>4. r = [k \in 0..N |-> r[k]]
    BY <2>1
  <2> QED BY <2>3, <2>4
<1>8. after = Whole(after)
  <2> HIDE DEF Whole
  <2> QED BY <1>7
<1> HIDE DEF after
<1>9. \A k \in 0..N : after[k] = IF k = 0 THEN base ELSE Turn(k, after[k - 1])
  BY <1>8

<1> DEFINE T == {k \in 0..N : Ranks(after[k], zero, solutions, ToSet(goals), k)}
<1>10. 0 \in T
  <2>1. 0 \in 0..N /\ 0 \in Nat /\ after[0] = base
    BY <1>2, <1>9
  <2> QED BY <1>4, <2>1
<1>11. ASSUME NEW k \in 1..N, k - 1 \in T PROVE k \in T
  <2>1. k \in 0..N /\ k # 0 /\ k \in Nat \ {0}
    BY <1>2
  <2>2. Ranks(after[k - 1], zero, solutions, ToSet(goals), k - 1)
    BY <1>11
  <2>3. Ranks(TakeFront(after[k - 1], goals), zero, solutions, ToSet(goals), k)
    BY <2>1, <2>2, TakeFrontRanks
  <2> QED BY <1>9, <2>1, <2>3 DEF Turn
<1> HIDE DEF T
<1>12. N \in T
  <2>1. N \in 0..N
    BY <1>2
  <2> QED BY <1>2, <1>10, <1>11, <2>1, UpTo
<1> QED BY <1>1, <1>12 DEF T, N

\* What a ranking says: its fronts are taken off the solutions one after the other, the
\* first being one of preferred tests; they are layers unless that one fills the population;
\* and none but the last is empty, except for want of goals.
IsRanking(fronts, solutions, goals) ==
    /\ Zero(fronts[1], solutions, goals, Len(goals))
    /\ \E rests : /\ Peeled(fronts, rests, solutions)
                  /\ Len(fronts[1]) < PopulationSize => Layered(fronts, rests, ToSet(goals))
                  /\ Len(solutions) - Len(rests[Len(fronts)]) >= PopulationSize
    /\ goals # <<>> => \A i \in 1..(Len(fronts) - 1) : Len(fronts[i]) >= 1

LEMMA AppendedToOne ==
    ASSUME NEW S, NEW x \in S, NEW y \in S
    PROVE  Append(<<x>>, y) = <<x, y>>
<1> DEFINE s == <<x>>
           a == Append(s, y)
           b == <<x, y>>
<1>1. s \in Seq(S) /\ Len(s) = 1 /\ s[1] = x
  OBVIOUS
<1>2. b \in Seq(S) /\ Len(b) = 2 /\ b[1] = x /\ b[2] = y
  OBVIOUS
<1> HIDE DEF s, b
<1>3. a \in Seq(S) /\ Len(a) = Len(s) + 1 /\ a[Len(s) + 1] = y /\ \A i \in 1..Len(s) : a[i] = s[i]
  <2>1. s \in Seq(S) /\ y \in S
    BY <1>1
  <2>2. a \in Seq(S) /\ Len(a) = Len(s) + 1
    BY <2>1
  <2>3. \A i \in 1..Len(s) : a[i] = s[i]
    BY <2>1
  <2>4. a[Len(s) + 1] = y
    BY <2>1
  <2> QED BY <2>2, <2>3, <2>4
<1> HIDE DEF a
<1>4. 1 \in 1..Len(s) /\ Len(s) + 1 = 2
  BY <1>1
<1>5. Len(a) = 2 /\ a[1] = x /\ a[2] = y
  BY <1>1, <1>3, <1>4
<1>6. \A i \in 1..Len(a) : a[i] = b[i]
  BY <1>2, <1>5
<1>7. a = b
  BY <1>2, <1>3, <1>5, <1>6, SeqEqual
<1> QED BY <1>7 DEF a, b, s

LEMMA RankingsAreRankings ==
    ASSUME NEW goals, goals \in Seq(ToSet(GoalOrder)), NEW solutions \in Seq(Tests), Len(solutions) >= PopulationSize
    PROVE  \A fronts \in compute_ranking_assignment(solutions, goals) : IsRanking(fronts, solutions, goals)
<1> SUFFICES ASSUME NEW fronts \in compute_ranking_assignment(solutions, goals)
             PROVE  IsRanking(fronts, solutions, goals)
  OBVIOUS
<1>1. PICK zero \in _get_zero_front(solutions, goals) :
        fronts = IF Len(zero) < PopulationSize THEN RankRest(zero, Without(solutions, zero), goals)
                 ELSE <<zero, Without(solutions, zero)>>
  BY DEF compute_ranking_assignment
<1> DEFINE rest == Without(solutions, zero)
<1>2. Zero(zero, solutions, goals, Len(goals))
  BY ZeroFronts
<1>3. zero \in Seq(Tests) /\ ToSet(zero) \subseteq ToSet(solutions) /\ \A x : Copies(zero, x) <= 1
  BY <1>2 DEF Zero
<1>4. /\ Len(zero) \in Nat /\ Len(solutions) \in Nat /\ ToSet(goals) \subseteq ToSet(GoalOrder)
      /\ \A x : Copies(zero, x) \in Nat /\ (x \in ToSet(zero) <=> Copies(zero, x) # 0)
      /\ \A x : Copies(solutions, x) \in Nat /\ (x \in ToSet(solutions) <=> Copies(solutions, x) # 0)
  BY <1>3, Members
<1>5. \A x \in Tests : Copies(zero, x) <= Copies(solutions, x)
  <2> SUFFICES ASSUME NEW x \in Tests PROVE Copies(zero, x) <= Copies(solutions, x)
    OBVIOUS
  <2>1. CASE x \in ToSet(zero)
    <3>1. Copies(solutions, x) # 0 /\ Copies(solutions, x) \in Nat /\ Copies(zero, x) <= 1 /\ Copies(zero, x) \in Nat
      BY <1>3, <1>4, <2>1
    <3> QED BY <3>1
  <2>2. CASE x \notin ToSet(zero)
    <3>1. Copies(zero, x) = 0 /\ Copies(solutions, x) \in Nat
      BY <1>4, <2>2
    <3> QED BY <3>1
  <2> QED BY <2>1, <2>2
<1>6. rest \in Seq(Tests) /\ Len(rest) = Len(solutions) - Len(zero)
  BY <1>3, <1>5, WithoutTakes
<1>7. PopulationSize \in Nat /\ PopulationSize >= 1
  BY MOSAAssumption DEF MOSAAssumption
<1>7a. ASSUME goals # <<>> PROVE Len(zero) >= 1
  <2>1. Len(goals) \in Nat /\ Len(goals) >= 1
    BY <1>7a
  <2>2. 1 \in 1..Len(goals)
    BY <2>1
  <2>3. \E t : t \in ToSet(zero)
    BY <1>2, <2>2 DEF Zero
  <2>4. \E i \in 1..Len(zero) : TRUE
    BY <1>3, <2>3, Members
  <2> QED BY <1>4, <2>4
<1>8. CASE Len(zero) < PopulationSize
  <2>1. PICK state : /\ Ranks(state, zero, solutions, ToSet(goals), PopulationSize)
                     /\ RankRest(zero, rest, goals) = state.fronts
    BY <1>3, <1>4, <1>6, RestRanked
  <2>2. fronts = state.fronts
    BY <1>1, <1>8, <2>1
  <2>3. PICK rests : /\ Peeled(fronts, rests, solutions) /\ Layered(fronts, rests, ToSet(goals))
                     /\ state.remaining = rests[Len(fronts)]
    BY <2>1, <2>2 DEF Ranks
  <2>4. /\ fronts[1] = zero /\ state.remaining \in Seq(Tests)
        /\ state.ranked_solutions = Len(solutions) - Len(state.remaining)
        /\ state.ranked_solutions >= PopulationSize \/ state.remaining = <<>>
    BY <2>1, <2>2 DEF Ranks, RankingStates
  <2>5. Len(solutions) - Len(state.remaining) >= PopulationSize
    <3>1. CASE state.remaining = <<>>
      <4>1. Len(state.remaining) = 0
        BY <3>1
      <4> QED BY <1>4, <1>7, <4>1
    <3>2. CASE state.ranked_solutions >= PopulationSize
      BY <2>4, <3>2
    <3> QED BY <2>4, <3>1, <3>2
  <2>6. ASSUME goals # <<>>, NEW i \in 1..(Len(fronts) - 1) PROVE Len(fronts[i]) >= 1
    <3>1. CASE i = 1
      BY <1>7a, <2>4, <2>6, <3>1
    <3>2. CASE i # 1
      <4>1. Len(fronts) \in Nat
        <5> DEFINE S == Seq(Tests)
        <5>1. fronts \in Seq(S)
          BY <2>3 DEF Peeled
        <5> HIDE DEF S
        <5> QED BY <5>1
      <4>2. i \in 2..Len(fronts)
        BY <3>2, <4>1
      <4> QED BY <2>1, <2>2, <4>2 DEF Ranks
    <3> QED BY <3>1, <3>2
  <2> QED BY <1>2, <2>3, <2>4, <2>5, <2>6 DEF IsRanking
<1>9. CASE ~ (Len(zero) < PopulationSize)
  <2> DEFINE first == <<zero>>
             S == Seq(Tests)
  <2>1. PICK rests : Peeled(first, rests, solutions) /\ rests[1] = rest
    BY <1>3, <1>6, OnePeeled
  <2>2. zero \in S /\ rest \in S
    BY <1>3, <1>6
  <2> HIDE DEF S
  <2>3. first \in Seq(S) /\ Len(first) = 1 /\ first[1] = zero /\ Append(first, rest) = <<zero, rest>>
    BY <2>2, AppendedToOne
  <2>4. fronts = Append(first, rest) /\ Len(fronts) = 2
    <3>1. fronts = Append(first, rest)
      BY <1>1, <1>9, <2>3
    <3> HIDE DEF first
    <3> QED BY <2>2, <2>3, <3>1
  <2> HIDE DEF first, rest
  <2> DEFINE none == Without(rests[Len(first)], rest)
  <2>5. rests[Len(first)] = rest
    BY <2>1, <2>3
  <2>6. none \in Seq(Tests) /\ Len(none) = Len(rest) - Len(rest) /\ Len(rest) \in Nat
    <3>1. \A x \in Tests : Copies(rest, x) <= Copies(rest, x)
      BY <1>6, Members DEF rest
    <3>2. Without(rest, rest) \in Seq(Tests) /\ Len(Without(rest, rest)) = Len(rest) - Len(rest)
      BY <1>6, <3>1, WithoutTakes DEF rest
    <3>3. Len(rest) \in Nat
      BY <1>6, Members DEF rest
    <3> QED BY <2>5, <3>2, <3>3
  <2>7. Len(none) = Len(rests[Len(first)]) - Len(rest) /\ Len(none) = 0 /\ rest \in Seq(Tests)
    BY <1>6, <2>5, <2>6 DEF rest
  <2>7a. none = Without(rests[Len(first)], rest)
    OBVIOUS
  <2> HIDE DEF none
  <2>8. PICK more : Peeled(Append(first, rest), more, solutions) /\ more[Len(first) + 1] = none
                    /\ Append(first, rest)[1] = first[1]
    BY <2>1, <2>6, <2>7, <2>7a, PeeledFurther
  <2>9. /\ Peeled(fronts, more, solutions) /\ more[Len(fronts)] = none /\ fronts[1] = zero
    BY <2>3, <2>4, <2>8
  <2>10. Len(solutions) - Len(none) >= PopulationSize
    BY <1>4, <1>7, <2>7
  <2>11. \A i \in 1..(Len(fronts) - 1) : Len(fronts[i]) >= 1
    <3>1. \A i \in 1..(Len(fronts) - 1) : i = 1
      BY <2>4
    <3>2. Len(zero) >= 1
      BY <1>4, <1>7, <1>9
    <3> QED BY <2>9, <3>1, <3>2
  <2> QED BY <1>2, <1>9, <2>9, <2>10, <2>11 DEF IsRanking
<1> QED BY <1>8, <1>9

--------------------------------------------------------------------------------
(* Survival                                                                 *)

LEMMA Greatest ==
    ASSUME NEW n \in Nat, NEW S, S \subseteq 0..n, S # {}
    PROVE  Max(S) \in S
<1> DEFINE D == {d \in 0..n : n - d \in S}
<1>1. D \subseteq Nat
  OBVIOUS
<1>2. D # {}
  <2>1. PICK x : x \in S
    OBVIOUS
  <2>2. n - x \in 0..n /\ n - (n - x) = x
    BY <2>1
  <2> QED BY <2>1, <2>2
<1>3. PICK d \in D : \A e \in D : d <= e
  <2> HIDE DEF D
  <2> QED BY <1>1, <1>2, LeastNumber
<1>4. ASSUME NEW y \in S PROVE n - d >= y
  <2>1. y \in 0..n /\ n - y \in 0..n /\ n - (n - y) = y
    OBVIOUS
  <2>2. n - y \in D
    BY <2>1
  <2>3. d <= n - y /\ d \in 0..n
    BY <1>3, <2>2
  <2> QED BY <2>1, <2>3
<1>5. n - d \in S
  BY <1>3
<1>6. \E x \in S : \A y \in S : x >= y
  BY <1>4, <1>5
<1> QED BY <1>6 DEF Max

\* In every order by decreasing distance each place is taken.
LEMMA PlacesAreTaken ==
    ASSUME NEW n \in Nat, NEW d \in [1..n -> Int], NEW k \in 1..n
    PROVE  \E i \in 1..n : Cardinality({j \in 1..n : d[j] > d[i] \/ (d[j] = d[i] /\ j < i)}) = k - 1
<1> DEFINE Ahead(i) == {j \in 1..n : d[j] > d[i] \/ (d[j] = d[i] /\ j < i)}
           place == [i \in 1..n |-> Cardinality(Ahead(i))]
<1>1. \A i \in 1..n : d[i] \in Int /\ i \notin Ahead(i) /\ Ahead(i) \subseteq 1..n
  OBVIOUS
<1>2. IsFiniteSet(1..n) /\ Cardinality(1..n) = n
  BY FS_Interval
<1>3. ASSUME NEW i \in 1..n, NEW j \in 1..n, i \in Ahead(j)
      PROVE  Ahead(i) \subseteq Ahead(j)
  BY <1>1, <1>3
<1>4. ASSUME NEW i \in 1..n, NEW j \in 1..n, i # j
      PROVE  i \in Ahead(j) \/ j \in Ahead(i)
  BY <1>1, <1>4
<1> HIDE DEF Ahead
<1>5. \A i \in 1..n : IsFiniteSet(Ahead(i)) /\ Cardinality(Ahead(i)) \in 0..(n - 1)
  <2> SUFFICES ASSUME NEW i \in 1..n PROVE IsFiniteSet(Ahead(i)) /\ Cardinality(Ahead(i)) \in 0..(n - 1)
    OBVIOUS
  <2> DEFINE others == (1..n) \ {i}
  <2>1. IsFiniteSet(others) /\ Cardinality(others) = n - 1
    BY <1>2, FS_RemoveElement
  <2>2. Ahead(i) \subseteq others
    BY <1>1
  <2> HIDE DEF others
  <2>3. IsFiniteSet(Ahead(i)) /\ Cardinality(Ahead(i)) <= n - 1
    BY <2>1, <2>2, FS_Subset
  <2>4. Cardinality(Ahead(i)) \in Nat
    BY <2>3, FS_CardinalityType
  <2> QED BY <2>3, <2>4
<1>6. ASSUME NEW i \in 1..n, NEW j \in 1..n, i \in Ahead(j)
      PROVE  Cardinality(Ahead(i)) # Cardinality(Ahead(j))
  <2>1. Ahead(i) \subseteq Ahead(j) /\ IsFiniteSet(Ahead(j))
    BY <1>3, <1>5, <1>6
  <2>2. Cardinality(Ahead(j)) = Cardinality(Ahead(i)) => Ahead(j) = Ahead(i)
    BY <2>1, FS_Subset
  <2> QED BY <1>1, <1>6, <2>2
<1>7. \A i, j \in 1..n : i # j => Cardinality(Ahead(i)) # Cardinality(Ahead(j))
  BY <1>4, <1>6
<1> SUFFICES ASSUME \A i \in 1..n : Cardinality(Ahead(i)) # k - 1 PROVE FALSE
  BY DEF Ahead
<1> DEFINE T == (0..(n - 1)) \ {k - 1}
<1>8. IsFiniteSet(T) /\ Cardinality(T) = n - 1
  <2> DEFINE U == 0..(n - 1)
  <2>1. IsFiniteSet(U) /\ Cardinality(U) = n
    <3>1. 0 \in Int /\ n - 1 \in Int
      OBVIOUS
    <3>2. IsFiniteSet(U) /\ Cardinality(U) = IF 0 > n - 1 THEN 0 ELSE n - 1 - 0 + 1
      BY <3>1, FS_Interval
    <3> HIDE DEF U
    <3> QED BY <3>2
  <2>2. k - 1 \in U
    OBVIOUS
  <2> HIDE DEF U
  <2>3. IsFiniteSet(U \ {k - 1}) /\ Cardinality(U \ {k - 1}) = n - 1
    BY <2>1, <2>2, FS_RemoveElement
  <2> QED BY <2>3 DEF U
<1>9. place \in [1..n -> T]
  BY <1>5
<1>10. \A i \in 1..n : place[i] = Cardinality(Ahead(i))
  OBVIOUS
<1> HIDE DEF place, T
<1>11. \E i, j \in 1..n : i # j /\ place[i] = place[j]
  <2> DEFINE S == 1..n
  <2>1. IsFiniteSet(S) /\ Cardinality(T) < Cardinality(S) /\ place \in [S -> T]
    BY <1>2, <1>8, <1>9
  <2> HIDE DEF S
  <2>2. \E i, j \in S : i # j /\ place[i] = place[j]
    BY <1>8, <2>1, FS_PigeonHole
  <2> QED BY <2>2 DEF S
<1> QED BY <1>7, <1>10, <1>11

LEMMA DistancesAreNumbers ==
    ASSUME NEW front \in Seq(Tests), NEW goals
    PROVE  fast_epsilon_dominance_assignment(front, goals) \in [1..Len(front) -> Nat]
<1> DEFINE n == Len(front)
           Minimal(g) == {i \in DOMAIN front : \A j \in DOMAIN front : Fitness[front[i]][g] <= Fitness[front[j]][g]}
           Shares(i) == {Len(front) - Cardinality(Minimal(g)) : g \in {h \in ToSet(goals) : i \in Minimal(h)}}
<1>1. n \in Nat /\ DOMAIN front = 1..n
  OBVIOUS
<1>2. fast_epsilon_dominance_assignment(front, goals) = [i \in DOMAIN front |-> Max({0} \cup Shares(i))]
  BY DEF fast_epsilon_dominance_assignment
<1>3. \A g : Cardinality(Minimal(g)) \in 0..n
  <2> TAKE g
  <2> DEFINE M == Minimal(g)
             S == 1..n
  <2>1. M \subseteq S
    BY <1>1
  <2>2. IsFiniteSet(S) /\ Cardinality(S) = n
    BY <1>1, FS_Interval
  <2> HIDE DEF M, S
  <2>3. IsFiniteSet(M) /\ Cardinality(M) <= n
    BY <2>1, <2>2, FS_Subset
  <2>4. Cardinality(M) \in Nat
    BY <2>3, FS_CardinalityType
  <2>5. Cardinality(M) \in 0..n
    BY <1>1, <2>3, <2>4
  <2> QED BY <2>5 DEF M
<1>4. ASSUME NEW i \in 1..n PROVE Max({0} \cup Shares(i)) \in Nat
  <2> HIDE DEF Minimal
  <2>1. Shares(i) \subseteq 0..n
    <3>1. \A g : n - Cardinality(Minimal(g)) \in 0..n
      BY <1>1, <1>3
    <3> QED BY <3>1
  <2> DEFINE S == {0} \cup Shares(i)
  <2>2. S \subseteq 0..n /\ S # {}
    BY <1>1, <2>1
  <2> HIDE DEF S, n
  <2>3. Max(S) \in S
    BY <1>1, <2>2, Greatest
  <2>4. Max(S) \in 0..n
    BY <2>2, <2>3
  <2>5. Max(S) \in Nat
    <3> DEFINE m == Max(S)
    <3>1. m \in 0..n
      BY <2>4
    <3> HIDE DEF m
    <3>2. m \in Nat
      BY <1>1, <3>1
    <3> QED BY <3>2 DEF m
  <2> QED BY <2>5 DEF S
<1> HIDE DEF Shares
<1> QED BY <1>1, <1>2, <1>4

LEMMA SortingKeepsTests ==
    ASSUME NEW front \in Seq(Tests), NEW goals
    PROVE  SortedByDistance(front, goals) \in Seq(Tests) /\ Len(SortedByDistance(front, goals)) = Len(front)
<1> DEFINE n == Len(front)
           distance == fast_epsilon_dominance_assignment(front, goals)
           Ahead(i) == {j \in DOMAIN front : distance[j] > distance[i] \/ (distance[j] = distance[i] /\ j < i)}
           At(k) == CHOOSE i \in DOMAIN front : Cardinality(Ahead(i)) = k - 1
           sorted == [k \in 1..n |-> front[At(k)]]
<1>1. n \in Nat /\ DOMAIN front = 1..n /\ \A i \in 1..n : front[i] \in Tests
  OBVIOUS
<1>2. SortedByDistance(front, goals) = sorted
  BY <1>1 DEF SortedByDistance
<1>3. distance \in [1..n -> Int]
  BY DistancesAreNumbers
<1> HIDE DEF n, distance
<1>4. ASSUME NEW k \in 1..n PROVE At(k) \in 1..n
  <2>1. \E i \in 1..n : Cardinality(Ahead(i)) = k - 1
    BY <1>1, <1>3, PlacesAreTaken
  <2> HIDE DEF Ahead
  <2> QED BY <1>1, <2>1
<1> HIDE DEF At
<1>5. \A k \in 1..n : front[At(k)] \in Tests
  BY <1>1, <1>4
<1>6. sorted \in [1..n -> Tests]
  BY <1>5
<1> HIDE DEF sorted
<1>7. sorted \in Seq(Tests) /\ Len(sorted) = n
  BY <1>1, <1>6
<1> QED BY <1>2, <1>7 DEF n

\* What fits, and never more than a population
LEMMA FillFills ==
    ASSUME NEW w \in Seq(Tests), Len(w) <= PopulationSize, NEW front \in Seq(Tests), NEW goals,
           Len(population) = PopulationSize
    PROVE  /\ Fill(w, front, goals) \in Seq(Tests)
           /\ Len(Fill(w, front, goals)) =
                IF Len(w) + Len(front) <= PopulationSize THEN Len(w) + Len(front) ELSE PopulationSize
           /\ ToSet(w) \subseteq ToSet(Fill(w, front, goals))
           /\ Len(w) + Len(front) <= PopulationSize => ToSet(front) \subseteq ToSet(Fill(w, front, goals))
<1> DEFINE room == PopulationSize - Len(w)
           best == SubSeq(SortedByDistance(front, goals), 1, room)
           added == IF room >= Len(front) THEN front ELSE best
           u == w \o added
<1>1. PopulationSize \in Nat /\ Len(w) \in Nat /\ Len(front) \in Nat /\ room \in Nat
  BY Members, MOSAAssumption DEF MOSAAssumption
<1>2. Fill(w, front, goals) = u
  BY DEF Fill
<1> HIDE DEF room
<1>3. ~ (room >= Len(front)) => best \in Seq(Tests) /\ Len(best) = room
  <2> DEFINE sorted == SortedByDistance(front, goals)
  <2>1. sorted \in Seq(Tests) /\ Len(sorted) = Len(front)
    BY SortingKeepsTests
  <2> HIDE DEF sorted
  <2> SUFFICES ASSUME ~ (room >= Len(front)) PROVE SubSeq(sorted, 1, room) \in Seq(Tests) /\ Len(SubSeq(sorted, 1, room)) = room
    BY DEF sorted
  <2>2. room <= Len(sorted)
    BY <1>1, <2>1
  <2> QED BY <1>1, <2>1, <2>2
<1> HIDE DEF best
<1>4. added \in Seq(Tests) /\ Len(added) = IF room >= Len(front) THEN Len(front) ELSE room
  BY <1>3
<1>5. room >= Len(front) => added = front
  OBVIOUS
<1> HIDE DEF added
<1>6. /\ u \in Seq(Tests) /\ Len(u) = Len(w) + Len(added)
      /\ \A i \in 1..(Len(w) + Len(added)) : u[i] = IF i <= Len(w) THEN w[i] ELSE added[i - Len(w)]
  BY <1>4, ConcatProperties
<1> HIDE DEF u
<1>7. Len(added) \in Nat
  BY <1>4, Members
<1>8. \A x : x \in ToSet(u) <=> \E i \in 1..Len(u) : u[i] = x
  BY <1>6, Members
<1>9. ASSUME NEW x \in ToSet(w) PROVE x \in ToSet(u)
  <2>1. PICK i \in 1..Len(w) : w[i] = x
    BY Members
  <2>2. i \in 1..Len(u) /\ u[i] = x
    BY <1>1, <1>6, <1>7, <2>1
  <2> QED BY <1>8, <2>2
<1>10. ASSUME NEW x \in ToSet(added) PROVE x \in ToSet(u)
  <2>1. PICK i \in 1..Len(added) : added[i] = x
    BY <1>4, Members
  <2> DEFINE j == Len(w) + i
  <2>2. j \in 1..(Len(w) + Len(added)) /\ ~ (j <= Len(w)) /\ j - Len(w) = i
    BY <1>1, <1>7, <2>1
  <2> HIDE DEF j
  <2>3. u[j] = added[j - Len(w)]
    BY <1>6, <2>2
  <2>4. j \in 1..Len(u) /\ u[j] = x
    BY <1>6, <2>1, <2>2, <2>3
  <2> QED BY <1>8, <2>4
<1>11. /\ Len(w) + Len(front) <= PopulationSize <=> room >= Len(front)
       /\ Len(w) + room = PopulationSize
  BY <1>1 DEF room
<1>12. Len(u) = IF Len(w) + Len(front) <= PopulationSize THEN Len(w) + Len(front) ELSE PopulationSize
  BY <1>4, <1>6, <1>11
<1>13. Len(w) + Len(front) <= PopulationSize => ToSet(front) \subseteq ToSet(u)
  BY <1>5, <1>10, <1>11
<1> QED BY <1>2, <1>6, <1>9, <1>12, <1>13

LEMMA SurvivorsSurvive ==
    ASSUME NEW goals, goals # <<>>, NEW solutions \in Seq(Tests), NEW fronts, IsRanking(fronts, solutions, goals),
           Len(population) = PopulationSize
    PROVE  /\ Survivors(fronts, goals) \in Seq(Tests) /\ Len(Survivors(fronts, goals)) = PopulationSize
           /\ Len(fronts[1]) <= PopulationSize => ToSet(fronts[1]) \subseteq ToSet(Survivors(fronts, goals))
<1> DEFINE N == Len(fronts)
           Parts == {w \in Seq(Tests) : Len(w) <= PopulationSize}
           Turn(k, w) == IF \E m \in 1..k : fronts[m] = <<>> THEN w ELSE Fill(w, fronts[k], goals)
           Whole(g) == [n \in 0..N |-> IF n = 0 THEN <<>> ELSE Turn(n, g[n - 1])]
           taken == CHOOSE g : g = Whole(g)
           step == [x \in (1..N) \X Parts |-> Turn(x[1], x[2])]
<1>1. Survivors(fronts, goals) = taken[N]
  BY DEF Survivors
<1>2. PICK rests : Peeled(fronts, rests, solutions) /\ Len(solutions) - Len(rests[Len(fronts)]) >= PopulationSize
  BY DEF IsRanking
<1>2a. \A i \in 1..(N - 1) : Len(fronts[i]) >= 1
  BY DEF IsRanking
<1>3. N \in Nat /\ N >= 1 /\ \A k \in 1..N : fronts[k] \in Seq(Tests) /\ Len(fronts[k]) \in Nat
  <2> DEFINE S == Seq(Tests)
  <2>1. fronts \in Seq(S) /\ N >= 1
    BY <1>2 DEF Peeled
  <2>2. \A f \in S : Len(f) \in Nat
    BY Members
  <2> HIDE DEF S
  <2>3. N \in Nat /\ \A k \in 1..N : fronts[k] \in S
    BY <2>1
  <2> QED BY <2>1, <2>2, <2>3 DEF S
<1>4. PopulationSize \in Nat
  BY MOSAAssumption DEF MOSAAssumption
<1>5. ASSUME NEW k \in 1..N, NEW w \in Parts PROVE Turn(k, w) \in Parts
  <2> DEFINE u == Fill(w, fronts[k], goals)
  <2>1. w \in Seq(Tests) /\ Len(w) <= PopulationSize /\ fronts[k] \in Seq(Tests)
    BY <1>3
  <2>2. /\ u \in Seq(Tests)
        /\ Len(u) = IF Len(w) + Len(fronts[k]) <= PopulationSize THEN Len(w) + Len(fronts[k]) ELSE PopulationSize
    BY <2>1, FillFills
  <2> HIDE DEF u
  <2>3. Len(u) <= PopulationSize
    BY <1>4, <2>2
  <2> QED BY <2>2, <2>3 DEF u
<1>6. \A k \in 0..N : Len(rests[k]) \in Nat
  BY <1>2, Members DEF Peeled
<1>7. rests[0] = solutions /\ \A k \in 1..N : Len(rests[k]) = Len(rests[k - 1]) - Len(fronts[k])
  BY <1>2 DEF Peeled
<1>8. Len(solutions) \in Nat
  BY Members
<1> HIDE DEF N
<1>9. <<>> \in Parts
  <2> DEFINE e == <<>>
  <2>1. e \in Seq(Tests) /\ Len(e) = 0
    OBVIOUS
  <2> HIDE DEF e
  <2>2. e \in Parts
    BY <1>4, <2>1
  <2> QED BY <2>2 DEF e
<1>10. \A w \in Parts : w \in Seq(Tests) /\ Len(w) <= PopulationSize /\ Len(w) \in Nat
  BY Members
<1> HIDE DEF Parts
<1>11. ASSUME NEW k \in 1..N, NEW w \in Parts PROVE step[<<k, w>>] = Turn(k, w) /\ Turn(k, w) \in Parts
  <2>1. Turn(k, w) \in Parts
    BY <1>5
  <2> HIDE DEF Turn
  <2> DEFINE x == <<k, w>>
  <2>2. x \in (1..N) \X Parts /\ x[1] = k /\ x[2] = w
    OBVIOUS
  <2> HIDE DEF x
  <2>3. step[x] = Turn(k, w)
    BY <2>2
  <2> QED BY <2>1, <2>3 DEF x
<1> HIDE DEF step, Turn
<1>12. PICK r : Recursive(r, N, Parts, <<>>, step)
  <2> DEFINE results == Parts
             base == <<>>
  <2>1. base \in results /\ \A k \in 1..N : \A x \in results : step[<<k, x>>] \in results
    BY <1>9, <1>11
  <2> HIDE DEF results, base
  <2>2. \E r : Recursive(r, N, results, base, step)
    BY <1>3, <2>1, Recursion
  <2> QED BY <2>2 DEF results, base
<1>13. r = Whole(r)
  <2>1. r \in [0..N -> Parts] /\ r[0] = <<>> /\ \A k \in 1..N : r[k] = step[<<k, r[k - 1]>>]
    BY <1>12 DEF Recursive
  <2>2. ASSUME NEW k \in 1..N PROVE r[k] = Turn(k, r[k - 1])
    <3>1. k - 1 \in 0..N
      BY <1>3
    <3>2. r[k - 1] \in Parts
      BY <2>1, <3>1
    <3> QED BY <1>11, <2>1, <3>2
  <2>3. \A k \in 0..N : r[k] = IF k = 0 THEN <<>> ELSE Turn(k, r[k - 1])
    BY <1>3, <2>1, <2>2
  <2>4. r = [k \in 0..N |-> r[k]]
    BY <2>1
  <2> QED BY <2>3, <2>4
<1>14. taken = Whole(taken)
  <2> HIDE DEF Whole
  <2> QED BY <1>13
<1> HIDE DEF taken
<1>15. \A k \in 0..N : taken[k] = IF k = 0 THEN <<>> ELSE Turn(k, taken[k - 1])
  BY <1>14

<1> DEFINE T == {k \in 0..N : /\ taken[k] \in Parts
                              /\ Len(taken[k]) = IF Len(solutions) - Len(rests[k]) <= PopulationSize
                                                 THEN Len(solutions) - Len(rests[k]) ELSE PopulationSize
                              /\ k >= 1 /\ Len(fronts[1]) <= PopulationSize
                                   => ToSet(fronts[1]) \subseteq ToSet(taken[k])}
<1>16. 0 \in T
  <2>1. 0 \in 0..N /\ taken[0] = <<>> /\ ~ (0 >= 1) /\ Len(solutions) - Len(rests[0]) = 0
    BY <1>3, <1>7, <1>8, <1>15
  <2>2. Len(<<>>) = 0
    OBVIOUS
  <2> QED BY <1>4, <1>9, <2>1, <2>2
<1>17. ASSUME NEW k \in 1..N, k - 1 \in T PROVE k \in T
  <2> DEFINE w == taken[k - 1]
             f == fronts[k]
             u == taken[k]
             before == Len(solutions) - Len(rests[k - 1])
             after == Len(solutions) - Len(rests[k])
  <2>1. k \in 0..N /\ k # 0 /\ k - 1 \in 0..N /\ k >= 1
    BY <1>3
  <2>2. /\ w \in Parts /\ Len(w) = IF before <= PopulationSize THEN before ELSE PopulationSize
        /\ k - 1 >= 1 /\ Len(fronts[1]) <= PopulationSize => ToSet(fronts[1]) \subseteq ToSet(w)
    BY <1>17
  <2>3. w \in Seq(Tests) /\ Len(w) <= PopulationSize /\ Len(w) \in Nat /\ f \in Seq(Tests) /\ Len(f) \in Nat
    BY <1>3, <1>10, <2>2
  <2>4. u = IF \E m \in 1..k : fronts[m] = <<>> THEN w ELSE Fill(w, f, goals)
    BY <1>15, <2>1 DEF Turn
  <2>5. u \in Parts
    BY <1>11, <1>15, <2>1, <2>2
  <2>6. before \in Int /\ after = before + Len(f)
    <3> DEFINE p == Len(rests[k - 1])
               q == Len(rests[k])
               total == Len(solutions)
               b == Len(f)
    <3>1. p \in Nat /\ q \in Nat /\ total \in Nat /\ b \in Nat /\ q = p - b
      BY <1>3, <1>6, <1>7, <1>8, <2>1
    <3> HIDE DEF p, q, total, b
    <3>2. total - p \in Int /\ total - q = total - p + b
      BY <3>1
    <3> QED BY <3>2 DEF p, q, total, b
  <2> HIDE DEF w, u, before, after
  <2>7. /\ Len(u) = IF Len(w) + Len(f) <= PopulationSize THEN Len(w) + Len(f) ELSE PopulationSize
        /\ ToSet(w) \subseteq ToSet(u) /\ (Len(w) + Len(f) <= PopulationSize => ToSet(f) \subseteq ToSet(u))
    <3>1. CASE \E m \in 1..k : fronts[m] = <<>>
      <4>1. PICK m \in 1..k : fronts[m] = <<>>
        BY <3>1
      <4>2. Len(<<>>) = 0 /\ ToSet(<<>>) = {}
        BY NoCopies
      <4>3. m = k
        <5> SUFFICES ASSUME m # k PROVE FALSE
          OBVIOUS
        <5>1. m \in 1..(N - 1)
          BY <1>3
        <5> QED BY <1>2a, <4>1, <4>2, <5>1
      <4>4. Len(f) = 0 /\ ToSet(f) = {}
        BY <4>1, <4>2, <4>3
      <4>5. u = w
        BY <2>4, <3>1
      <4> HIDE DEF f
      <4>6. Len(w) + Len(f) = Len(w)
        BY <2>3, <4>4
      <4> QED BY <2>3, <4>4, <4>5, <4>6
    <3>2. CASE ~ \E m \in 1..k : fronts[m] = <<>>
      <4>1. u = Fill(w, f, goals)
        BY <2>4, <3>2
      <4> QED BY <2>3, <4>1, FillFills
    <3> QED BY <3>1, <3>2
  <2>8. Len(u) = IF after <= PopulationSize THEN after ELSE PopulationSize
    <3> DEFINE a == Len(w)
               b == Len(f)
               c == Len(u)
    <3>1. /\ a \in Nat /\ b \in Nat /\ c = IF a + b <= PopulationSize THEN a + b ELSE PopulationSize
          /\ a = IF before <= PopulationSize THEN before ELSE PopulationSize
      BY <2>2, <2>3, <2>7
    <3>2. before \in Int /\ after = before + b
      BY <2>6
    <3> HIDE DEF a, b, c
    <3>3. c = IF after <= PopulationSize THEN after ELSE PopulationSize
      <4>1. CASE before <= PopulationSize
        BY <1>4, <3>1, <3>2, <4>1
      <4>2. CASE ~ (before <= PopulationSize)
        BY <1>4, <3>1, <3>2, <4>2
      <4> QED BY <4>1, <4>2
    <3> QED BY <3>3 DEF c
  <2>9. ASSUME Len(fronts[1]) <= PopulationSize PROVE ToSet(fronts[1]) \subseteq ToSet(u)
    <3>1. CASE k = 1
      <4>1. before = 0 /\ f = fronts[1]
        BY <1>7, <1>8, <3>1 DEF before
      <4>2. Len(w) + Len(f) <= PopulationSize
        BY <1>4, <2>2, <2>3, <2>9, <4>1
      <4> QED BY <2>7, <4>1, <4>2
    <3>2. CASE k # 1
      <4>1. k - 1 >= 1
        BY <2>1, <3>2
      <4> QED BY <2>2, <2>7, <2>9, <4>1
    <3> QED BY <3>1, <3>2
  <2> QED BY <2>1, <2>5, <2>8, <2>9 DEF u, after
<1> HIDE DEF T
<1>18. N \in T
  <2>1. N \in 0..N
    BY <1>3
  <2> QED BY <1>3, <1>16, <1>17, <2>1, UpTo
<1>19. Len(taken[N]) = PopulationSize
  <2>1. Len(taken[N]) = IF Len(solutions) - Len(rests[N]) <= PopulationSize
                        THEN Len(solutions) - Len(rests[N]) ELSE PopulationSize
    BY <1>18 DEF T
  <2>2. Len(solutions) - Len(rests[N]) >= PopulationSize /\ Len(solutions) - Len(rests[N]) \in Int
    <3>1. N \in 0..N
      BY <1>3
    <3> QED BY <1>2, <1>6, <1>8, <3>1 DEF N
  <2> QED BY <1>4, <2>1, <2>2
<1> QED BY <1>1, <1>3, <1>10, <1>18, <1>19 DEF T

--------------------------------------------------------------------------------
(* What the ranking keeps                                                   *)

\* The last ranking is one of tests and open goals, or forgotten.
RankedWell ==
    \/ ranked = Unranked
    \/ /\ ranked.union \in Seq(Tests) /\ ranked.goals \in Seq(ToSet(GoalOrder))
       /\ IsRanking(ranked.fronts, ranked.union, ranked.goals)

RankingInvariant ==
    /\ population \in Seq(Tests) /\ Len(population) = PopulationSize
    /\ offspring \in Seq(Tests)
    /\ generation = "breed" => uncovered_goals # <<>>
    /\ RankedWell

LEMMA RankedFronts ==
    RankedWell => FrontsAreLayers
<1> SUFFICES ASSUME RankedWell PROVE FrontsAreLayers
  OBVIOUS
<1> DEFINE fronts == ranked.fronts
           goals == ToSet(ranked.goals)
           Whole(f) == [n \in 0..Len(fronts) |-> IF n = 0 THEN ranked.union ELSE Without(f[n - 1], fronts[n])]
           behind == CHOOSE f : f = Whole(f)
           Tell == /\ \A g \in goals : \E t \in ToSet(fronts[1]) : \A u \in ToSet(ranked.union) : ~ Preferred(u, t, g)
                   /\ Len(fronts[1]) < PopulationSize =>
                        \A i \in 2..Len(fronts) :
                          /\ \A t \in ToSet(fronts[i]) : \A u \in ToSet(behind[i - 1]) : ~ Dominates(u, t, goals)
                          /\ ToSet(fronts[i]) \subseteq ToSet(behind[i - 1])
                          /\ \A u \in ToSet(behind[i]) : \E t \in ToSet(fronts[i]) : Dominates(t, u, goals)
<1>1. FrontsAreLayers <=> Tell
  BY DEF FrontsAreLayers
<1>2. CASE ranked = Unranked
  <2> HIDE DEF behind
  <2>1. fronts = <<<<>>>> /\ ranked.goals = <<>>
    BY <1>2 DEF Unranked
  <2>2. goals = {}
    BY <2>1, NoCopies
  <2>3. Len(<<<<>>>>) = 1 /\ 2..1 = {}
    OBVIOUS
  <2>4. \A i \in 2..Len(fronts) : FALSE
    BY <2>1, <2>3
  <2> HIDE DEF fronts, goals
  <2> QED BY <1>1, <2>2, <2>4
<1>3. CASE /\ ranked.union \in Seq(Tests) /\ ranked.goals \in Seq(ToSet(GoalOrder))
           /\ IsRanking(fronts, ranked.union, ranked.goals)
  <2> DEFINE N == Len(fronts)
  <2>1. Zero(fronts[1], ranked.union, ranked.goals, Len(ranked.goals))
    BY <1>3 DEF IsRanking
  <2>2. PICK rests : /\ Peeled(fronts, rests, ranked.union)
                     /\ Len(fronts[1]) < PopulationSize => Layered(fronts, rests, goals)
    BY <1>3 DEF IsRanking
  <2>3. /\ rests \in [0..N -> Seq(Tests)] /\ rests[0] = ranked.union
        /\ \A i \in 1..N : rests[i] = Without(rests[i - 1], fronts[i])
    BY <2>2 DEF Peeled
  <2>4. N \in Nat
    <3> DEFINE S == Seq(Tests)
    <3>1. fronts \in Seq(S)
      BY <2>2 DEF Peeled
    <3> HIDE DEF S
    <3> QED BY <3>1
  <2>5. rests = Whole(rests)
    <3>1. \A i \in 0..N : rests[i] = IF i = 0 THEN ranked.union ELSE Without(rests[i - 1], fronts[i])
      BY <2>3, <2>4
    <3>2. rests = [i \in 0..N |-> rests[i]]
      BY <2>3
    <3> QED BY <3>1, <3>2
  <2>6. behind = Whole(behind)
    <3> HIDE DEF Whole
    <3> QED BY <2>5
  <2> HIDE DEF behind
  <2>7. \A i \in 0..N : behind[i] = IF i = 0 THEN ranked.union ELSE Without(behind[i - 1], fronts[i])
    BY <2>6
  <2> DEFINE T == {i \in 0..N : behind[i] = rests[i]}
  <2>8. \A i \in 0..N : i \in T
    <3>1. 0 \in T
      BY <2>3, <2>4, <2>7
    <3>2. ASSUME NEW i \in 1..N, i - 1 \in T PROVE i \in T
      <4>1. i \in 0..N /\ i # 0 /\ behind[i - 1] = rests[i - 1]
        BY <2>4, <3>2
      <4>2. behind[i] = Without(rests[i - 1], fronts[i])
        BY <2>7, <4>1
      <4> QED BY <2>3, <4>1, <4>2
    <3> HIDE DEF T, N
    <3> QED BY <2>4, <3>1, <3>2, UpTo
  <2>9. ASSUME NEW g \in goals
        PROVE  \E t \in ToSet(fronts[1]) : \A u \in ToSet(ranked.union) : ~ Preferred(u, t, g)
    <3>1. PICK m \in 1..Len(ranked.goals) : ranked.goals[m] = g
      BY <1>3, Members
    <3>2. PICK t \in ToSet(fronts[1]) : t \in Best(ranked.union, g)
      BY <2>1, <3>1 DEF Zero
    <3> QED BY <3>2 DEF Best
  <2>10. ASSUME Len(fronts[1]) < PopulationSize, NEW i \in 2..Len(fronts)
         PROVE  /\ \A t \in ToSet(fronts[i]) : \A u \in ToSet(behind[i - 1]) : ~ Dominates(u, t, goals)
                /\ ToSet(fronts[i]) \subseteq ToSet(behind[i - 1])
                /\ \A u \in ToSet(behind[i]) : \E t \in ToSet(fronts[i]) : Dominates(t, u, goals)
    <3>1. i \in 0..N /\ i - 1 \in 0..N
      BY <2>4
    <3>2. behind[i] = rests[i] /\ behind[i - 1] = rests[i - 1]
      BY <2>8, <3>1
    <3>3. Layer(fronts[i], rests[i - 1], rests[i], goals)
      BY <2>2, <2>10 DEF Layered
    <3> HIDE DEF goals, fronts
    <3> QED BY <3>2, <3>3 DEF Layer
  <2> HIDE DEF fronts, goals
  <2> QED BY <1>1, <2>9, <2>10
<1> QED BY <1>2, <1>3 DEF RankedWell

LEMMA OpenGoals ==
    uncovered_goals \in Seq(ToSet(GoalOrder))
BY KeepingKeeps, MOSAAssumption DEF MOSAAssumption, uncovered_goals

LEMMA ParentsAreTests ==
    ASSUME population \in Seq(Tests), Len(population) = PopulationSize
    PROVE  Parents \subseteq Tests
<1>1. PopulationSize \in Nat /\ PopulationSize # 0 /\ Bias \in Int
  BY MOSAAssumption DEF MOSAAssumption
<1>2. ASSUME NEW r \in 0..9 PROVE population[get_index(Len(population), r) + 1] \in Tests
  <2> DEFINE size == PopulationSize
             Parabola(k) == 10 * (Bias * k * size - (Bias - 10) * k * k)
             level == 10 * r * size * size
             S == {k \in 0..size - 1 : Parabola(k) <= level}
  <2>1. S \subseteq 0..(size - 1)
    OBVIOUS
  <2>2. 0 \in S
    <3>1. Parabola(0) = 0
      BY <1>1
    <3>2. 10 * r \in Nat
      OBVIOUS
    <3>3. 10 * r * size \in Nat
      BY <1>1, <3>2
    <3>4. 10 * r * size * size \in Nat
      BY <1>1, <3>3
    <3>5. level >= 0 /\ level \in Nat
      BY <3>4
    <3>6. 0 \in 0..size - 1
      BY <1>1
    <3> HIDE DEF Parabola, level
    <3>7. Parabola(0) <= level
      BY <3>1, <3>5
    <3> QED BY <3>6, <3>7
  <2>3. size - 1 \in Nat /\ S # {}
    <3>1. size - 1 \in Nat
      BY <1>1
    <3> HIDE DEF S
    <3> QED BY <2>2, <3>1
  <2>4. get_index(Len(population), r) = Max(S)
    BY DEF get_index
  <2> HIDE DEF S
  <2>5. Max(S) \in S
    BY <2>1, <2>3, Greatest
  <2> DEFINE m == Max(S)
  <2>6. m \in 0..(size - 1)
    BY <2>1, <2>5
  <2> HIDE DEF m
  <2>7. m + 1 \in 1..Len(population)
    BY <1>1, <2>6
  <2>8. population[m + 1] \in Tests
    BY <2>7
  <2> QED BY <2>4, <2>8 DEF m
<1> QED BY <1>2 DEF Parents

LEMMA RankingStarts ==
    MOSAInit => RankingInvariant
<1> SUFFICES ASSUME MOSAInit PROVE RankingInvariant
  OBVIOUS
<1>1. PopulationSize \in Nat
  BY MOSAAssumption DEF MOSAAssumption
<1>2. population \in Seq(Tests) /\ Len(population) = PopulationSize
  BY <1>1 DEF MOSAInit
<1>3. offspring \in Seq(Tests)
  BY NoCopies DEF MOSAInit
<1>4. PICK f \in compute_ranking_assignment(population, uncovered_goals) :
        ranked = [union |-> population, goals |-> uncovered_goals, fronts |-> f]
  BY DEF MOSAInit
<1>5. Len(population) >= PopulationSize
  BY <1>1, <1>2
<1>6. IsRanking(f, population, uncovered_goals)
  BY <1>2, <1>5, OpenGoals, RankingsAreRankings
<1>7. ranked.union = population /\ ranked.goals = uncovered_goals /\ ranked.fronts = f
  BY <1>4
<1>8. RankedWell
  BY <1>2, <1>6, <1>7, OpenGoals DEF RankedWell
<1>9. generation # "breed"
  BY DEF MOSAInit
<1> QED BY <1>2, <1>3, <1>8, <1>9 DEF RankingInvariant

\* What a survival has ranked and who survives
LEMMA Survival ==
    ASSUME RankingInvariant, generation = "breed",
           NEW fronts \in compute_ranking_assignment(population \o offspring, uncovered_goals)
    PROVE  /\ population \o offspring \in Seq(Tests)
           /\ IsRanking(fronts, population \o offspring, uncovered_goals)
           /\ Survivors(fronts, uncovered_goals) \in Seq(Tests)
           /\ Len(Survivors(fronts, uncovered_goals)) = PopulationSize
           /\ Len(fronts[1]) <= PopulationSize =>
                ToSet(fronts[1]) \subseteq ToSet(Survivors(fronts, uncovered_goals))
<1> DEFINE union == population \o offspring
<1>1. /\ population \in Seq(Tests) /\ offspring \in Seq(Tests) /\ Len(population) = PopulationSize
      /\ uncovered_goals # <<>>
  BY DEF RankingInvariant
<1>2. union \in Seq(Tests) /\ Len(union) = Len(population) + Len(offspring)
  BY <1>1, ConcatProperties
<1>3. Len(population) \in Nat /\ Len(offspring) \in Nat
  BY <1>1, Members
<1> HIDE DEF union
<1>4. Len(union) >= PopulationSize
  BY <1>1, <1>2, <1>3
<1>5. IsRanking(fronts, union, uncovered_goals)
  BY <1>2, <1>4, OpenGoals, RankingsAreRankings DEF union
<1>6. /\ Survivors(fronts, uncovered_goals) \in Seq(Tests)
      /\ Len(Survivors(fronts, uncovered_goals)) = PopulationSize
      /\ Len(fronts[1]) <= PopulationSize =>
           ToSet(fronts[1]) \subseteq ToSet(Survivors(fronts, uncovered_goals))
  BY <1>1, <1>2, <1>5, SurvivorsSurvive
<1> QED BY <1>2, <1>5, <1>6 DEF union

LEMMA RankingGoesOn ==
    RankingInvariant /\ [MOSANext]_mosaVars => RankingInvariant'
<1> SUFFICES ASSUME RankingInvariant, [MOSANext]_mosaVars PROVE RankingInvariant'
  OBVIOUS
<1>1. /\ population \in Seq(Tests) /\ Len(population) = PopulationSize /\ offspring \in Seq(Tests) /\ RankedWell
      /\ generation = "breed" => uncovered_goals # <<>>
  BY DEF RankingInvariant
<1>1a. achievements' = achievements => uncovered_goals' = uncovered_goals
  BY DEF uncovered_goals
<1>2. CASE BeginEvolve
  <2>1. offspring' = <<>> /\ ranked' = Unranked /\ population' = population
    BY <1>2 DEF BeginEvolve
  <2>2. offspring' \in Seq(Tests)
    BY <2>1, NoCopies
  <2>3. RankedWell'
    BY <2>1 DEF RankedWell, Unranked
  <2>4. uncovered_goals' # <<>>
    BY <1>1a, <1>2 DEF BeginEvolve
  <2> QED BY <1>1, <2>1, <2>2, <2>3, <2>4 DEF RankingInvariant
<1>3. CASE BreedPair
  <2>1. population' = population /\ ranked' = ranked
    BY <1>3 DEF BreedPair
  <2>2. ASSUME NEW p1 \in Parents, NEW p2 \in Parents, NEW o1 \in Descendants[p1], NEW o2 \in Descendants[p2]
        PROVE  offspring \o Keeping(<<o1, o2>>, {o \in Tests : Length[o] > 0}) \in Seq(Tests)
    <3>1. p1 \in Tests /\ p2 \in Tests
      BY <1>1, ParentsAreTests
    <3>2. o1 \in Tests /\ o2 \in Tests
      BY <3>1, MOSAAssumption DEF MOSAAssumption
    <3> DEFINE both == <<o1, o2>>
    <3>3. both \in Seq(Tests)
      BY <3>2
    <3> HIDE DEF both
    <3>4. Keeping(both, {o \in Tests : Length[o] > 0}) \in Seq(Tests)
      BY <3>3, KeepingKeeps
    <3>5. offspring \o Keeping(both, {o \in Tests : Length[o] > 0}) \in Seq(Tests)
      BY <1>1, <3>4, ConcatProperties
    <3> QED BY <3>5 DEF both
  <2>3. offspring' \in Seq(Tests)
    BY <1>1, <1>3, <2>2 DEF BreedPair
  <2>4. RankedWell'
    BY <1>1, <2>1 DEF RankedWell, Unranked
  <2>5. generation' = generation /\ uncovered_goals' = uncovered_goals
    BY <1>1a, <1>3 DEF BreedPair
  <2> QED BY <1>1, <2>1, <2>3, <2>4, <2>5 DEF RankingInvariant
<1>4. CASE InsertNew
  <2>1. population' = population /\ ranked' = ranked
    BY <1>4 DEF InsertNew
  <2>2. PICK t \in Tests : offspring' \in {offspring, Append(offspring, t)}
    BY <1>4 DEF InsertNew
  <2>3. offspring' \in Seq(Tests)
    BY <1>1, <2>2
  <2>4. RankedWell'
    BY <1>1, <2>1 DEF RankedWell, Unranked
  <2>5. generation' = generation /\ uncovered_goals' = uncovered_goals
    BY <1>1a, <1>4 DEF InsertNew
  <2> QED BY <1>1, <2>1, <2>3, <2>4, <2>5 DEF RankingInvariant
<1>5. CASE Survive
  <2>1. PICK fronts \in compute_ranking_assignment(population \o offspring, uncovered_goals) :
          /\ ranked' = [union |-> population \o offspring, goals |-> uncovered_goals, fronts |-> fronts]
          /\ population' = Survivors(fronts, uncovered_goals)
    BY <1>5 DEF Survive
  <2>2. offspring' \in Seq(Tests) /\ generation' # "breed" /\ generation = "breed"
    BY <1>5, NoCopies DEF Survive
  <2>3. population' \in Seq(Tests) /\ Len(population') = PopulationSize
    BY <2>1, <2>2, Survival
  <2>4. /\ ranked'.union = population \o offspring /\ ranked'.goals = uncovered_goals /\ ranked'.fronts = fronts
    BY <2>1
  <2>5. RankedWell'
    <3>1. population \o offspring \in Seq(Tests) /\ IsRanking(fronts, population \o offspring, uncovered_goals)
      BY <2>2, Survival
    <3>2. /\ ranked'.union \in Seq(Tests) /\ ranked'.goals \in Seq(ToSet(GoalOrder))
          /\ IsRanking(ranked'.fronts, ranked'.union, ranked'.goals)
      BY <2>4, <3>1, OpenGoals
    <3> QED BY <3>2 DEF RankedWell
  <2> QED BY <2>2, <2>3, <2>5 DEF RankingInvariant
<1>6. CASE MOSAFinish \/ UNCHANGED mosaVars
  <2>1. population' = population /\ offspring' = offspring /\ ranked' = ranked
    BY <1>6 DEF MOSAFinish, mosaVars
  <2>2. RankedWell'
    BY <1>1, <2>1 DEF RankedWell, Unranked
  <2>3. generation' = "breed" => generation = "breed" /\ uncovered_goals' = uncovered_goals
    BY <1>1a, <1>6 DEF MOSAFinish, mosaVars
  <2> QED BY <1>1, <2>1, <2>2, <2>3 DEF RankingInvariant
<1> QED BY <1>2, <1>3, <1>4, <1>5, <1>6 DEF MOSANext

LEMMA GoalsStayNear ==
    RankingInvariant /\ [MOSANext]_mosaVars => [NoGoalGetsWorse]_mosaVars
<1> SUFFICES ASSUME RankingInvariant, [MOSANext]_mosaVars,
                    NEW g \in ToSet(uncovered_goals), Len(uncovered_goals) <= PopulationSize,
                    NEW t \in ToSet(population)
             PROVE  (\E u \in ToSet(population') : Fitness[u][g] <= Fitness[t][g]) \/ UNCHANGED mosaVars
  BY DEF NoGoalGetsWorse
<1>1. population \in Seq(Tests) /\ offspring \in Seq(Tests) /\ t \in Tests /\ g \in ToSet(GoalOrder)
  BY Members, OpenGoals DEF RankingInvariant
<1>2. Fitness[t][g] \in Nat
  BY <1>1, FitnessIsCounted
<1>3. CASE Survive
  <2> DEFINE union == population \o offspring
  <2>1. PICK fronts \in compute_ranking_assignment(union, uncovered_goals) :
          population' = Survivors(fronts, uncovered_goals) /\ generation = "breed"
    BY <1>3 DEF Survive
  <2>2. /\ union \in Seq(Tests) /\ IsRanking(fronts, union, uncovered_goals)
        /\ Len(fronts[1]) <= PopulationSize => ToSet(fronts[1]) \subseteq ToSet(population')
    BY <2>1, Survival
  <2>3. t \in ToSet(union)
    <3>1. PICK i \in 1..Len(population) : population[i] = t
      BY <1>1, Members
    <3>2. Len(population) \in Nat /\ Len(offspring) \in Nat
      BY <1>1, Members
    <3>3. /\ Len(union) = Len(population) + Len(offspring)
          /\ \A j \in 1..(Len(population) + Len(offspring)) :
               union[j] = IF j <= Len(population) THEN population[j] ELSE offspring[j - Len(population)]
      BY <1>1, ConcatProperties
    <3> HIDE DEF union
    <3>4. i \in 1..Len(union) /\ union[i] = t
      BY <3>1, <3>2, <3>3
    <3> QED BY <2>2, <3>4, Members
  <2> HIDE DEF union
  <2>4. Zero(fronts[1], union, uncovered_goals, Len(uncovered_goals))
    BY <2>2 DEF IsRanking
  <2>5. PICK m \in 1..Len(uncovered_goals) : uncovered_goals[m] = g
    BY OpenGoals, Members
  <2>6. PICK u \in ToSet(fronts[1]) : u \in Best(union, g)
    BY <2>4, <2>5 DEF Zero
  <2>7. u \in Tests /\ ~ Preferred(t, u, g)
    BY <2>2, <2>3, <2>6, Members DEF Best
  <2>8. Fitness[u][g] \in Nat
    BY <1>1, <2>7, FitnessIsCounted
  <2>9. Fitness[u][g] <= Fitness[t][g]
    BY <1>2, <2>7, <2>8 DEF Preferred
  <2>10. Len(fronts[1]) <= PopulationSize
    <3>1. Len(fronts[1]) <= Len(uncovered_goals) /\ Len(fronts[1]) \in Nat /\ Len(uncovered_goals) \in Nat
      BY <2>4, OpenGoals, Members DEF Zero
    <3>2. PopulationSize \in Nat
      BY MOSAAssumption DEF MOSAAssumption
    <3> HIDE DEF uncovered_goals
    <3> QED BY <3>1, <3>2
  <2> QED BY <2>2, <2>6, <2>9, <2>10
<1>4. CASE ~ Survive
  <2>1. population' = population
    BY <1>4 DEF MOSANext, BeginEvolve, BreedPair, InsertNew, MOSAFinish, mosaVars
  <2> QED BY <1>2, <2>1
<1> QED BY <1>3, <1>4

\* However the breeding goes, which of equal tests the rankings prefer, and for all goals,
\* fitness results and sizes: every ranking's fronts are the layers of dominance behind a
\* preferred test for each goal, the population keeps its size, and no goal still open gets
\* farther away while the population has room for a best test per open goal (ranking.py,
\* mosaalgorithm.py, abstractmosaalgorithm.py).
THEOREM RankingIsKept == MOSASpec => RankingKeepsTheBest
<1>1. MOSAInit => RankingInvariant
  BY RankingStarts
<1>2. RankingInvariant /\ [MOSANext]_mosaVars => RankingInvariant'
  BY RankingGoesOn
<1>3. RankingInvariant => PopulationKept /\ FrontsAreLayers
  BY RankedFronts DEF RankingInvariant, PopulationKept
<1>4. RankingInvariant /\ [MOSANext]_mosaVars => [NoGoalGetsWorse]_mosaVars
  BY GoalsStayNear
<1> QED BY <1>1, <1>2, <1>3, <1>4, PTL DEF MOSASpec, RankingKeepsTheBest
================================================================================
