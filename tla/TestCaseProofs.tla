----------------------------- MODULE TestCaseProofs -----------------------------
(***************************************************************************)
(* What holds of test cases under the operators of the search, for every   *)
(* set of accessibles, any signatures and types, test cases of any length  *)
(* and any depth of recursion.                                             *)
(***************************************************************************)
EXTENDS TestCaseChromosome, SequenceTheorems, WellFoundedInduction, TLAPS

--------------------------------------------------------------------------------
(* Recursion on numbers                                                     *)

\* The least-number principle
LEMMA LeastNumber ==
    ASSUME NEW T, T \subseteq Nat, T # {}
    PROVE  \E x \in T : \A y \in T : x <= y
<1> DEFINE R == OpToRel(<, Nat)
<1>1. IsWellFoundedOn(R, Nat)
  BY NatLessThanWellFounded
<1>2. \A x, y \in Nat : <<y, x>> \in R <=> y < x
  BY DEF OpToRel
<1> HIDE DEF R
<1>3. PICK x \in T : \A y \in T : ~ (<<y, x>> \in R)
  BY <1>1, WFMin
<1>4. ASSUME NEW y \in T PROVE x <= y
  <2>1. x \in Nat /\ y \in Nat
    OBVIOUS
  <2>2. ~ (y < x)
    BY <1>2, <1>3, <2>1
  <2> QED BY <2>1, <2>2
<1> QED BY <1>4

\* What holds of 0, and of each number up to n if it holds of the one before, holds of
\* all of them: T is where it holds.
LEMMA UpTo ==
    ASSUME NEW n \in Nat, NEW T, 0 \in T, \A k \in 1..n : k - 1 \in T => k \in T
    PROVE  \A k \in 0..n : k \in T
<1> DEFINE F == {k \in 0..n : k \notin T}
<1> SUFFICES ASSUME F # {} PROVE FALSE
  OBVIOUS
<1>1. PICK k \in F : \A l \in F : k <= l
  <2>1. F \subseteq Nat
    OBVIOUS
  <2> HIDE DEF F
  <2> QED BY <2>1, LeastNumber
<1>2. k \in 1..n /\ k - 1 \in 0..n /\ k \notin T
  BY <1>1
<1>3. k - 1 \notin F
  BY <1>1, <1>2
<1> QED BY <1>2, <1>3

\* A function can be defined by its value at 0 and by a step from each value to the next.
Recursive(f, n, S, base, step) ==
  f \in [0..n -> S] /\ f[0] = base /\ \A k \in 1..n : f[k] = step[<<k, f[k - 1]>>]

LEMMA Recursion ==
    ASSUME NEW n \in Nat, NEW S, NEW base \in S,
           NEW step, \A k \in 1..n : \A x \in S : step[<<k, x>>] \in S
    PROVE  \E f : Recursive(f, n, S, base, step)
<1> DEFINE T == {k \in 0..n : \E f : Recursive(f, k, S, base, step)}
<1>1. 0 \in T
  <2> DEFINE f == [i \in 0..0 |-> base]
  <2>1. f \in [0..0 -> S] /\ f[0] = base /\ 1..0 = {} /\ 0 \in 0..n
    OBVIOUS
  <2> HIDE DEF f
  <2>2. Recursive(f, 0, S, base, step)
    BY <2>1 DEF Recursive
  <2> QED BY <2>1, <2>2
<1>2. ASSUME NEW k \in 1..n, k - 1 \in T PROVE k \in T
  <2>1. PICK f : Recursive(f, k - 1, S, base, step)
    BY <1>2
  <2> DEFINE g == [i \in 0..k |-> IF i = k THEN step[<<k, f[k - 1]>>] ELSE f[i]]
  <2>2. /\ f \in [0..k - 1 -> S] /\ f[0] = base
        /\ \A i \in 1..k - 1 : f[i] = step[<<i, f[i - 1]>>]
    BY <2>1 DEF Recursive
  <2>3. f[k - 1] \in S /\ k \in 0..n /\ step[<<k, f[k - 1]>>] \in S
    BY <2>2
  <2>4. \A i \in 0..k : i # k => i \in 0..k - 1
    OBVIOUS
  <2>5. g \in [0..k -> S]
    BY <2>2, <2>3, <2>4
  <2>6. \A i \in 0..k - 1 : g[i] = f[i]
    OBVIOUS
  <2>7. \A i \in 1..k : g[i] = step[<<i, g[i - 1]>>]
    <3> SUFFICES ASSUME NEW i \in 1..k PROVE g[i] = step[<<i, g[i - 1]>>]
      OBVIOUS
    <3>1. i - 1 \in 0..k - 1
      OBVIOUS
    <3>2. CASE i = k
      <4>1. g[k] = step[<<k, f[k - 1]>>] /\ g[k - 1] = f[k - 1]
        BY <2>6, <3>1, <3>2
      <4> HIDE DEF g
      <4> QED BY <3>2, <4>1
    <3>3. CASE i # k
      <4>1. i \in 1..k - 1 /\ i \in 0..k - 1
        BY <3>3
      <4>2. f[i] = step[<<i, f[i - 1]>>]
        BY <2>2, <4>1
      <4> HIDE DEF g
      <4> QED BY <2>6, <3>1, <4>1, <4>2
    <3> QED BY <3>2, <3>3
  <2>8. g[0] = base
    BY <2>2, <2>6
  <2> HIDE DEF g
  <2>9. Recursive(g, k, S, base, step)
    BY <2>5, <2>7, <2>8 DEF Recursive
  <2> QED BY <2>3, <2>9
<1>3. \A k \in 0..n : k \in T
  <2> HIDE DEF T
  <2> QED BY <1>1, <1>2, UpTo
<1>4. n \in T
  BY <1>3
<1> QED BY <1>4

--------------------------------------------------------------------------------
(* Test cases                                                               *)

Good(t) == t \in TestCases /\ DefinedBeforeUse(t) /\ NamesUnique(t)

\* A test case and a position at which something can be inserted
Ready(t, p) == Good(t) /\ p \in 1..(size(t) + 1)

\* u is t with q - p statements inserted in front of position p, which is q now.
Grown(t, p, u, q) ==
    /\ Ready(u, q) /\ p <= q
    /\ size(u) = size(t) + (q - p)
    /\ \A i \in 1..(p - 1) : u.stmts[i] = t.stmts[i]
    /\ \A i \in p..size(t) : u.stmts[i + (q - p)] = t.stmts[i]

LEMMA StatementTypes ==
    ASSUME NEW t \in TestCases
    PROVE  /\ size(t) \in Nat /\ DOMAIN t.stmts = 1..size(t) /\ t.counter \in Nat /\ t.stmts \in Seq(Statements)
           /\ \A i \in 1..size(t) :
                /\ t.stmts[i] \in Statements
                /\ t.stmts[i].var \in {None} \cup Nat /\ t.stmts[i].uses \subseteq Nat
                /\ t.stmts[i].type \in {None} \cup Types /\ t.stmts[i].call \in {None} \cup Accessibles
                /\ t.stmts[i].ml \in BOOLEAN
<1>1. t.stmts \in Seq(Statements) /\ t.counter \in Nat
  BY DEF TestCases
<1>2. \A i \in 1..Len(t.stmts) : t.stmts[i] \in Statements
  BY <1>1
<1> QED BY <1>1, <1>2 DEF size, Statements

\* What is bound before a position, said with numbers
LEMMA Bound ==
    ASSUME NEW t \in TestCases, NEW p \in Nat
    PROVE  /\ \A v : v \in BoundBefore(t, p) <=> v # None /\ \E i \in 1..size(t) : i < p /\ t.stmts[i].var = v
           /\ BoundBefore(t, p) \subseteq Nat
<1>1. \A v : v \in BoundBefore(t, p) <=> v # None /\ \E i \in 1..size(t) : i < p /\ t.stmts[i].var = v
  BY StatementTypes DEF BoundBefore
<1> QED BY <1>1, StatementTypes

LEMMA GrownReflexive ==
    ASSUME NEW t, NEW p, Ready(t, p)
    PROVE  Grown(t, p, t, p)
BY StatementTypes DEF Grown, Ready, Good

LEMMA GrownTransitive ==
    ASSUME NEW t, NEW p, NEW u, NEW q, NEW w, NEW r, Ready(t, p), Grown(t, p, u, q), Grown(u, q, w, r)
    PROVE  Grown(t, p, w, r)
<1>1. /\ size(t) \in Nat /\ size(u) \in Nat /\ size(w) \in Nat /\ p \in Nat /\ q \in Nat /\ r \in Nat
      /\ p <= q /\ q <= r /\ p >= 1 /\ p <= size(t) + 1 /\ Ready(w, r)
      /\ size(u) = size(t) + (q - p) /\ size(w) = size(u) + (r - q)
      /\ \A i \in 1..(p - 1) : u.stmts[i] = t.stmts[i]
      /\ \A i \in p..size(t) : u.stmts[i + (q - p)] = t.stmts[i]
      /\ \A i \in 1..(q - 1) : w.stmts[i] = u.stmts[i]
      /\ \A i \in q..size(u) : w.stmts[i + (r - q)] = u.stmts[i]
  BY StatementTypes DEF Grown, Ready, Good
<1>2. \A i \in 1..(p - 1) : w.stmts[i] = t.stmts[i]
  BY <1>1
<1>3. ASSUME NEW i \in p..size(t) PROVE w.stmts[i + (r - p)] = t.stmts[i]
  <2>1. i + (q - p) \in q..size(u) /\ i + (q - p) + (r - q) = i + (r - p)
    BY <1>1
  <2>2. w.stmts[i + (q - p) + (r - q)] = u.stmts[i + (q - p)]
    BY <1>1, <2>1
  <2> QED BY <1>1, <2>1, <2>2
<1> QED BY <1>1, <1>2, <1>3 DEF Grown

\* What was bound before the position is bound before it still.
LEMMA GrownKeeps ==
    ASSUME NEW t, NEW p, NEW u, NEW q, Ready(t, p), Grown(t, p, u, q)
    PROVE  BoundBefore(t, p) \subseteq BoundBefore(u, q)
<1>1. /\ t \in TestCases /\ u \in TestCases /\ p \in Nat /\ q \in Nat /\ p <= q
      /\ size(u) = size(t) + (q - p) /\ size(t) \in Nat /\ size(u) \in Nat
      /\ \A i \in 1..(p - 1) : u.stmts[i] = t.stmts[i]
  BY StatementTypes DEF Grown, Ready, Good
<1>2. ASSUME NEW v \in BoundBefore(t, p) PROVE v \in BoundBefore(u, q)
  <2>1. PICK i \in 1..size(t) : i < p /\ t.stmts[i].var = v /\ v # None
    BY <1>1, Bound
  <2>2. i \in 1..(p - 1) /\ i \in 1..size(u) /\ i < q
    BY <1>1, <2>1
  <2> QED BY <1>1, <2>1, <2>2, Bound
<1> QED BY <1>2

\* Inserting a statement
LEMMA Inserting ==
    ASSUME NEW S, NEW s \in Seq(S), NEW p \in 1..(Len(s) + 1), NEW e \in S
    PROVE  /\ InsertAt(s, p, e) \in Seq(S) /\ Len(InsertAt(s, p, e)) = Len(s) + 1
           /\ InsertAt(s, p, e)[p] = e
           /\ \A i \in 1..(p - 1) : InsertAt(s, p, e)[i] = s[i]
           /\ \A i \in p..Len(s) : InsertAt(s, p, e)[i + 1] = s[i]
<1> DEFINE a == SubSeq(s, 1, p - 1)
           b == SubSeq(s, p, Len(s))
<1>1. a \in Seq(S) /\ Len(a) = p - 1 /\ \A i \in 1..(p - 1) : a[i] = s[i]
  OBVIOUS
<1>2. b \in Seq(S) /\ Len(b) = Len(s) - p + 1 /\ \A i \in 1..(Len(s) - p + 1) : b[i] = s[p + i - 1]
  OBVIOUS
<1>3. InsertAt(s, p, e) = a \o <<e>> \o b
  BY DEF InsertAt
<1> DEFINE c == a \o <<e>>
<1> HIDE DEF a, b
<1>4. c \in Seq(S) /\ Len(c) = p /\ c[p] = e /\ \A i \in 1..(p - 1) : c[i] = a[i]
  BY <1>1
<1> HIDE DEF c
<1>5. c \o b \in Seq(S) /\ Len(c \o b) = Len(s) + 1 /\ \A i \in 1..p : (c \o b)[i] = c[i]
  <2>1. /\ c \o b \in Seq(S) /\ Len(c \o b) = Len(c) + Len(b)
        /\ \A i \in 1..(Len(c) + Len(b)) : (c \o b)[i] = IF i <= Len(c) THEN c[i] ELSE b[i - Len(c)]
    BY <1>2, <1>4, ConcatProperties
  <2> QED BY <1>2, <1>4, <2>1
<1>6. ASSUME NEW i \in p..Len(s) PROVE (c \o b)[i + 1] = s[i]
  <2>1. i + 1 \in 1..(Len(c) + Len(b)) /\ ~ (i + 1 <= Len(c)) /\ i + 1 - Len(c) \in 1..(Len(s) - p + 1)
    BY <1>2, <1>4
  <2>2. (c \o b)[i + 1] = b[i + 1 - Len(c)]
    BY <1>2, <1>4, <2>1
  <2> QED BY <1>2, <1>4, <2>1, <2>2
<1>7. InsertAt(s, p, e) = c \o b
  BY <1>3 DEF c
<1>8. \A i \in 1..(p - 1) : (c \o b)[i] = s[i]
  BY <1>1, <1>4, <1>5
<1>9. (c \o b)[p] = e
  BY <1>4, <1>5
<1> HIDE DEF c
<1> DEFINE r == c \o b
<1>10. /\ r \in Seq(S) /\ Len(r) = Len(s) + 1 /\ r[p] = e
       /\ \A i \in 1..(p - 1) : r[i] = s[i]
       /\ \A i \in p..Len(s) : r[i + 1] = s[i]
  BY <1>5, <1>6, <1>8, <1>9
<1> QED BY <1>7, <1>10

\* The two halves of Good, said with numbers
LEMMA GoodInNumbers ==
    ASSUME NEW t \in TestCases
    PROVE  /\ DefinedBeforeUse(t) <=>
                \A i \in 1..size(t) : \A v \in t.stmts[i].uses :
                    v # None /\ \E j \in 1..size(t) : j < i /\ t.stmts[j].var = v
           /\ NamesUnique(t) <=>
                /\ \A i, j \in 1..size(t) : t.stmts[i].var = t.stmts[j].var /\ t.stmts[i].var # None => i = j
                /\ \A i \in 1..size(t) : t.stmts[i].var # None => t.stmts[i].var < t.counter
<1>1. DOMAIN t.stmts = 1..size(t) /\ size(t) \in Nat
  BY StatementTypes
<1>2. \A i \in 1..size(t) : \A v :
        v \in BoundBefore(t, i) <=> v # None /\ \E j \in 1..size(t) : j < i /\ t.stmts[j].var = v
  <2> TAKE i \in 1..size(t)
  <2>1. i \in Nat
    BY <1>1
  <2> QED BY <2>1, Bound
<1>3. \A v : v \in BoundBefore(t, size(t) + 1) <=> v # None /\ \E j \in 1..size(t) : t.stmts[j].var = v
  <2>1. size(t) + 1 \in Nat /\ \A j \in 1..size(t) : j < size(t) + 1
    BY <1>1
  <2> QED BY <2>1, Bound
<1>4. DefinedBeforeUse(t) <=> \A i \in 1..size(t) : t.stmts[i].uses \subseteq BoundBefore(t, i)
  BY <1>1 DEF DefinedBeforeUse
<1>5. NamesUnique(t) <=>
        /\ \A i, j \in 1..size(t) : t.stmts[i].var = t.stmts[j].var /\ t.stmts[i].var # None => i = j
        /\ \A v \in BoundBefore(t, size(t) + 1) : v < t.counter
  BY <1>1 DEF NamesUnique
<1>6. DefinedBeforeUse(t) <=>
        \A i \in 1..size(t) : \A v \in t.stmts[i].uses :
            v # None /\ \E j \in 1..size(t) : j < i /\ t.stmts[j].var = v
  BY <1>2, <1>4
<1>7. (\A v \in BoundBefore(t, size(t) + 1) : v < t.counter) <=>
        \A i \in 1..size(t) : t.stmts[i].var # None => t.stmts[i].var < t.counter
  BY <1>3
<1> QED BY <1>5, <1>6, <1>7

\* Binding a value that reads variables in scope keeps a test case good, and the new
\* variable is in scope behind it.
LEMMA Binding ==
    ASSUME NEW t, NEW p, Ready(t, p), NEW type \in {None} \cup Types, NEW uses, uses \subseteq BoundBefore(t, p),
           NEW call \in {None} \cup Accessibles, NEW ml \in BOOLEAN
    PROVE  /\ Grown(t, p, Bind(t, p, type, uses, call, ml), p + 1)
           /\ t.counter \in BoundBefore(Bind(t, p, type, uses, call, ml), p + 1)
           /\ t.counter \in Nat /\ t.counter # None
<1> DEFINE e == Statement(t.counter, type, uses, call, ml)
           s == InsertAt(t.stmts, p, e)
           u == [stmts |-> s, counter |-> t.counter + 1]
<1>1. /\ t \in TestCases /\ DefinedBeforeUse(t) /\ NamesUnique(t) /\ p \in 1..(size(t) + 1) /\ size(t) = Len(t.stmts)
      /\ size(t) \in Nat /\ t.stmts \in Seq(Statements) /\ t.counter \in Nat /\ p \in Nat
  BY StatementTypes DEF Ready, Good, size
<1>2. e \in Statements /\ e.var = t.counter /\ e.uses = uses
  BY <1>1, Bound DEF Statement, Statements
<1> HIDE DEF e
<1>3. /\ s \in Seq(Statements) /\ Len(s) = size(t) + 1 /\ s[p] = e
      /\ \A i \in 1..(p - 1) : s[i] = t.stmts[i]
      /\ \A i \in p..size(t) : s[i + 1] = t.stmts[i]
  BY <1>1, <1>2, Inserting
<1> HIDE DEF s
<1>4. u \in TestCases /\ u.stmts = s /\ u.counter = t.counter + 1 /\ size(u) = size(t) + 1
  BY <1>1, <1>3 DEF TestCases, size
<1>5. Bind(t, p, type, uses, call, ml) = u
  BY DEF Bind, e, s
<1> HIDE DEF u
<1>6. None \notin Nat
  BY FactoryAssumption
<1>7. \A i \in 1..size(u) : \/ i < p /\ i \in 1..(p - 1) /\ i \in 1..size(t) /\ u.stmts[i] = t.stmts[i]
                            \/ i = p /\ u.stmts[i] = e
                            \/ i > p /\ i - 1 \in p..size(t) /\ i - 1 \in 1..size(t) /\ u.stmts[i] = t.stmts[i - 1]
  <2> TAKE i \in 1..size(u)
  <2>1. CASE i < p
    BY <1>1, <1>3, <1>4, <2>1
  <2>2. CASE i = p
    BY <1>3, <1>4, <2>2
  <2>3. CASE i > p
    <3>1. i - 1 \in p..size(t) /\ i - 1 + 1 = i
      BY <1>1, <1>4, <2>3
    <3>2. s[i - 1 + 1] = t.stmts[i - 1]
      BY <1>3, <3>1
    <3> QED BY <1>1, <1>4, <2>3, <3>1, <3>2
  <2> QED BY <1>1, <1>4, <2>1, <2>2, <2>3
<1>8. \A j \in 1..size(t) : \/ j < p /\ j \in 1..size(u) /\ u.stmts[j] = t.stmts[j]
                            \/ j >= p /\ j + 1 \in 1..size(u) /\ u.stmts[j + 1] = t.stmts[j]
  <2> TAKE j \in 1..size(t)
  <2>1. CASE j < p
    <3>1. j \in 1..(p - 1)
      BY <1>1, <2>1
    <3> QED BY <1>1, <1>3, <1>4, <2>1, <3>1
  <2>2. CASE j >= p
    <3>1. j \in p..size(t)
      BY <1>1, <2>2
    <3> QED BY <1>1, <1>3, <1>4, <2>2, <3>1
  <2> QED BY <1>1, <2>1, <2>2
<1>9. /\ \A i \in 1..size(t) : \A v \in t.stmts[i].uses :
            v # None /\ \E j \in 1..size(t) : j < i /\ t.stmts[j].var = v
      /\ \A i, j \in 1..size(t) : t.stmts[i].var = t.stmts[j].var /\ t.stmts[i].var # None => i = j
      /\ \A i \in 1..size(t) : t.stmts[i].var # None => t.stmts[i].var < t.counter
  BY <1>1, GoodInNumbers
<1>10. \A v \in uses : v # None /\ \E j \in 1..size(t) : j < p /\ t.stmts[j].var = v
  BY <1>1, Bound
<1>11. DefinedBeforeUse(u)
  <2> SUFFICES ASSUME NEW i \in 1..size(u), NEW v \in u.stmts[i].uses
               PROVE  v # None /\ \E j \in 1..size(u) : j < i /\ u.stmts[j].var = v
    BY <1>4, GoodInNumbers
  <2>1. CASE i < p
    <3>1. i \in 1..size(t) /\ v \in t.stmts[i].uses
      BY <1>1, <1>7, <2>1
    <3>2. PICK j \in 1..size(t) : j < i /\ t.stmts[j].var = v /\ v # None
      BY <1>9, <3>1
    <3> QED BY <1>1, <1>8, <2>1, <3>2
  <2>2. CASE i = p
    <3>1. v \in uses
      BY <1>1, <1>2, <1>7, <2>2
    <3>2. PICK j \in 1..size(t) : j < p /\ t.stmts[j].var = v /\ v # None
      BY <1>10, <3>1
    <3> QED BY <1>1, <1>8, <2>2, <3>2
  <2>3. CASE i > p
    <3>1. i - 1 \in 1..size(t) /\ v \in t.stmts[i - 1].uses
      BY <1>1, <1>7, <2>3
    <3>2. PICK j \in 1..size(t) : j < i - 1 /\ t.stmts[j].var = v /\ v # None
      BY <1>9, <3>1
    <3>3. (j < i /\ j + 1 < i) /\ i \in Nat
      BY <1>4, <3>1, <3>2
    <3> QED BY <1>8, <3>2, <3>3
  <2> QED BY <1>1, <1>4, <2>1, <2>2, <2>3
<1>12. NamesUnique(u)
  <2>1. \A i \in 1..size(u) : i = p => u.stmts[i].var = t.counter
    BY <1>1, <1>2, <1>7
  <2>2. ASSUME NEW i \in 1..size(u), i # p, u.stmts[i].var # None
        PROVE  u.stmts[i].var < t.counter /\ u.stmts[i].var \in Nat
    <3>1. PICK j \in 1..size(t) : u.stmts[i] = t.stmts[j]
      BY <1>1, <1>7, <2>2
    <3>2. t.stmts[j].var \in {None} \cup Nat
      BY <1>1, StatementTypes
    <3> QED BY <1>9, <2>2, <3>1, <3>2
  <2>3. \A i \in 1..size(u) : u.stmts[i].var # None => u.stmts[i].var < u.counter
    BY <1>1, <1>4, <2>1, <2>2
  <2>4. ASSUME NEW i \in 1..size(u), NEW j \in 1..size(u), u.stmts[i].var = u.stmts[j].var, u.stmts[i].var # None
        PROVE  i = j
    <3>1. CASE i = p \/ j = p
      BY <1>1, <2>1, <2>2, <2>4, <3>1
    <3>2. CASE i # p /\ j # p
      <4> DEFINE Back(k) == IF k < p THEN k ELSE k - 1
      <4>1. /\ Back(i) \in 1..size(t) /\ u.stmts[i] = t.stmts[Back(i)]
            /\ Back(j) \in 1..size(t) /\ u.stmts[j] = t.stmts[Back(j)]
        BY <1>1, <1>7, <3>2
      <4>2. Back(i) = Back(j)
        <5> HIDE DEF Back
        <5> QED BY <1>9, <2>4, <4>1
      <4> QED BY <1>1, <1>4, <3>2, <4>2
    <3> QED BY <3>1, <3>2
  <2> QED BY <1>4, <2>3, <2>4, GoodInNumbers
<1>13. Grown(t, p, u, p + 1)
  <2> DEFINE q == p + 1
  <2>1. Ready(u, q) /\ p <= q /\ size(u) = size(t) + (q - p)
    BY <1>1, <1>4, <1>11, <1>12 DEF Ready, Good
  <2>2. \A i \in 1..(p - 1) : u.stmts[i] = t.stmts[i]
    BY <1>3, <1>4
  <2>3. \A i \in p..size(t) : i + (q - p) = i + 1
    BY <1>1
  <2> HIDE DEF q
  <2>4. \A i \in p..size(t) : u.stmts[i + (q - p)] = t.stmts[i]
    BY <1>3, <1>4, <2>3
  <2>5. Grown(t, p, u, q)
    BY <2>1, <2>2, <2>4 DEF Grown
  <2> QED BY <2>5 DEF q
<1>14. t.counter \in BoundBefore(u, p + 1)
  <2>1. p \in 1..size(u) /\ p < p + 1 /\ p + 1 \in Nat /\ u.stmts[p].var = t.counter
    BY <1>1, <1>2, <1>3, <1>4
  <2> QED BY <1>1, <1>4, <1>6, <2>1, Bound
<1> QED BY <1>1, <1>5, <1>6, <1>13, <1>14

--------------------------------------------------------------------------------
(* The test factory                                                         *)

\* o provides a value at position p of t: by statements in front of it, of which one
\* binds the value, or a statement that was there does; or there is no variable, and
\* then nothing has been inserted.
Providing(t, p, o) ==
    /\ Grown(t, p, o.tc, o.at)
    /\ o.var = None => o.tc = t /\ o.at = p
    /\ o.var # None => o.var \in BoundBefore(o.tc, o.at)

\* o has inserted what is needed to read its variables.
Collecting(t, p, o) == Grown(t, p, o.tc, o.at) /\ o.uses \subseteq BoundBefore(o.tc, o.at)

ScopeSound(scope) ==
    /\ \A type \in {None} \cup Types : \A t, p : Ready(t, p) =>
            \A o \in scope.create[type][Place(t, p)] : Providing(t, p, o)
    /\ \A type \in Collections : \A t, p : Ready(t, p) =>
            \A o \in scope.collect[type][Place(t, p)] : Providing(t, p, o) /\ o.var # None

LEMMA ReadyTypes ==
    ASSUME NEW t, NEW p, Ready(t, p)
    PROVE  /\ t \in TestCases /\ p \in Nat /\ Place(t, p) \in Places
           /\ Place(t, p).tc = t /\ Place(t, p).at = p
           /\ BoundBefore(t, p) \subseteq Nat /\ None \notin BoundBefore(t, p)
           /\ \A v : Provided(t, v, p).tc = t /\ Provided(t, v, p).at = p /\ Provided(t, v, p).var = v
<1>1. t \in TestCases /\ p \in Nat
  BY StatementTypes DEF Ready, Good
<1>2. Place(t, p) \in Places /\ Place(t, p).tc = t /\ Place(t, p).at = p
  BY <1>1 DEF Place, Places
<1>3. BoundBefore(t, p) \subseteq Nat /\ None \notin BoundBefore(t, p)
  BY <1>1, Bound
<1>4. \A v : Provided(t, v, p).tc = t /\ Provided(t, v, p).at = p /\ Provided(t, v, p).var = v
  BY DEF Provided
<1> QED BY <1>1, <1>2, <1>3, <1>4

\* A variable in scope, or none, at no cost
LEMMA ProvidedInPlace ==
    ASSUME NEW t, NEW p, Ready(t, p), NEW v \in BoundBefore(t, p) \cup {None}
    PROVE  Providing(t, p, Provided(t, v, p))
BY ReadyTypes, GrownReflexive DEF Providing

\* A new variable behind what it reads
LEMMA ProvidedByBinding ==
    ASSUME NEW t, NEW p, Ready(t, p), NEW type \in {None} \cup Types, NEW uses, uses \subseteq BoundBefore(t, p),
           NEW call \in {None} \cup Accessibles, NEW ml \in BOOLEAN
    PROVE  /\ Providing(t, p, Provided(Bind(t, p, type, uses, call, ml), t.counter, p + 1))
           /\ Provided(Bind(t, p, type, uses, call, ml), t.counter, p + 1).var # None
<1> DEFINE u == Bind(t, p, type, uses, call, ml)
           o == Provided(u, t.counter, p + 1)
<1>1. Grown(t, p, u, p + 1) /\ t.counter \in BoundBefore(u, p + 1) /\ t.counter # None
  BY Binding
<1> HIDE DEF u
<1>2. o.tc = u /\ o.at = p + 1 /\ o.var = t.counter
  BY DEF Provided
<1> HIDE DEF o
<1>3. Providing(t, p, o) /\ o.var # None
  BY <1>1, <1>2 DEF Providing
<1> QED BY <1>3 DEF o, u

\* What is provided behind something inserted before
LEMMA ProvidingAfter ==
    ASSUME NEW t, NEW p, NEW u, NEW q, NEW o, Ready(t, p), Grown(t, p, u, q), Providing(u, q, o), o.var # None
    PROVE  Providing(t, p, o)
BY GrownTransitive DEF Providing

LEMMA FindsInScope ==
    ASSUME NEW t, NEW type, NEW p
    PROVE  /\ FindVariableOfType(t, type, p) \subseteq BoundBefore(t, p)
           /\ FindAnyVariable(t, p) = BoundBefore(t, p)
           /\ FindCallableVariable(t, p) \subseteq BoundBefore(t, p)
<1>1. \A ty : FindVariableOfType(t, ty, p) \subseteq BoundBefore(t, p)
  BY DEF FindVariableOfType, BoundBefore
<1>2. FindCallableVariable(t, p) \subseteq BoundBefore(t, p)
  BY <1>1 DEF FindCallableVariable
<1> QED BY <1>1, <1>2 DEF FindAnyVariable

LEMMA LiteralProvides ==
    ASSUME NEW t, NEW p, Ready(t, p), NEW type \in {None} \cup Types, NEW ml \in BOOLEAN
    PROVE  Providing(t, p, EmitLiteral(t, type, p, ml)) /\ EmitLiteral(t, type, p, ml).var # None
<1>1. {} \subseteq BoundBefore(t, p) /\ None \in {None} \cup Accessibles
  OBVIOUS
<1>2. EmitLiteral(t, type, p, ml) = Provided(Bind(t, p, type, {}, None, ml), t.counter, p + 1)
  BY DEF EmitLiteral
<1> QED BY <1>1, <1>2, ProvidedByBinding

LEMMA CallableProvides ==
    ASSUME NEW t, NEW p, Ready(t, p), NEW o \in EmitCallable(t, p)
    PROVE  Providing(t, p, o)
<1>1. CASE \E v \in FindCallableVariable(t, p) : o = Provided(t, v, p)
  BY <1>1, FindsInScope, ProvidedInPlace
<1>2. CASE \E ty \in Callables : o = EmitLiteral(t, ty, p, FALSE)
  <2>1. Callables \subseteq {None} \cup Types
    BY FactoryAssumption
  <2> QED BY <1>2, <2>1, LiteralProvides
<1> QED BY <1>1, <1>2 DEF EmitCallable

LEMMA MLProvides ==
    ASSUME NEW t, NEW p, Ready(t, p), NEW o \in MLArgument(t, p)
    PROVE  Providing(t, p, o)
<1> DEFINE payload == Bind(t, p, None, {}, None, TRUE)
           tensor == Bind(payload, p + 1, None, {t.counter}, None, TRUE)
<1>1. \/ \E ty \in Primitives \cup {None} : o = EmitLiteral(t, ty, p, TRUE)
      \/ o = Provided(tensor, payload.counter, p + 2)
      \/ o = Provided(t, None, p)
  BY DEF MLArgument
<1>2. CASE \E ty \in Primitives \cup {None} : o = EmitLiteral(t, ty, p, TRUE)
  <2>1. Primitives \cup {None} \subseteq {None} \cup Types
    BY FactoryAssumption
  <2> QED BY <1>2, <2>1, LiteralProvides
<1>3. CASE o = Provided(tensor, payload.counter, p + 2)
  <2>1. Grown(t, p, payload, p + 1) /\ {t.counter} \subseteq BoundBefore(payload, p + 1)
    BY Binding
  <2> HIDE DEF payload
  <2>2. Ready(payload, p + 1) /\ p + 2 = p + 1 + 1
    BY <2>1, ReadyTypes DEF Grown
  <2>3. Providing(payload, p + 1, o) /\ o.var # None
    BY <1>3, <2>1, <2>2, ProvidedByBinding
  <2> QED BY <2>1, <2>3, ProvidingAfter
<1>4. CASE o = Provided(t, None, p)
  BY <1>4, ProvidedInPlace
<1> QED BY <1>1, <1>2, <1>3, <1>4

LEMMA CreateOrReuseProvides ==
    ASSUME NEW scope, ScopeSound(scope), NEW t, NEW p, Ready(t, p), NEW type \in {None} \cup Types,
           NEW o \in CreateOrReuse(scope, t, type, p)
    PROVE  Providing(t, p, o)
<1>1. \/ o = Provided(t, None, p)
      \/ \E v \in FindVariableOfType(t, type, p) : o = Provided(t, v, p)
      \/ o \in scope.create[type][Place(t, p)]
  BY DEF CreateOrReuse
<1>2. CASE o = Provided(t, None, p)
  BY <1>2, ProvidedInPlace
<1>3. CASE \E v \in FindVariableOfType(t, type, p) : o = Provided(t, v, p)
  BY <1>3, FindsInScope, ProvidedInPlace
<1>4. CASE o \in scope.create[type][Place(t, p)]
  BY <1>4 DEF ScopeSound
<1> QED BY <1>1, <1>2, <1>3, <1>4

\* Values provided one after another collect what has been provided.
LEMMA InSequenceCollects ==
    ASSUME NEW t, NEW p, Ready(t, p), NEW count \in Nat, NEW values,
           \A n \in 1..count : \A u, q : Ready(u, q) => \A v \in values[n][Place(u, q)] : Providing(u, q, v)
    PROVE  \A o \in InSequence(t, p, count, values) : Collecting(t, p, o)
<1> DEFINE First == [tc |-> t, uses |-> {}, at |-> p]
           After(o, v) == [tc |-> v.tc, uses |-> o.uses \cup ({v.var} \ {None}), at |-> v.at]
           Turn(n, O) == UNION {{After(o, v) : v \in values[n][Place(o.tc, o.at)]} : o \in O}
           Whole(f) == [n \in 0..count |-> IF n = 0 THEN {First} ELSE Turn(n, f[n - 1])]
           f == CHOOSE f : f = Whole(f)
           C == {o \in [tc : TestCases, uses : SUBSET Nat, at : Nat] : Collecting(t, p, o)}
           step == [x \in (1..count) \X SUBSET C |-> Turn(x[1], x[2])]
<1>1. InSequence(t, p, count, values) = f[count]
  BY DEF InSequence
<1>2. First \in C
  <2>1. First.tc = t /\ First.at = p /\ First.uses = {} /\ First \in [tc : TestCases, uses : SUBSET Nat, at : Nat]
    BY ReadyTypes
  <2>2. Collecting(t, p, First)
    BY <2>1, GrownReflexive DEF Collecting
  <2> QED BY <2>1, <2>2
<1>3. ASSUME NEW n \in 1..count, NEW o \in C, NEW v \in values[n][Place(o.tc, o.at)]
      PROVE  After(o, v) \in C
  <2>1. Grown(t, p, o.tc, o.at) /\ o.uses \subseteq BoundBefore(o.tc, o.at)
    BY <1>3 DEF Collecting
  <2>2. Ready(o.tc, o.at)
    BY <2>1 DEF Grown
  <2>3. Grown(o.tc, o.at, v.tc, v.at) /\ (v.var # None => v.var \in BoundBefore(v.tc, v.at))
    BY <1>3, <2>2 DEF Providing
  <2>4. Grown(t, p, v.tc, v.at) /\ BoundBefore(o.tc, o.at) \subseteq BoundBefore(v.tc, v.at)
    BY <2>1, <2>2, <2>3, GrownTransitive, GrownKeeps
  <2>5. v.tc \in TestCases /\ v.at \in Nat /\ BoundBefore(v.tc, v.at) \subseteq Nat
    <3>1. Ready(v.tc, v.at)
      BY <2>4 DEF Grown
    <3> QED BY <3>1, ReadyTypes
  <2>6. o.uses \cup ({v.var} \ {None}) \subseteq BoundBefore(v.tc, v.at)
    BY <2>1, <2>3, <2>4
  <2>7. After(o, v).tc = v.tc /\ After(o, v).at = v.at /\ After(o, v).uses = o.uses \cup ({v.var} \ {None})
    OBVIOUS
  <2>8. After(o, v) \in [tc : TestCases, uses : SUBSET Nat, at : Nat]
    BY <2>5, <2>6
  <2> HIDE DEF After
  <2>9. Collecting(t, p, After(o, v))
    BY <2>4, <2>6, <2>7 DEF Collecting
  <2> QED BY <2>8, <2>9
<1> HIDE DEF First, After, C
<1>4. ASSUME NEW n \in 1..count, NEW O \in SUBSET C PROVE step[<<n, O>>] = Turn(n, O) /\ Turn(n, O) \in SUBSET C
  <2>1. Turn(n, O) \subseteq C
    <3>1. \A o \in O : \A v \in values[n][Place(o.tc, o.at)] : After(o, v) \in C
      BY <1>3
    <3> QED BY <3>1
  <2> HIDE DEF Turn
  <2> DEFINE x == <<n, O>>
  <2>2. x \in (1..count) \X SUBSET C /\ x[1] = n /\ x[2] = O
    OBVIOUS
  <2> HIDE DEF x
  <2>3. step[x] = Turn(n, O)
    BY <2>2
  <2> QED BY <2>1, <2>3 DEF x
<1> HIDE DEF step, Turn
<1>5. PICK g : Recursive(g, count, SUBSET C, {First}, step)
  <2> DEFINE S == SUBSET C
             base == {First}
  <2>1. base \in S /\ \A k \in 1..count : \A x \in S : step[<<k, x>>] \in S
    BY <1>2, <1>4
  <2> HIDE DEF S, base
  <2>2. \E g : Recursive(g, count, S, base, step)
    BY <2>1, Recursion
  <2> QED BY <2>2 DEF S, base
<1>6. g = Whole(g)
  <2>1. g \in [0..count -> SUBSET C] /\ g[0] = {First} /\ \A k \in 1..count : g[k] = step[<<k, g[k - 1]>>]
    BY <1>5 DEF Recursive
  <2>2. ASSUME NEW k \in 1..count PROVE g[k] = Turn(k, g[k - 1])
    <3>1. k - 1 \in 0..count
      OBVIOUS
    <3>2. g[k - 1] \in SUBSET C
      BY <2>1, <3>1
    <3> QED BY <1>4, <2>1, <3>2
  <2>3. \A k \in 0..count : g[k] = IF k = 0 THEN {First} ELSE Turn(k, g[k - 1])
    BY <2>1, <2>2
  <2>4. g = [k \in 0..count |-> g[k]]
    BY <2>1
  <2> QED BY <2>3, <2>4
<1>7. f = Whole(f)
  <2> HIDE DEF Whole
  <2> QED BY <1>6
<1> HIDE DEF f
<1>8. \A k \in 0..count : f[k] = IF k = 0 THEN {First} ELSE Turn(k, f[k - 1])
  BY <1>7
<1> DEFINE T == {k \in 0..count : f[k] \in SUBSET C}
<1>9. 0 \in T
  <2>1. 0 \in 0..count /\ {First} \in SUBSET C
    BY <1>2
  <2> QED BY <1>8, <2>1
<1>10. ASSUME NEW k \in 1..count, k - 1 \in T PROVE k \in T
  <2>1. k \in 0..count /\ f[k - 1] \in SUBSET C /\ k # 0
    BY <1>10
  <2>2. f[k] = Turn(k, f[k - 1])
    BY <1>8, <2>1
  <2>3. Turn(k, f[k - 1]) \in SUBSET C
    BY <1>4, <2>1
  <2> QED BY <2>1, <2>2, <2>3
<1> HIDE DEF T
<1>11. \A k \in 0..count : k \in T
  BY <1>9, <1>10, UpTo
<1>12. f[count] \subseteq C
  BY <1>11 DEF T
<1> QED BY <1>1, <1>12 DEF C

LEMMA BindingCollection ==
    ASSUME NEW t, NEW p, Ready(t, p), NEW type \in Collections, NEW e, Collecting(t, p, e)
    PROVE  Providing(t, p, BindCollection(type, e)) /\ BindCollection(type, e).var # None
<1>1. Grown(t, p, e.tc, e.at) /\ e.uses \subseteq BoundBefore(e.tc, e.at) /\ Ready(e.tc, e.at)
  BY DEF Collecting, Grown
<1>2. type \in {None} \cup Types /\ None \in {None} \cup Accessibles /\ FALSE \in BOOLEAN
  BY FactoryAssumption
<1>3. BindCollection(type, e) = Provided(Bind(e.tc, e.at, type, e.uses, None, FALSE), e.tc.counter, e.at + 1)
  BY DEF BindCollection
<1>4. Providing(e.tc, e.at, BindCollection(type, e)) /\ BindCollection(type, e).var # None
  BY <1>1, <1>2, <1>3, ProvidedByBinding
<1> QED BY <1>1, <1>4, ProvidingAfter

LEMMA PoolProvides ==
    ASSUME NEW t, NEW p, Ready(t, p), NEW type \in Collections, NEW o \in PoolCollection(t, type, p)
    PROVE  Providing(t, p, o) /\ o.var # None
<1>1. PICK U \in Pools(t, p) : o = BindCollection(type, [tc |-> t, uses |-> U, at |-> p])
  BY DEF PoolCollection
<1> DEFINE e == [tc |-> t, uses |-> U, at |-> p]
<1>2. U \subseteq BoundBefore(t, p)
  BY FindsInScope DEF Pools
<1>3. e.tc = t /\ e.uses = U /\ e.at = p
  OBVIOUS
<1> HIDE DEF e
<1>4. Collecting(t, p, e)
  BY <1>2, <1>3, GrownReflexive DEF Collecting
<1>5. o = BindCollection(type, e)
  BY <1>1 DEF e
<1> QED BY <1>4, <1>5, BindingCollection

\* What a value found, or one created for it, comes to: the variable itself, or else a
\* collection, a literal, or a variable in scope, if any.
LEMMA FoundOrMade ==
    ASSUME NEW scope, ScopeSound(scope), NEW t, NEW p, Ready(t, p), NEW type \in {None} \cup Types, NEW v, Providing(t, p, v),
           NEW o, \/ v.var # None /\ o = v
                  \/ v.var = None /\ type \in Collections /\ o \in scope.collect[type][Place(v.tc, v.at)]
                  \/ v.var = None /\ o = EmitLiteral(v.tc, type, v.at, FALSE)
                  \/ v.var = None /\ \E u \in BoundBefore(t, p) \cup {None} : o = Provided(t, u, p)
    PROVE  Providing(t, p, o)
<1>1. CASE v.var # None /\ o = v
  BY <1>1
<1>2. v.var = None => v.tc = t /\ v.at = p
  BY DEF Providing
<1>3. CASE v.var = None /\ type \in Collections /\ o \in scope.collect[type][Place(v.tc, v.at)]
  BY <1>2, <1>3 DEF ScopeSound
<1>4. CASE v.var = None /\ o = EmitLiteral(v.tc, type, v.at, FALSE)
  BY <1>2, <1>4, LiteralProvides
<1>5. CASE v.var = None /\ \E u \in BoundBefore(t, p) \cup {None} : o = Provided(t, u, p)
  BY <1>5, ProvidedInPlace
<1> QED BY <1>1, <1>3, <1>4, <1>5

LEMMA ElementProvides ==
    ASSUME NEW scope, ScopeSound(scope), NEW t, NEW p, Ready(t, p), NEW type \in {None} \cup Types,
           NEW o \in CollectionElement(scope, t, type, p)
    PROVE  Providing(t, p, o)
<1>1. PICK v \in CreateOrReuse(scope, t, type, p) :
        o \in IF v.var # None THEN {v}
              ELSE IF type \in Collections THEN scope.collect[type][Place(v.tc, v.at)]
              ELSE IF type \in Primitives THEN {EmitLiteral(v.tc, type, v.at, FALSE)}
              ELSE {Provided(v.tc, u, v.at) : u \in FindAnyVariable(v.tc, v.at) \cup {None}}
  BY DEF CollectionElement
<1>2. Providing(t, p, v)
  BY CreateOrReuseProvides
<1>3. v.var = None => v.tc = t /\ v.at = p
  BY <1>2 DEF Providing
<1>4. \/ v.var # None /\ o = v
      \/ v.var = None /\ type \in Collections /\ o \in scope.collect[type][Place(v.tc, v.at)]
      \/ v.var = None /\ o = EmitLiteral(v.tc, type, v.at, FALSE)
      \/ v.var = None /\ \E u \in BoundBefore(t, p) \cup {None} : o = Provided(t, u, p)
  BY <1>1, <1>3, FindsInScope
<1> QED BY <1>2, <1>4, FoundOrMade

LEMMA EmitCollectionProvides ==
    ASSUME NEW scope, ScopeSound(scope), NEW t, NEW p, Ready(t, p), NEW type \in Collections,
           NEW o \in EmitCollection(scope, t, type, p)
    PROVE  Providing(t, p, o) /\ o.var # None
<1> DEFINE element == [x \in Places |-> CollectionElement(scope, x.tc, ElementType[type], x.at)]
<1>1. PICK n \in 0..CollectionSize : \E e \in InSequence(t, p, n, [i \in 1..n |-> element]) : o = BindCollection(type, e)
  BY DEF EmitCollection
<1> DEFINE values == [i \in 1..n |-> element]
<1>2. \A u, q : Ready(u, q) => \A v \in element[Place(u, q)] : Providing(u, q, v)
  <2> SUFFICES ASSUME NEW u, NEW q, Ready(u, q), NEW v \in element[Place(u, q)] PROVE Providing(u, q, v)
    OBVIOUS
  <2>1. element[Place(u, q)] = CollectionElement(scope, u, ElementType[type], q)
    BY ReadyTypes
  <2>2. ElementType[type] \in {None} \cup Types
    BY FactoryAssumption
  <2> HIDE DEF element
  <2> QED BY <2>1, <2>2, ElementProvides
<1> HIDE DEF element
<1>3. \A k \in 1..n : values[k] = element
  OBVIOUS
<1>4. n \in Nat /\ \E e \in InSequence(t, p, n, values) : o = BindCollection(type, e)
  BY <1>1, FactoryAssumption
<1> HIDE DEF values
<1>5. \A e \in InSequence(t, p, n, values) : Collecting(t, p, e)
  BY <1>2, <1>3, <1>4, InSequenceCollects
<1> QED BY <1>4, <1>5, BindingCollection

LEMMA ResolveProvides ==
    ASSUME NEW scope, ScopeSound(scope), NEW t, NEW p, Ready(t, p), NEW type \in {None} \cup Types,
           NEW o \in ResolveArgument(scope, t, type, p)
    PROVE  Providing(t, p, o)
<1>1. \/ o \in EmitCallable(t, p)
      \/ \E v \in CreateOrReuse(scope, t, type, p) :
            o \in IF v.var # None THEN {v}
                  ELSE IF type \in Collections THEN scope.collect[type][Place(v.tc, v.at)]
                  ELSE IF type \in Primitives THEN {EmitLiteral(v.tc, type, v.at, FALSE)}
                  ELSE {Provided(t, u, p) : u \in FindAnyVariable(t, p) \cup {None}}
  BY DEF ResolveArgument
<1>2. CASE o \in EmitCallable(t, p)
  BY <1>2, CallableProvides
<1>3. CASE \E v \in CreateOrReuse(scope, t, type, p) :
            o \in IF v.var # None THEN {v}
                  ELSE IF type \in Collections THEN scope.collect[type][Place(v.tc, v.at)]
                  ELSE IF type \in Primitives THEN {EmitLiteral(v.tc, type, v.at, FALSE)}
                  ELSE {Provided(t, u, p) : u \in FindAnyVariable(t, p) \cup {None}}
  <2>1. PICK v \in CreateOrReuse(scope, t, type, p) :
            o \in IF v.var # None THEN {v}
                  ELSE IF type \in Collections THEN scope.collect[type][Place(v.tc, v.at)]
                  ELSE IF type \in Primitives THEN {EmitLiteral(v.tc, type, v.at, FALSE)}
                  ELSE {Provided(t, u, p) : u \in FindAnyVariable(t, p) \cup {None}}
    BY <1>3
  <2>2. Providing(t, p, v)
    BY CreateOrReuseProvides
  <2>3. \/ v.var # None /\ o = v
        \/ v.var = None /\ type \in Collections /\ o \in scope.collect[type][Place(v.tc, v.at)]
        \/ v.var = None /\ o = EmitLiteral(v.tc, type, v.at, FALSE)
        \/ v.var = None /\ \E u \in BoundBefore(t, p) \cup {None} : o = Provided(t, u, p)
    BY <2>1, FindsInScope
  <2> QED BY <2>2, <2>3, FoundOrMade
<1> QED BY <1>1, <1>2, <1>3

LEMMA SatisfyProvides ==
    ASSUME NEW scope, ScopeSound(scope), NEW t, NEW p, Ready(t, p), NEW a \in Accessibles, NEW n \in DOMAIN Parameters[a],
           NEW o \in SatisfyParameter(scope, a, n, t, p)
    PROVE  Providing(t, p, o)
<1>1. \/ o = Provided(t, None, p)
      \/ \E v \in {Provided(t, None, p)} \cup MLArgument(t, p) :
            o \in IF v.var # None THEN {v} ELSE ResolveArgument(scope, v.tc, Parameters[a][n], v.at)
  BY DEF SatisfyParameter
<1>2. Parameters[a][n] \in {None} \cup Types
  <2>1. Parameters[a] \in Seq({None} \cup Types)
    BY FactoryAssumption
  <2> QED BY <2>1
<1>3. CASE o = Provided(t, None, p)
  BY <1>3, ProvidedInPlace
<1>4. CASE \E v \in {Provided(t, None, p)} \cup MLArgument(t, p) :
            o \in IF v.var # None THEN {v} ELSE ResolveArgument(scope, v.tc, Parameters[a][n], v.at)
  <2>1. PICK v \in {Provided(t, None, p)} \cup MLArgument(t, p) :
            o \in IF v.var # None THEN {v} ELSE ResolveArgument(scope, v.tc, Parameters[a][n], v.at)
    BY <1>4
  <2>2. Providing(t, p, v)
    BY ProvidedInPlace, MLProvides
  <2>3. CASE v.var # None
    BY <2>1, <2>2, <2>3
  <2>4. CASE v.var = None
    <3>1. v.tc = t /\ v.at = p
      BY <2>2, <2>4 DEF Providing
    <3> QED BY <1>2, <2>1, <2>4, <3>1, ResolveProvides
  <2> QED BY <2>3, <2>4
<1> QED BY <1>1, <1>3, <1>4

LEMMA ArgumentsCollect ==
    ASSUME NEW scope, ScopeSound(scope), NEW t, NEW p, Ready(t, p), NEW a \in Accessibles, NEW o \in Arguments(scope, t, a, p)
    PROVE  Collecting(t, p, o)
<1>1. CASE o = [tc |-> t, uses |-> {}, at |-> p]
  <2>1. o.tc = t /\ o.uses = {} /\ o.at = p
    BY <1>1
  <2> QED BY <2>1, GrownReflexive DEF Collecting
<1>2. CASE o \in SatisfyParameters(scope, t, a, p)
  <2> DEFINE way(n) == [x \in Places |-> SatisfyParameter(scope, a, n, x.tc, x.at)]
             count == Len(Parameters[a])
             values == [n \in DOMAIN Parameters[a] |-> way(n)]
  <2>1. o \in InSequence(t, p, count, values)
    BY <1>2 DEF SatisfyParameters
  <2>2. count \in Nat /\ DOMAIN Parameters[a] = 1..count
    <3>1. Parameters[a] \in Seq({None} \cup Types)
      BY FactoryAssumption
    <3> QED BY <3>1
  <2> HIDE DEF count
  <2>3. ASSUME NEW n \in 1..count, NEW u, NEW q, Ready(u, q), NEW v \in values[n][Place(u, q)]
        PROVE  Providing(u, q, v)
    <3>1. values[n] = way(n)
      <4> HIDE DEF way
      <4> QED BY <2>2
    <3>2. way(n)[Place(u, q)] = SatisfyParameter(scope, a, n, u, q)
      BY <2>3, ReadyTypes
    <3> HIDE DEF values, way
    <3> QED BY <2>2, <2>3, <3>1, <3>2, SatisfyProvides
  <2> HIDE DEF values
  <2> QED BY <2>1, <2>2, <2>3, InSequenceCollects
<1> QED BY <1>1, <1>2 DEF Arguments

LEMMA ReceiversProvide ==
    ASSUME NEW scope, ScopeSound(scope), NEW t, NEW p, Ready(t, p), NEW a \in Accessibles,
           NEW o \in Receivers(scope, t, a, p, TRUE) \cup Receivers(scope, t, a, p, FALSE)
    PROVE  Providing(t, p, o)
<1>1. \/ \E v \in FindVariableOfType(t, Owner[a], p) : o = Provided(t, v, p)
      \/ \E v \in scope.create[Owner[a]][Place(t, p)] :
            o = v \/ (v.var = None /\ \E u \in FindAnyVariable(v.tc, v.at) : o = Provided(v.tc, u, v.at))
  BY DEF Receivers
<1>2. \A v \in scope.create[Owner[a]][Place(t, p)] : Providing(t, p, v)
  <2>1. Owner[a] \in {None} \cup Types
    BY FactoryAssumption
  <2> QED BY <2>1 DEF ScopeSound
<1>3. CASE \E v \in FindVariableOfType(t, Owner[a], p) : o = Provided(t, v, p)
  BY <1>3, FindsInScope, ProvidedInPlace
<1>4. CASE \E v \in scope.create[Owner[a]][Place(t, p)] :
            o = v \/ (v.var = None /\ \E u \in FindAnyVariable(v.tc, v.at) : o = Provided(v.tc, u, v.at))
  <2>1. PICK v \in scope.create[Owner[a]][Place(t, p)] :
            o = v \/ (v.var = None /\ \E u \in FindAnyVariable(v.tc, v.at) : o = Provided(v.tc, u, v.at))
    BY <1>4
  <2>2. CASE o = v
    BY <1>2, <2>2
  <2>3. CASE v.var = None /\ \E u \in FindAnyVariable(v.tc, v.at) : o = Provided(v.tc, u, v.at)
    <3>1. v.tc = t /\ v.at = p
      BY <1>2, <2>3 DEF Providing
    <3> QED BY <2>3, <3>1, FindsInScope, ProvidedInPlace
  <2> QED BY <2>1, <2>2, <2>3
<1> QED BY <1>1, <1>3, <1>4

\* A call that can be built reads only what is in scope where it goes; for one that
\* cannot, nothing has been inserted.
Building(t, p, b) == Collecting(t, p, b) /\ b.built \in BOOLEAN /\ (~ b.built => b.tc = t /\ b.at = p)

LEMMA BuildingCalls ==
    ASSUME NEW scope, ScopeSound(scope), NEW t, NEW p, Ready(t, p), NEW a \in Accessibles,
           NEW b \in BuildCall(scope, t, a, p, TRUE) \cup BuildCall(scope, t, a, p, FALSE)
    PROVE  Building(t, p, b)
<1> DEFINE receivers == Receivers(scope, t, a, p, TRUE) \cup Receivers(scope, t, a, p, FALSE) \cup {Provided(t, None, p)}
           Built(r, x) == [tc |-> x.tc, uses |-> x.uses \cup ({r.var} \ {None}), at |-> x.at, built |-> TRUE]
<1>1. PICK r \in receivers :
        b \in IF NeedsReceiver(a) /\ r.var = None
              THEN {[tc |-> r.tc, uses |-> {}, at |-> r.at, built |-> FALSE]}
              ELSE {Built(r, x) : x \in Arguments(scope, r.tc, a, r.at)}
  BY DEF BuildCall
<1>2. Providing(t, p, r)
  BY ReceiversProvide, ProvidedInPlace
<1> HIDE DEF receivers
<1>3. CASE b = [tc |-> r.tc, uses |-> {}, at |-> r.at, built |-> FALSE] /\ r.var = None
  <2>1. b.tc = t /\ b.uses = {} /\ b.at = p /\ b.built = FALSE
    BY <1>2, <1>3 DEF Providing
  <2> QED BY <2>1, GrownReflexive DEF Collecting, Building
<1>4. CASE \E x \in Arguments(scope, r.tc, a, r.at) : b = Built(r, x)
  <2>1. PICK x \in Arguments(scope, r.tc, a, r.at) : b = Built(r, x)
    BY <1>4
  <2>2. Grown(t, p, r.tc, r.at) /\ (r.var # None => r.var \in BoundBefore(r.tc, r.at))
    BY <1>2 DEF Providing
  <2>3. Ready(r.tc, r.at)
    BY <2>2 DEF Grown
  <2>4. Grown(r.tc, r.at, x.tc, x.at) /\ x.uses \subseteq BoundBefore(x.tc, x.at)
    BY <2>3, ArgumentsCollect DEF Collecting
  <2>5. Grown(t, p, x.tc, x.at) /\ BoundBefore(r.tc, r.at) \subseteq BoundBefore(x.tc, x.at)
    BY <2>2, <2>3, <2>4, GrownTransitive, GrownKeeps
  <2>6. b.tc = x.tc /\ b.at = x.at /\ b.uses = x.uses \cup ({r.var} \ {None}) /\ b.built = TRUE
    BY <2>1
  <2>7. b.uses \subseteq BoundBefore(x.tc, x.at)
    BY <2>2, <2>4, <2>5, <2>6
  <2> QED BY <2>5, <2>6, <2>7 DEF Collecting, Building
<1> QED BY <1>1, <1>3, <1>4

LEMMA EmitAccessibleProvides ==
    ASSUME NEW scope, ScopeSound(scope), NEW t, NEW p, Ready(t, p), NEW a \in Accessibles, NEW o \in EmitAccessible(scope, t, a, p)
    PROVE  /\ Providing(t, p, o)
           /\ o.var # None => o.at - 1 \in p..size(o.tc) /\ o.tc.stmts[o.at - 1].var = o.var
<1>1. PICK b \in BuildCall(scope, t, a, p, TRUE) :
        o = IF b.built THEN Provided(Bind(b.tc, b.at, Gives[a], b.uses, a, FALSE), b.tc.counter, b.at + 1)
            ELSE Provided(b.tc, None, b.at)
  BY DEF EmitAccessible
<1>2. Building(t, p, b)
  <2>1. b \in BuildCall(scope, t, a, p, TRUE) \cup BuildCall(scope, t, a, p, FALSE)
    OBVIOUS
  <2> QED BY <2>1, BuildingCalls
<1>3. CASE b.built = FALSE
  <2>1. o = Provided(t, None, p)
    BY <1>1, <1>2, <1>3 DEF Building
  <2> QED BY <2>1, ProvidedInPlace, ReadyTypes
<1>4. CASE b.built = TRUE
  <2> DEFINE u == Bind(b.tc, b.at, Gives[a], b.uses, a, FALSE)
  <2>1. Grown(t, p, b.tc, b.at) /\ b.uses \subseteq BoundBefore(b.tc, b.at) /\ Ready(b.tc, b.at)
    BY <1>2 DEF Building, Collecting, Grown
  <2>2. Gives[a] \in {None} \cup Types /\ a \in {None} \cup Accessibles /\ FALSE \in BOOLEAN
    BY FactoryAssumption
  <2>3. o = Provided(u, b.tc.counter, b.at + 1)
    BY <1>1, <1>4
  <2>4. Providing(b.tc, b.at, o) /\ o.var # None
    BY <2>1, <2>2, <2>3, ProvidedByBinding
  <2>5. o.tc = u /\ o.at = b.at + 1 /\ o.var = b.tc.counter
    BY <2>3 DEF Provided
  <2>6. u.stmts[b.at].var = b.tc.counter
    <3>1. b.tc.stmts \in Seq(Statements) /\ b.at \in 1..(Len(b.tc.stmts) + 1) /\ b.tc.counter \in Nat
      BY <2>1, StatementTypes DEF Ready, Good, size
    <3> DEFINE e == Statement(b.tc.counter, Gives[a], b.uses, a, FALSE)
    <3>2. e \in Statements /\ e.var = b.tc.counter
      <4>1. b.uses \subseteq Nat
        BY <2>1, ReadyTypes
      <4> QED BY <2>2, <3>1, <4>1 DEF Statement, Statements
    <3> HIDE DEF e
    <3>3. InsertAt(b.tc.stmts, b.at, e)[b.at] = e
      BY <3>1, <3>2, Inserting
    <3> QED BY <3>2, <3>3 DEF Bind, e
  <2>7. /\ Grown(b.tc, b.at, o.tc, o.at) /\ p <= b.at /\ b.at \in Nat /\ p \in Nat
    BY <2>1, <2>4, ReadyTypes DEF Providing, Grown
  <2>8. o.at \in 1..(size(o.tc) + 1) /\ size(o.tc) \in Nat
    <3>1. Ready(o.tc, o.at)
      BY <2>7 DEF Grown
    <3> QED BY <3>1, StatementTypes DEF Ready, Good
  <2>9. o.at - 1 \in p..size(o.tc) /\ o.at - 1 = b.at
    <3> DEFINE q == o.at
               n == size(o.tc)
    <3>1. q = b.at + 1 /\ b.at \in Nat /\ p \in Nat /\ p <= b.at /\ n \in Nat /\ q \in 1..(n + 1)
      BY <2>5, <2>7, <2>8
    <3> HIDE DEF q, n
    <3>2. q - 1 \in p..n /\ q - 1 = b.at
      BY <3>1
    <3> QED BY <3>2 DEF q, n
  <2> QED BY <2>1, <2>4, <2>5, <2>6, <2>9, ProvidingAfter
<1> QED BY <1>2, <1>3, <1>4 DEF Building

LEMMA CreateProvides ==
    ASSUME NEW scope, ScopeSound(scope), NEW t, NEW p, Ready(t, p), NEW type, NEW o \in CreateVariable(scope, t, type, p)
    PROVE  Providing(t, p, o)
<1>1. o = Provided(t, None, p) \/ \E g \in Generators(type) : o \in EmitAccessible(scope, t, g, p)
  BY DEF CreateVariable
<1>2. Generators(type) \subseteq Accessibles
  BY DEF Generators
<1> QED BY <1>1, <1>2, ProvidedInPlace, EmitAccessibleProvides

\* The providers of each level are what their definition says, for any number of levels.
Level(scope, left) ==
    [create |-> [type \in {None} \cup Types |-> [p \in Places |->
        IF left = 0 THEN {Provided(p.tc, None, p.at)}
        ELSE CreateVariable(scope, p.tc, type, p.at)]],
     collect |-> [type \in Collections |-> [p \in Places |->
        IF left = 0 THEN PoolCollection(p.tc, type, p.at)
        ELSE EmitCollection(scope, p.tc, type, p.at)]]]

LEMMA LevelsOfProviders ==
    \A left \in 0..MaxRecursion : Providers[left] = Level(Providers[left - 1], left)
<1> DEFINE Whole(f, n) == [left \in 0..n |-> Level(f[left - 1], left)]
           T == {k \in 0..MaxRecursion : \E f : f = Whole(f, k)}
<1>1. \A x, y : Level(x, 0) = Level(y, 0)
  BY DEF Level
<1>2. 0 \in T
  <2> DEFINE g == [i \in 0..0 |-> Level({}, 0)]
  <2>1. 0..0 = {0} /\ 0 \in 0..MaxRecursion
    BY FactoryAssumption
  <2>2. g = [left \in 0..0 |-> Level(g[left - 1], left)]
    BY <1>1, <2>1
  <2> QED BY <2>1, <2>2
<1>3. ASSUME NEW k \in 1..MaxRecursion, k - 1 \in T PROVE k \in T
  <2>1. PICK f : f = Whole(f, k - 1)
    BY <1>3
  <2> DEFINE g == [i \in 0..k |-> IF i = k THEN Level(f[k - 1], k) ELSE f[i]]
  <2>2. \A i \in 0..k - 1 : f[i] = Level(f[i - 1], i)
    BY <2>1
  <2>3. k \in 0..MaxRecursion /\ k \in Nat
    OBVIOUS
  <2>4. \A i \in 0..k - 1 : i \in 0..k /\ i # k /\ g[i] = f[i]
    OBVIOUS
  <2>5. ASSUME NEW i \in 0..k PROVE g[i] = Level(g[i - 1], i)
    <3>1. CASE i = 0
      <4>1. g[0] = Level(f[0 - 1], 0)
        BY <2>2, <2>4
      <4> HIDE DEF g
      <4> QED BY <1>1, <3>1, <4>1
    <3>2. CASE i = k
      <4>1. g[k] = Level(f[k - 1], k) /\ k - 1 \in 0..k - 1
        BY <2>3
      <4> HIDE DEF g
      <4> QED BY <2>4, <3>2, <4>1
    <3>3. CASE i # 0 /\ i # k
      <4>1. i \in 0..k - 1 /\ i - 1 \in 0..k - 1
        BY <3>3
      <4> HIDE DEF g
      <4> QED BY <2>2, <2>4, <4>1
    <3> QED BY <3>1, <3>2, <3>3
  <2>6. g = [i \in 0..k |-> g[i]]
    OBVIOUS
  <2> HIDE DEF g
  <2>7. g = Whole(g, k)
    BY <2>5, <2>6
  <2> QED BY <2>3, <2>7
<1>4. MaxRecursion \in T
  <2>1. MaxRecursion \in Nat /\ MaxRecursion \in 0..MaxRecursion
    BY FactoryAssumption
  <2> HIDE DEF T
  <2> QED BY <1>2, <1>3, <2>1, UpTo
<1>5. PICK f : f = Whole(f, MaxRecursion)
  BY <1>4
<1>6. Providers = CHOOSE g : g = Whole(g, MaxRecursion)
  BY DEF Providers, Level
<1> HIDE DEF Whole
<1>7. Providers = Whole(Providers, MaxRecursion)
  BY <1>5, <1>6
<1>8. Providers = [left \in 0..MaxRecursion |-> Level(Providers[left - 1], left)]
  BY <1>7 DEF Whole
<1> QED BY <1>8

\* Whatever the depth, what is provided is sound.
LEMMA ProvidersSound == \A left \in 0..MaxRecursion : ScopeSound(Providers[left])
<1> DEFINE T == {left \in 0..MaxRecursion : ScopeSound(Providers[left])}
<1>1. ASSUME NEW left \in 0..MaxRecursion, left = 0 \/ ScopeSound(Providers[left - 1]) PROVE ScopeSound(Providers[left])
  <2> DEFINE scope == Providers[left - 1]
             this == Providers[left]
  <2>1. this = Level(scope, left)
    BY LevelsOfProviders
  <2>2. left = 0 \/ ScopeSound(scope)
    BY <1>1
  <2> HIDE DEF scope, this
  <2>3. ASSUME NEW type \in {None} \cup Types, NEW t, NEW p, Ready(t, p), NEW o \in this.create[type][Place(t, p)]
        PROVE  Providing(t, p, o)
    <3>1. o \in IF left = 0 THEN {Provided(t, None, p)} ELSE CreateVariable(scope, t, type, p)
      BY <2>1, <2>3, ReadyTypes DEF Level
    <3> QED BY <2>2, <2>3, <3>1, ProvidedInPlace, CreateProvides
  <2>4. ASSUME NEW type \in Collections, NEW t, NEW p, Ready(t, p), NEW o \in this.collect[type][Place(t, p)]
        PROVE  Providing(t, p, o) /\ o.var # None
    <3>1. o \in IF left = 0 THEN PoolCollection(t, type, p) ELSE EmitCollection(scope, t, type, p)
      BY <2>1, <2>4, ReadyTypes DEF Level
    <3> QED BY <2>2, <2>4, <3>1, PoolProvides, EmitCollectionProvides
  <2>5. ScopeSound(this)
    BY <2>3, <2>4 DEF ScopeSound
  <2> QED BY <2>5 DEF this
<1>2. 0 \in T
  <2>1. 0 \in 0..MaxRecursion
    BY FactoryAssumption
  <2> QED BY <1>1, <2>1
<1>3. ASSUME NEW k \in 1..MaxRecursion, k - 1 \in T PROVE k \in T
  <2>1. k \in 0..MaxRecursion
    OBVIOUS
  <2> QED BY <1>1, <1>3, <2>1
<1>4. \A k \in 0..MaxRecursion : k \in T
  <2>1. MaxRecursion \in Nat
    BY FactoryAssumption
  <2> HIDE DEF T
  <2> QED BY <1>2, <1>3, <2>1, UpTo
<1> QED BY <1>4

LEMMA ScopesSound == ScopeSound(Outermost) /\ ScopeSound(Nested)
<1>1. MaxRecursion \in 0..MaxRecursion /\ (IF MaxRecursion = 0 THEN 0 ELSE MaxRecursion - 1) \in 0..MaxRecursion
  BY FactoryAssumption
<1> QED BY <1>1, ProvidersSound DEF Outermost, Nested

--------------------------------------------------------------------------------
(* The operations of the search                                             *)

\* An operation leaves a good test case, and the one it was given unless it tells of a change.
Outcome(t, r) == r.done \in BOOLEAN /\ Good(r.tc) /\ (r.done # TRUE => r.tc = t)

\* What is called in t is called in u.
CallsKept(t, u) == \A i \in 1..size(t) : \E j \in 1..size(u) : u.stmts[j].call = t.stmts[i].call

LEMMA Unchanged ==
    ASSUME NEW t, Good(t), NEW S, \A u \in S : u = t, NEW r \in NotDone(S)
    PROVE  Outcome(t, r) /\ r.done = FALSE /\ r.tc = t
<1>1. PICK u \in S : r = [tc |-> u, done |-> FALSE]
  BY DEF NotDone
<1>2. r.done = FALSE /\ r.tc = t
  BY <1>1
<1> QED BY <1>2 DEF Outcome

LEMMA Changed ==
    ASSUME NEW t, NEW S, \A u \in S : Good(u), NEW r \in Done(S)
    PROVE  Outcome(t, r)
<1>1. PICK u \in S : r = [tc |-> u, done |-> TRUE]
  BY DEF Done
<1>2. r.done = TRUE /\ r.tc = u
  BY <1>1
<1> QED BY <1>2 DEF Outcome

LEMMA GrownKeepsCalls ==
    ASSUME NEW t, NEW p, NEW u, NEW q, Ready(t, p), Grown(t, p, u, q)
    PROVE  Good(u) /\ CallsKept(t, u)
<1>1. /\ size(t) \in Nat /\ size(u) \in Nat /\ p \in Nat /\ q \in Nat /\ p <= q /\ p >= 1
      /\ size(u) = size(t) + (q - p) /\ Good(u)
      /\ \A i \in 1..(p - 1) : u.stmts[i] = t.stmts[i]
      /\ \A i \in p..size(t) : u.stmts[i + (q - p)] = t.stmts[i]
  BY StatementTypes DEF Grown, Ready, Good
<1>2. ASSUME NEW i \in 1..size(t) PROVE \E j \in 1..size(u) : u.stmts[j].call = t.stmts[i].call
  <2>1. CASE i < p
    <3>1. i \in 1..(p - 1) /\ i \in 1..size(u)
      BY <1>1, <2>1
    <3> QED BY <1>1, <3>1
  <2>2. CASE i >= p
    <3>1. i \in p..size(t) /\ i + (q - p) \in 1..size(u)
      BY <1>1, <2>2
    <3> QED BY <1>1, <3>1
  <2> QED BY <1>1, <2>1, <2>2
<1> QED BY <1>1, <1>2 DEF CallsKept

\* A value that is perhaps called stays where it is.
LEMMA InvokingGrows ==
    ASSUME NEW t, NEW x, Ready(t, x + 1), x \in 1..size(t), t.stmts[x].var # None, NEW u \in InvokeResult(t, x)
    PROVE  \E q : Grown(t, x + 1, u, q)
<1> DEFINE argument == [p \in Places |-> ResolveArgument(Nested, p.tc, None, p.at)]
           v == t.stmts[x].var
<1>1. CASE u = t
  BY <1>1, GrownReflexive
<1>2. CASE \E n \in Arities : \E o \in InSequence(t, x + 1, n, [i \in 1..n |-> argument]) :
            u = Bind(o.tc, o.at, None, o.uses \cup {v}, None, FALSE)
  <2>1. PICK n \in Arities : \E o \in InSequence(t, x + 1, n, [i \in 1..n |-> argument]) :
            u = Bind(o.tc, o.at, None, o.uses \cup {v}, None, FALSE)
    BY <1>2
  <2> DEFINE values == [i \in 1..n |-> argument]
  <2>2. PICK o \in InSequence(t, x + 1, n, values) : u = Bind(o.tc, o.at, None, o.uses \cup {v}, None, FALSE)
    BY <2>1
  <2>3. \A w, q : Ready(w, q) => \A y \in argument[Place(w, q)] : Providing(w, q, y)
    <3> SUFFICES ASSUME NEW w, NEW q, Ready(w, q), NEW y \in argument[Place(w, q)] PROVE Providing(w, q, y)
      OBVIOUS
    <3>1. argument[Place(w, q)] = ResolveArgument(Nested, w, None, q)
      BY ReadyTypes
    <3> HIDE DEF argument
    <3>2. None \in {None} \cup Types
      OBVIOUS
    <3> QED BY <3>1, <3>2, ScopesSound, ResolveProvides
  <2> HIDE DEF argument
  <2>4. n \in Nat /\ \A k \in 1..n : values[k] = argument
    BY FactoryAssumption
  <2> HIDE DEF values
  <2>5. Collecting(t, x + 1, o)
    <3> DEFINE p == x + 1
    <3>1. Ready(t, p) /\ o \in InSequence(t, p, n, values)
      BY <2>2
    <3> HIDE DEF p
    <3>2. Collecting(t, p, o)
      BY <2>3, <2>4, <3>1, InSequenceCollects
    <3> QED BY <3>2 DEF p
  <2>6. Grown(t, x + 1, o.tc, o.at) /\ o.uses \subseteq BoundBefore(o.tc, o.at) /\ Ready(o.tc, o.at)
    BY <2>5 DEF Collecting, Grown
  <2>7. v \in BoundBefore(t, x + 1)
    <3>1. t \in TestCases /\ x + 1 \in Nat /\ x < x + 1
      BY ReadyTypes
    <3> QED BY <3>1, Bound
  <2>8. o.uses \cup {v} \subseteq BoundBefore(o.tc, o.at)
    BY <2>6, <2>7, GrownKeeps
  <2> HIDE DEF v
  <2>9. None \in {None} \cup Types /\ None \in {None} \cup Accessibles /\ FALSE \in BOOLEAN
    OBVIOUS
  <2>10. Grown(o.tc, o.at, u, o.at + 1)
    BY <2>2, <2>6, <2>8, <2>9, Binding
  <2> QED BY <2>6, <2>10, GrownTransitive
<1>3. u = t \/ \E n \in Arities : \E o \in InSequence(t, x + 1, n, [i \in 1..n |-> argument]) :
            u = Bind(o.tc, o.at, None, o.uses \cup {v}, None, FALSE)
  BY DEF InvokeResult
<1> QED BY <1>1, <1>2, <1>3

\* insert_random_statement
LEMMA InsertingRandomly ==
    ASSUME NEW t, NEW p, Ready(t, p), NEW offer, offer \subseteq Accessibles, NEW r \in InsertRandomStatement(t, p, offer)
    PROVE  Outcome(t, r) /\ CallsKept(t, r.tc)
<1>1. PICK a \in offer : \E o \in EmitAccessible(Outermost, t, a, p) :
        r \in IF o.var = None THEN NotDone({o.tc}) ELSE Done(InvokeResult(o.tc, o.at - 1))
  BY DEF InsertRandomStatement
<1>2. PICK o \in EmitAccessible(Outermost, t, a, p) :
        r \in IF o.var = None THEN NotDone({o.tc}) ELSE Done(InvokeResult(o.tc, o.at - 1))
  BY <1>1
<1>3. /\ Providing(t, p, o)
      /\ o.var # None => o.at - 1 \in p..size(o.tc) /\ o.tc.stmts[o.at - 1].var = o.var
  BY ScopesSound, EmitAccessibleProvides
<1>4. Good(t)
  BY DEF Ready
<1>5. CASE o.var = None
  <2>1. r \in NotDone({t})
    BY <1>2, <1>3, <1>5 DEF Providing
  <2>2. Outcome(t, r) /\ r.tc = t
    BY <1>4, <2>1, Unchanged
  <2>3. CallsKept(t, t)
    BY DEF CallsKept
  <2> QED BY <2>2, <2>3
<1>6. CASE o.var # None
  <2>1. r \in Done(InvokeResult(o.tc, o.at - 1))
    BY <1>2, <1>6
  <2>2. PICK u \in InvokeResult(o.tc, o.at - 1) : r = [tc |-> u, done |-> TRUE]
    BY <2>1 DEF Done
  <2>3. Grown(t, p, o.tc, o.at) /\ Ready(o.tc, o.at)
    BY <1>3 DEF Providing, Grown
  <2> DEFINE x == o.at - 1
  <2>4. x + 1 = o.at /\ x \in 1..size(o.tc) /\ o.tc.stmts[x].var # None
    <3>1. o.at \in Nat /\ p \in Nat /\ p >= 1 /\ size(o.tc) \in Nat
      BY <2>3, StatementTypes DEF Ready, Good
    <3> QED BY <1>3, <1>6, <3>1
  <2>5. u \in InvokeResult(o.tc, x)
    OBVIOUS
  <2> HIDE DEF x
  <2>6. \E q : Grown(o.tc, o.at, u, q)
    BY <2>3, <2>4, <2>5, InvokingGrows
  <2>7. \E q : Grown(t, p, u, q)
    BY <2>3, <2>6, GrownTransitive
  <2>8. Good(u) /\ CallsKept(t, u)
    BY <2>7, GrownKeepsCalls
  <2>9. r.tc = u /\ r.done = TRUE
    BY <2>2
  <2> QED BY <2>8, <2>9 DEF Outcome
<1> QED BY <1>5, <1>6

\* Replacing a statement by one that binds the same variable
LEMMA Replacing ==
    ASSUME NEW t, Good(t), NEW x \in 1..size(t), NEW e \in Statements,
           e.uses \subseteq BoundBefore(t, x), e.var = t.stmts[x].var
    PROVE  Good(replace_statement(t, x, e)) /\ size(replace_statement(t, x, e)) = size(t)
<1> DEFINE u == replace_statement(t, x, e)
<1>1. /\ t \in TestCases /\ t.stmts \in Seq(Statements) /\ t.counter \in Nat /\ size(t) \in Nat /\ size(t) = Len(t.stmts)
      /\ DefinedBeforeUse(t) /\ NamesUnique(t)
  BY StatementTypes DEF Good, size
<1>2. u.stmts = [t.stmts EXCEPT ![x] = e] /\ u.counter = t.counter /\ u = [stmts |-> u.stmts, counter |-> u.counter]
  BY DEF replace_statement, TestCases, Good
<1> HIDE DEF u
<1>3. u.stmts \in Seq(Statements) /\ Len(u.stmts) = Len(t.stmts)
  BY <1>1, <1>2
<1>4. u \in TestCases /\ size(u) = size(t)
  BY <1>1, <1>2, <1>3 DEF TestCases, size
<1>5. u.stmts[x] = e /\ \A i \in 1..size(t) : i # x => u.stmts[i] = t.stmts[i]
  BY <1>1, <1>2
<1>6. \A i \in 1..size(t) : u.stmts[i].var = t.stmts[i].var
  BY <1>5
<1>7. \A i \in 1..size(t) : \A v \in u.stmts[i].uses : v # None /\ \E j \in 1..size(t) : j < i /\ u.stmts[j].var = v
  <2> SUFFICES ASSUME NEW i \in 1..size(t), NEW v \in u.stmts[i].uses
               PROVE  v # None /\ \E j \in 1..size(t) : j < i /\ t.stmts[j].var = v
    BY <1>6
  <2>1. CASE i = x
    <3>1. v \in BoundBefore(t, x) /\ x \in Nat
      BY <1>1, <1>5, <2>1
    <3> QED BY <1>1, <2>1, <3>1, Bound
  <2>2. CASE i # x
    BY <1>1, <1>5, <2>2, GoodInNumbers
  <2> QED BY <2>1, <2>2
<1>8. DefinedBeforeUse(u)
  BY <1>4, <1>7, GoodInNumbers
<1>9. NamesUnique(u)
  <2>1. /\ \A i, j \in 1..size(t) : t.stmts[i].var = t.stmts[j].var /\ t.stmts[i].var # None => i = j
        /\ \A i \in 1..size(t) : t.stmts[i].var # None => t.stmts[i].var < t.counter
    BY <1>1, GoodInNumbers
  <2>2. u.counter = t.counter
    BY <1>2
  <2>3. /\ \A i, j \in 1..size(u) : u.stmts[i].var = u.stmts[j].var /\ u.stmts[i].var # None => i = j
        /\ \A i \in 1..size(u) : u.stmts[i].var # None => u.stmts[i].var < u.counter
    BY <1>4, <1>6, <2>1, <2>2
  <2> QED BY <1>4, <2>3, GoodInNumbers
<1>10. Good(u)
  BY <1>4, <1>8, <1>9 DEF Good
<1> QED BY <1>4, <1>10 DEF u

\* What replaces a statement of a test case: a statement of the same variable that reads
\* what is in scope
LEMMA ReplacedByLiteral ==
    ASSUME NEW t, Good(t), NEW x \in 1..size(t), NEW type \in {None} \cup Types, NEW uses, uses \subseteq BoundBefore(t, x),
           NEW call \in {None} \cup Accessibles, NEW ml \in BOOLEAN
    PROVE  Good(replace_statement(t, x, Statement(t.stmts[x].var, type, uses, call, ml)))
<1> DEFINE e == Statement(t.stmts[x].var, type, uses, call, ml)
<1>1. t \in TestCases /\ x \in Nat /\ t.stmts[x].var \in {None} \cup Nat
  BY StatementTypes DEF Good
<1>2. uses \subseteq Nat
  BY <1>1, Bound
<1>3. e \in Statements /\ e.uses = uses /\ e.var = t.stmts[x].var
  BY <1>1, <1>2 DEF Statement, Statements
<1> HIDE DEF e
<1>4. Good(replace_statement(t, x, e))
  BY <1>3, Replacing
<1> QED BY <1>4 DEF e

LEMMA ReadyHere ==
    ASSUME NEW t, Good(t), NEW x \in 1..size(t)
    PROVE  Ready(t, x) /\ x \in Nat /\ t \in TestCases
BY StatementTypes DEF Ready, Good

\* _build_replacement_node and _replace_with_node, on a statement that binds a variable
LEMMA ReplacedWithCall ==
    ASSUME NEW t, Good(t), NEW x \in 1..size(t), t.stmts[x].var # None, NEW a \in Accessibles, NEW r \in Replaced(t, x, a)
    PROVE  Outcome(t, r)
<1>1. PICK b \in BuildCall(Outermost, t, a, x, FALSE) :
        r = [tc |-> IF b.built THEN ReplaceWithNode(t, x, b, Gives[a], a) ELSE b.tc, done |-> b.built]
  BY DEF Replaced
<1>2. Ready(t, x) /\ x \in Nat
  BY ReadyHere
<1>3. Building(t, x, b)
  <2>1. b \in BuildCall(Outermost, t, a, x, TRUE) \cup BuildCall(Outermost, t, a, x, FALSE)
    OBVIOUS
  <2> QED BY <1>2, <2>1, ScopesSound, BuildingCalls
<1>4. CASE b.built = FALSE
  <2>1. r.done = FALSE /\ r.tc = t
    BY <1>1, <1>3, <1>4 DEF Building
  <2> QED BY <2>1 DEF Outcome
<1>5. CASE b.built = TRUE
  <2>1. Grown(t, x, b.tc, b.at) /\ b.uses \subseteq BoundBefore(b.tc, b.at)
    BY <1>3 DEF Building, Collecting
  <2>2. /\ size(t) \in Nat /\ size(b.tc) \in Nat /\ b.at \in Nat /\ x \in Nat /\ x <= b.at /\ Good(b.tc)
        /\ size(b.tc) = size(t) + (b.at - x) /\ \A i \in x..size(t) : b.tc.stmts[i + (b.at - x)] = t.stmts[i]
    BY <1>2, <2>1, StatementTypes DEF Grown, Ready, Good
  <2> DEFINE old == x + size(b.tc) - size(t)
  <2>3. old = b.at /\ x + (b.at - x) = b.at /\ x \in x..size(t) /\ b.at \in 1..size(b.tc)
    BY <2>2
  <2>4. b.tc.stmts[old] = t.stmts[x]
    BY <2>2, <2>3
  <2> DEFINE e == Statement(b.tc.stmts[b.at].var, Gives[a], b.uses, a, FALSE)
  <2>5. ReplaceWithNode(t, x, b, Gives[a], a) = [replace_statement(b.tc, b.at, e) EXCEPT !.counter = @]
    BY <2>3, <2>4 DEF ReplaceWithNode
  <2>6. Gives[a] \in {None} \cup Types /\ a \in {None} \cup Accessibles /\ FALSE \in BOOLEAN
    BY FactoryAssumption
  <2>7. Good(replace_statement(b.tc, b.at, e))
    BY <2>1, <2>2, <2>3, <2>6, ReplacedByLiteral
  <2> HIDE DEF e
  <2>8. [replace_statement(b.tc, b.at, e) EXCEPT !.counter = @] = replace_statement(b.tc, b.at, e)
    BY <2>7 DEF Good, TestCases
  <2>9. r.done = TRUE /\ r.tc = replace_statement(b.tc, b.at, e)
    BY <1>1, <1>5, <2>5, <2>8
  <2> QED BY <2>7, <2>9 DEF Outcome
<1>6. b.built \in BOOLEAN
  BY <1>3 DEF Building
<1> QED BY <1>4, <1>5, <1>6

LEMMA ChangingCall ==
    ASSUME NEW t, Good(t), NEW x \in 1..size(t), t.stmts[x].var # None, NEW r \in ChangeRandomCall(t, x)
    PROVE  Outcome(t, r)
<1>1. r \in NotDone({t}) \/ \E a \in Accessibles : r \in Replaced(t, x, a)
  BY DEF ChangeRandomCall, Generators
<1> QED BY <1>1, Unchanged, ReplacedWithCall

LEMMA ChangingType ==
    ASSUME NEW t, Good(t), NEW x \in 1..size(t), NEW offer, offer \subseteq Accessibles, NEW r \in ChangeStatementType(t, x, offer)
    PROVE  Outcome(t, r)
<1> DEFINE literal(type) == replace_statement(t, x, Statement(t.stmts[x].var, type, {}, None, FALSE))
           L == {literal(type) : type \in (Primitives \cup Collections) \ {t.stmts[x].type}}
<1>1. \/ r \in NotDone({t})
      \/ t.stmts[x].var # None /\ r \in Done(L)
      \/ t.stmts[x].var # None /\ \E a \in offer : r \in Replaced(t, x, a)
  <2>1. CASE t.stmts[x].var = None \/ t.stmts[x].ml
    BY <2>1 DEF ChangeStatementType
  <2>2. CASE ~ (t.stmts[x].var = None \/ t.stmts[x].ml)
    <3>1. r \in NotDone({t}) \/ r \in Done(L) \/ \E a \in offer : r \in Replaced(t, x, a)
      BY <2>2 DEF ChangeStatementType
    <3> HIDE DEF L
    <3>2. t.stmts[x].var # None
      BY <2>2
    <3> QED BY <3>1, <3>2
  <2> QED BY <2>1, <2>2
<1>2. ASSUME NEW u \in L PROVE Good(u)
  <2>1. PICK type \in Primitives \cup Collections : u = literal(type)
    OBVIOUS
  <2>2. type \in {None} \cup Types /\ None \in {None} \cup Accessibles /\ FALSE \in BOOLEAN
    BY FactoryAssumption
  <2> QED BY <2>1, <2>2, ReplacedByLiteral
<1> HIDE DEF L
<1> QED BY <1>1, <1>2, Unchanged, Changed, ReplacedWithCall

LEMMA MutatingValue ==
    ASSUME NEW t, Good(t), NEW x \in 1..size(t), NEW r \in MutateValue(t, x)
    PROVE  Outcome(t, r)
<1> DEFINE L == {replace_statement(t, x, [t.stmts[x] EXCEPT !.uses = U]) :
                    U \in {V \in SUBSET FindAnyVariable(t, x) : Cardinality(V) <= CollectionSize}}
<1>1. r \in NotDone({t}) \/ r \in Done({t}) \/ r \in Done(L)
  BY DEF MutateValue
<1>2. ASSUME NEW u \in L PROVE Good(u)
  <2>1. PICK U \in SUBSET BoundBefore(t, x) : u = replace_statement(t, x, [t.stmts[x] EXCEPT !.uses = U])
    BY FindsInScope
  <2>2. x \in Nat /\ t \in TestCases /\ t.stmts[x] \in Statements
    BY StatementTypes DEF Good
  <2> DEFINE e == [t.stmts[x] EXCEPT !.uses = U]
  <2>3. U \subseteq Nat
    BY <2>2, Bound
  <2>4. e \in Statements /\ e.uses = U /\ e.var = t.stmts[x].var
    BY <2>2, <2>3 DEF Statements
  <2> HIDE DEF e
  <2>5. Good(replace_statement(t, x, e))
    BY <2>4, Replacing
  <2> QED BY <2>1, <2>5 DEF e
<1> HIDE DEF L
<1> QED BY <1>1, <1>2, Unchanged, Changed

LEMMA RegeneratedInScope ==
    ASSUME NEW t, NEW x, NEW a, NEW U \in RegeneratedArguments(t, a, x)
    PROVE  U \subseteq BoundBefore(t, x)
<1>1. U = {} \/ \E args \in [DOMAIN Parameters[a] -> SUBSET BoundBefore(t, x)] :
                    U = UNION {args[n] : n \in DOMAIN args}
  BY FindsInScope DEF RegeneratedArguments
<1>2. CASE \E args \in [DOMAIN Parameters[a] -> SUBSET BoundBefore(t, x)] :
                    U = UNION {args[n] : n \in DOMAIN args}
  <2>1. PICK args \in [DOMAIN Parameters[a] -> SUBSET BoundBefore(t, x)] : U = UNION {args[n] : n \in DOMAIN args}
    BY <1>2
  <2>2. \A n \in DOMAIN args : args[n] \in SUBSET BoundBefore(t, x)
    OBVIOUS
  <2> QED BY <2>1, <2>2
<1> QED BY <1>1, <1>2

LEMMA MutatingCall ==
    ASSUME NEW t, Good(t), NEW x \in 1..size(t), NEW r \in MutateCall(t, x)
    PROVE  Outcome(t, r)
<1> DEFINE call == t.stmts[x].call
           recs == IF Kind[call] \in {"method", "field"} THEN {{v} : v \in FindVariableOfType(t, Owner[call], x)} ELSE {{}}
           args == RegeneratedArguments(t, call, x)
           With(U) == replace_statement(t, x, [t.stmts[x] EXCEPT !.uses = U])
           L == UNION {{With(y \cup z) : z \in args} : y \in recs}
<1>1. r \in NotDone({t}) \/ r \in Done(L)
  BY DEF MutateCall
<1>2. ASSUME NEW U, U \subseteq BoundBefore(t, x) PROVE Good(With(U))
  <2>1. x \in Nat /\ t \in TestCases /\ t.stmts[x] \in Statements
    BY StatementTypes DEF Good
  <2> DEFINE e == [t.stmts[x] EXCEPT !.uses = U]
  <2>2. U \subseteq Nat
    BY <1>2, <2>1, Bound
  <2>3. e \in Statements /\ e.uses = U /\ e.var = t.stmts[x].var
    BY <2>1, <2>2 DEF Statements
  <2> HIDE DEF e
  <2>4. Good(replace_statement(t, x, e))
    BY <1>2, <2>3, Replacing
  <2> QED BY <2>4 DEF e
<1>3. \A y \in recs : y \subseteq BoundBefore(t, x)
  BY FindsInScope
<1>4. \A z \in args : z \subseteq BoundBefore(t, x)
  BY RegeneratedInScope
<1> HIDE DEF recs, args, With
<1>5. ASSUME NEW u \in L PROVE Good(u)
  <2>1. PICK y \in recs : \E z \in args : u = With(y \cup z)
    OBVIOUS
  <2>2. PICK z \in args : u = With(y \cup z)
    BY <2>1
  <2>3. y \cup z \subseteq BoundBefore(t, x)
    BY <1>3, <1>4
  <2> QED BY <1>2, <2>2, <2>3
<1> HIDE DEF L
<1> QED BY <1>1, <1>5, Unchanged, Changed

LEMMA ChangingField ==
    ASSUME NEW t, Good(t), NEW x \in 1..size(t), NEW r \in ChangeRandomField(t, x)
    PROVE  Outcome(t, r)
<1> DEFINE others == {a \in Generators(Gives[t.stmts[x].call]) \ {t.stmts[x].call} : Kind[a] = "field"}
           L == {replace_statement(t, x, [t.stmts[x] EXCEPT !.call = a]) : a \in others}
<1>1. r \in NotDone({t}) \/ r \in Done(L)
  BY DEF ChangeRandomField
<1>2. ASSUME NEW u \in L PROVE Good(u)
  <2>1. PICK a \in Accessibles : u = replace_statement(t, x, [t.stmts[x] EXCEPT !.call = a])
    BY DEF Generators
  <2>2. x \in Nat /\ t \in TestCases /\ t.stmts[x] \in Statements /\ DefinedBeforeUse(t) /\ x \in DOMAIN t.stmts
    BY StatementTypes DEF Good
  <2> DEFINE e == [t.stmts[x] EXCEPT !.call = a]
  <2>3. e \in Statements /\ e.uses = t.stmts[x].uses /\ e.var = t.stmts[x].var
    BY <2>2 DEF Statements
  <2>4. t.stmts[x].uses \subseteq BoundBefore(t, x)
    BY <2>2 DEF DefinedBeforeUse
  <2> HIDE DEF e
  <2>5. Good(replace_statement(t, x, e))
    BY <2>3, <2>4, Replacing
  <2> QED BY <2>1, <2>5 DEF e
<1> HIDE DEF L, others
<1> QED BY <1>1, <1>2, Unchanged, Changed

\* _mutate_statement: what has been left undone has left nothing.
LEMMA MutatingStatement ==
    ASSUME NEW t, Good(t), NEW x \in 1..size(t), t.stmts[x].var # None, offered \subseteq Accessibles,
           NEW r \in MutateStatement(t, x)
    PROVE  Outcome(t, r)
<1> DEFINE call == t.stmts[x].call
           isField == call # None /\ Kind[call] = "field"
           undone(S) == {o.tc : o \in {y \in S : ~ y.done}}
           retyped == ChangeStatementType(t, x, offered) \cup NotDone({t})
           Fits(u) == IF call = None THEN MutateValue(u, x)
                      ELSE IF isField THEN ChangeRandomField(u, x) ELSE MutateCall(u, x)
           again == UNION {Fits(u) : u \in undone(retyped)}
           Else(u) == IF isField THEN MutateCall(u, x) ELSE ChangeRandomCall(u, x)
           anew == IF call = None THEN NotDone(undone(again)) ELSE UNION {Else(u) : u \in undone(again)}
<1>1. r \in {o \in retyped \cup again : o.done} \cup anew
  BY DEF MutateStatement
<1>2. \A S : (\A o \in S : Outcome(t, o)) => \A u \in undone(S) : u = t
  BY DEF Outcome
<1>3. \A o \in retyped : Outcome(t, o)
  BY ChangingType, Unchanged
<1>4. \A o \in Fits(t) : Outcome(t, o)
  BY MutatingValue, ChangingField, MutatingCall
<1>5. \A o \in Else(t) : Outcome(t, o)
  BY MutatingCall, ChangingCall
<1> HIDE DEF retyped, undone, Fits, Else
<1>6. \A o \in again : Outcome(t, o)
  BY <1>2, <1>3, <1>4
<1> HIDE DEF again
<1>7. \A u \in undone(again) : u = t
  BY <1>2, <1>6
<1>8. \A o \in anew : Outcome(t, o)
  <2>1. CASE call = None
    BY <1>7, <2>1, Unchanged
  <2>2. CASE call # None
    BY <1>5, <1>7, <2>2
  <2> QED BY <2>1, <2>2
<1> QED BY <1>1, <1>3, <1>6, <1>8

--------------------------------------------------------------------------------
(* Removing statements                                                      *)

\* u has the statements of t that are not among the indices, in their order: pos tells
\* where each of them was.
Remaining(s, n, indices, u, pos) ==
    /\ u \in Seq(Statements) /\ pos \in [1..Len(u) -> 1..n]
    /\ \A i, j \in 1..Len(u) : i < j => pos[i] < pos[j]
    /\ \A i \in 1..Len(u) : pos[i] \notin indices /\ u[i] = s[pos[i]]
    /\ \A k \in 1..n : k \notin indices => \E i \in 1..Len(u) : pos[i] = k

LEMMA RemainingStep ==
    ASSUME NEW s \in Seq(Statements), NEW n \in 1..Len(s), NEW indices, NEW u,
           \E pos : Remaining(s, n - 1, indices, u, pos)
    PROVE  \E pos : Remaining(s, n, indices, IF n \in indices THEN u ELSE Append(u, s[n]), pos)
<1>1. PICK pos : Remaining(s, n - 1, indices, u, pos)
  OBVIOUS
<1>2. /\ u \in Seq(Statements) /\ pos \in [1..Len(u) -> 1..(n - 1)] /\ Len(u) \in Nat
      /\ \A i, j \in 1..Len(u) : i < j => pos[i] < pos[j]
      /\ \A i \in 1..Len(u) : pos[i] \notin indices /\ u[i] = s[pos[i]]
      /\ \A k \in 1..(n - 1) : k \notin indices => \E i \in 1..Len(u) : pos[i] = k
  BY <1>1 DEF Remaining
<1>3. CASE n \in indices
  <2>1. pos \in [1..Len(u) -> 1..n]
    BY <1>2
  <2>2. \A k \in 1..n : k \notin indices => \E i \in 1..Len(u) : pos[i] = k
    BY <1>2, <1>3
  <2>3. Remaining(s, n, indices, u, pos)
    BY <1>2, <2>1, <2>2 DEF Remaining
  <2> QED BY <1>3, <2>3
<1>4. CASE n \notin indices
  <2> DEFINE w == Append(u, s[n])
             m == Len(u) + 1
             new == [i \in 1..m |-> IF i = m THEN n ELSE pos[i]]
  <2>1. /\ w \in Seq(Statements) /\ Len(w) = m /\ w[m] = s[n] /\ m \in Nat
        /\ \A i \in 1..Len(u) : w[i] = u[i] /\ i \in 1..m /\ i # m
    BY <1>2
  <2>2. \A i \in 1..m : i = m \/ (i \in 1..Len(u) /\ i < m)
    BY <1>2
  <2>3. new[m] = n /\ \A i \in 1..Len(u) : new[i] = pos[i]
    BY <2>1, <2>2
  <2>4. new \in [1..m -> 1..n]
    BY <1>2, <2>2
  <2> HIDE DEF w, new
  <2>5. \A i, j \in 1..m : i < j => new[i] < new[j]
    <3> SUFFICES ASSUME NEW i \in 1..m, NEW j \in 1..m, i < j PROVE new[i] < new[j]
      OBVIOUS
    <3>1. i \in 1..Len(u) /\ pos[i] \in 1..(n - 1)
      BY <1>2, <2>1
    <3>2. CASE j = m
      BY <2>3, <3>1, <3>2
    <3>3. CASE j \in 1..Len(u)
      BY <1>2, <2>3, <3>1, <3>3
    <3> QED BY <2>2, <3>2, <3>3
  <2> HIDE DEF m
  <2>6. \A i \in 1..m : new[i] \notin indices /\ w[i] = s[new[i]]
    BY <1>2, <1>4, <2>1, <2>2, <2>3
  <2>7. \A k \in 1..n : k \notin indices => \E i \in 1..m : new[i] = k
    <3> SUFFICES ASSUME NEW k \in 1..n, k \notin indices PROVE \E i \in 1..m : new[i] = k
      OBVIOUS
    <3>1. CASE k = n
      <4>1. m \in 1..m
        BY <1>2 DEF m
      <4> QED BY <2>3, <3>1, <4>1
    <3>2. CASE k # n
      <4>1. k \in 1..(n - 1)
        BY <3>2
      <4> QED BY <1>2, <2>1, <2>3, <4>1
    <3> QED BY <3>1, <3>2
  <2>8. Remaining(s, n, indices, w, new)
    BY <2>1, <2>4, <2>5, <2>6, <2>7 DEF Remaining
  <2> QED BY <1>4, <2>8 DEF w
<1> QED BY <1>3, <1>4

LEMMA Removing ==
    ASSUME NEW t \in TestCases, NEW indices
    PROVE  /\ remove_statements_batch(t, indices).counter = t.counter
           /\ remove_statements_batch(t, indices) \in TestCases
           /\ \E pos : Remaining(t.stmts, size(t), indices, remove_statements_batch(t, indices).stmts, pos)
<1> DEFINE N == size(t)
           s == t.stmts
           Turn(k, w) == IF k \in indices THEN w ELSE Append(w, s[k])
           Whole(f) == [k \in 0..N |-> IF k = 0 THEN <<>> ELSE Turn(k, f[k - 1])]
           kept == CHOOSE f : f = Whole(f)
           step == [x \in (1..N) \X Seq(Statements) |-> Turn(x[1], x[2])]
<1>1. remove_statements_batch(t, indices) = [t EXCEPT !.stmts = kept[N]]
  BY DEF remove_statements_batch
<1>2. N \in Nat /\ s \in Seq(Statements) /\ N = Len(s) /\ \A k \in 1..N : s[k] \in Statements
  BY StatementTypes DEF size
<1> HIDE DEF N, s
<1>3. ASSUME NEW k \in 1..N, NEW w \in Seq(Statements) PROVE step[<<k, w>>] = Turn(k, w) /\ Turn(k, w) \in Seq(Statements)
  <2>1. Turn(k, w) \in Seq(Statements)
    BY <1>2
  <2> HIDE DEF Turn
  <2> DEFINE x == <<k, w>>
  <2>2. x \in (1..N) \X Seq(Statements) /\ x[1] = k /\ x[2] = w
    OBVIOUS
  <2> HIDE DEF x
  <2>3. step[x] = Turn(k, w)
    BY <2>2
  <2> QED BY <2>1, <2>3 DEF x
<1> HIDE DEF step, Turn
<1>4. PICK g : Recursive(g, N, Seq(Statements), <<>>, step)
  <2> DEFINE S == Seq(Statements)
             base == <<>>
  <2>1. base \in S /\ \A k \in 1..N : \A x \in S : step[<<k, x>>] \in S
    BY <1>3
  <2> HIDE DEF S, base
  <2>2. \E g : Recursive(g, N, S, base, step)
    BY <1>2, <2>1, Recursion
  <2> QED BY <2>2 DEF S, base
<1>5. g = Whole(g)
  <2>1. g \in [0..N -> Seq(Statements)] /\ g[0] = <<>> /\ \A k \in 1..N : g[k] = step[<<k, g[k - 1]>>]
    BY <1>4 DEF Recursive
  <2>2. ASSUME NEW k \in 1..N PROVE g[k] = Turn(k, g[k - 1])
    <3>1. k - 1 \in 0..N
      BY <1>2
    <3>2. g[k - 1] \in Seq(Statements)
      BY <2>1, <3>1
    <3> QED BY <1>3, <2>1, <3>2
  <2>3. \A k \in 0..N : g[k] = IF k = 0 THEN <<>> ELSE Turn(k, g[k - 1])
    BY <1>2, <2>1, <2>2
  <2>4. g = [k \in 0..N |-> g[k]]
    BY <2>1
  <2> QED BY <2>3, <2>4
<1>6. kept = Whole(kept)
  <2> HIDE DEF Whole
  <2> QED BY <1>5
<1> HIDE DEF kept
<1>7. \A k \in 0..N : kept[k] = IF k = 0 THEN <<>> ELSE Turn(k, kept[k - 1])
  BY <1>6
<1> DEFINE T == {k \in 0..N : \E pos : Remaining(s, k, indices, kept[k], pos)}
<1>8. 0 \in T
  <2>1. 0 \in 0..N /\ kept[0] = <<>>
    BY <1>2, <1>7
  <2> DEFINE e == <<>>
             pos == [i \in 1..0 |-> 0]
  <2>2. e \in Seq(Statements) /\ Len(e) = 0 /\ 1..0 = {} /\ pos \in [1..0 -> 1..0]
    OBVIOUS
  <2> HIDE DEF e, pos
  <2>3. Remaining(s, 0, indices, e, pos)
    BY <2>2 DEF Remaining
  <2> QED BY <2>1, <2>3 DEF e
<1>9. ASSUME NEW k \in 1..N, k - 1 \in T PROVE k \in T
  <2>1. k \in 0..N /\ k # 0 /\ \E pos : Remaining(s, k - 1, indices, kept[k - 1], pos)
    BY <1>9
  <2>2. \E pos : Remaining(s, k, indices, Turn(k, kept[k - 1]), pos)
    BY <1>2, <2>1, RemainingStep DEF Turn
  <2> QED BY <1>7, <2>1, <2>2
<1> HIDE DEF T
<1>10. N \in T
  <2>1. N \in 0..N
    BY <1>2
  <2> QED BY <1>2, <1>8, <1>9, <2>1, UpTo
<1>11. PICK pos : Remaining(s, N, indices, kept[N], pos)
  BY <1>10 DEF T
<1> DEFINE u == remove_statements_batch(t, indices)
<1>12. u.stmts = kept[N] /\ u.counter = t.counter /\ u \in TestCases
  <2>1. kept[N] \in Seq(Statements)
    BY <1>11 DEF Remaining
  <2> QED BY <1>1, <2>1 DEF TestCases
<1> QED BY <1>11, <1>12 DEF s, N

\* No statement that remains reads what a removed one binds.
Unread(t, indices) ==
    \A i, j \in 1..size(t) : i \notin indices /\ j \in indices => t.stmts[j].var \notin t.stmts[i].uses

LEMMA RemovingKeepsGood ==
    ASSUME NEW t, Good(t), NEW indices, Unread(t, indices)
    PROVE  Good(remove_statements_batch(t, indices))
<1> DEFINE u == remove_statements_batch(t, indices)
<1>1. t \in TestCases /\ size(t) \in Nat
  BY StatementTypes DEF Good
<1>2. u \in TestCases /\ u.counter = t.counter
  BY <1>1, Removing
<1>3. PICK pos : Remaining(t.stmts, size(t), indices, u.stmts, pos)
  BY <1>1, Removing
<1> HIDE DEF u
<1>4. /\ size(u) \in Nat /\ pos \in [1..size(u) -> 1..size(t)]
      /\ \A i, j \in 1..size(u) : i < j => pos[i] < pos[j]
      /\ \A i \in 1..size(u) : pos[i] \notin indices /\ u.stmts[i] = t.stmts[pos[i]]
      /\ \A k \in 1..size(t) : k \notin indices => \E i \in 1..size(u) : pos[i] = k
  BY <1>2, <1>3, StatementTypes DEF Remaining, size
<1>5. /\ \A i \in 1..size(t) : \A v \in t.stmts[i].uses :
            v # None /\ \E j \in 1..size(t) : j < i /\ t.stmts[j].var = v
      /\ \A i, j \in 1..size(t) : t.stmts[i].var = t.stmts[j].var /\ t.stmts[i].var # None => i = j
      /\ \A i \in 1..size(t) : t.stmts[i].var # None => t.stmts[i].var < t.counter
  BY <1>1, GoodInNumbers DEF Good
<1>6. DefinedBeforeUse(u)
  <2> SUFFICES ASSUME NEW i \in 1..size(u), NEW v \in u.stmts[i].uses
               PROVE  v # None /\ \E j \in 1..size(u) : j < i /\ u.stmts[j].var = v
    BY <1>2, GoodInNumbers
  <2>1. pos[i] \in 1..size(t) /\ v \in t.stmts[pos[i]].uses /\ pos[i] \notin indices
    BY <1>4
  <2>2. PICK k \in 1..size(t) : k < pos[i] /\ t.stmts[k].var = v /\ v # None
    BY <1>5, <2>1
  <2>3. k \notin indices
    BY <2>1, <2>2 DEF Unread
  <2>4. PICK j \in 1..size(u) : pos[j] = k
    BY <1>4, <2>3
  <2>5. j < i
    BY <1>4, <2>1, <2>2, <2>4
  <2> QED BY <1>4, <2>2, <2>4, <2>5
<1>7. NamesUnique(u)
  <2>1. ASSUME NEW i \in 1..size(u), NEW j \in 1..size(u), u.stmts[i].var = u.stmts[j].var, u.stmts[i].var # None
        PROVE  i = j
    <3>1. pos[i] \in 1..size(t) /\ pos[j] \in 1..size(t) /\ u.stmts[i] = t.stmts[pos[i]] /\ u.stmts[j] = t.stmts[pos[j]]
      BY <1>4
    <3>2. pos[i] = pos[j]
      BY <1>5, <2>1, <3>1
    <3>3. ~ (i < j) /\ ~ (j < i)
      BY <1>4, <3>1, <3>2
    <3> QED BY <1>4, <3>3
  <2>2. \A i \in 1..size(u) : u.stmts[i].var # None => u.stmts[i].var < u.counter
    BY <1>2, <1>4, <1>5
  <2> QED BY <1>2, <2>1, <2>2, GoodInNumbers
<1>8. Good(u)
  BY <1>2, <1>6, <1>7 DEF Good
<1> QED BY <1>8 DEF u

\* What a statement reads, one before it binds.
LEMMA ReadsEarlier ==
    ASSUME NEW t, Good(t), NEW i \in 1..size(t), NEW j \in 1..size(t), t.stmts[j].var \in t.stmts[i].uses
    PROVE  j < i
<1> DEFINE v == t.stmts[j].var
<1>1. t \in TestCases
  BY DEF Good
<1>2. PICK k \in 1..size(t) : k < i /\ t.stmts[k].var = v /\ v # None
  BY <1>1, GoodInNumbers DEF Good
<1>3. k = j
  BY <1>1, <1>2, GoodInNumbers DEF Good
<1> QED BY <1>2, <1>3

\* chop
LEMMA Chopping ==
    ASSUME NEW t, Good(t), NEW p \in Nat
    PROVE  Good(chop(t, p))
<1> DEFINE indices == {i \in DOMAIN t.stmts : i > p}
<1>1. Unread(t, indices)
  <2> SUFFICES ASSUME NEW i \in 1..size(t), NEW j \in 1..size(t), i \notin indices, j \in indices,
                      t.stmts[j].var \in t.stmts[i].uses
               PROVE  FALSE
    BY DEF Unread
  <2>1. j < i
    BY ReadsEarlier
  <2>2. size(t) \in Nat /\ DOMAIN t.stmts = 1..size(t)
    BY StatementTypes DEF Good
  <2> QED BY <2>1, <2>2
<1> HIDE DEF indices
<1>2. Good(remove_statements_batch(t, indices))
  BY <1>1, RemovingKeepsGood
<1> QED BY <1>2 DEF chop, indices

\* One more round of readers
Readers(t, x, O) == O \cup {j \in (x + 1)..size(t) : \E i \in O : t.stmts[i].var \in t.stmts[j].uses}

LEMMA ReadersBehind ==
    ASSUME NEW t, NEW x \in Nat, size(t) \in Nat, NEW O, O \subseteq x..size(t)
    PROVE  Readers(t, x, O) \subseteq x..size(t)
<1> DEFINE next == {j \in (x + 1)..size(t) : \E i \in O : t.stmts[i].var \in t.stmts[j].uses}
<1>1. next \subseteq (x + 1)..size(t)
  OBVIOUS
<1>2. (x + 1)..size(t) \subseteq x..size(t)
  OBVIOUS
<1> HIDE DEF next
<1>3. O \cup next \subseteq x..size(t)
  BY <1>1, <1>2
<1> QED BY <1>3 DEF Readers, next

\* After n rounds, the readers up to n places behind the statement are all there: what
\* reads a statement comes after it.
LEMMA ReadersSettle ==
    ASSUME NEW t, Good(t), NEW x \in 1..size(t), NEW n \in Nat \ {0}, NEW O, O \subseteq x..size(t),
           \A i \in 1..size(t) : i <= x + (n - 1) /\ i \in Readers(t, x, O) => i \in O
    PROVE  /\ Readers(t, x, O) \subseteq x..size(t)
           /\ \A i \in 1..size(t) : i <= x + n /\ i \in Readers(t, x, Readers(t, x, O)) => i \in Readers(t, x, O)
<1> DEFINE P == Readers(t, x, O)
<1>1. size(t) \in Nat /\ x \in Nat
  BY StatementTypes DEF Good
<1>2. P \subseteq x..size(t)
  BY <1>1, ReadersBehind
<1>3. ASSUME NEW i \in 1..size(t), i <= x + n, i \in Readers(t, x, P), i \notin P PROVE FALSE
  <2>1. i \in (x + 1)..size(t) /\ \E j \in P : t.stmts[j].var \in t.stmts[i].uses
    <3> HIDE DEF P
    <3> QED BY <1>3 DEF Readers
  <2>2. PICK j \in P : t.stmts[j].var \in t.stmts[i].uses
    BY <2>1
  <2> HIDE DEF P
  <2>3. j \in 1..size(t)
    BY <1>1, <1>2
  <2>4. j < i
    BY <2>2, <2>3, ReadsEarlier
  <2>5. j <= x + (n - 1)
    BY <1>1, <1>3, <2>3, <2>4
  <2>6. j \in O
    BY <2>3, <2>5 DEF P
  <2> QED BY <1>3, <2>1, <2>2, <2>6 DEF P, Readers
<1> QED BY <1>2, <1>3

\* delete_statement_gracefully: nothing that remains reads what has gone.
LEMMA DependentsUnread ==
    ASSUME NEW t, Good(t), NEW x \in 1..size(t)
    PROVE  Unread(t, forward_dependencies(t, x))
<1> DEFINE N == size(t)
           Turn(O) == Readers(t, x, O)
           Whole(f) == [n \in 0..N |-> IF n = 0 THEN {x} ELSE Turn(f[n - 1])]
           closure == CHOOSE f : f = Whole(f)
           S == SUBSET (x..N)
           step == [y \in (1..N) \X S |-> Turn(y[2])]
<1>1. forward_dependencies(t, x) = closure[N]
  BY DEF forward_dependencies, Readers
<1>2. N \in Nat /\ x \in 1..N /\ t \in TestCases
  BY StatementTypes DEF Good
<1>3. ASSUME NEW k \in 1..N, NEW O \in S PROVE step[<<k, O>>] = Turn(O) /\ Turn(O) \in S
  <2>1. Turn(O) \in S
    <3>1. O \subseteq x..size(t) /\ x \in Nat
      BY <1>2
    <3> QED BY <1>2, <3>1, ReadersBehind
  <2> HIDE DEF Turn, S
  <2> DEFINE y == <<k, O>>
  <2>2. y \in (1..N) \X S /\ y[2] = O
    OBVIOUS
  <2> HIDE DEF y
  <2>3. step[y] = Turn(O)
    BY <2>2
  <2> QED BY <2>1, <2>3 DEF y
<1>4. {x} \in S
  BY <1>2
<1> HIDE DEF step, Turn, S
<1>5. PICK g : Recursive(g, N, S, {x}, step)
  <2> DEFINE base == {x}
  <2>1. base \in S /\ \A k \in 1..N : \A y \in S : step[<<k, y>>] \in S
    BY <1>3, <1>4
  <2> HIDE DEF base, N
  <2>2. \E g : Recursive(g, N, S, base, step)
    BY <1>2, <2>1, Recursion
  <2> QED BY <2>2 DEF base
<1>6. g = Whole(g)
  <2>1. g \in [0..N -> S] /\ g[0] = {x} /\ \A k \in 1..N : g[k] = step[<<k, g[k - 1]>>]
    BY <1>5 DEF Recursive
  <2>2. ASSUME NEW k \in 1..N PROVE g[k] = Turn(g[k - 1])
    <3>1. k - 1 \in 0..N
      BY <1>2
    <3>2. g[k - 1] \in S
      BY <2>1, <3>1
    <3> QED BY <1>3, <2>1, <3>2
  <2>3. \A k \in 0..N : g[k] = IF k = 0 THEN {x} ELSE Turn(g[k - 1])
    BY <1>2, <2>1, <2>2
  <2>4. g = [k \in 0..N |-> g[k]]
    BY <2>1
  <2> QED BY <2>3, <2>4
<1>7. closure = Whole(closure)
  <2> HIDE DEF Whole
  <2> QED BY <1>6
<1> HIDE DEF closure
<1>8. \A k \in 0..N : closure[k] = IF k = 0 THEN {x} ELSE Turn(closure[k - 1])
  BY <1>7
<1> DEFINE Settled(k, O) == O \subseteq x..N /\ x \in O /\ \A i \in 1..N : i <= x + k /\ i \in Turn(O) => i \in O
           T == {k \in 0..N : Settled(k, closure[k])}
<1>9. 0 \in T
  <2>1. 0 \in 0..N /\ closure[0] = {x}
    BY <1>2, <1>8
  <2>2. Settled(0, {x})
    BY <1>2 DEF Turn, Readers
  <2> QED BY <2>1, <2>2
<1>10. ASSUME NEW k \in 1..N, k - 1 \in T PROVE k \in T
  <2>1. k \in 0..N /\ k # 0 /\ k \in Nat \ {0} /\ Settled(k - 1, closure[k - 1])
    BY <1>10
  <2> DEFINE O == closure[k - 1]
  <2>2. O \subseteq x..size(t) /\ \A i \in 1..size(t) : i <= x + (k - 1) /\ i \in Readers(t, x, O) => i \in O
    BY <2>1 DEF Turn
  <2>3. x \in O
    BY <2>1
  <2> HIDE DEF O
  <2>4. /\ Readers(t, x, O) \subseteq x..size(t)
        /\ \A i \in 1..size(t) : i <= x + k /\ i \in Readers(t, x, Readers(t, x, O)) => i \in Readers(t, x, O)
    BY <2>1, <2>2, ReadersSettle
  <2>5. Settled(k, Turn(O))
    <3>1. x \in Readers(t, x, O)
      BY <2>3 DEF Readers
    <3> QED BY <2>4, <3>1 DEF Turn
  <2>6. closure[k] = Turn(O)
    BY <1>8, <2>1 DEF O
  <2> QED BY <2>1, <2>5, <2>6
<1> HIDE DEF T
<1>11. N \in T
  <2>1. N \in 0..N
    BY <1>2
  <2> HIDE DEF N
  <2> QED BY <1>2, <1>9, <1>10, <2>1, UpTo
<1> DEFINE D == forward_dependencies(t, x)
<1>12. D \subseteq x..N /\ \A i \in 1..N : i \in Readers(t, x, D) => i \in D
  <2>1. Settled(N, D)
    BY <1>1, <1>11 DEF T
  <2>2. \A i \in 1..N : i <= x + N
    BY <1>2
  <2> QED BY <2>1, <2>2 DEF Turn
<1> HIDE DEF D
<1>13. ASSUME NEW i \in 1..N, NEW j \in 1..N, i \notin D, j \in D, t.stmts[j].var \in t.stmts[i].uses PROVE FALSE
  <2>1. j < i
    BY <1>13, ReadsEarlier
  <2>2. i \in (x + 1)..N
    BY <1>2, <1>12, <1>13, <2>1
  <2>3. i \in Readers(t, x, D)
    BY <1>13, <2>2 DEF Readers
  <2> QED BY <1>12, <1>13, <2>3
<1> QED BY <1>13 DEF Unread, D

LEMMA Deleting ==
    ASSUME NEW t, Good(t), NEW x \in 1..size(t)
    PROVE  Good(DeleteGracefully(t, x))
BY DependentsUnread, RemovingKeepsGood DEF DeleteGracefully, remove_statement_with_forward_dependencies

--------------------------------------------------------------------------------
(* Appending statements of another test case                                *)

InScope(t) == BoundBefore(t, size(t) + 1)

LEMMA ReadyAtEnd ==
    ASSUME NEW t, Good(t)
    PROVE  Ready(t, size(t) + 1) /\ size(t) \in Nat /\ size(t) + 1 \in Nat
BY StatementTypes DEF Ready, Good

\* A statement that binds nothing
LEMMA AppendingUnbound ==
    ASSUME NEW t, Good(t), NEW e \in Statements, e.var = None, e.uses \subseteq InScope(t)
    PROVE  Good([t EXCEPT !.stmts = Append(@, e)]) /\ InScope(t) \subseteq InScope([t EXCEPT !.stmts = Append(@, e)])
<1> DEFINE u == [t EXCEPT !.stmts = Append(@, e)]
           n == size(t) + 1
<1>1. /\ t \in TestCases /\ t.stmts \in Seq(Statements) /\ t.counter \in Nat /\ size(t) \in Nat /\ size(t) = Len(t.stmts)
      /\ DefinedBeforeUse(t) /\ NamesUnique(t)
  BY StatementTypes DEF Good, size
<1>2. u.stmts = Append(t.stmts, e) /\ u.counter = t.counter /\ u \in TestCases
  BY <1>1 DEF TestCases
<1> HIDE DEF u
<1>3. /\ n \in Nat /\ size(u) = n /\ u.stmts[n] = e /\ \A i \in 1..size(t) : u.stmts[i] = t.stmts[i]
      /\ \A i \in 1..n : i = n \/ (i \in 1..size(t) /\ i < n)
  BY <1>1, <1>2 DEF size
<1>4. /\ \A i \in 1..size(t) : \A v \in t.stmts[i].uses :
            v # None /\ \E j \in 1..size(t) : j < i /\ t.stmts[j].var = v
      /\ \A i, j \in 1..size(t) : t.stmts[i].var = t.stmts[j].var /\ t.stmts[i].var # None => i = j
      /\ \A i \in 1..size(t) : t.stmts[i].var # None => t.stmts[i].var < t.counter
  BY <1>1, GoodInNumbers
<1>5. \A v \in e.uses : v # None /\ \E j \in 1..size(t) : j < n /\ t.stmts[j].var = v
  BY <1>1, <1>3, Bound DEF InScope
<1>6. \A j \in 1..size(t) : j \in 1..n /\ j < n
  BY <1>1
<1>7. DefinedBeforeUse(u)
  <2> SUFFICES ASSUME NEW i \in 1..size(u), NEW v \in u.stmts[i].uses
               PROVE  v # None /\ \E j \in 1..size(u) : j < i /\ u.stmts[j].var = v
    BY <1>2, GoodInNumbers
  <2> HIDE DEF n
  <2>1. CASE i = n
    BY <1>3, <1>5, <1>6, <2>1
  <2>2. CASE i \in 1..size(t)
    BY <1>3, <1>4, <1>6, <2>2
  <2> QED BY <1>3, <2>1, <2>2
<1>8. NamesUnique(u)
  <2> HIDE DEF n
  <2>1. \A i \in 1..n : u.stmts[i].var # None => i \in 1..size(t) /\ u.stmts[i] = t.stmts[i]
    BY <1>3
  <2>2. /\ \A i, j \in 1..n : u.stmts[i].var = u.stmts[j].var /\ u.stmts[i].var # None => i = j
        /\ \A i \in 1..n : u.stmts[i].var # None => u.stmts[i].var < u.counter
    BY <1>2, <1>4, <2>1
  <2> QED BY <1>2, <1>3, <2>2, GoodInNumbers
<1>9. InScope(t) \subseteq InScope(u)
  <2>1. ASSUME NEW v \in BoundBefore(t, n) PROVE v \in BoundBefore(u, n + 1)
    <3>1. PICK i \in 1..size(t) : t.stmts[i].var = v /\ v # None
      BY <1>1, <1>3, Bound
    <3>2. i \in 1..size(u) /\ i < n + 1 /\ u.stmts[i].var = v /\ n + 1 \in Nat
      BY <1>1, <1>3, <3>1
    <3> QED BY <1>2, <3>1, <3>2, Bound
  <2> QED BY <1>3, <2>1 DEF InScope
<1>10. Good(u)
  BY <1>2, <1>7, <1>8 DEF Good
<1> QED BY <1>9, <1>10 DEF u

\* What has been appended so far: the renaming leads to variables in scope, and each
\* variable that the other test case binds from `start` on is renamed or dropped.
Appended(other, start, n, s) ==
    /\ Good(s.tc)
    /\ \A v \in DOMAIN s.renamed : s.renamed[v] \in InScope(s.tc)
    /\ \A i \in 1..size(other) : start <= i /\ i <= n /\ other.stmts[i].var # None =>
            other.stmts[i].var \in DOMAIN s.renamed \cup s.dropped

\* A renaming that resolves the references of a statement covers what it reads from before
\* `start`, and leads to variables in scope.
LEMMA Resolving ==
    ASSUME NEW t, Good(t), NEW other, NEW start, NEW renamed, NEW dropped, NEW stmt,
           \A v \in DOMAIN renamed : renamed[v] \in InScope(t),
           NEW r \in ResolveHeadReferences(t, other, start, renamed, dropped, stmt)
    PROVE  /\ stmt.uses \cap dropped = {}
           /\ DOMAIN renamed \subseteq DOMAIN r /\ stmt.uses \cap BoundBefore(other, start) \subseteq DOMAIN r
           /\ \A v \in DOMAIN r : r[v] \in InScope(t)
<1> DEFINE open == (stmt.uses \cap BoundBefore(other, start)) \ DOMAIN renamed
           typeOf(v) == other.stmts[CHOOSE i \in DOMAIN other.stmts : other.stmts[i].var = v].type
           candidates(v) == IF typeOf(v) = None THEN {} ELSE variables_of_type(t, typeOf(v))
           F == {g \in [open -> UNION {candidates(v) : v \in open}] : \A v \in open : g[v] \in candidates(v)}
           Joined(f) == [v \in DOMAIN renamed \cup open |-> IF v \in open THEN f[v] ELSE renamed[v]]
<1>1. stmt.uses \cap dropped = {} /\ r \in {Joined(f) : f \in F}
  BY DEF ResolveHeadReferences
<1>2. PICK f \in F : r = Joined(f)
  BY <1>1
<1>3. \A ty : variables_of_type(t, ty) \subseteq InScope(t)
  <2>1. t \in TestCases /\ size(t) \in Nat /\ DOMAIN t.stmts = 1..size(t) /\ size(t) + 1 \in Nat
    BY StatementTypes DEF Good
  <2>2. ASSUME NEW ty, NEW v \in variables_of_type(t, ty) PROVE v \in BoundBefore(t, size(t) + 1)
    <3>1. PICK i \in 1..size(t) : v = t.stmts[i].var /\ v # None
      BY <2>1, <2>2 DEF variables_of_type
    <3>2. i < size(t) + 1
      BY <2>1
    <3> QED BY <2>1, <3>1, <3>2, Bound
  <2> QED BY <2>2 DEF InScope
<1>4. \A v \in open : f[v] \in InScope(t)
  BY <1>3
<1> HIDE DEF F
<1>5. DOMAIN r = DOMAIN renamed \cup open /\ \A v \in DOMAIN r : r[v] = IF v \in open THEN f[v] ELSE renamed[v]
  BY <1>2
<1>6. stmt.uses \cap BoundBefore(other, start) \subseteq DOMAIN renamed \cup open
  OBVIOUS
<1> HIDE DEF open, Joined
<1> QED BY <1>1, <1>4, <1>5, <1>6

\* A statement under such a renaming
LEMMA AppendingRenamed ==
    ASSUME NEW t, Good(t), NEW stmt \in Statements, NEW r, stmt.uses \subseteq DOMAIN r, \A v \in DOMAIN r : r[v] \in InScope(t)
    PROVE  /\ Good(AppendRenamed(t, stmt, r))
           /\ InScope(t) \subseteq InScope(AppendRenamed(t, stmt, r))
           /\ stmt.var # None => t.counter \in InScope(AppendRenamed(t, stmt, r))
<1> DEFINE uses == {IF v \in DOMAIN r THEN r[v] ELSE v : v \in stmt.uses}
           u == AppendRenamed(t, stmt, r)
<1>1. uses \subseteq InScope(t) /\ uses \subseteq Nat
  <2>1. uses \subseteq InScope(t)
    OBVIOUS
  <2>2. InScope(t) \subseteq Nat
    BY ReadyAtEnd, ReadyTypes DEF InScope
  <2> QED BY <2>1, <2>2
<1>2. CASE stmt.var = None
  <2> DEFINE e == [stmt EXCEPT !.uses = uses]
  <2>1. u = [t EXCEPT !.stmts = Append(@, e)]
    BY <1>2 DEF AppendRenamed
  <2> HIDE DEF uses
  <2>2. e \in Statements /\ e.var = None /\ e.uses = uses
    BY <1>1, <1>2 DEF Statements
  <2> HIDE DEF u, e
  <2>3. Good(u) /\ InScope(t) \subseteq InScope(u)
    BY <1>1, <2>1, <2>2, AppendingUnbound
  <2> QED BY <1>2, <2>3 DEF u
<1>3. CASE stmt.var # None
  <2>1. u = Bind(t, size(t) + 1, stmt.type, uses, stmt.call, stmt.ml)
    BY <1>3 DEF AppendRenamed
  <2> HIDE DEF uses, u
  <2>2. stmt.type \in {None} \cup Types /\ stmt.call \in {None} \cup Accessibles /\ stmt.ml \in BOOLEAN
    BY DEF Statements
  <2> DEFINE p == size(t) + 1
  <2>3. Ready(t, p) /\ p \in Nat /\ uses \subseteq BoundBefore(t, p) /\ size(t) \in Nat
    BY <1>1, ReadyAtEnd DEF InScope
  <2>4. u = Bind(t, p, stmt.type, uses, stmt.call, stmt.ml)
    BY <2>1
  <2>5. p = size(t) + 1
    OBVIOUS
  <2> HIDE DEF p
  <2>6. Grown(t, p, u, p + 1) /\ t.counter \in BoundBefore(u, p + 1)
    BY <2>2, <2>3, <2>4, Binding
  <2>7. BoundBefore(t, p) \subseteq BoundBefore(u, p + 1)
    BY <2>3, <2>6, GrownKeeps
  <2>8. Good(u) /\ size(u) = p
    <3> DEFINE q == p + 1
    <3>1. Good(u) /\ size(u) = size(t) + (q - p)
      BY <2>6 DEF Grown, Ready
    <3>2. q - p = 1
      BY <2>3
    <3> HIDE DEF q
    <3> QED BY <2>3, <2>5, <3>1, <3>2
  <2>9. InScope(t) = BoundBefore(t, p) /\ InScope(u) = BoundBefore(u, p + 1)
    BY <2>5, <2>8 DEF InScope
  <2> QED BY <2>6, <2>7, <2>8, <2>9 DEF u
<1> QED BY <1>2, <1>3

\* One statement more: it is appended under a renaming, or dropped.
LEMMA AppendingOne ==
    ASSUME NEW other, Good(other), NEW start \in Nat \ {0}, NEW n \in start..size(other),
           NEW s, Appended(other, start, n - 1, s),
           NEW o, LET stmt == other.stmts[n]
                      resolved == ResolveHeadReferences(s.tc, other, start, s.renamed, s.dropped, stmt)
                  IN  \/ /\ o.tc = s.tc /\ o.renamed = s.renamed
                         /\ o.dropped = s.dropped \cup ({stmt.var} \ {None})
                      \/ \E r \in resolved :
                            /\ o.tc = AppendRenamed(s.tc, stmt, r) /\ o.dropped = s.dropped
                            /\ o.renamed = IF stmt.var = None THEN r
                                           ELSE [v \in DOMAIN r \cup {stmt.var} |->
                                                   IF v = stmt.var THEN s.tc.counter ELSE r[v]]
    PROVE  Appended(other, start, n, o)
<1> DEFINE stmt == other.stmts[n]
           resolved == ResolveHeadReferences(s.tc, other, start, s.renamed, s.dropped, stmt)
<1>1. /\ other \in TestCases /\ size(other) \in Nat /\ n \in 1..size(other) /\ n \in Nat /\ start \in Nat
      /\ stmt \in Statements
  BY StatementTypes DEF Good
<1>2. /\ Good(s.tc)
      /\ \A v \in DOMAIN s.renamed : s.renamed[v] \in InScope(s.tc)
      /\ \A i \in 1..size(other) : start <= i /\ i < n /\ other.stmts[i].var # None =>
            other.stmts[i].var \in DOMAIN s.renamed \cup s.dropped
  BY <1>1 DEF Appended
<1>3. CASE o.tc = s.tc /\ o.renamed = s.renamed /\ o.dropped = s.dropped \cup ({stmt.var} \ {None})
  <2>1. \A i \in 1..size(other) : start <= i /\ i <= n /\ other.stmts[i].var # None =>
            other.stmts[i].var \in DOMAIN o.renamed \cup o.dropped
    <3> SUFFICES ASSUME NEW i \in 1..size(other), start <= i, i <= n, other.stmts[i].var # None
                 PROVE  other.stmts[i].var \in DOMAIN o.renamed \cup o.dropped
      OBVIOUS
    <3>1. i = n \/ i < n
      BY <1>1
    <3> QED BY <1>2, <1>3, <3>1
  <2> QED BY <1>2, <1>3, <2>1 DEF Appended
<1>4. CASE \E r \in resolved :
              /\ o.tc = AppendRenamed(s.tc, stmt, r) /\ o.dropped = s.dropped
              /\ o.renamed = IF stmt.var = None THEN r
                             ELSE [v \in DOMAIN r \cup {stmt.var} |-> IF v = stmt.var THEN s.tc.counter ELSE r[v]]
  <2>1. PICK r \in resolved :
              /\ o.tc = AppendRenamed(s.tc, stmt, r) /\ o.dropped = s.dropped
              /\ o.renamed = IF stmt.var = None THEN r
                             ELSE [v \in DOMAIN r \cup {stmt.var} |-> IF v = stmt.var THEN s.tc.counter ELSE r[v]]
    BY <1>4
  <2>2. /\ stmt.uses \cap s.dropped = {}
        /\ DOMAIN s.renamed \subseteq DOMAIN r /\ stmt.uses \cap BoundBefore(other, start) \subseteq DOMAIN r
        /\ \A v \in DOMAIN r : r[v] \in InScope(s.tc)
    BY <1>2, Resolving
  <2> HIDE DEF resolved
  <2>3. stmt.uses \subseteq DOMAIN r
    <3> SUFFICES ASSUME NEW v \in stmt.uses PROVE v \in DOMAIN r
      OBVIOUS
    <3>1. PICK j \in 1..size(other) : j < n /\ other.stmts[j].var = v /\ v # None
      BY <1>1, GoodInNumbers DEF Good
    <3>2. CASE j < start
      <4>1. v \in BoundBefore(other, start)
        BY <1>1, <3>1, <3>2, Bound
      <4> QED BY <2>2, <4>1
    <3>3. CASE start <= j
      <4>1. v \in DOMAIN s.renamed \cup s.dropped
        BY <1>2, <3>1, <3>3
      <4> QED BY <2>2, <4>1
    <3> QED BY <1>1, <3>2, <3>3
  <2> HIDE DEF stmt
  <2>4. /\ Good(o.tc) /\ InScope(s.tc) \subseteq InScope(o.tc)
        /\ stmt.var # None => s.tc.counter \in InScope(o.tc)
    BY <1>1, <1>2, <2>1, <2>2, <2>3, AppendingRenamed
  <2>5. DOMAIN r \subseteq DOMAIN o.renamed /\ (stmt.var # None => stmt.var \in DOMAIN o.renamed)
    BY <2>1
  <2>6. \A v \in DOMAIN o.renamed : o.renamed[v] \in InScope(o.tc)
    <3>1. CASE stmt.var = None
      BY <2>1, <2>2, <2>4, <3>1
    <3>2. CASE stmt.var # None
      <4> DEFINE more == [v \in DOMAIN r \cup {stmt.var} |-> IF v = stmt.var THEN s.tc.counter ELSE r[v]]
      <4>1. o.renamed = more
        BY <2>1, <3>2
      <4>2. \A v \in DOMAIN more : more[v] = s.tc.counter \/ (v \in DOMAIN r /\ more[v] = r[v])
        OBVIOUS
      <4> HIDE DEF more
      <4> QED BY <2>2, <2>4, <3>2, <4>1, <4>2
    <3> QED BY <3>1, <3>2
  <2>7. \A i \in 1..size(other) : start <= i /\ i <= n /\ other.stmts[i].var # None =>
            other.stmts[i].var \in DOMAIN o.renamed \cup o.dropped
    <3> SUFFICES ASSUME NEW i \in 1..size(other), start <= i, i <= n, other.stmts[i].var # None
                 PROVE  other.stmts[i].var \in DOMAIN o.renamed \cup o.dropped
      OBVIOUS
    <3>1. CASE i = n
      BY <2>5, <3>1 DEF stmt
    <3>2. CASE i < n
      BY <1>2, <2>1, <2>2, <2>5, <3>2
    <3> QED BY <1>1, <3>1, <3>2
  <2> QED BY <2>4, <2>6, <2>7 DEF Appended
<1> QED BY <1>3, <1>4

\* append_test_case_from
LEMMA Appending ==
    ASSUME NEW t, Good(t), NEW other, Good(other), NEW start \in Nat \ {0}, NEW u \in append_test_case_from(t, other, start)
    PROVE  Good(u)
<1> DEFINE N == size(other)
           First == [tc |-> t, renamed |-> [v \in {} |-> v], dropped |-> {}]
           Resolved(s, stmt) == ResolveHeadReferences(s.tc, other, start, s.renamed, s.dropped, stmt)
           Under(s, stmt, r) ==
                [tc |-> AppendRenamed(s.tc, stmt, r), dropped |-> s.dropped,
                 renamed |-> IF stmt.var = None THEN r
                             ELSE [v \in DOMAIN r \cup {stmt.var} |-> IF v = stmt.var THEN s.tc.counter ELSE r[v]]]
           Extend(s, stmt) ==
                IF Resolved(s, stmt) = {} THEN {[s EXCEPT !.dropped = @ \cup ({stmt.var} \ {None})]}
                ELSE {Under(s, stmt, r) : r \in Resolved(s, stmt)}
           Turn(n, O) == IF n < start THEN {First} ELSE UNION {Extend(s, other.stmts[n]) : s \in O}
           Whole(f, k) == [n \in 0..k |-> Turn(n, f[n - 1])]
           after == CHOOSE f : f = Whole(f, N)
<1>1. append_test_case_from(t, other, start) = {s.tc : s \in after[N]}
  BY DEF append_test_case_from
<1>2. N \in Nat
  BY StatementTypes DEF Good
<1>3. \A O, P : Turn(0, O) = Turn(0, P)
  OBVIOUS
<1>4. ASSUME NEW n \in 0..N, NEW O, \A s \in O : Appended(other, start, n - 1, s) /\ s = [tc |-> s.tc, renamed |-> s.renamed, dropped |-> s.dropped]
      PROVE  \A s \in Turn(n, O) : Appended(other, start, n, s) /\ s = [tc |-> s.tc, renamed |-> s.renamed, dropped |-> s.dropped]
  <2>1. CASE n < start
    <3>1. First.tc = t /\ DOMAIN First.renamed = {}
      OBVIOUS
    <3>2. First = [tc |-> First.tc, renamed |-> First.renamed, dropped |-> First.dropped]
      OBVIOUS
    <3> HIDE DEF First
    <3>3. Appended(other, start, n, First)
      BY <1>2, <2>1, <3>1 DEF Appended
    <3> QED BY <2>1, <3>2, <3>3
  <2>2. CASE start <= n
    <3> DEFINE stmt == other.stmts[n]
    <3>1. n \in start..size(other) /\ ~ (n < start)
      BY <1>2, <2>2
    <3> SUFFICES ASSUME NEW o \in Turn(n, O)
                 PROVE  Appended(other, start, n, o) /\ o = [tc |-> o.tc, renamed |-> o.renamed, dropped |-> o.dropped]
      OBVIOUS
    <3>2. PICK s \in O : o \in Extend(s, stmt)
      BY <3>1
    <3> HIDE DEF Turn, Whole, after
    <3>3. s = [tc |-> s.tc, renamed |-> s.renamed, dropped |-> s.dropped] /\ Appended(other, start, n - 1, s)
      BY <1>4
    <3>4. CASE o = [s EXCEPT !.dropped = @ \cup ({stmt.var} \ {None})]
      <4>1. /\ o.tc = s.tc /\ o.renamed = s.renamed /\ o.dropped = s.dropped \cup ({stmt.var} \ {None})
            /\ o = [tc |-> o.tc, renamed |-> o.renamed, dropped |-> o.dropped]
        BY <3>3, <3>4
      <4> QED BY <3>1, <3>3, <4>1, AppendingOne
    <3>5. CASE \E r \in Resolved(s, stmt) : o = Under(s, stmt, r)
      <4>1. PICK r \in Resolved(s, stmt) : o = Under(s, stmt, r)
        BY <3>5
      <4>2. /\ o.tc = AppendRenamed(s.tc, stmt, r) /\ o.dropped = s.dropped
            /\ o.renamed = IF stmt.var = None THEN r
                           ELSE [v \in DOMAIN r \cup {stmt.var} |-> IF v = stmt.var THEN s.tc.counter ELSE r[v]]
            /\ o = [tc |-> o.tc, renamed |-> o.renamed, dropped |-> o.dropped]
        BY <4>1
      <4>3. Appended(other, start, n, o)
        BY <3>1, <3>3, <4>2, AppendingOne
      <4> QED BY <4>2, <4>3
    <3> QED BY <3>2, <3>4, <3>5
  <2>3. n < start \/ start <= n
    BY <1>2
  <2> HIDE DEF Turn
  <2> QED BY <2>1, <2>2, <2>3
<1> HIDE DEF Turn, N
<1> DEFINE T == {k \in 0..N : \E f : f = Whole(f, k)}
<1>5. 0 \in T
  <2> DEFINE g == [i \in 0..0 |-> Turn(0, {})]
  <2>1. 0..0 = {0} /\ 0 \in 0..N
    BY <1>2
  <2>2. g = [n \in 0..0 |-> Turn(n, g[n - 1])]
    BY <1>3, <2>1
  <2> QED BY <2>1, <2>2
<1>6. ASSUME NEW k \in 1..N, k - 1 \in T PROVE k \in T
  <2>1. PICK f : f = Whole(f, k - 1)
    BY <1>6
  <2> DEFINE g == [i \in 0..k |-> IF i = k THEN Turn(k, f[k - 1]) ELSE f[i]]
  <2>2. \A i \in 0..k - 1 : f[i] = Turn(i, f[i - 1])
    BY <2>1
  <2>3. k \in 0..N /\ k \in Nat
    BY <1>2
  <2>4. \A i \in 0..k - 1 : i \in 0..k /\ i # k /\ g[i] = f[i]
    BY <2>3
  <2>5. ASSUME NEW i \in 0..k PROVE g[i] = Turn(i, g[i - 1])
    <3>1. CASE i = 0
      <4>1. g[0] = Turn(0, f[0 - 1])
        BY <2>2, <2>3, <2>4
      <4> HIDE DEF g
      <4> QED BY <1>3, <3>1, <4>1
    <3>2. CASE i = k
      <4>1. g[k] = Turn(k, f[k - 1]) /\ k - 1 \in 0..k - 1
        BY <2>3
      <4> HIDE DEF g
      <4> QED BY <2>4, <3>2, <4>1
    <3>3. CASE i # 0 /\ i # k
      <4>1. i \in 0..k - 1 /\ i - 1 \in 0..k - 1
        BY <2>3, <3>3
      <4> HIDE DEF g
      <4> QED BY <2>2, <2>4, <4>1
    <3> QED BY <3>1, <3>2, <3>3
  <2>6. g = [i \in 0..k |-> g[i]]
    OBVIOUS
  <2> HIDE DEF g
  <2>7. g = Whole(g, k)
    BY <2>5, <2>6
  <2> QED BY <2>3, <2>7
<1>7. N \in T
  <2>1. N \in 0..N
    BY <1>2
  <2> HIDE DEF T
  <2> QED BY <1>2, <1>5, <1>6, <2>1, UpTo
<1>8. after = Whole(after, N)
  <2>1. PICK f : f = Whole(f, N)
    BY <1>7
  <2> HIDE DEF Whole
  <2> QED BY <2>1
<1> HIDE DEF after
<1>9. \A k \in 0..N : after[k] = Turn(k, after[k - 1])
  BY <1>8
<1> DEFINE Sound(k, O) == \A s \in O : Appended(other, start, k, s) /\ s = [tc |-> s.tc, renamed |-> s.renamed, dropped |-> s.dropped]
           U == {k \in 0..N : Sound(k, after[k])}
<1>10. 0 \in U
  <2>1. 0 \in 0..N /\ after[0] = Turn(0, {})
    BY <1>2, <1>3, <1>9
  <2>2. Sound(0, Turn(0, {}))
    BY <1>4, <2>1
  <2> QED BY <2>1, <2>2
<1>11. ASSUME NEW k \in 1..N, k - 1 \in U PROVE k \in U
  <2>1. k \in 0..N /\ Sound(k - 1, after[k - 1])
    BY <1>2, <1>11
  <2>2. Sound(k, Turn(k, after[k - 1]))
    BY <1>4, <2>1
  <2> QED BY <1>9, <2>1, <2>2
<1> HIDE DEF U
<1>12. N \in U
  <2>1. N \in 0..N
    BY <1>2
  <2> QED BY <1>2, <1>10, <1>11, <2>1, UpTo
<1> QED BY <1>1, <1>12 DEF U, Appended

--------------------------------------------------------------------------------
(* The chromosome                                                           *)

\* Every test case there is, this one and the copy that a mutation may go back to, is good.
GoodState ==
    /\ offered \in Offers /\ Good(tc) /\ Good(backup)
    /\ at \in Nat /\ last \in Nat /\ thrown \in Nat
    /\ changed \in BOOLEAN /\ told \in BOOLEAN /\ rescued \in BOOLEAN
    /\ phase = "change" => at # 0

\* The flags have told of each change of the copy, all along the mutation.
Told ==
    /\ phase \in {"delete", "change", "insert"} /\ ~ told => tc = backup
    /\ phase = "fallback" /\ ~ rescued => tc = backup
    /\ phase = "mutated" /\ ~ changed /\ ~ rescued => tc = backup

\* Once the loops are done, the calls of the copy are kept.
CallKept == phase \in {"fallback", "mutated"} /\ has_call_on_sut(backup, offered) => has_call_on_sut(tc, offered)

IInv == GoodState /\ Told /\ CallKept

LEMMA EmptyIsGood == Good(EmptyTestCase)
<1> DEFINE e == <<>>
           t == [stmts |-> e, counter |-> 0]
<1>1. e \in Seq(Statements) /\ Len(e) = 0
  OBVIOUS
<1> HIDE DEF e
<1>2. t \in TestCases /\ size(t) = 0 /\ 1..0 = {}
  BY <1>1 DEF TestCases, size
<1>3. EmptyTestCase = t
  BY DEF EmptyTestCase, e
<1> HIDE DEF t
<1>4. DefinedBeforeUse(t) /\ NamesUnique(t)
  BY <1>2, GoodInNumbers
<1> QED BY <1>2, <1>3, <1>4 DEF Good

LEMMA SutCalls ==
    ASSUME NEW t, Good(t), NEW u, Good(u), CallsKept(t, u), NEW offer, has_call_on_sut(t, offer)
    PROVE  has_call_on_sut(u, offer)
<1>1. DOMAIN t.stmts = 1..size(t) /\ DOMAIN u.stmts = 1..size(u)
  BY StatementTypes DEF Good
<1> QED BY <1>1 DEF CallsKept, has_call_on_sut

LEMMA LastIsPosition ==
    ASSUME NEW t, Good(t), thrown \in Nat
    PROVE  LastMutatable(t) \in Nat /\ LastMutatable(t) + 1 \in 1..(size(t) + 1) /\ Ready(t, LastMutatable(t) + 1)
<1>1. size(t) \in Nat
  BY StatementTypes DEF Good
<1>2. LastMutatable(t) \in 0..size(t)
  BY <1>1 DEF LastMutatable
<1> QED BY <1>1, <1>2 DEF Ready

LEMMA SplitsAreNumbers ==
    ASSUME NEW m \in Nat, NEW n \in Nat, m >= 2, n >= 2, NEW p \in SplitPoints(m, n)
    PROVE  p[1] \in Nat /\ p[2] + 1 \in Nat \ {0}
<1>1. PICK k \in 0..((m - 1) * (n - 1) - 1) : p = <<k \div (n - 1) + 1, k \div (m - 1) + 1>>
  BY DEF SplitPoints
<1>2. k \in Nat /\ n - 1 \in Nat \ {0} /\ m - 1 \in Nat \ {0}
  OBVIOUS
<1>3. \A a \in Nat, b \in Nat \ {0} : a \div b \in Nat
  OBVIOUS
<1>4. k \div (n - 1) \in Nat /\ k \div (m - 1) \in Nat
  BY <1>2, <1>3
<1> QED BY <1>1, <1>4

LEMMA InitGood == Init => IInv
<1> SUFFICES ASSUME Init PROVE IInv
  OBVIOUS
<1>1. GoodState
  BY EmptyIsGood DEF Init, GoodState
<1>2. Told /\ CallKept
  BY DEF Init, Told, CallKept
<1> QED BY <1>1, <1>2 DEF IInv

LEMMA NextGood == IInv /\ [Next]_vars => IInv'
<1> SUFFICES ASSUME IInv, [Next]_vars PROVE IInv'
  OBVIOUS
<1>1. /\ GoodState /\ Told /\ CallKept
      /\ offered \in Offers /\ Good(tc) /\ Good(backup) /\ size(tc) \in Nat
      /\ at \in Nat /\ last \in Nat /\ thrown \in Nat /\ offered \subseteq Accessibles
      /\ Ready(tc, size(tc) + 1)
  BY ReadyAtEnd, PopulationAssumption DEF IInv, GoodState
<1>2. CASE Build
  <2>1. PICK o \in InsertRandomStatement(tc, size(tc) + 1, offered) : tc' = o.tc
    BY <1>2 DEF Build
  <2>2. Good(tc')
    <3> DEFINE p == size(tc) + 1
    <3>1. Ready(tc, p) /\ o \in InsertRandomStatement(tc, p, offered)
      BY <1>1
    <3> HIDE DEF p
    <3> QED BY <1>1, <2>1, <3>1, InsertingRandomly DEF Outcome
  <2> QED BY <1>1, <1>2, <2>2 DEF Build, IInv, GoodState, Told, CallKept, local
<1>3. CASE BuildEnds
  BY <1>1, <1>3 DEF BuildEnds, IInv, GoodState, Told, CallKept, local
<1>4. CASE Execute
  <2>1. thrown' \in Nat
    BY <1>1, <1>4, StatementTypes DEF Execute, Good
  <2> QED BY <1>1, <1>4, <2>1 DEF Execute, IInv, GoodState, Told, CallKept, local
<1>5. CASE BeginMutate
  <2>1. Good(Chopped)
    BY <1>1, LastIsPosition, Chopping DEF Chopped
  <2>2. tc' = Chopped /\ backup' = Chopped /\ at' = LastMutatable(Chopped) /\ told' \in BOOLEAN /\ phase' = "delete"
        /\ UNCHANGED <<offered, changed, thrown, last, rescued>>
    BY <1>5 DEF BeginMutate
  <2>3. at' \in Nat
    BY <1>1, <2>1, <2>2, LastIsPosition
  <2> QED BY <1>1, <2>1, <2>2, <2>3 DEF IInv, GoodState, Told, CallKept
<1>6. CASE Delete
  <2>1. Good(tc') /\ told' \in BOOLEAN /\ (~ told' => ~ told /\ tc' = tc)
    <3>1. CASE at <= size(tc) /\ tc' = DeleteGracefully(tc, at) /\ told' = TRUE
      <4>1. at \in 1..size(tc)
        BY <1>1, <1>6, <3>1 DEF Delete
      <4> QED BY <1>1, <3>1, <4>1, Deleting
    <3>2. CASE UNCHANGED <<tc, told>>
      BY <1>1, <3>2 DEF GoodState
    <3> QED BY <1>6, <3>1, <3>2 DEF Delete
  <2>2. at' \in Nat /\ phase' = phase /\ phase = "delete"
    BY <1>1, <1>6 DEF Delete
  <2> QED BY <1>1, <1>6, <2>1, <2>2 DEF Delete, IInv, GoodState, Told, CallKept
<1>7. CASE DeleteEnds
  <2>1. last' \in Nat
    BY <1>1, <1>7, LastIsPosition DEF DeleteEnds
  <2> QED BY <1>1, <1>7, <2>1 DEF DeleteEnds, IInv, GoodState, Told, CallKept
<1>8. CASE Change
  <2>1. at \in 1..size(tc)
    BY <1>1, <1>8 DEF Change, GoodState
  <2>2. Good(tc') /\ told' \in BOOLEAN /\ (~ told' => ~ told /\ tc' = tc)
    <3>1. CASE UNCHANGED <<tc, told>>
      BY <1>1, <3>1 DEF GoodState
    <3>2. CASE /\ tc.stmts[at].var # None
               /\ \E o \in MutateStatement(tc, at) : Small(o.tc) /\ tc' = o.tc /\ told' = (told \/ o.done)
      <4>1. PICK o \in MutateStatement(tc, at) : tc' = o.tc /\ told' = (told \/ o.done)
        BY <3>2
      <4>2. Outcome(tc, o)
        BY <1>1, <2>1, <3>2, MutatingStatement
      <4> QED BY <1>1, <4>1, <4>2 DEF Outcome, GoodState
    <3> QED BY <1>8, <3>1, <3>2 DEF Change
  <2>3. at' \in Nat /\ at' # 0
    BY <1>1, <1>8 DEF Change
  <2> QED BY <1>1, <1>8, <2>2, <2>3 DEF Change, IInv, GoodState, Told, CallKept
<1>9. CASE ChangeEnds
  BY <1>1, <1>9 DEF ChangeEnds, IInv, GoodState, Told, CallKept, local
<1>10. ASSUME NEW o \in Inserted PROVE Outcome(tc, o) /\ CallsKept(tc, o.tc)
  <2> DEFINE p == LastMutatable(tc) + 1
  <2>1. Ready(tc, p) /\ o \in InsertRandomStatement(tc, p, offered)
    BY <1>1, LastIsPosition DEF Inserted
  <2> HIDE DEF p
  <2> QED BY <1>1, <2>1, InsertingRandomly
<1>11. CASE Insert
  <2>1. PICK o \in Inserted : tc' = o.tc /\ told' = (told \/ o.done)
    BY <1>11 DEF Insert
  <2>2. Outcome(tc, o)
    BY <1>10
  <2>3. Good(tc') /\ told' \in BOOLEAN /\ (~ told' => ~ told /\ tc' = tc)
    BY <1>1, <2>1, <2>2 DEF Outcome, GoodState
  <2> QED BY <1>1, <1>11, <2>3 DEF Insert, IInv, GoodState, Told, CallKept
<1>12. CASE MutateEnds
  BY <1>1, <1>12 DEF MutateEnds, IInv, GoodState, Told, CallKept, local
<1>13. CASE Restore
  BY <1>1, <1>13 DEF Restore, IInv, GoodState, Told, CallKept, local
<1>14. CASE InsertAgain
  <2>1. PICK o \in Inserted : tc' = o.tc /\ rescued' = (rescued \/ o.done)
    BY <1>14 DEF InsertAgain
  <2>2. Outcome(tc, o) /\ CallsKept(tc, o.tc)
    BY <1>10
  <2>3. Good(tc') /\ rescued' \in BOOLEAN /\ (~ rescued' => ~ rescued /\ tc' = tc)
    BY <1>1, <2>1, <2>2 DEF Outcome, GoodState
  <2>4. has_call_on_sut(tc, offered) => has_call_on_sut(tc', offered)
    BY <1>1, <2>1, <2>2, <2>3, SutCalls
  <2> QED BY <1>1, <1>14, <2>3, <2>4 DEF InsertAgain, IInv, GoodState, Told, CallKept, local
<1>15. CASE FallbackEnds
  BY <1>1, <1>15 DEF FallbackEnds, IInv, GoodState, Told, CallKept, local
<1>16. CASE Mutated
  BY <1>1, <1>16, EmptyIsGood DEF Mutated, IInv, GoodState, Told, CallKept
<1>17. CASE CrossOver
  <2>1. PICK mate \in {m \in Mates : size(m) >= 2 /\ size(tc) >= 2} :
            \E p \in SplitPoints(size(tc), size(mate)) : tc' \in append_test_case_from(chop(tc, p[1]), mate, p[2] + 1)
    BY <1>17 DEF CrossOver
  <2>2. PICK p \in SplitPoints(size(tc), size(mate)) : tc' \in append_test_case_from(chop(tc, p[1]), mate, p[2] + 1)
    BY <2>1
  <2>3. Good(mate) /\ size(mate) \in Nat
    BY PopulationAssumption, StatementTypes DEF Good
  <2>4. p[1] \in Nat /\ p[2] + 1 \in Nat \ {0}
    BY <1>1, <2>1, <2>3, SplitsAreNumbers
  <2>5. Good(chop(tc, p[1]))
    BY <1>1, <2>4, Chopping
  <2>6. Good(tc')
    BY <2>2, <2>3, <2>4, <2>5, Appending
  <2> QED BY <1>1, <1>17, <2>6 DEF CrossOver, IInv, GoodState, Told, CallKept, local
<1>18. CASE GenerateSequence
  <2>1. PICK mate \in Mates : \E t \in append_test_case_from(EmptyTestCase, tc, 1) :
            \E u \in append_test_case_from(t, mate, 1) :
                \E o \in InsertRandomStatement(u, size(u) + 1, offered) : tc' = o.tc
    BY <1>18 DEF GenerateSequence
  <2>2. PICK t \in append_test_case_from(EmptyTestCase, tc, 1) :
            \E u \in append_test_case_from(t, mate, 1) :
                \E o \in InsertRandomStatement(u, size(u) + 1, offered) : tc' = o.tc
    BY <2>1
  <2>3. PICK u \in append_test_case_from(t, mate, 1) :
                \E o \in InsertRandomStatement(u, size(u) + 1, offered) : tc' = o.tc
    BY <2>2
  <2>4. Good(t) /\ Good(mate)
    BY <1>1, EmptyIsGood, Appending, PopulationAssumption DEF Good
  <2>5. Good(u)
    BY <2>4, Appending
  <2> DEFINE p == size(u) + 1
  <2>6. PICK o \in InsertRandomStatement(u, p, offered) : tc' = o.tc
    BY <2>3
  <2>7. Ready(u, p)
    BY <2>5, ReadyAtEnd
  <2> HIDE DEF p
  <2>8. Good(tc')
    BY <1>1, <2>6, <2>7, InsertingRandomly DEF Outcome
  <2> QED BY <1>1, <1>18, <2>8 DEF GenerateSequence, IInv, GoodState, Told, CallKept, local
<1>19. CASE UNCHANGED vars
  BY <1>1, <1>19 DEF vars, IInv, GoodState, Told, CallKept, local
<1> QED
  BY <1>2, <1>3, <1>4, <1>5, <1>6, <1>7, <1>8, <1>9, <1>11, <1>12, <1>13, <1>14, <1>15, <1>16, <1>17, <1>18, <1>19
     DEF Next

LEMMA InvariantHolds == Spec => []IInv
BY InitGood, NextGood, PTL DEF Spec

\* In every state of every operator, a statement reads only variables that statements before
\* it bind, and no name is bound twice: whatever is called, with any number of arguments, at
\* any depth of recursion, in test cases of any length.
THEOREM TestCasesAreWellFormed == Spec => []WellFormed
<1>1. IInv => WellFormed
  BY DEF IInv, GoodState, Good, WellFormed
<1> QED BY <1>1, InvariantHolds, PTL

\* The operators report what they do: as long as none has told of a change the test case is
\* the copy, and a mutation that leaves the flag unset and inserts nothing in its fallback
\* leaves the copy.
THEOREM ChangesAreTold == Spec => []ChangeIsTold
<1>1. IInv => ChangeIsTold
  BY DEF IInv, Told, ChangeIsTold
<1> QED BY <1>1, InvariantHolds, PTL

\* A test case that calls what is under test still does after a mutation.
THEOREM SutCallsAreKept == Spec => []SutCallKept
<1>1. IInv => SutCallKept
  BY DEF IInv, CallKept, SutCallKept
<1> QED BY <1>1, InvariantHolds, PTL
================================================================================
