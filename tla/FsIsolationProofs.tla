---------------------------- MODULE FsIsolationProofs ---------------------------
(***************************************************************************)
(* What the isolation of the file system cleans up and what it keeps, for  *)
(* all names, trees of any depth and any sequence of calls.                *)
(***************************************************************************)
EXTENDS FsIsolation, SequenceTheorems, WellFoundedInduction, TLAPS

Recorded(p) == \E c \in created : Under(p, c)

\* What has been made lies below a recorded path, so that __exit__ finds it.
MadeRecorded ==
    ~ forgets => \A p \in Paths : fs[p] \in Made => context = "inside" /\ Recorded(p)

\* As long as nothing has been overwritten, no recorded path is one that stood there
\* before, and neither is anything below one.
RealApart ==
    ~ overwrites => /\ \A c \in created : fs[c] \notin Real
                    /\ \A p \in Paths : fs[p] \in Real /\ Len(p) > 1 => fs[Front(p)] = "realDir"

FilesInv == FilesTypeOK /\ MadeRecorded /\ RealApart

--------------------------------------------------------------------------------
(* Paths                                                                    *)

LEMMA PathsAreSequences ==
    /\ \A p \in Paths : p \in Seq(Names) /\ Len(p) \in Nat /\ Len(p) \in 1..Depth
    /\ \A p \in Seq(Names) : Len(p) \in 1..Depth => p \in Paths
<1>1. Depth \in Nat /\ 1..Depth \subseteq Nat
  BY IsolationAssumption
<1>2. ASSUME NEW p \in Paths PROVE p \in Seq(Names) /\ Len(p) \in Nat /\ Len(p) \in 1..Depth
  <2>1. PICK n \in 1..Depth : p \in [1..n -> Names]
    BY DEF Paths
  <2>2. n \in Nat
    BY <1>1
  <2>3. p \in Seq(Names) /\ Len(p) = n
    BY <2>1, <2>2
  <2> QED BY <2>2, <2>3
<1>3. ASSUME NEW p \in Seq(Names), Len(p) \in 1..Depth PROVE p \in Paths
  <2>1. p \in [1..Len(p) -> Names]
    BY LenProperties
  <2> QED BY <2>1, <1>3 DEF Paths
<1> QED BY <1>2, <1>3

LEMMA UnderByNames ==
    ASSUME NEW p \in Paths, NEW q \in Paths
    PROVE  Under(p, q) <=> Len(q) <= Len(p) /\ \A i \in 1..Len(q) : p[i] = q[i]
<1>1. /\ p \in Seq(Names) /\ q \in Seq(Names) /\ Len(p) \in Nat /\ Len(q) \in Nat
      /\ SubSeq(q, 1, Len(q)) = q
  BY PathsAreSequences, SubSeqFull
<1>2. ASSUME Len(q) <= Len(p)
      PROVE  /\ SubSeq(p, 1, Len(q)) \in Seq(Names) /\ Len(SubSeq(p, 1, Len(q))) = Len(q)
             /\ \A i \in 1..Len(q) : SubSeq(p, 1, Len(q))[i] = p[i]
  <2>1. PICK n \in Nat : n = Len(q)
    BY <1>1
  <2>2. \A i \in 1..n : p[i] \in Names
    BY <1>1, <1>2, <2>1, ElementOfSeq
  <2>3. /\ SubSeq(p, 1, n) \in Seq(Names)
        /\ Len(SubSeq(p, 1, n)) = IF 1 <= n THEN n - 1 + 1 ELSE 0
        /\ \A i \in 1..(n - 1 + 1) : SubSeq(p, 1, n)[i] = p[1 + i - 1]
    BY <2>2, SubSeqProperties
  <2>4. Len(SubSeq(p, 1, n)) = n /\ \A i \in 1..n : SubSeq(p, 1, n)[i] = p[i]
    BY <2>3
  <2> QED BY <2>1, <2>3, <2>4
<1>3. ASSUME Len(q) <= Len(p)
      PROVE  SubSeq(p, 1, Len(q)) = q <=> \A i \in 1..Len(q) : p[i] = q[i]
  BY <1>1, <1>2, <1>3, SeqEqual
<1> QED BY <1>1, <1>3 DEF Under, IsPrefix

LEMMA UnderItself == ASSUME NEW p \in Paths PROVE Under(p, p)
  BY UnderByNames, PathsAreSequences

LEMMA UnderUnder ==
    ASSUME NEW p \in Paths, NEW q \in Paths, NEW r \in Paths, Under(p, q), Under(q, r)
    PROVE  Under(p, r)
  BY UnderByNames, PathsAreSequences

\* The directory that a path is in
LEMMA Parent ==
    ASSUME NEW p \in Paths, Len(p) > 1
    PROVE  /\ Front(p) \in Paths /\ Len(Front(p)) = Len(p) - 1
           /\ \A i \in 1..(Len(p) - 1) : Front(p)[i] = p[i]
           /\ Under(p, Front(p)) /\ Front(p) # p
           /\ \A q \in Paths : Under(p, q) /\ p # q => Under(Front(p), q)
           /\ \A q \in Paths : Under(Front(p), q) => Under(p, q)
<1>1. PICK n \in Nat : n = Len(p) - 1 /\ n >= 1 /\ Len(p) = n + 1
  BY PathsAreSequences
<1>2. p \in Seq(Names) /\ n \in 1..Depth /\ \A i \in 1..n : p[i] \in Names
  BY <1>1, PathsAreSequences, ElementOfSeq, IsolationAssumption
<1>3. /\ SubSeq(p, 1, n) \in Seq(Names)
      /\ Len(SubSeq(p, 1, n)) = IF 1 <= n THEN n - 1 + 1 ELSE 0
      /\ \A i \in 1..(n - 1 + 1) : SubSeq(p, 1, n)[i] = p[1 + i - 1]
  BY <1>2, SubSeqProperties
<1>4. Front(p) = SubSeq(p, 1, n)
  BY <1>1 DEF Front
<1>5. Front(p) \in Seq(Names) /\ Len(Front(p)) = n /\ \A i \in 1..n : Front(p)[i] = p[i]
  BY <1>1, <1>3, <1>4
<1>6. Front(p) \in Paths
  BY <1>2, <1>5, PathsAreSequences
<1>7. Under(p, Front(p)) /\ Front(p) # p
  BY <1>1, <1>5, <1>6, UnderByNames
<1>8. ASSUME NEW q \in Paths, Under(p, q), p # q PROVE Under(Front(p), q)
  <2>1. Len(q) \in Nat /\ Len(q) <= n + 1 /\ \A i \in 1..Len(q) : p[i] = q[i]
    BY <1>1, <1>8, UnderByNames, PathsAreSequences
  <2>2. Len(q) # n + 1
    <3> SUFFICES ASSUME Len(q) = n + 1 PROVE FALSE
      OBVIOUS
    <3>1. q \in Seq(Names) /\ Len(p) = Len(q)
      BY <1>1, PathsAreSequences
    <3>2. p = q
      BY <1>2, <2>1, <3>1, SeqEqual
    <3> QED BY <3>2, <1>8
  <2> QED BY <2>1, <2>2, <1>5, <1>6, UnderByNames
<1>9. \A q \in Paths : Under(Front(p), q) => Under(p, q)
  BY <1>6, <1>7, UnderUnder
<1> QED BY <1>1, <1>5, <1>6, <1>7, <1>8, <1>9

\* The path of the name x in the directory d
LEMMA Child ==
    ASSUME NEW d \in Paths, NEW x \in Names, Append(d, x) \in Paths
    PROVE  Front(Append(d, x)) = d /\ Len(Append(d, x)) > 1
<1>1. /\ d \in Seq(Names) /\ Len(d) \in Nat /\ Len(d) \in 1..Depth
      /\ Append(d, x) \in Seq(Names) /\ Len(Append(d, x)) = Len(d) + 1
      /\ \A i \in 1..Len(d) : Append(d, x)[i] = d[i]
  BY PathsAreSequences, AppendProperties
<1>2. Len(Append(d, x)) > 1 /\ Len(Append(d, x)) - 1 = Len(d)
  BY <1>1
<1>3. /\ Front(Append(d, x)) \in Seq(Names) /\ Len(Front(Append(d, x))) = Len(d)
      /\ \A i \in 1..Len(d) : Front(Append(d, x))[i] = d[i]
  BY <1>1, <1>2, Parent, PathsAreSequences
<1> QED BY <1>1, <1>2, <1>3, SeqEqual

LEMMA LastName == ASSUME NEW p \in Paths PROVE Last(p) \in Names
  BY PathsAreSequences, ElementOfSeq DEF Last

\* The least-number principle
LEMMA LeastNumber ==
    ASSUME NEW T, T \subseteq Nat, T # {}
    PROVE  \E x \in T : \A y \in T : x <= y
<1> DEFINE R == OpToRel(<, Nat)
<1>1. IsWellFoundedOn(R, Nat)
  BY NatLessThanWellFounded
<1>2. \A x, y \in Nat : <<y, x>> \in R <=> y < x
  BY DEF OpToRel
<1> HIDE DEF R
<1>3. PICK x \in T : \A y \in T : ~ (<<y, x>> \in R)
  BY <1>1, WFMin
<1>4. ASSUME NEW y \in T PROVE x <= y
  <2>1. x \in Nat /\ y \in Nat
    OBVIOUS
  <2>2. ~ (y < x)
    BY <1>2, <1>3, <2>1
  <2> QED BY <2>1, <2>2
<1> QED BY <1>4

\* What holds of the directory that something is in holds of all those above it.
LEMMA Ancestors ==
    ASSUME NEW tree, NEW Things, NEW Dirs, Dirs \subseteq Things,
           \A p \in Paths : tree[p] \in Things /\ Len(p) > 1 => tree[Front(p)] \in Dirs,
           NEW p \in Paths, NEW q \in Paths, Below(p, q), tree[p] \in Things
    PROVE  tree[q] \in Dirs
<1> DEFINE Between == {r \in Paths : Below(r, q) /\ tree[r] \in Things}
           T == {n \in Nat : \E r \in Between : n = Len(r)}
<1>1. p \in Between /\ Len(p) \in T
  BY PathsAreSequences
<1>2. PICK n \in T : \A m \in T : n <= m
  BY <1>1, LeastNumber
<1>3. PICK r \in Between : n = Len(r)
  BY <1>2
<1>4. r \in Paths /\ Under(r, q) /\ r # q /\ tree[r] \in Things
  BY <1>3 DEF Below
<1>5. Len(r) > 1
  <2>1. Len(q) \in Nat /\ Len(q) >= 1 /\ Len(q) <= Len(r) /\ Len(r) \in Nat
    BY <1>4, UnderByNames, PathsAreSequences
  <2>2. Len(q) = Len(r) => r = q
    BY <1>4, UnderByNames, PathsAreSequences, SeqEqual
  <2> QED BY <2>1, <2>2, <1>4
<1>6. tree[Front(r)] \in Dirs /\ Front(r) \in Paths /\ Under(Front(r), q) /\ Len(Front(r)) = n - 1
  BY <1>3, <1>4, <1>5, Parent
<1>7. CASE Front(r) = q
  BY <1>6, <1>7
<1>8. CASE Front(r) # q
  <2>1. Front(r) \in Between
    BY <1>6, <1>8 DEF Below
  <2>2. n - 1 \in T /\ n \in Nat
    BY <2>1, <1>6, PathsAreSequences
  <2> QED BY <2>2, <1>2
<1> QED BY <1>7, <1>8

\* What something lies in is a directory.
Things == {"realFile", "realDir", "file", "dir"}

LEMMA AboveAreDirs ==
    ASSUME FilesTypeOK, NEW p \in Paths, NEW q \in Paths, Below(p, q), ~ Absent(p)
    PROVE  fs[q] \in Directories
<1>1. fs[p] \in Things /\ Directories \subseteq Things
  BY DEF FilesTypeOK, Absent, Things, Directories, Real, Made
<1>2. \A r \in Paths : fs[r] \in Things /\ Len(r) > 1 => fs[Front(r)] \in Directories
  BY DEF FilesTypeOK, WellFormed, Things
<1> QED BY <1>1, <1>2, Ancestors

\* What stood there before does not lie below anything that did not.
LEMMA AboveAreReal ==
    ASSUME FilesTypeOK, RealApart, ~ overwrites,
           NEW p \in Paths, NEW q \in Paths, Under(p, q), fs[p] \in Real
    PROVE  fs[q] \in Real /\ q \notin created
<1>1. {"realDir"} \subseteq Real
  BY DEF Real
<1>2. \A r \in Paths : fs[r] \in Real /\ Len(r) > 1 => fs[Front(r)] \in {"realDir"}
  BY DEF RealApart
<1>3. p # q => fs[q] \in {"realDir"}
  BY <1>1, <1>2, Ancestors DEF Below
<1> QED BY <1>1, <1>3 DEF RealApart

--------------------------------------------------------------------------------
(* Moves                                                                    *)

Origin(src, dst, p) == src \o SubSeq(p, Len(dst) + 1, Len(p))

LEMMA OriginByNames ==
    ASSUME NEW src \in Paths, NEW dst \in Paths, NEW p \in Paths, Under(p, dst)
    PROVE  LET r == Origin(src, dst, p) IN
           /\ r \in Seq(Names) /\ Len(r) = Len(src) + (Len(p) - Len(dst))
           /\ \A i \in 1..Len(r) : r[i] = IF i <= Len(src) THEN src[i] ELSE p[i - Len(src) + Len(dst)]
           /\ r \in Paths => Under(r, src)
<1> DEFINE r == Origin(src, dst, p)
<1>1. PICK k \in Nat, m \in Nat, n \in Nat : k = Len(src) /\ m = Len(dst) /\ n = Len(p)
  BY PathsAreSequences
<1>2. src \in Seq(Names) /\ p \in Seq(Names) /\ m <= n /\ \A i \in 1..n : p[i] \in Names
  BY <1>1, PathsAreSequences, UnderByNames, ElementOfSeq
<1> DEFINE rest == SubSeq(p, m + 1, n)
<1>3. \A i \in (m + 1)..n : p[i] \in Names
  BY <1>2
<1>4. /\ rest \in Seq(Names)
      /\ Len(rest) = IF m + 1 <= n THEN n - (m + 1) + 1 ELSE 0
      /\ \A i \in 1..(n - (m + 1) + 1) : rest[i] = p[m + 1 + i - 1]
  BY <1>3, SubSeqProperties
<1>5. Len(rest) = n - m /\ \A i \in 1..(n - m) : rest[i] = p[m + i]
  BY <1>2, <1>4
<1>6. r = src \o rest
  BY <1>1 DEF Origin
<1> HIDE DEF rest, r
<1>7. /\ r \in Seq(Names) /\ Len(r) = Len(src) + Len(rest)
      /\ \A i \in 1..(Len(src) + Len(rest)) :
            r[i] = IF i <= Len(src) THEN src[i] ELSE rest[i - Len(src)]
  BY <1>2, <1>4, <1>6, ConcatProperties
<1>8. Len(r) = k + (n - m)
  BY <1>1, <1>5, <1>7
<1>9. ASSUME NEW i \in 1..(k + (n - m)) PROVE r[i] = IF i <= k THEN src[i] ELSE p[i - k + m]
  <2>1. CASE i <= k
    BY <2>1, <1>1, <1>5, <1>7
  <2>2. CASE ~ (i <= k)
    <3>1. r[i] = rest[i - k] /\ i - k \in 1..(n - m)
      BY <2>2, <1>1, <1>2, <1>5, <1>7
    <3>2. rest[i - k] = p[m + (i - k)] /\ m + (i - k) = i - k + m
      BY <3>1, <1>5
    <3> QED BY <3>1, <3>2, <2>2
  <2> QED BY <2>1, <2>2
<1>10. r \in Paths => Under(r, src)
  <2>1. k <= k + (n - m) /\ \A i \in 1..k : r[i] = src[i]
    BY <1>2, <1>9
  <2> QED BY <2>1, <1>1, <1>8, UnderByNames
<1> QED BY <1>1, <1>7, <1>8, <1>9, <1>10 DEF r

\* What is moved keeps its place below what it is moved with.
LEMMA OriginOfParent ==
    ASSUME NEW src \in Paths, NEW dst \in Paths, NEW p \in Paths, Under(p, dst), p # dst,
           Origin(src, dst, p) \in Paths
    PROVE  LET r == Origin(src, dst, p) IN
           /\ Len(p) > 1 /\ Under(Front(p), dst)
           /\ Len(r) > 1 /\ Origin(src, dst, Front(p)) = Front(r)
<1> DEFINE r == Origin(src, dst, p)
           q == Origin(src, dst, Front(p))
<1>1. PICK k \in Nat, m \in Nat, n \in Nat : k = Len(src) /\ m = Len(dst) /\ n = Len(p)
  BY PathsAreSequences
<1>2. k >= 1 /\ m >= 1 /\ m <= n /\ \A i \in 1..m : p[i] = dst[i]
  BY <1>1, PathsAreSequences, UnderByNames
<1>3. m # n
  <2>1. m = n => p = dst
    BY <1>1, <1>2, PathsAreSequences, SeqEqual
  <2> QED BY <2>1
<1>4. /\ Len(p) > 1 /\ Front(p) \in Paths /\ Under(Front(p), dst) /\ Len(Front(p)) = n - 1
      /\ \A i \in 1..(n - 1) : Front(p)[i] = p[i]
  BY <1>1, <1>2, <1>3, Parent
<1> HIDE DEF r, q
<1>5. /\ r \in Seq(Names) /\ Len(r) = k + (n - m)
      /\ \A i \in 1..(k + (n - m)) : r[i] = IF i <= k THEN src[i] ELSE p[i - k + m]
  <2>1. /\ r \in Seq(Names) /\ Len(r) = Len(src) + (Len(p) - Len(dst))
        /\ \A i \in 1..Len(r) : r[i] = IF i <= Len(src) THEN src[i] ELSE p[i - Len(src) + Len(dst)]
    BY OriginByNames DEF r
  <2> QED BY <2>1, <1>1
<1>6. /\ q \in Seq(Names) /\ Len(q) = k + ((n - 1) - m)
      /\ \A i \in 1..(k + ((n - 1) - m)) : q[i] = IF i <= k THEN src[i] ELSE Front(p)[i - k + m]
  <2>1. /\ q \in Seq(Names) /\ Len(q) = Len(src) + (Len(Front(p)) - Len(dst))
        /\ \A i \in 1..Len(q) : q[i] = IF i <= Len(src) THEN src[i] ELSE Front(p)[i - Len(src) + Len(dst)]
    BY <1>4, OriginByNames DEF q
  <2> QED BY <2>1, <1>1, <1>4
<1>7. Len(r) > 1 /\ r \in Paths
  BY <1>1, <1>2, <1>3, <1>5 DEF r
<1>8. /\ Front(r) \in Seq(Names) /\ Len(Front(r)) = k + (n - m) - 1
      /\ \A i \in 1..(k + (n - m) - 1) : Front(r)[i] = r[i]
  <2>1. /\ Front(r) \in Seq(Names) /\ Len(Front(r)) = Len(r) - 1
        /\ \A i \in 1..(Len(r) - 1) : Front(r)[i] = r[i]
    BY <1>7, Parent, PathsAreSequences
  <2> QED BY <2>1, <1>5
<1>9. ASSUME NEW i \in 1..(k + (n - m) - 1) PROVE q[i] = Front(r)[i]
  <2>1. i \in 1..(k + ((n - 1) - m)) /\ i \in 1..(k + (n - m))
    BY <1>1
  <2>2. CASE i <= k
    BY <2>1, <2>2, <1>5, <1>6, <1>8
  <2>3. CASE ~ (i <= k)
    <3>1. i - k + m \in 1..(n - 1)
      BY <2>1, <2>3, <1>2
    <3> QED BY <3>1, <2>1, <2>3, <1>4, <1>5, <1>6, <1>8
  <2> QED BY <2>2, <2>3
<1>10. Len(q) = Len(Front(r)) /\ Len(q) = k + (n - m) - 1
  BY <1>6, <1>8
<1>11. q = Front(r)
  BY <1>6, <1>8, <1>9, <1>10, SeqEqual
<1> QED BY <1>4, <1>7, <1>11 DEF r, q

Kinds == {"absent"} \cup Real \cup Made

\* What a move makes of the tree
LEMMA MovedTree ==
    ASSUME FilesTypeOK, NEW src \in Paths, NEW dst \in Paths, Movable(src, dst),
           NEW tree, tree = Moved(src, dst)
    PROVE  /\ tree \in [Paths -> Kinds] /\ WellFormed(tree)
           /\ \A p \in Paths :
                /\ Under(p, dst) =>
                        tree[p] = "absent" \/ \E r \in Paths : Under(r, src) /\ tree[p] = fs[r]
                /\ ~ Under(p, dst) /\ Under(p, src) => tree[p] = "absent"
                /\ ~ Under(p, dst) /\ ~ Under(p, src) => tree[p] = fs[p]
<1>1. fs \in [Paths -> Kinds] /\ WellFormed(fs)
  BY DEF FilesTypeOK, Kinds
<1> DEFINE O(p) == Origin(src, dst, p)
<1>2. tree = [p \in Paths |->
                IF Under(p, dst) THEN IF O(p) \in Paths THEN fs[O(p)] ELSE "absent"
                ELSE IF Under(p, src) THEN "absent" ELSE fs[p]]
  BY DEF Moved, Origin
<1> HIDE DEF O
<1>3. tree \in [Paths -> Kinds]
  BY <1>1, <1>2 DEF Kinds
<1>4. ASSUME NEW p \in Paths
      PROVE  /\ Under(p, dst) =>
                    tree[p] = "absent" \/ (O(p) \in Paths /\ Under(O(p), src) /\ tree[p] = fs[O(p)])
             /\ ~ Under(p, dst) /\ Under(p, src) => tree[p] = "absent"
             /\ ~ Under(p, dst) /\ ~ Under(p, src) => tree[p] = fs[p]
  BY <1>2, OriginByNames DEF O
<1>5. ASSUME NEW p \in Paths, tree[p] # "absent", Len(p) > 1
      PROVE  tree[Front(p)] \in Directories
  <2>1. /\ Front(p) \in Paths /\ Under(p, Front(p)) /\ Front(p) # p
        /\ \A q \in Paths : Under(p, q) /\ p # q => Under(Front(p), q)
        /\ \A q \in Paths : Under(Front(p), q) => Under(p, q)
    BY <1>5, Parent
  <2>2. CASE p = dst
    <3>1. fs[Front(p)] \in Directories
      BY <2>2, <1>5 DEF Movable, HasParent, IsDir
    <3>2. ~ Under(Front(p), dst)
      <4> SUFFICES ASSUME Under(Front(p), p) PROVE FALSE
        BY <2>2
      <4>1. /\ Len(p) \in Nat /\ Len(Front(p)) = Len(p) - 1 /\ Len(p) <= Len(Front(p))
        BY <2>1, <1>5, Parent, UnderByNames, PathsAreSequences
      <4> QED BY <4>1
    <3>3. ~ Under(Front(p), src)
      <4> SUFFICES ASSUME Under(Front(p), src) PROVE FALSE
        OBVIOUS
      <4>1. Under(p, src) /\ p = src
        BY <2>1, <2>2 DEF Movable, Below
      <4> QED BY <4>1, <3>2, <2>2
    <3> QED BY <3>1, <3>2, <3>3, <1>4, <2>1
  <2>3. CASE Under(p, dst) /\ p # dst
    <3>1. O(p) \in Paths /\ tree[p] = fs[O(p)] /\ fs[O(p)] # "absent"
      BY <2>3, <1>4, <1>5
    <3>2. Under(Front(p), dst) /\ Len(O(p)) > 1 /\ O(Front(p)) = Front(O(p))
      BY <2>3, <3>1, OriginOfParent DEF O
    <3>3. fs[Front(O(p))] \in Directories /\ Front(O(p)) \in Paths
      BY <3>1, <3>2, <1>1, Parent DEF WellFormed
    <3>4. tree[Front(p)] = fs[O(Front(p))]
      BY <3>2, <3>3, <2>1, <1>2
    <3> QED BY <3>2, <3>3, <3>4
  <2>4. CASE ~ Under(p, dst)
    <3>1. ~ Under(p, src) /\ tree[p] = fs[p]
      BY <2>4, <1>4, <1>5
    <3>2. fs[Front(p)] \in Directories /\ ~ Under(Front(p), dst) /\ ~ Under(Front(p), src)
      BY <3>1, <2>1, <2>4, <1>1, <1>5 DEF WellFormed
    <3> QED BY <3>2, <2>1, <1>4
  <2> QED BY <2>2, <2>3, <2>4, UnderItself
<1>6. WellFormed(tree)
  BY <1>5 DEF WellFormed
<1> QED BY <1>3, <1>4, <1>6

\* Something is put where there was no directory.
LEMMA PutTree ==
    ASSUME FilesTypeOK, NEW p \in Paths, NEW kind \in Made, HasParent(p), ~ IsDir(p),
           NEW tree, tree = [fs EXCEPT ![p] = kind]
    PROVE  /\ tree \in [Paths -> Kinds] /\ WellFormed(tree)
           /\ \A q \in Paths : tree[q] = IF q = p THEN kind ELSE fs[q]
<1>1. tree \in [Paths -> Kinds] /\ \A q \in Paths : tree[q] = IF q = p THEN kind ELSE fs[q]
  BY DEF FilesTypeOK, Kinds
<1>2. ASSUME NEW q \in Paths, tree[q] # "absent", Len(q) > 1
      PROVE  tree[Front(q)] \in Directories
  <2>1. Front(q) \in Paths /\ Front(q) # q
    BY <1>2, Parent
  <2>2. fs[Front(q)] \in Directories
    <3>1. CASE q = p
      BY <3>1, <1>2 DEF HasParent, IsDir
    <3>2. CASE q # p
      BY <3>2, <1>1, <1>2 DEF FilesTypeOK, WellFormed
    <3> QED BY <3>1, <3>2
  <2> QED BY <2>1, <2>2, <1>1 DEF IsDir
<1> QED BY <1>1, <1>2 DEF WellFormed

--------------------------------------------------------------------------------
(* The calls                                                                *)

Kept == FilesInv' /\ UnrecordedRealKept /\ KeptUnlessOverwritten

\* What a call must show
LEMMA Call ==
    ASSUME FilesInv,
           fs' \in [Paths -> Kinds], WellFormed(fs'), created' \subseteq Paths,
           context' \in {"inside", "left"}, overwrites' \in BOOLEAN, forgets' \in BOOLEAN,
           overwrites => overwrites',
           ~ forgets' => \A p \in Paths : fs'[p] \in Made =>
                            context' = "inside" /\ \E c \in created' : Under(p, c),
           ~ overwrites' => \A p \in Paths : fs[p] \in Real \/ fs'[p] \in Real => fs'[p] = fs[p],
           ~ overwrites' => \A c \in created' : c \in created \/ fs'[c] \notin Real,
           UnrecordedRealKept
    PROVE  Kept
<1>1. FilesTypeOK'
  BY DEF FilesTypeOK, Kinds, WellFormed, Real, Made, Directories
<1>2. MadeRecorded'
  BY DEF MadeRecorded, Recorded, Under, Made
<1>3. RealApart'
  <2> SUFFICES ASSUME ~ overwrites'
               PROVE  /\ \A c \in created' : fs'[c] \notin Real
                      /\ \A p \in Paths : fs'[p] \in Real /\ Len(p) > 1 => fs'[Front(p)] = "realDir"
    BY DEF RealApart, Real
  <2>1. \A c \in created : fs[c] \notin Real /\ c \in Paths
    BY DEF FilesInv, FilesTypeOK, RealApart
  <2>2. \A c \in created' : fs'[c] \notin Real
    BY <2>1
  <2>3. ASSUME NEW p \in Paths, fs'[p] \in Real, Len(p) > 1 PROVE fs'[Front(p)] = "realDir"
    <3>1. fs[Front(p)] = "realDir" /\ Front(p) \in Paths
      BY <2>3, Parent DEF FilesInv, RealApart
    <3> QED BY <3>1 DEF Real
  <2> QED BY <2>2, <2>3
<1>4. KeptUnlessOverwritten
  BY DEF KeptUnlessOverwritten
<1> QED BY <1>1, <1>2, <1>3, <1>4 DEF FilesInv, Kept

\* A path is written; nothing that stood there counts as kept if it is overwritten.
LEMMA PutCall ==
    ASSUME FilesInv, Inside, NEW p \in Paths, NEW kind \in Made, HasParent(p), ~ IsDir(p),
           fs' = [fs EXCEPT ![p] = kind],
           NEW more \in SUBSET Paths, p \in more, created' = created \cup more,
           overwrites' \in BOOLEAN, overwrites => overwrites', UNCHANGED forgets,
           ~ overwrites' => \A q \in more : fs[q] \notin Real
    PROVE  Kept
<1>1. /\ fs' \in [Paths -> Kinds] /\ WellFormed(fs')
      /\ \A q \in Paths : fs'[q] = IF q = p THEN kind ELSE fs[q]
  BY PutTree DEF FilesInv
<1>2. kind \in Made /\ kind \notin Real
  BY DEF Made, Real
<1>3. /\ context = "inside" /\ context' = "inside"
      /\ created' \subseteq Paths /\ forgets' \in BOOLEAN
  BY DEF Inside, FilesInv, FilesTypeOK
<1>4. ASSUME ~ forgets', NEW q \in Paths, fs'[q] \in Made
      PROVE  \E c \in created' : Under(q, c)
  <2>1. CASE q = p
    BY <2>1, UnderItself
  <2>2. CASE q # p
    BY <2>2, <1>1, <1>4 DEF FilesInv, MadeRecorded, Recorded
  <2> QED BY <2>1, <2>2
<1>5. ~ overwrites' => \A q \in Paths : fs[q] \in Real \/ fs'[q] \in Real => fs'[q] = fs[q]
  BY <1>1, <1>2
<1>6. ~ overwrites' => \A c \in created' : c \in created \/ fs'[c] \notin Real
  BY <1>1, <1>2
<1>7. UnrecordedRealKept
  BY <1>1, UnderItself DEF UnrecordedRealKept
<1> QED BY <1>1, <1>3, <1>4, <1>5, <1>6, <1>7, Call

\* What a call does not write to is overwritten by nobody.
LEMMA OverMarks ==
    ASSUME FilesTypeOK, NEW things, Over(things)
    PROVE  /\ overwrites' \in BOOLEAN /\ (overwrites => overwrites')
           /\ ~ overwrites' => \A x \in things : x \notin Real
  BY DEF Over, FilesTypeOK

LEMMA WriteKeeps == ASSUME FilesInv, NEW p \in Paths, Write(p) PROVE Kept
<1>1. /\ Inside /\ HasParent(p) /\ ~ IsDir(p) /\ Over({fs[p]}) /\ UNCHANGED forgets
      /\ fs' = [fs EXCEPT ![p] = "file"] /\ created' = created \cup {p}
  BY DEF Write
<1>2. overwrites' \in BOOLEAN /\ (overwrites => overwrites') /\ (~ overwrites' => fs[p] \notin Real)
  BY <1>1, OverMarks DEF FilesInv
<1> QED BY <1>1, <1>2, PutCall DEF Made

LEMMA MakeDirKeeps == ASSUME FilesInv, NEW p \in Paths, MakeDir(p) PROVE Kept
<1>1. /\ Inside /\ HasParent(p) /\ Absent(p) /\ UNCHANGED ghosts
      /\ fs' = [fs EXCEPT ![p] = "dir"] /\ created' = created \cup {p}
  BY DEF MakeDir
<1>2. ~ IsDir(p) /\ fs[p] \notin Real
  BY <1>1 DEF Absent, IsDir, Directories, Real
<1>3. UNCHANGED <<overwrites, forgets>> /\ overwrites \in BOOLEAN
  BY <1>1 DEF ghosts, FilesInv, FilesTypeOK
<1> QED BY <1>1, <1>2, <1>3, PutCall DEF Made

LEMMA CopyIntoKeeps ==
    ASSUME FilesInv, NEW src \in Paths, NEW d \in Paths, CopyInto(src, d) PROVE Kept
<1> DEFINE dst == Append(d, Last(src))
<1>1. /\ Inside /\ IsDir(d) /\ dst \in Paths /\ ~ IsDir(dst)
      /\ Over({fs[d], fs[dst]}) /\ UNCHANGED forgets
      /\ fs' = [fs EXCEPT ![dst] = "file"] /\ created' = created \cup {d, dst}
  BY DEF CopyInto
<1>2. Front(dst) = d
  BY <1>1, Child, LastName
<1> HIDE DEF dst
<1>3. HasParent(dst)
  BY <1>1, <1>2 DEF HasParent
<1>4. /\ overwrites' \in BOOLEAN /\ (overwrites => overwrites')
      /\ ~ overwrites' => fs[d] \notin Real /\ fs[dst] \notin Real
  BY <1>1, OverMarks DEF FilesInv
<1>5. PICK more \in SUBSET Paths : more = {d, dst}
  BY <1>1
<1>6. dst \in more /\ created' = created \cup more
  BY <1>1, <1>5
<1>7. ~ overwrites' => \A q \in more : fs[q] \notin Real
  BY <1>4, <1>5
<1>8. PICK kind \in Made : kind = "file"
  BY DEF Made
<1>9. fs' = [fs EXCEPT ![dst] = kind]
  BY <1>1, <1>8
<1>10. /\ FilesInv /\ Inside /\ dst \in Paths /\ HasParent(dst) /\ ~ IsDir(dst)
       /\ overwrites' \in BOOLEAN /\ (overwrites => overwrites') /\ UNCHANGED forgets
  BY <1>1, <1>3, <1>4
<1> QED BY <1>6, <1>7, <1>9, <1>10, PutCall

LEMMA MakeDirAgainKeeps == ASSUME FilesInv, NEW p \in Paths, MakeDirAgain(p) PROVE Kept
<1>1. /\ Inside /\ Over({fs[p]}) /\ created' = created \cup {p} /\ UNCHANGED <<fs, forgets>>
  BY DEF MakeDirAgain
<1>2. overwrites' \in BOOLEAN /\ (overwrites => overwrites') /\ (~ overwrites' => fs[p] \notin Real)
  BY <1>1, OverMarks DEF FilesInv
<1>3. /\ fs' \in [Paths -> Kinds] /\ WellFormed(fs') /\ created' \subseteq Paths /\ forgets' \in BOOLEAN
      /\ context' = "inside"
  BY <1>1 DEF FilesInv, FilesTypeOK, WellFormed, Kinds, Inside
<1>4. ~ forgets' => \A q \in Paths : fs'[q] \in Made => \E c \in created' : Under(q, c)
  BY <1>1 DEF FilesInv, MadeRecorded, Recorded
<1>5. UnrecordedRealKept
  BY <1>1 DEF UnrecordedRealKept
<1> QED BY <1>1, <1>2, <1>3, <1>4, <1>5, Call

LEMMA DeleteKeeps == ASSUME FilesInv, NEW p \in Paths, Delete(p) PROVE Kept
<1>1. /\ context = "inside" /\ context' = "inside" /\ p \in created /\ IsEmpty(p)
      /\ fs' = [fs EXCEPT ![p] = "absent"] /\ created' = created \ {p}
      /\ UNCHANGED <<overwrites, forgets>>
  BY DEF Delete, Guarded, Inside, ghosts
<1>2. fs' \in [Paths -> Kinds] /\ \A q \in Paths : fs'[q] = IF q = p THEN "absent" ELSE fs[q]
  BY <1>1 DEF FilesInv, FilesTypeOK, Kinds
<1>3. ASSUME NEW q \in Paths, q # p, ~ Absent(q) PROVE ~ Under(q, p)
  BY <1>1, <1>3 DEF IsEmpty, Below
<1>4. WellFormed(fs')
  <2> SUFFICES ASSUME NEW q \in Paths, fs'[q] # "absent", Len(q) > 1
               PROVE  fs'[Front(q)] \in Directories
    BY DEF WellFormed
  <2>1. q # p /\ ~ Absent(q) /\ fs[Front(q)] \in Directories /\ Front(q) \in Paths /\ Under(q, Front(q))
    BY <1>2, Parent DEF Absent, FilesInv, FilesTypeOK, WellFormed
  <2>2. Front(q) # p
    BY <2>1, <1>3
  <2> QED BY <2>1, <2>2, <1>2
<1>5. /\ created' \subseteq Paths /\ overwrites' \in BOOLEAN /\ forgets' \in BOOLEAN
      /\ overwrites => overwrites'
  BY <1>1 DEF FilesInv, FilesTypeOK
<1>6. ASSUME ~ forgets', NEW q \in Paths, fs'[q] \in Made
      PROVE  \E c \in created' : Under(q, c)
  <2>1. q # p /\ fs[q] \in Made /\ ~ Absent(q)
    BY <1>2, <1>6 DEF Made, Absent
  <2>2. PICK c \in created : Under(q, c)
    BY <2>1, <1>1, <1>6 DEF FilesInv, MadeRecorded, Recorded
  <2>3. c # p
    BY <2>1, <2>2, <1>3
  <2> QED BY <2>2, <2>3, <1>1
<1>7. ~ overwrites' => fs[p] \notin Real
  BY <1>1 DEF FilesInv, RealApart
<1>8. ~ overwrites' => \A q \in Paths : fs[q] \in Real \/ fs'[q] \in Real => fs'[q] = fs[q]
  BY <1>2, <1>7 DEF Real
<1>9. UnrecordedRealKept
  BY <1>1, <1>2, UnderItself DEF UnrecordedRealKept
<1> QED BY <1>1, <1>2, <1>4, <1>5, <1>6, <1>8, <1>9, Call

LEMMA RemoveTreeKeeps == ASSUME FilesInv, NEW p \in Paths, RemoveTree(p) PROVE Kept
<1>1. /\ context' = "inside" /\ created' = created \ {p} /\ forgets' = TRUE
      /\ UNCHANGED <<fs, overwrites>>
  BY DEF RemoveTree, Guarded, Inside
<1>2. /\ fs' \in [Paths -> Kinds] /\ WellFormed(fs') /\ created' \subseteq Paths
      /\ overwrites' \in BOOLEAN /\ (overwrites => overwrites')
  BY <1>1 DEF FilesInv, FilesTypeOK, WellFormed, Kinds
<1>3. UnrecordedRealKept
  BY <1>1 DEF UnrecordedRealKept
<1> QED BY <1>1, <1>2, <1>3, Call

\* What a move must show: the path moved to is recorded, the one moved from forgotten.
LEMMA MoveCall ==
    ASSUME FilesInv, NEW src \in Paths, NEW dst \in Paths, Guarded(src), Movable(src, dst),
           fs' = Moved(src, dst),
           created' \subseteq Paths, forgets' \in BOOLEAN,
           overwrites' \in BOOLEAN, overwrites => overwrites',
           ~ forgets' => ~ forgets /\ src # dst,
           ~ overwrites' /\ src # dst => fs[dst] \notin Real,
           src # dst => dst \in created',
           \A c \in created : c # src => c \in created',
           ~ overwrites' => \A c \in created' : c \in created \/ c = dst \/ fs[c] \notin Real
    PROVE  Kept
<1> DEFINE tree == Moved(src, dst)
<1>1. /\ tree \in [Paths -> Kinds] /\ WellFormed(tree)
      /\ \A p \in Paths :
            /\ Under(p, dst) =>
                    tree[p] = "absent" \/ \E r \in Paths : Under(r, src) /\ tree[p] = fs[r]
            /\ ~ Under(p, dst) /\ Under(p, src) => tree[p] = "absent"
            /\ ~ Under(p, dst) /\ ~ Under(p, src) => tree[p] = fs[p]
  BY MovedTree DEF FilesInv
<1> HIDE DEF tree
<1>2. tree = fs'
  BY DEF tree
<1>3. context = "inside" /\ context' = "inside" /\ src \in created
  BY DEF Guarded, Inside
<1>4. ASSUME ~ overwrites', NEW p \in Paths, Under(p, src) PROVE fs[p] \notin Real
  BY <1>3, <1>4, AboveAreReal DEF FilesInv
<1>5. ASSUME ~ overwrites', NEW p \in Paths, Under(p, dst) PROVE fs[p] \notin Real
  BY <1>3, <1>5, AboveAreReal DEF FilesInv
<1>6. "absent" \notin Real /\ "absent" \notin Made
  BY DEF Real, Made
<1>7. ASSUME ~ overwrites', NEW p \in Paths, fs[p] \in Real \/ fs'[p] \in Real
      PROVE  fs'[p] = fs[p]
  <2>1. CASE Under(p, dst)
    <3>1. fs[p] \notin Real
      BY <2>1, <1>5, <1>7
    <3>2. fs'[p] \notin Real
      BY <2>1, <1>1, <1>2, <1>4, <1>6, <1>7
    <3> QED BY <3>1, <3>2, <1>7
  <2>2. CASE ~ Under(p, dst) /\ Under(p, src)
    BY <2>2, <1>1, <1>2, <1>4, <1>6, <1>7
  <2>3. CASE ~ Under(p, dst) /\ ~ Under(p, src)
    BY <2>3, <1>1, <1>2
  <2> QED BY <2>1, <2>2, <2>3
<1>8. ASSUME ~ overwrites', NEW c \in created' PROVE c \in created \/ fs'[c] \notin Real
  <2>1. c \in Paths
    BY <1>8
  <2>2. CASE c = dst
    <3>1. fs[dst] \notin Real
      BY <1>5, <1>8, UnderItself
    <3> QED BY <2>1, <2>2, <3>1, <1>7, <1>8
  <2>3. CASE c # dst /\ c \notin created
    <3>1. fs[c] \notin Real
      BY <2>3, <1>8
    <3> QED BY <2>1, <3>1, <1>7, <1>8
  <2> QED BY <2>2, <2>3
<1>9. ASSUME ~ forgets', NEW p \in Paths, fs'[p] \in Made
      PROVE  \E c \in created' : Under(p, c)
  <2>1. CASE Under(p, dst)
    BY <2>1, <1>9
  <2>2. CASE ~ Under(p, dst)
    <3>1. ~ Under(p, src) /\ fs[p] \in Made
      BY <2>2, <1>1, <1>2, <1>6, <1>9
    <3>2. PICK c \in created : Under(p, c)
      BY <3>1, <1>9 DEF FilesInv, MadeRecorded, Recorded
    <3> QED BY <3>1, <3>2
  <2> QED BY <2>1, <2>2
<1>10. UnrecordedRealKept
  <2> SUFFICES ASSUME NEW p \in Paths, ~ (\E c \in created \cup created' : Under(p, c))
               PROVE  fs'[p] = fs[p]
    BY DEF UnrecordedRealKept
  <2>1. ~ Under(p, src) /\ ~ Under(p, dst)
    BY <1>3
  <2> QED BY <2>1, <1>1, <1>2
<1>11. fs' \in [Paths -> Kinds] /\ WellFormed(fs')
  BY <1>1, <1>2
<1> QED BY <1>3, <1>7, <1>8, <1>9, <1>10, <1>11, Call

LEMMA MovesMark ==
    ASSUME FilesTypeOK, NEW src, NEW dst, Moves(src, dst)
    PROVE  /\ overwrites' \in BOOLEAN /\ (overwrites => overwrites')
           /\ ~ overwrites' /\ src # dst => fs[dst] \notin Real
           /\ forgets' \in BOOLEAN /\ (~ forgets' => ~ forgets /\ src # dst)
<1>1. /\ overwrites' \in BOOLEAN /\ (overwrites => overwrites')
      /\ ~ overwrites' => \A x \in IF src = dst THEN {} ELSE {fs[dst]} : x \notin Real
  BY OverMarks DEF Moves
<1> QED BY <1>1 DEF Moves, FilesTypeOK

LEMMA RenameKeeps ==
    ASSUME FilesInv, NEW src \in Paths, NEW dst \in Paths,
           Rename(src, dst) \/ RenamePath(src, dst)
    PROVE  Kept
<1>1. /\ Guarded(src) /\ Movable(src, dst) /\ Moves(src, dst) /\ fs' = Moved(src, dst)
      /\ \/ created' = (created \cup {dst}) \ {src}
         \/ created' = (created \ {src}) \cup {dst}
  BY DEF Rename, RenamePath
<1>2. /\ overwrites' \in BOOLEAN /\ (overwrites => overwrites')
      /\ ~ overwrites' /\ src # dst => fs[dst] \notin Real
      /\ forgets' \in BOOLEAN /\ (~ forgets' => ~ forgets /\ src # dst)
  BY <1>1, MovesMark DEF FilesInv
<1>3. /\ created' \subseteq Paths
      /\ src # dst => dst \in created'
      /\ \A c \in created : c # src => c \in created'
      /\ \A c \in created' : c \in created \/ c = dst
  BY <1>1 DEF FilesInv, FilesTypeOK
<1> QED BY <1>1, <1>2, <1>3, MoveCall

LEMMA MoveIntoKeeps ==
    ASSUME FilesInv, NEW src \in Paths, NEW d \in Paths, MoveInto(src, d) PROVE Kept
<1> DEFINE dst == Append(d, Last(src))
<1>1. /\ Guarded(src) /\ dst \in Paths /\ Absent(dst) /\ Movable(src, dst)
      /\ Over({fs[d]}) /\ UNCHANGED forgets /\ fs' = Moved(src, dst)
      /\ created' = (created \cup {d, dst}) \ {src}
  BY DEF MoveInto
<1> HIDE DEF dst
<1>2. src # dst /\ fs[dst] \notin Real
  BY <1>1 DEF Movable, Absent, Real
<1>3. /\ overwrites' \in BOOLEAN /\ (overwrites => overwrites')
      /\ ~ overwrites' => fs[d] \notin Real
  BY <1>1, OverMarks DEF FilesInv
<1>4. forgets' \in BOOLEAN /\ (~ forgets' => ~ forgets /\ src # dst)
  BY <1>1, <1>2 DEF FilesInv, FilesTypeOK
<1>5. /\ created' \subseteq Paths
      /\ dst \in created'
      /\ \A c \in created : c # src => c \in created'
      /\ \A c \in created' : c \in created \/ c = dst \/ c = d
  BY <1>1, <1>2 DEF FilesInv, FilesTypeOK
<1>6. ~ overwrites' => \A c \in created' : c \in created \/ c = dst \/ fs[c] \notin Real
  BY <1>3, <1>5
<1> QED BY <1>1, <1>2, <1>3, <1>4, <1>5, <1>6, MoveCall

LEMMA ExitKeeps == ASSUME FilesInv, Exit PROVE Kept
<1>1. /\ context' = "left" /\ created' = {} /\ UNCHANGED <<overwrites, forgets>>
      /\ fs' = [p \in Paths |-> IF Recorded(p) THEN "absent" ELSE fs[p]]
  BY DEF Exit, Cleaned, Recorded, ghosts
<1>2. /\ fs' \in [Paths -> Kinds]
      /\ \A p \in Paths : fs'[p] = IF Recorded(p) THEN "absent" ELSE fs[p]
  BY <1>1 DEF FilesInv, FilesTypeOK, Kinds
<1>3. /\ created' \subseteq Paths /\ overwrites' \in BOOLEAN /\ forgets' \in BOOLEAN
      /\ overwrites => overwrites'
  BY <1>1 DEF FilesInv, FilesTypeOK
<1>4. WellFormed(fs')
  <2> SUFFICES ASSUME NEW p \in Paths, fs'[p] # "absent", Len(p) > 1
               PROVE  fs'[Front(p)] \in Directories
    BY DEF WellFormed
  <2>1. ~ Recorded(p) /\ fs[Front(p)] \in Directories /\ Front(p) \in Paths
    BY <1>2, Parent DEF FilesInv, FilesTypeOK, WellFormed
  <2>2. ~ Recorded(Front(p))
    BY <2>1, Parent DEF Recorded, FilesInv, FilesTypeOK
  <2> QED BY <2>1, <2>2, <1>2
<1>5. ASSUME ~ forgets', NEW p \in Paths PROVE fs'[p] \notin Made
  BY <1>1, <1>2, <1>5 DEF FilesInv, MadeRecorded, Made
<1>6. ASSUME ~ overwrites', NEW p \in Paths, fs[p] \in Real \/ fs'[p] \in Real
      PROVE  fs'[p] = fs[p]
  <2>1. fs[p] \in Real
    BY <1>2, <1>6 DEF Real
  <2>2. ~ Recorded(p)
    BY <2>1, <1>1, <1>6, AboveAreReal DEF Recorded, FilesInv, FilesTypeOK
  <2> QED BY <2>2, <1>2
<1>7. UnrecordedRealKept
  BY <1>2 DEF UnrecordedRealKept, Recorded
<1> QED BY <1>1, <1>2, <1>3, <1>4, <1>5, <1>6, <1>7, Call

LEMMA FilesStutter == ASSUME FilesInv, UNCHANGED filesVars PROVE Kept
  BY DEF filesVars, ghosts, Kept, FilesInv, FilesTypeOK, WellFormed, MadeRecorded, Recorded,
         RealApart, UnrecordedRealKept, KeptUnlessOverwritten

--------------------------------------------------------------------------------
(* The test case                                                            *)

LEMMA FilesInitially == FilesInit => FilesInv
<1> SUFFICES ASSUME FilesInit PROVE FilesInv
  OBVIOUS
<1>1. /\ fs \in [Paths -> {"absent"} \cup Real] /\ WellFormed(fs)
      /\ created = {} /\ context = "inside" /\ overwrites = FALSE /\ forgets = FALSE
  BY DEF FilesInit
<1>2. FilesTypeOK
  <2>1. fs \in [Paths -> {"absent"} \cup Real \cup Made]
    BY <1>1
  <2> QED BY <1>1, <2>1 DEF FilesTypeOK
<1>3. \A p \in Paths : fs[p] \notin Made
  BY <1>1 DEF Real, Made
<1>4. ASSUME NEW p \in Paths, fs[p] \in Real, Len(p) > 1 PROVE fs[Front(p)] = "realDir"
  <2>1. fs[Front(p)] \in Directories /\ Front(p) \in Paths
    BY <1>1, <1>4, Parent DEF WellFormed, Real
  <2> QED BY <2>1, <1>3 DEF Directories, Made
<1> QED BY <1>1, <1>2, <1>3, <1>4 DEF FilesInv, MadeRecorded, RealApart

LEMMA FilesStep == FilesInv /\ [FilesNext]_filesVars => Kept
<1> SUFFICES ASSUME FilesInv, [FilesNext]_filesVars PROVE Kept
  OBVIOUS
<1>1. CASE \E p \in Paths :
            Write(p) \/ MakeDir(p) \/ MakeDirAgain(p) \/ Delete(p) \/ RemoveTree(p)
  BY <1>1, WriteKeeps, MakeDirKeeps, MakeDirAgainKeeps, DeleteKeeps, RemoveTreeKeeps
<1>2. CASE \E p, q \in Paths :
            CopyInto(p, q) \/ Rename(p, q) \/ RenamePath(p, q) \/ MoveInto(p, q)
  BY <1>2, CopyIntoKeeps, RenameKeeps, MoveIntoKeeps
<1>3. CASE Exit
  BY <1>3, ExitKeeps
<1>4. CASE UNCHANGED filesVars
  BY <1>4, FilesStutter
<1> QED BY <1>1, <1>2, <1>3, <1>4 DEF FilesNext, FilesTerminated

\* What a test case has made lies below what is recorded, and what stood there before
\* does not, unless the test case overwrites it: whatever it calls, in any order.
THEOREM FilesInvariance == FilesSpec => []FilesInv
<1>1. FilesInv /\ [FilesNext]_filesVars => FilesInv'
  BY FilesStep DEF Kept
<1> QED BY <1>1, FilesInitially, PTL DEF FilesSpec

\* The isolation deletes everything the test case has created, and touches nothing that
\* stood there outside of what is recorded, for trees of any depth (fs_isolation.py).
THEOREM FilesCleanedUp == FilesSpec => FilesAreCleanedUp
<1>1. FilesInv => FilesTypeOK /\ CleanedUp
  BY DEF FilesInv, MadeRecorded, CleanedUp
<1>2. FilesInv /\ [FilesNext]_filesVars => [UnrecordedRealKept /\ KeptUnlessOverwritten]_filesVars
  BY FilesStep DEF Kept
<1> QED BY <1>1, <1>2, FilesInvariance, PTL DEF FilesSpec, FilesAreCleanedUp
================================================================================
