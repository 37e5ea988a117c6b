----------------------------- MODULE BranchDistance -----------------------------
(* How far the values of a condition are from either outcome: the distance      *)
(* functions of instrumentation/tracer.py and utils/type_utils.py.  A distance  *)
(* is counted in sixths, so that the shares of characters that differ by one or *)
(* two are whole numbers.  A value is its type and its content: strings and     *)
(* bytes are sequences of characters 0..2, containers sequences of values.      *)
EXTENDS Integers, SequencesExt, FiniteSetsExt

CONSTANTS MaxExact,     \* whole numbers up to here, a power of two, are floats; 2^53 in CPython
          MaxFloat      \* beyond this the conversion to a float overflows

FloatAssumption == MaxExact \in Nat \ {0} /\ MaxFloat >= MaxExact /\ MaxFloat < 500

One == 6
Infinity == 6000
NaN == -1
Raised == -2            \* an exception leaves the distance function
Inf == 1000             \* the float inf, as the content of a value

Numbers == {"int", "float", "decimal"}
is_numeric(a) == a.type \in Numbers
is_string(a) == a.type = "str"
is_bytes(a) == a.type = "bytes"
Sized(a) == a.type \in {"str", "bytes", "list"}
Iterable(a) == a.type \in {"str", "bytes", "list", "iterator"}
IsNaN(a) == a.type = "float" /\ a.v = NaN

\* what Python answers
Equal(a, b) == IF is_numeric(a) /\ is_numeric(b) THEN a.v = b.v /\ ~IsNaN(a) ELSE a = b
Orderable(a, b) == (is_numeric(a) /\ is_numeric(b)) \/ (a.type = b.type /\ a.type \in {"str", "bytes"})
Before(s, t) ==
  \/ Len(s) < Len(t) /\ \A i \in DOMAIN s : s[i] = t[i]
  \/ \E i \in DOMAIN s \cap DOMAIN t : s[i] < t[i] /\ \A j \in 1..i - 1 : s[j] = t[j]
Less(a, b) == IF is_numeric(a) THEN a.v < b.v /\ ~IsNaN(a) /\ ~IsNaN(b) ELSE Before(a.v, b.v)
LessEqual(a, b) == Less(a, b) \/ Equal(a, b)
Truth(a) == CASE is_numeric(a) -> a.v # 0 [] Sized(a) -> a.v # <<>> [] OTHER -> TRUE
Elements(c) == IF c.type = "str" THEN [i \in DOMAIN c.v |-> [type |-> "str", v |-> <<c.v[i]>>]]
               ELSE IF c.type = "bytes" THEN [i \in DOMAIN c.v |-> [type |-> "int", v |-> c.v[i]]] ELSE c.v
Within(s, t) == \E i \in 0..Len(t) - Len(s) : \A j \in DOMAIN s : s[j] = t[i + j]
TestsMembership(a, c) == Iterable(c) /\ (c.type = "str" => a.type = "str")
Holds(a, c) == IF c.type = "str" THEN Within(a.v, c.v) ELSE \E i \in DOMAIN c.v : Equal(a, Elements(c)[i])
\* an iterator is used up to the first element that is equal
After(a, c) ==
  IF c.type # "iterator" THEN c
  ELSE LET found == {i \in DOMAIN c.v : Equal(a, c.v[i])}
       IN  [c EXCEPT !.v = IF found = {} THEN <<>> ELSE SubSeq(c.v, Min(found) + 1, Len(c.v))]

Abs(n) == IF n < 0 THEN -n ELSE n

\* float(): to the nearest, ties to the even one
FloatOf(n) ==
  IF n \in {Inf, -Inf} \/ Abs(n) <= MaxExact \/ n % 2 = 0 THEN n
  ELSE IF n % 4 = 1 THEN n - 1 ELSE n + 1
Overflows(a) == a.type = "int" /\ Abs(a.v) > MaxFloat

\* the difference of two floats, d is added to it
Difference(a, b, d) ==
  CASE Overflows(a) \/ Overflows(b) -> Raised
    [] IsNaN(a) \/ IsNaN(b) \/ (a.v = b.v /\ a.v \in {Inf, -Inf}) -> NaN
    [] {a.v, b.v} \cap {Inf, -Inf} # {} -> Infinity
    [] OTHER -> One * (FloatOf(a.v) - FloatOf(b.v) + d)

--------------------------------------------------------------------------------
(* type_utils.                                                                  *)

string_distance(s, t) ==
  LET aligned == DOMAIN s \cap DOMAIN t
      Share(i) == LET d == Abs(s[i] - t[i]) IN (One * d) \div (d + 1)
  IN  One * Abs(Len(s) - Len(t)) + MapThenSumSet(Share, aligned)

\* the first character that is greater, which need not be the first that differs
FirstGreater(s, t) == {i \in DOMAIN s \cap DOMAIN t : s[i] > t[i] /\ \A j \in 1..i - 1 : s[j] <= t[j]}
string_lt_distance(s, t) ==
  IF Before(s, t) THEN 0
  ELSE IF FirstGreater(s, t) = {} THEN One ELSE LET i == CHOOSE i \in FirstGreater(s, t) : TRUE IN One * (s[i] - t[i] + 1)
string_le_distance(s, t) ==
  IF Before(s, t) \/ s = t THEN 0
  ELSE IF FirstGreater(s, t) = {} THEN One ELSE LET i == CHOOSE i \in FirstGreater(s, t) : TRUE IN One * (s[i] - t[i])

--------------------------------------------------------------------------------
(* tracer.                                                                      *)

BothText(a, b) == (is_string(a) /\ is_string(b)) \/ (is_bytes(a) /\ is_bytes(b))

_eq(a, b) ==
  CASE Equal(a, b) -> 0
    [] is_numeric(a) /\ is_numeric(b) ->
         (CASE {a.type, b.type} = {"decimal", "float"} -> Raised
            [] IsNaN(a) \/ IsNaN(b) -> NaN
            [] {a.v, b.v} \cap {Inf, -Inf} # {} -> Infinity
            [] Abs(a.v - b.v) > MaxFloat -> Raised
            [] OTHER -> One * FloatOf(Abs(a.v - b.v)))
    [] BothText(a, b) -> string_distance(a.v, b.v)
    [] OTHER -> Infinity
_neq(a, b) == IF Equal(a, b) THEN One ELSE 0

\* the operands may be equal
LtWithoutStep(a, b) ==
  CASE ~Orderable(a, b) -> Raised
    [] Less(a, b) -> 0
    [] is_numeric(a) -> Difference(a, b, 0)
    [] OTHER -> string_lt_distance(a.v, b.v)
_lt(a, b) ==
  CASE ~Orderable(a, b) -> Raised
    [] Less(a, b) -> 0
    [] is_numeric(a) -> Difference(a, b, 1)
    [] OTHER -> string_lt_distance(a.v, b.v)
_le(a, b) ==
  CASE ~Orderable(a, b) -> Raised
    [] LessEqual(a, b) -> 0
    [] is_numeric(a) -> Difference(a, b, 0)
    [] OTHER -> string_le_distance(a.v, b.v)

_in(a, c) ==
  CASE TestsMembership(a, c) /\ Holds(a, c) -> 0
    [] ~Iterable(c) \/ c.type = "iterator" -> Infinity
    [] OTHER -> LET d == {_eq(a, Elements(c)[i]) : i \in DOMAIN c.v} \cup {Infinity}
                IN  IF Raised \in d THEN Raised ELSE IF NaN \in d THEN NaN ELSE Min(d)
_nin(a, c) == IF TestsMembership(a, c) /\ Holds(a, c) THEN One ELSE 0

_is(a, b) == IF a = b THEN 0 ELSE One
_isn(a, b) == IF a # b THEN 0 ELSE One

\* executed_bool_predicate
DistanceToFalse(a) ==
  CASE ~Truth(a) -> 0
    [] Sized(a) -> One * Len(a.v)
    [] is_numeric(a) -> IF IsNaN(a) THEN NaN ELSE IF a.v \in {Inf, -Inf} THEN Infinity
                        ELSE IF Abs(a.v) > MaxFloat THEN Raised ELSE One * FloatOf(Abs(a.v))
    [] OTHER -> Infinity
DistanceToTrue(a) == IF Truth(a) THEN 0 ELSE One

--------------------------------------------------------------------------------
(* One comparison as the tracer makes it: the two distances, and the values as  *)
(* the program under test finds them afterwards.                                *)

Told(t, f) ==
  [status |-> IF Raised \in {t, f} THEN "raised"
              ELSE IF NaN \in {t, f} \/ (t = 0) = (f = 0) THEN "assertion" ELSE "told",
   true |-> t, false |-> f]

executed_compare_predicate(op, a, b) ==
  LET rest == After(a, b)                  \* an iterator, after it has been asked once
  IN  CASE op = "EQ" -> Told(_eq(a, b), _neq(a, b))
        [] op = "NE" -> Told(_neq(a, b), _eq(a, b))
        [] op = "LT" -> Told(_lt(a, b), _le(b, a))
        [] op = "LE" -> Told(_le(a, b), _lt(b, a))
        [] op = "GT" -> Told(_lt(b, a), _le(a, b))
        [] op = "GE" -> Told(_le(b, a), _lt(a, b))
        [] op = "IN" -> Told(_in(a, b), _nin(a, rest))
        [] op = "NOT_IN" -> Told(_nin(a, b), _in(a, rest))
        [] op = "IS" -> Told(_is(a, b), _isn(a, b))
        [] op = "IS_NOT" -> Told(_isn(a, b), _is(a, b))

\* what is left of b for the program when it makes the comparison itself
LeftOver(op, a, b) == IF op \in {"IN", "NOT_IN"} THEN After(a, After(a, b)) ELSE b

Defined(op, a, b) ==
  CASE op \in {"LT", "LE", "GT", "GE"} -> Orderable(a, b)
    [] op \in {"IN", "NOT_IN"} -> TestsMembership(a, b)
    [] OTHER -> TRUE
Taken(op, a, b) ==
  CASE op = "EQ" -> Equal(a, b) [] op = "NE" -> ~Equal(a, b)
    [] op = "LT" -> Less(a, b) [] op = "LE" -> LessEqual(a, b)
    [] op = "GT" -> Less(b, a) [] op = "GE" -> LessEqual(b, a)
    [] op = "IN" -> Holds(a, b) [] op = "NOT_IN" -> ~Holds(a, b)
    [] op = "IS" -> a = b [] op = "IS_NOT" -> a # b
===============================================================================
