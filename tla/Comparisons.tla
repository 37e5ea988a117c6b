------------------------------ MODULE Comparisons ------------------------------
(* A program under test that evaluates one condition, with the tracer asked     *)
(* before it (instrumentation/tracer.py, executed_compare_predicate and         *)
(* executed_bool_predicate).                                                    *)
EXTENDS BranchDistance

CONSTANT Values         \* the operands

VARIABLES condition,    \* operator and operands
          answer        \* what the tracer computed, and what the program then did

Operators == {"EQ", "NE", "LT", "LE", "GT", "GE", "IN", "NOT_IN", "IS", "IS_NOT"}
Nothing == [status |-> "none"]

Init == condition \in [op : Operators \cup {"BOOL"}, a : Values, b : Values] /\ answer = Nothing

Compare ==
  LET c == condition
      b == LeftOver(c.op, c.a, c.b)
      d == executed_compare_predicate(c.op, c.a, c.b)
  IN  /\ answer = Nothing /\ c.op \in Operators
      /\ answer' = [status |-> d.status, true |-> d.true, false |-> d.false, defined |-> Defined(c.op, c.a, c.b),
                    taken |-> Defined(c.op, c.a, b) /\ Taken(c.op, c.a, b)]
      /\ UNCHANGED condition

executed_bool_predicate ==
  LET v == condition.a
      d == Told(DistanceToTrue(v), DistanceToFalse(v))
  IN  /\ answer = Nothing /\ condition.op = "BOOL"
      /\ answer' = [status |-> d.status, true |-> d.true, false |-> d.false, defined |-> TRUE, taken |-> Truth(v)]
      /\ UNCHANGED condition

Next == Compare \/ executed_bool_predicate
Spec == Init /\ [][Next]_<<condition, answer>>

--------------------------------------------------------------------------------
\* Of every condition the program can evaluate the tracer computes two distances
\* of which exactly one is zero, that of the side the program takes then.
OutcomeIsTold ==
  answer # Nothing /\ answer.defined => answer.status = "told" /\ (answer.true = 0) = answer.taken
===============================================================================
