------------------------------ MODULE MCControlFlow ------------------------------
(* All code objects of three blocks that a compiler emits, with every choice of *)
(* excluded blocks and conditions.                                              *)
EXTENDS ControlFlow

B(op, to, when) == [op |-> op, to |-> to, when |-> when, yields |-> FALSE, covered |-> TRUE, condition |-> TRUE]
\* the blocks that position i of n may hold; loops leave forward, nothing falls off the end
Kinds(i, n) ==
  {B("RETURN", 0, FALSE)} \cup {B("JUMP", t, FALSE) : t \in 1..n}
  \cup (IF i = n THEN {} ELSE {B("NEXT", 0, FALSE)} \cup {B("IF", t, w) : t \in 2..n, w \in BOOLEAN}
                              \cup {B("TRY", t, FALSE) : t \in i+1..n} \cup {B("FOR", t, FALSE) : t \in i+2..n})
Shapes(n) == {s \in [1..n -> UNION {Kinds(i, n) : i \in 1..n}] : \A i \in 1..n : s[i] \in Kinds(i, n)}
Live(blocks) == Reached(_create_nodes_and_edges(blocks), {1}) = DOMAIN blocks
\* only the head of a loop leads to its body
EntersItself(s) == \A f \in DOMAIN s : s[f].op = "FOR" => ~\E i \in DOMAIN s : s[i].to = f + 1
Real(n) == {s \in Shapes(n) : Live(s) /\ EntersItself(s)}
\* nothing falls into the natural exit of a loop
NoBreakIntoExit(s) == \A f \in DOMAIN s : s[f].op = "FOR" => s[s[f].to - 1].op \notin {"NEXT", "IF", "TRY"}
\* from Python 3.12 on, the compiler itself keeps a block for the natural exit
OwnExit(s) == \A f \in DOMAIN s : s[f].op = "FOR" => ~\E i \in DOMAIN s \ {f} : s[i].to = s[f].to
Excluding(s) == {[i \in DOMAIN s |-> [s[i] EXCEPT !.covered = c[i], !.condition = d[i]]] :
                   c \in [DOMAIN s -> BOOLEAN], d \in {x \in [DOMAIN s -> BOOLEAN] : \A i \in DOMAIN s : ~is_conditional_jump(s[i]) => x[i]}}
Yielding(s) == {[s EXCEPT ![i].yields = TRUE] : i \in DOMAIN s}
\* a condition that gets an edge to the exit besides its branches: it yields, or begins an endless loop
LeavesItself(s) == \E i \in DOMAIN s : is_conditional_jump(s[i]) /\ <<i, EXIT>> \in DOMAIN from_bytecode(s).edges
Three == {s \in Real(3) : ~LeavesItself(s)}
P(s, nops) == [nops |-> nops, blocks |-> s]
Given(nops) == {s \in Three : NoBreakIntoExit(s) /\ (nops \/ OwnExit(s))}
MCPrograms ==
  {P(s, FALSE) : s \in UNION {Excluding(x) : x \in Given(FALSE)}}
  \cup {P(s, TRUE) : s \in Given(TRUE)}
  \cup {P(s, FALSE) : s \in {y \in UNION {Yielding(x) : x \in Given(FALSE)} : ~LeavesItself(y)}}
BreakPrograms == {P(s, TRUE) : s \in {x \in Real(3) : ~NoBreakIntoExit(x)}}
YieldPrograms == {P(s, FALSE) : s \in UNION {Yielding(x) : x \in Given(FALSE)}}
====
