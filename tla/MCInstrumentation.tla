---------------------------- MODULE MCInstrumentation ----------------------------
(* Blocks for every instruction the adapters know, in the versions that have it, *)
(* with the choices of adapters.  Those that MCPrograms leaves out show where    *)
(* the rewritten code and the original one differ.                               *)
EXTENDS Instrumentation

O(n) == <<"obj", n>>
Line(first, l) == [i \in DOMAIN l |-> [op |-> l[i][1], arg |-> l[i][2], line |-> l[i][3], id |-> first + i]]
Vars == [x |-> O("x"), y |-> O("y"), s |-> O("s"), i |-> Unbound, n |-> None, E |-> O("E"), kwnames |-> None]
Last2 == <<<<"LOAD_CONST", None, 3>>, <<"RETURN_VALUE", 0, 3>>>>
All == {1, 2, 3}
P(v, main, stk, metrics) ==
  [version |-> v, main |-> Line(0, main), next |-> Line(100, Last2), target |-> Line(200, Last2),
   stack |-> stk, frame |-> Vars, holds |-> {}, true |-> {}, more |-> FALSE, lines |-> All, conditions |-> All,
   adapters |-> metrics]
Metrics == {{"BRANCH"}, {"LINE"}, {"CHECKED"}, {"BRANCH", "LINE", "CHECKED"}}
Versions == 10..14
F(n, line) == <<"LOAD_FAST", n, line>>
Holding(p, h, t) == [p EXCEPT !.holds = h, !.true = t]
LT == <<O("x"), "LT", O("y")>>
Match == <<O("e"), "MATCH", O("E")>>
Compare(v, m) == P(v, <<F("x", 1), F("y", 2), <<"COMPARE_OP", "LT", 1>>, <<"POP_JUMP_IF_FALSE", 0, 1>>>>, <<>>, m)
Compares == {Holding(Compare(v, m), h, {}) : v \in Versions, m \in Metrics \cup {{"BRANCH", "SEEDING"}, {"LINE", "SEEDING"}},
             h \in {{}, {LT}}}
Bools == {Holding(P(v, <<F("x", 1)>> \o (IF v >= 13 THEN <<<<"TO_BOOL", 0, 1>>>> ELSE <<>>) \o <<<<"POP_JUMP_IF_TRUE", 0, 1>>>>, <<>>, m), {}, t) :
           v \in Versions, m \in Metrics, t \in {{}, {"obj", "result"}}}
Excs == {Holding(P(v, <<<<"LOAD_GLOBAL", "E", 1>>>> \o (IF v = 10 THEN <<<<"JUMP_IF_NOT_EXC_MATCH", 0, 1>>>>
            ELSE <<<<"CHECK_EXC_MATCH", 0, 1>>, <<"POP_JUMP_IF_FALSE", 0, 1>>>>), <<O("e")>>, m), h, {}) :
          v \in Versions, m \in Metrics, h \in {{}, {Match}}}
OnNone(op) == {P(v, <<F(n, 1), <<op, 0, 1>>>>, <<>>, m) : v \in 11..14, m \in Metrics, n \in {"x", "n"}}
Exit(v) == CASE v <= 11 -> <<<<"NOP", 0, 1>>>>
             [] v = 12 -> <<<<"END_FOR", 0, 1>>>>
             [] v = 13 -> <<<<"END_FOR", 0, 1>>, <<"POP_TOP", 0, 1>>>>
             [] OTHER -> <<<<"END_FOR", 0, 1>>, <<"POP_ITER", 0, 1>>>>
Loops == {[P(v, <<<<"FOR_ITER", 0, 1>>>>, <<O("it")>>, m) EXCEPT
             !.next = Line(100, <<<<"STORE_FAST", "i", 1>>, F("i", 2), <<"RETURN_VALUE", 0, 2>>>>),
             !.target = Line(200, Exit(v) \o Last2), !.more = more] : v \in Versions, m \in Metrics, more \in BOOLEAN}
Attrs == {P(v, <<F("x", 1), <<"LOAD_ATTR", "a", 1>>, F("y", 1), <<"STORE_ATTR", "b", 1>>, F("x", 2), <<"DELETE_ATTR", "b", 2>>>>, <<>>, m) :
           v \in Versions, m \in Metrics}
Subs == {P(v, <<F("x", 1), F("y", 1), <<"BINARY_SUBSCR", 0, 1>>, F("x", 1), F("y", 1), <<"STORE_SUBSCR", 0, 1>>,
                F("x", 2), F("s", 2), <<"DELETE_SUBSCR", 0, 2>>>>, <<>>, m) : v \in Versions, m \in Metrics}
Slice(op) == {P(v, <<F("s", 1), F("x", 1), F("y", 1), F("n", 1), <<op, 0, 1>>>>, <<>>, m) : v \in 12..14, m \in Metrics}
Names == {P(v, <<F("x", 1), <<"STORE_FAST", "i", 1>>, <<"LOAD_NAME", "i", 1>>, <<"STORE_GLOBAL", "y", 1>>, <<"DELETE_GLOBAL", "y", 1>>,
                 <<"LOAD_DEREF", "x", 2>>, <<"STORE_DEREF", "s", 2>>, <<"DELETE_FAST", "i", 2>>, F("x", 2), F("n", 2),
                 <<"IMPORT_NAME", "m", 2>>, <<"IMPORT_FROM", "f", 2>>, <<"STORE_NAME", "E", 2>>, <<"POP_TOP", 0, 3>>,
                 <<"LOAD_CLASSDEREF", "x", 3>>>>, <<>>, m) : v \in 10..11, m \in Metrics}
Names12 == {P(v, <<<<"LOAD_FAST_AND_CLEAR", "x", 1>>, <<"LOAD_LOCALS", 0, 1>>, <<"LOAD_FROM_DICT_OR_DEREF", "y", 1>>,
                   <<"LOAD_FAST_CHECK", "s", 2>>, F("s", 2), F("y", 2), <<"LOAD_SUPER_ATTR", "a", 2>>,
                   <<"LOAD_CONST", None, 3>>, <<"IMPORT_NAME", "m", 3>>>>, <<>>, m) : v \in 12..14, m \in Metrics}
Pairs == {P(v, <<<<"LOAD_FAST_LOAD_FAST", <<"x", "y">>, 1>>, <<"STORE_FAST_STORE_FAST", <<"i", "s">>, 1>>,
                 F("n", 1), <<"STORE_FAST_LOAD_FAST", <<"i", "x">>, 1>>>>, <<>>, m) : v \in 13..14, m \in Metrics}
Borrows == {P(14, <<<<"LOAD_FAST_BORROW_LOAD_FAST_BORROW", <<"x", "y">>, 1>>, <<"LOAD_FAST_BORROW", "s", 1>>>>, <<>>, m) : m \in Metrics}
Method(v) == IF v >= 12 THEN "LOAD_ATTR_METHOD" ELSE "LOAD_METHOD"
Call(v, n, kw) == (IF kw /\ v \in {11, 12} THEN <<<<"KW_NAMES", <<"k">>, 1>>>> ELSE <<>>)
  \o (IF v = 11 THEN <<<<"PRECALL", n, 1>>>> ELSE <<>>) \o <<<<IF v = 10 THEN "CALL_METHOD" ELSE "CALL", n, 1>>>>
CallsOf == {P(v, <<F("x", 1), <<Method(v), "f", 1>>, F("y", 1)>> \o Call(v, 1, TRUE), <<>>, m) : v \in Versions, m \in Metrics}
Test(v) == (IF v >= 13 THEN <<<<"TO_BOOL", 0, 1>>>> ELSE <<>>) \o <<<<"POP_JUMP_IF_FALSE", 0, 1>>>>
Strings(ms) == {P(v, <<F("s", 1), <<Method(v), "isalnum", 1>>>> \o Call(v, 0, FALSE) \o Test(v), <<>>, m) : v \in Versions, m \in ms}
 \cup {P(v, <<F("s", 1), <<Method(v), f, 1>>, F("x", 1)>> \o Call(v, 1, FALSE) \o Test(v), <<>>, m) : v \in Versions, m \in ms, f \in {"startswith", "endswith"}}
Missing == {P(v, <<<<IF v >= 12 THEN "LOAD_FAST_CHECK" ELSE "LOAD_FAST", "i", 1>>>> \o <<<<"RETURN_VALUE", 0, 1>>>>, <<>>, m) : v \in Versions, m \in Metrics}
Uncovered == {[Compare(v, m) EXCEPT !.lines = l, !.conditions = c] : v \in Versions, m \in Metrics \cup {{"SEEDING"}},
               l \in {{}, {2, 3}, {1, 3}}, c \in {{}, All}}
\* an item is compared or is the condition itself; the key may be there or not
Item == <<"result", "BINARY_SUBSCR", <<O("x"), O("y")>>>>
Items == {Holding(P(10, <<F("x", 1), F("y", 1), <<"BINARY_SUBSCR", 0, 1>>>> \o condition \o <<<<"POP_JUMP_IF_FALSE", 0, 1>>>>, <<>>, m), h, t) :
            condition \in {<<>>, <<F("s", 2), <<"COMPARE_OP", "LT", 1>>>>}, m \in Metrics,
            h \in SUBSET {<<O("y"), "IN", O("x")>>, <<Item, "LT", O("s")>>}, t \in {{}, {"result"}}}
MCPrograms == UNION {Compares, Bools, Excs, OnNone("POP_JUMP_IF_NOT_NONE"), Loops, Attrs, Subs, Slice("STORE_SLICE"), Names, Names12,
                     Pairs, Borrows, CallsOf, Missing, Items, Strings({{"SEEDING"}, {"LINE", "SEEDING"}}), Uncovered}
SlicePrograms == Slice("BINARY_SLICE")
ItemPrograms == Items
NonePrograms == OnNone("POP_JUMP_IF_NONE")
StringPrograms == Strings({{"BRANCH", "SEEDING"}})
ClearPrograms == {[p EXCEPT !.frame.x = Unbound] : p \in Names12}
====
