-------------------------------- MODULE MCSlicer --------------------------------
(* Programs of a few statements, compiled to blocks.                            *)
EXTENDS Slicer, FiniteSetsExt

I(op, arg) == [op |-> op, arg |-> arg, to |-> 0, line |-> 0]
J(op, to) == [op |-> op, arg |-> "", to |-> to, line |-> 0]

\* expressions in a function (FAST and GLOBAL variables) or a statement (NAME)
L(scope, x) == I("LOAD_" \o scope, x)
S(scope, x) == I("STORE_" \o scope, x)
Const == <<I("LOAD_CONST", "")>>
Arg(scope, x) == <<L(scope, x)>>
Call(f, e) == e \o <<J("CALL_FUNCTION", f)>>
Assign(scope, x, e) == e \o <<S(scope, x)>>
SetAttr(scope, o, e) == e \o <<L(scope, o), I("STORE_ATTR", "a")>>
Attr(scope, o) == <<L(scope, o), I("LOAD_ATTR", "a")>>
Add(f, e, d) == e \o d \o <<J("BINARY_ADD", f)>>
Return(e) == e \o <<I("RETURN_VALUE", "")>>
\* if x: then
If(scope, x, then, rest) == <<Arg(scope, x) \o <<J("POP_JUMP_IF_FALSE", 3)>>, then, rest>>
IfElse(scope, x, then, else, rest) ==
  <<Arg(scope, x) \o <<J("POP_JUMP_IF_FALSE", 3)>>, then \o <<J("JUMP_FORWARD", 4)>>, else, rest>>
While(scope, first, x, body, rest) ==
  <<first, Arg(scope, x) \o <<J("POP_JUMP_IF_FALSE", 4)>>, body \o <<J("JUMP_FORWARD", 2)>>, rest>>
\* x := y and e
And(scope, x, y, e, rest) == <<Arg(scope, y) \o <<J("JUMP_IF_FALSE_OR_POP", 3)>>, e, <<S(scope, x)>> \o rest>>

\* the graphs of the code objects: ControlFlow on the same blocks
CF == INSTANCE ControlFlow WITH Programs <- {}, cfg <- <<>>, cdg <- <<>>, deps <- <<>>, roots <- <<>>, at <- 0, told <- <<>>, taken <- <<>>
Kind(i) == CASE i.op \in COND_BRANCH_NAMES -> "IF" [] i.op = "JUMP_FORWARD" -> "JUMP"
             [] i.op = "RETURN_VALUE" -> "RETURN" [] i.op = "RAISE_VARARGS" -> "RAISE" [] OTHER -> "NEXT"
Shape(blocks) == [b \in DOMAIN blocks |-> LET i == Last(blocks[b]) IN
                    [op |-> Kind(i), to |-> i.to, when |-> FALSE, yields |-> FALSE, covered |-> TRUE, condition |-> TRUE]]
WithLines(code) == [c \in DOMAIN code |-> [b \in DOMAIN code[c] |-> [k \in DOMAIN code[c][b] |-> [code[c][b][k] EXCEPT !.line = 1000 * c + 100 * b + k]]]]
Program(statements, code, handler) ==
  LET cfgs == [c \in DOMAIN code |-> CF!from_bytecode(Shape(code[c]))] @@ <<>>
      cdgs == [c \in DOMAIN code |-> CF!compute(cfgs[c])] @@ <<>>
  IN  [statements |-> statements, code |-> WithLines(code), handler |-> handler,
       successors |-> [c \in DOMAIN code |-> [b \in DOMAIN code[c] |-> CF!Successors(cfgs[c], b)] @@ <<>>] @@ <<>>,
       cdg |-> [c \in DOMAIN code |-> {e \in DOMAIN cdgs[c].edges : e[1] > 0}] @@ <<>>,
       below |-> [c \in DOMAIN code |-> [b \in DOMAIN code[c] |-> CF!get_descendants(cdgs[c], b)] @@ <<>>] @@ <<>>]
NoHandler(code) == [c \in DOMAIN code |-> 0]

\* the function f = code object 2, whose parameter is p; code object 3 is the identity
Simple ==
  {Assign("FAST", "x", Const), Assign("FAST", "x", Arg("FAST", "p")), Assign("FAST", "x", Call(3, Arg("FAST", "p"))),
   Assign("FAST", "x", Add(3, Const, Arg("FAST", "y"))), SetAttr("FAST", "p", Arg("FAST", "y")),
   Assign("FAST", "x", Attr("FAST", "p")), Assign("FAST", "y", Call(BUILTIN, Arg("FAST", "x"))),
   Assign("GLOBAL", "g", Arg("FAST", "y")), Assign("FAST", "x", Arg("GLOBAL", "g"))}
Few == {Assign("FAST", "x", Add(3, Const, Arg("FAST", "y"))), SetAttr("FAST", "p", Arg("FAST", "y"))}
Start == Assign("FAST", "x", Const) \o Assign("FAST", "y", Arg("FAST", "p"))
Results == {Return(Arg("FAST", "x")), Return(Arg("GLOBAL", "g")), Return(Attr("FAST", "p"))}
Before(first, blocks) == <<first \o blocks[1]>> \o Tail(blocks)
Bodies ==
  {<<Start \o s \o t \o r>> : s \in Simple, t \in Simple, r \in Results}
  \cup {Before(Start, If("FAST", "x", s, t \o r)) : s \in Simple, t \in Few, r \in Results}
  \cup {Before(Start, IfElse("FAST", "y", s, SetAttr("FAST", "p", Const), r)) : s \in Simple, r \in Results}
  \cup {While("FAST", Start, "y", s, r) : s \in Simple, r \in Results}
  \cup {<<Start \o If("FAST", "x", <<>>, <<>>)[1], Arg("FAST", "y") \o <<J("POP_JUMP_IF_FALSE", 4)>>, s, t \o r>> :
           s \in Simple, t \in {Const \o <<I("POP_TOP", "")>>}, r \in Results}

\* the statements of the test: an object, a call or two, and an assertion
NewObject == Assign("NAME", "o", Call(CLASS, Const)) \o SetAttr("NAME", "o", Const) \o Assign("NAME", "g", Const) \o Return(Const)
CallF == Assign("NAME", "v", Call(2, Arg("NAME", "o"))) \o Return(Const)
AssertV == <<Arg("NAME", "v") \o <<J("POP_JUMP_IF_FALSE", 3)>>, Return(Const), Return(Const)>>
Identity == <<Return(Arg("FAST", "p"))>>
Test(statements, f) ==
  LET code == <<<<NewObject>>, f, Identity, <<CallF>>, AssertV>> IN Program(statements, code, NoHandler(code))
Sound == {Test(<<1, 4, 5>>, f) : f \in Bodies}
\* x := p and 1
Operands == {Test(<<1, 4, 5>>, And("FAST", "x", "p", e, Return(Arg("FAST", "x")))) : e \in {Const, Arg("FAST", "p")}}
\* x is set in one of two ways, then f is called again or not
Recursive ==
  LET f == <<Start \o Arg("FAST", "p") \o <<J("POP_JUMP_IF_FALSE", 3)>>, Assign("FAST", "x", Const) \o <<J("JUMP_FORWARD", 4)>>,
             Assign("FAST", "x", Arg("FAST", "p")), Arg("FAST", "p") \o <<J("POP_JUMP_IF_FALSE", 6)>>,
             Assign("FAST", "y", Call(2, Arg("FAST", "p"))), Return(Arg("FAST", "x"))>>
  IN  {Test(<<1, 4, 5>>, f)}
\* f handles what the function it calls may raise
Raising == <<Arg("FAST", "p") \o <<J("POP_JUMP_IF_FALSE", 3)>>, Const \o <<I("RAISE_VARARGS", "")>>, Return(Arg("FAST", "p"))>>
RaisingBehind == IfElse("FAST", "p", Assign("FAST", "x", Const), Assign("FAST", "x", Arg("FAST", "p")), Const \o <<I("RAISE_VARARGS", "")>>)
Handling(s, t, r) == <<Start \o s \o Assign("FAST", "x", Call(3, Arg("FAST", "p"))) \o t \o <<J("JUMP_FORWARD", 3)>>, Assign("FAST", "y", Arg("FAST", "p")), r>>
\* what the callee has traced last looks like what f would have traced, had the call returned
Behind ==
  {LET code == <<<<NewObject>>, Handling(s, t, r), RaisingBehind, <<CallF>>, AssertV>> IN Program(<<1, 4, 5>>, code, <<0, 2, 0, 0, 0>>) :
     s \in Simple, t \in Simple, r \in Results}
Exceptions ==
  {LET code == <<<<NewObject>>, Handling(s, t, r), Raising, <<CallF>>, AssertV>> IN Program(<<1, 4, 5>>, code, <<0, 2, 0, 0, 0>>) :
     s \in Simple, t \in Few, r \in Results}
MCPrograms == Sound \cup Exceptions
================================================================================
