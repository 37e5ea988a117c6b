------------------------------ MODULE CoverLines -------------------------------
(* Which lines, conditions and code objects of a module are to be covered:      *)
(* ModuleAstInfo and AstInfo of instrumentation/transformer.py, asked while the *)
(* code objects are instrumented from the module inwards.  A node of the        *)
(* syntax tree is its kind and the ranges of lines of its parts.                *)
EXTENDS Integers, FiniteSets, FiniteSetsExt

CONSTANTS Modules     \* [nodes, only_cover, no_cover, pragmas]: nodes and sets of lines

VARIABLES module,     \* the syntax tree and the options
          pending,    \* code objects still to be visited
          instrumented, \* code objects that are instrumented
          lines,      \* lines registered as goals
          conditions  \* lines of the conditions registered as goals

vars == <<module, pending, instrumented, lines, conditions>>

Scopes == {"Module", "ClassDef", "FunctionDef"}
Definitions == {"ClassDef", "FunctionDef"}
Nothing == <<1, 0>>                        \* the range of an absent part
Lines(range) == range[1]..range[2]
scope_line_range(node) == <<node.first, node.last>>
Contains(outer, node) == outer.first <= node.first /\ node.last <= outer.last

nodes_of_class(scope, kinds) == {n \in module.nodes : n.kind \in kinds /\ Contains(scope, n)}

--------------------------------------------------------------------------------
(* ModuleAstInfo: the lines named by the options and by comments.               *)

\* blocks that are never executed under test: the main block and those for type checkers
_find_excluded_block_lines(m) == UNION {Lines(scope_line_range(n)) : n \in {x \in m.nodes : x.kind = "If" /\ x.dead}}
only_cover_lines(m) == m.only_cover
no_cover_lines(m) == m.no_cover \cup _find_excluded_block_lines(m) \cup m.pragmas

IsConsistent(m) == only_cover_lines(m) \cap no_cover_lines(m) = {}

OnlyCover == only_cover_lines(module)
NoCover == no_cover_lines(module)

--------------------------------------------------------------------------------
(* AstInfo: a scope of the module.                                              *)

\* only the line itself can select it
InCoverByLine(scope, lineno) == lineno \notin NoCover /\ (OnlyCover = {} \/ lineno \in OnlyCover)

_in_cover(scope, lineno) ==
  /\ lineno \notin NoCover
  /\ \/ OnlyCover = {}
     \/ lineno \in OnlyCover
     \/ \E child \in Lines(scope_line_range(scope)) \ NoCover : child \in OnlyCover

_in_body(body, lineno) == lineno \in Lines(body)

_inter_lines(previous, next) ==
  IF previous = Nothing \/ next = Nothing THEN {} ELSE previous[2] + 1..next[1] - 1

LastHandler(n) == (CHOOSE h \in n.handlers : \A g \in n.handlers : g.first <= h.first).body
_else_lines(n) == _inter_lines(n.body, n.orelse)
_try_else_lines(n) == _inter_lines(IF n.handlers # {} THEN LastHandler(n) ELSE n.body, n.orelse)
_try_finally_lines(n) ==
  _inter_lines(IF n.orelse # Nothing THEN n.orelse ELSE IF n.handlers # {} THEN LastHandler(n) ELSE n.body, n.final)

_has_elif_block(n) == \E m \in module.nodes : m.kind = "If" /\ scope_line_range(m) = n.orelse

should_be_covered(scope) ==
  /\ _in_cover(scope, scope.first)
  /\ \A d \in module.nodes :
       d.kind \in Definitions /\ scope.first \in Lines(scope_line_range(d)) => _in_cover(scope, d.first)

\* the comment on the line that opens the part of the node in which the line lies
ExcludedByMatch(n, lineno) ==
  /\ n.kind = "Match"
  /\ \/ n.first \in NoCover
     \/ \E c \in n.handlers : _in_body(c.body, lineno) /\ c.first \in NoCover
ExcludedByHead(n, lineno) ==
  n.kind \in {"If", "For", "While", "Try"} /\ _in_body(n.body, lineno) /\ n.first \in NoCover
ExcludedByTry(n, lineno) ==
  /\ n.kind = "Try"
  /\ \/ \E h \in n.handlers : _in_body(h.body, lineno) /\ h.first \in NoCover
     \/ _in_body(n.orelse, lineno) /\ _try_else_lines(n) \cap NoCover # {}
     \/ _in_body(n.final, lineno) /\ _try_finally_lines(n) \cap NoCover # {}
ExcludedByElse(n, lineno) ==
  /\ n.kind \in {"If", "For", "While"}
  /\ n.kind = "If" => ~_has_elif_block(n)
  /\ _in_body(n.orelse, lineno) /\ _else_lines(n) \cap NoCover # {}

should_cover_line(scope, lineno) ==
  /\ _in_cover(scope, lineno)
  /\ \A n \in nodes_of_class(scope, {"If", "For", "While", "Match", "Try"}) :
       lineno \in Lines(scope_line_range(n)) =>
         ~(ExcludedByMatch(n, lineno) \/ ExcludedByHead(n, lineno) \/ ExcludedByTry(n, lineno) \/ ExcludedByElse(n, lineno))

\* the first condition in the scope that begins, or has its else, at the line
ConditionsAt(scope, lineno) ==
  {n \in nodes_of_class(scope, {"If", "For", "While", "match_case"}) :
     n.first = lineno \/ (n.kind # "match_case" /\ lineno \in _else_lines(n))}

HeadIsCovered(scope, lineno) ==
  \A n \in ConditionsAt(scope, lineno) : should_cover_line(scope, n.first)

should_cover_conditional_statement(scope, lineno) ==
  LET at == ConditionsAt(scope, lineno)
      node == CHOOSE n \in at : \A o \in at : n.first < o.first \/ (n.first = o.first /\ o.last <= n.last)
  IN  at = {} \/
      /\ should_cover_line(scope, node.first)
      /\ \/ node.kind = "match_case"
         \/ node.kind = "If" /\ _has_elif_block(node)
         \/ node.kind # "match_case" /\ \A l \in _else_lines(node) : should_cover_line(scope, l)

--------------------------------------------------------------------------------
(* The code objects, from the module inwards.                                   *)

\* the first line of a code object is the one of its first decorator, in the tree it is the definition
co_firstlineno(scope) == IF scope.kind = "Module" THEN 0 ELSE scope.first - scope.decorators
get_scope(lineno) == {s \in module.nodes : s.kind \in Scopes /\ s.first = lineno}

Inside(scope) == {s \in module.nodes \ {scope} : s.kind \in Scopes /\ Contains(scope, s)}
Children(scope) == {s \in Inside(scope) : \A t \in Inside(scope) : Contains(t, s) => t = s}
OwnNodes(scope, kinds) == {n \in nodes_of_class(scope, kinds) : \A s \in Inside(scope) : ~Contains(s, n)}
OwnLines(scope) ==
  Lines(scope_line_range(scope)) \ ({scope.first} \cup UNION {(s.first + 1)..s.last : s \in Inside(scope)})

Init ==
  /\ module \in {m \in Modules : IsConsistent(m)}
  /\ pending = {n \in module.nodes : n.kind = "Module"}
  /\ instrumented = {} /\ lines = {} /\ conditions = {}

\* a code object that is skipped takes the ones inside it with it
Skip(scope) ==
  /\ get_scope(co_firstlineno(scope)) # {}
  /\ ~should_be_covered(scope)
  /\ pending' = pending \ {scope}
  /\ UNCHANGED <<module, instrumented, lines, conditions>>

_instrument_code_recursive(scope) ==
  LET unknown == get_scope(co_firstlineno(scope)) = {}
  IN  /\ unknown \/ should_be_covered(scope)
      /\ pending' = (pending \ {scope}) \cup Children(scope)
      /\ instrumented' = instrumented \cup {scope}
      /\ lines' = lines \cup {l \in OwnLines(scope) : unknown \/ should_cover_line(scope, l)}
      /\ conditions' = conditions \cup
           {n.first : n \in {x \in OwnNodes(scope, {"If", "For", "While", "match_case"}) :
                               unknown \/ (should_cover_line(scope, x.first) /\ should_cover_conditional_statement(scope, x.first))}}
      /\ UNCHANGED module

Next == \E scope \in pending : Skip(scope) \/ _instrument_code_recursive(scope)
Spec == Init /\ [][Next]_vars

--------------------------------------------------------------------------------
Done == pending = {}

(* A function the user selects is instrumented although the classes, functions  *)
(* and the module around it are not selected: each of them is visited before    *)
(* it, and a code object that is skipped hides what is inside.                  *)
SelectedIsInstrumented ==
  Done => \A s \in module.nodes :
            /\ s.kind = "FunctionDef" /\ s.first \in OnlyCover
            /\ \A o \in module.nodes : o.kind \in Scopes /\ Contains(o, s) => o.first \notin NoCover
            => s \in instrumented

(* A condition is a goal only if both its branches may be covered: what keeps   *)
(* lines of its branches out is a comment within them, never the one on its     *)
(* own head or on its else.                                                     *)
ConditionHasTwoSides ==
  \A n \in module.nodes :
    n.kind \in {"If", "For", "While"} /\ n.first \in conditions /\ ~_has_elif_block(n) =>
      \A l \in Lines(n.body) \cup Lines(n.orelse) :
        \/ l \in lines \/ (Lines(n.body) \cup Lines(n.orelse)) \cap NoCover # {}
        \/ \E s \in module.nodes : s.kind \in Definitions /\ l \in Lines(scope_line_range(s)) /\ Contains(n, s)

(* Lines that are excluded are no goals (docs/user/coverage.rst, lines 87-88).  *)
ExcludedIsNoGoal ==
  \A s \in module.nodes : s.kind \in Definitions /\ s.first \in NoCover => s \notin instrumented

(* A class that is selected is covered with its methods.                        *)
SelectedWithItsParts ==
  Done => \A s \in module.nodes : s.kind \in Definitions /\ s.first \in OnlyCover /\ NoCover = {}
            => Children(s) \subseteq instrumented
================================================================================
