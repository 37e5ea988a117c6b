------------------------------ MODULE ControlFlow ------------------------------
(* The control-flow graph of a code object, its control-dependence graph        *)
(* without the blocks that are excluded from the coverage, and a run of the     *)
(* code object: instrumentation/controlflow.py and the part of                  *)
(* instrumentation/transformer.py that uses it.  A program is a sequence of     *)
(* blocks, in the order of the byte-code; `to` is the target of a jump or of    *)
(* the handler of a try, `when` the branch type of the jump.                    *)
EXTENDS Integers, Sequences, FiniteSets, FiniteSetsExt, SequencesExt

CONSTANTS Programs            \* [nops : BOOLEAN, blocks : Seq(block)]

VARIABLES cfg, cdg,           \* the graphs of the code object that runs
          deps, roots,        \* the answers DynaMOSA gets for the nodes of cdg
          at,                 \* the block that is executed
          told, taken         \* outcomes told to the tracer, and taken so far

vars == <<cfg, cdg, deps, roots, at, told, taken>>

EXIT == 0
ENTRY == -1
AUGMENTED_ENTRY == -2
Values == {"true", "false"}

NOP == [op |-> "NEXT", to |-> 0, when |-> FALSE, yields |-> FALSE, covered |-> TRUE, condition |-> TRUE]

is_conditional_jump(b) == b.op \in {"IF", "FOR"}

SharingTheExit(blocks, f) == blocks

\* before Python 3.12 a loop gets a block of its own for its natural exit, which lies
\* before the block the loop jumped to; blocks begin only where some jump leads
WithExit(blocks, f) ==
  LET t == blocks[f].to
      Retargeted == [i \in DOMAIN blocks |->
                       IF i # f /\ blocks[i].to >= t THEN [blocks[i] EXCEPT !.to = @ + 1] ELSE blocks[i]]
  IN  IF \E i \in DOMAIN blocks \ {f} : blocks[i].to = t
      THEN InsertAt(Retargeted, t, [NOP EXCEPT !.covered = blocks[f].covered]) ELSE blocks

add_for_loop_no_yield_nodes(program) ==
  LET Loops(blocks) == SetToSortSeq({i \in DOMAIN blocks : blocks[i].op = "FOR"}, <)
      count == Len(Loops(program.blocks))
  IN  IF program.nops
      THEN FoldLeft(LAMBDA blocks, k : WithExit(blocks, Loops(blocks)[k]), program.blocks, [k \in 1..count |-> k])
      ELSE program.blocks

--------------------------------------------------------------------------------
(* Graphs: at most one edge between two nodes, with the value of a branch or    *)
(* "none"; an edge that is added again takes the value it comes with, if any.   *)

Successors(g, n) == {t \in g.nodes : <<n, t>> \in DOMAIN g.edges}
get_predecessors(g, n) == {s \in g.nodes : <<s, n>> \in DOMAIN g.edges}

RECURSIVE Reached(_, _)
Reached(g, ns) ==
  LET more == ns \cup UNION {Successors(g, n) : n \in ns}
  IN  IF more = ns THEN ns ELSE Reached(g, more)
get_descendants(g, n) == Reached(g, {n}) \ {n}

\* (@@ makes TLC tabulate the function once)
Graph(ns, es) == [nodes |-> ns, edges |-> es @@ <<>>]

remove_nodes(g, ns) ==
  Graph(g.nodes \ ns, [e \in {p \in DOMAIN g.edges : p[1] \notin ns /\ p[2] \notin ns} |-> g.edges[e]])
add_edges(g, ns, pairs) == Graph(g.nodes \cup ns, g.edges @@ [e \in pairs |-> "none"])

RECURSIVE filter_dead_code_nodes(_)
filter_dead_code_nodes(g) ==
  LET dead == {n \in g.nodes \ {ENTRY} : get_predecessors(g, n) = {}}
  IN  IF dead = {} THEN g ELSE filter_dead_code_nodes(remove_nodes(g, dead))

--------------------------------------------------------------------------------
(* The control-flow graph.                                                      *)

Branches(blocks, i) ==
  [true |-> IF blocks[i].when THEN blocks[i].to ELSE i + 1,
   false |-> IF blocks[i].when THEN i + 1 ELSE blocks[i].to]

EdgesOf(blocks, i) ==
  LET b == blocks[i]
  IN  CASE is_conditional_jump(b) -> {<<i, Branches(blocks, i).true>>, <<i, Branches(blocks, i).false>>}
        [] b.op = "NEXT" -> {<<i, i + 1>>}
        [] b.op = "JUMP" -> {<<i, b.to>>}
        [] b.op = "TRY" -> {<<i, i + 1>>, <<i, b.to>>}
        [] OTHER -> {}

_create_nodes_and_edges(blocks) ==
  Graph(DOMAIN blocks,
        [e \in UNION {EdgesOf(blocks, i) : i \in DOMAIN blocks} |->
           IF ~is_conditional_jump(blocks[e[1]]) THEN "none"
           ELSE IF e[2] = Branches(blocks, e[1]).false THEN "false" ELSE "true"])

\* breadth-first distance from the first block
RECURSIVE DistanceFrom(_, _, _)
DistanceFrom(g, ns, n) ==
  IF n \in ns THEN 0 ELSE 1 + DistanceFrom(g, ns \cup UNION {Successors(g, m) : m \in ns}, n)

SimpleCycles(g) ==
  {c \in UNION {[1..k -> g.nodes] : k \in 1..Cardinality(g.nodes)} :
     /\ IsInjective(c)
     /\ \A i \in 2..Len(c) : c[1] < c[i] /\ <<c[i - 1], c[i]>> \in DOMAIN g.edges
     /\ <<c[Len(c)], c[1]>> \in DOMAIN g.edges}

ReturningOnly(g, exits) == exits

\* the loop entries are added while the set is being read
WithLoopEntries(g, exits) ==
  LET EntryOf(c) == CHOOSE n \in Range(c) : \A m \in Range(c) : DistanceFrom(g, {1}, n) <= DistanceFrom(g, {1}, m)
      Add(found, c) == IF get_descendants(g, EntryOf(c)) \cap found = {} THEN found \cup {EntryOf(c)} ELSE found
  IN  FoldLeft(Add, exits, SetToSeq(SimpleCycles(g)))

_insert_dummy_nodes(g, blocks) ==
  LET exits == {n \in g.nodes : Successors(g, n) = {}} \cup {n \in g.nodes : blocks[n].yields}
  IN  add_edges(g, {ENTRY, EXIT}, {<<ENTRY, 1>>} \cup {<<n, EXIT>> : n \in WithLoopEntries(g, exits)})

from_bytecode(blocks) ==
  filter_dead_code_nodes(_insert_dummy_nodes(_create_nodes_and_edges(blocks), blocks))

--------------------------------------------------------------------------------
(* The control-dependence graph.                                                *)

_create_augmented_graph(g) ==
  add_edges(g, {AUGMENTED_ENTRY}, {<<AUGMENTED_ENTRY, ENTRY>>, <<AUGMENTED_ENTRY, EXIT>>})

\* the ancestors of a node in the tree: what lies on all its paths to the exit
PostDominators(g) ==
  [n \in g.nodes |-> {m \in g.nodes \ {n} : EXIT \notin Reached(remove_nodes(g, {m}), {n})}] @@ <<>>

\* a source that is the least common ancestor depends on itself: a loop
DependsOnItself(source, lca) == IF lca = source THEN {source} ELSE {}

compute(g) ==
  LET augmented == _create_augmented_graph(g)
      ancestors == PostDominators(augmented)
      Up(n) == ancestors[n] \cup {n}
      LowestCommon(s, t) == CHOOSE n \in Up(s) \cap Up(t) : Up(s) \cap Up(t) \subseteq Up(n)
      Marked(s, t) == (Up(t) \ Up(LowestCommon(s, t))) \cup DependsOnItself(s, LowestCommon(s, t))
      sources == {e \in DOMAIN augmented.edges : e[2] \notin ancestors[e[1]]}
      Dependences(value) == UNION {{<<e[1], n>> : n \in Marked(e[1], e[2])} : e \in {x \in sources : augmented.edges[x] = value}}
      \* the edges of a block come in the order true, false, exit
      edges == [e \in UNION {Dependences(v) : v \in Values \cup {"none"}} |->
                  IF e \in Dependences("false") THEN "false" ELSE IF e \in Dependences("true") THEN "true" ELSE "none"]
  IN  remove_nodes(Graph(augmented.nodes, edges), {ENTRY, EXIT})

HasCoveredLine(b) == b.covered

IsCovered(b) == b.covered /\ (is_conditional_jump(b) => b.condition)

\* the neighbours of a block that is removed become neighbours, without a value
NotBypassed(g, n) == remove_nodes(g, {n})

Bypassed(g, n) ==
  LET before == get_predecessors(g, n) \ {n}
      after == Successors(g, n) \ {n}
  IN  add_edges(remove_nodes(g, {n}), {}, before \X after)

_create_covered_cdg(g, blocks) ==
  FoldLeft(Bypassed, compute(g), SetToSortSeq({n \in g.nodes \ {ENTRY, EXIT} : ~IsCovered(blocks[n])}, <))

RECURSIVE Retrieve(_, _)
Retrieve(g, ns) ==
  LET more == ns \cup UNION {{s \in get_predecessors(g, n) : g.edges[<<s, n>>] = "none"} : n \in ns}
  IN  IF more = ns
      THEN UNION {{<<s, g.edges[<<s, n>>]>> : s \in {m \in get_predecessors(g, n) : g.edges[<<m, n>>] # "none"}} : n \in ns}
      ELSE Retrieve(g, more)
get_control_dependencies(g, n) == Retrieve(g, {n})

entry_node(g) == CHOOSE n \in g.nodes : get_predecessors(g, n) = {}

\* depth first; a predecessor counts as visited whatever the edge that was looked at
RECURSIVE Search(_, _, _)
Search(g, n, visited) ==
  IF <<entry_node(g), n>> \in DOMAIN g.edges THEN [found |-> TRUE, visited |-> visited]
  ELSE FoldLeft(LAMBDA acc, p :
                  IF acc.found \/ p \in acc.visited THEN acc
                  ELSE IF g.edges[<<p, n>>] # "none" \/ p = n THEN [acc EXCEPT !.visited = @ \cup {p}]
                  ELSE Search(g, p, acc.visited \cup {p}),
                [found |-> FALSE, visited |-> visited],
                SetToSortSeq(get_predecessors(g, n), <))
is_control_dependent_on_root(g, n) == Search(g, n, {}).found

--------------------------------------------------------------------------------
(* A run of the code object.                                                    *)

Blocks == {n \in cdg.nodes : n > 0}
Code(program) == add_for_loop_no_yield_nodes(program)

\* the conditions that the adapter for branch coverage has registered
Registered(blocks) ==
  {i \in DOMAIN blocks : is_conditional_jump(blocks[i]) /\ blocks[i].condition /\ blocks[i].covered}

NoGraph == Graph({}, <<>>)

Init ==
  /\ \E program \in Programs :
       LET blocks == Code(program)
       IN  cfg = [blocks |-> blocks, graph |-> from_bytecode(blocks)]
  /\ cdg = NoGraph /\ deps = <<>> /\ roots = {}
  /\ at = 0
  /\ told = {} /\ taken = {}

\* the code object is registered when the adapters have seen it, and may then be called
Register ==
  /\ at = 0
  /\ cdg' = _create_covered_cdg(cfg.graph, cfg.blocks)
  /\ deps' = [n \in {m \in cdg'.nodes : m > 0} |-> get_control_dependencies(cdg', n)]
  /\ roots' = {n \in cdg'.nodes : n > 0 /\ is_control_dependent_on_root(cdg', n)}
  /\ at' = 1
  /\ UNCHANGED <<cfg, told, taken>>

\* a loop tells the tracer in the blocks it leads to, every other condition where it jumps
ToldAtEntry(n) ==
  {<<f, "true">> : f \in {i \in Registered(cfg.blocks) : cfg.blocks[i].op = "FOR" /\ n = i + 1}}
  \cup {<<f, "false">> : f \in {i \in Registered(cfg.blocks) : cfg.blocks[i].op = "FOR" /\ n = cfg.blocks[i].to}}

Step ==
  /\ at > 0
  /\ \E n \in Successors(cfg.graph, at) \ {EXIT} :
       LET value == cfg.graph.edges[<<at, n>>]
           outcome == IF at \in Registered(cfg.blocks) THEN {<<at, value>>} ELSE {}
       IN  /\ at' = n
           /\ taken' = taken \cup outcome
           /\ told' = told \cup ToldAtEntry(n) \cup (IF cfg.blocks[at].op = "IF" THEN outcome ELSE {})
  /\ UNCHANGED <<cfg, cdg, deps, roots>>

Next == Register \/ Step
Spec == Init /\ [][Next]_vars

--------------------------------------------------------------------------------
(* The control dependences a goal waits for are what leads to its block: when   *)
(* a block is executed, it hangs on the entry of the code object or one of its  *)
(* dependences has been taken, so that DynaMOSA, which adds a goal as soon as   *)
(* one of them is covered, never waits for a goal that has been covered.        *)
ReachedByItsDependences ==
  at \in Blocks => at \in roots \/ deps[at] \cap taken # {}

(* What a block depends on is a condition the tracer knows: the blocks that     *)
(* _create_covered_cdg keeps are the ones the adapters instrument.              *)
DependencesAreRegistered ==
  \A n \in Blocks : deps[n] \subseteq Registered(cfg.blocks) \X Values

(* Every block can reach the exit, in spite of infinite loops and generators;   *)
(* otherwise it has no post-dominator and the graph cannot be computed.         *)
ExitIsReached == \A n \in cfg.graph.nodes : EXIT \in Reached(cfg.graph, {n})

(* The tracer hears of the outcomes of a condition that were taken, and no      *)
(* other: leaving a loop by break is not its natural exit.                      *)
ToldIsTaken == told = taken
================================================================================
