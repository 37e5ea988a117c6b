--------------------------------- MODULE Mutants ---------------------------------
(* Mutation analysis (assertion/mutation_analysis/): the operators say what the   *)
(* nodes of a module's tree may become, a strategy says which of these mutations  *)
(* make a mutant, and all mutants are made in one shared tree, which a generator  *)
(* per mutation changes and, when it is resumed, restores.                        *)
EXTENDS Integers, Sequences, FiniteSets, FiniteSetsExt, SequencesExt

\* A tree is the sequence of its nodes in the order in which they are visited: kind, up
\* (the parent, 0 of the module), value (of a number), name, inherited (the names
\* that the bases of a class have) and traits.
CONSTANTS Modules, Strategies, Caps, order
OrderAssumption == order \in Nat \ {0}
NoCap == -1

VARIABLES tree, strategy, maximum_mutants,
          pc,
          mutations,        \* those the strategy still has to use
          usage,            \* how often each was used
          group, applied,   \* the next mutant: its mutations and what the tree holds in place of nodes
          generators,       \* suspended, the nodes they will restore
          created           \* history: the mutants

vars == <<tree, strategy, maximum_mutants, pc, mutations, usage, group, applied, generators, created>>

--------------------------------------------------------------------------------
(* The operators: what a node may become, visitor by visitor.                    *)

To(visitor, kind) == <<[visitor |-> visitor, kind |-> kind, value |-> 0]>>
Number(visitor, v) == <<[visitor |-> visitor, kind |-> "Num", value |-> v]>>
When(condition, results) == IF condition THEN results ELSE <<>>
Table(t, n, entries) == FlattenSeq([i \in DOMAIN entries |->
  When(entries[i][1] = t[n].kind, To(entries[i][2], entries[i][3]))])

Is(t, n, kinds) == t[n].kind \in kinds
Has(t, n, trait) == trait \in t[n].traits
\* in the order of the numbers of the nodes
Ancestors(t, n) == {m \in 1..n - 1 : LET Chain[k \in 0..n] == IF k = 0 THEN {} ELSE {t[k].up} \cup Chain[t[k].up]
                                    IN  m \in Chain[n]}
Parent(t, n) == IF t[n].up = 0 THEN "none" ELSE t[t[n].up].kind

ArithmeticOperatorDeletion(t, n) == When(Is(t, n, {"-x", "+x"}), To("UnaryOp", "x"))
AbstractArithmeticOperatorReplacement ==
  <<<<"Add", "Add", "Sub">>, <<"Sub", "Sub", "Add">>,
    <<"Mult", "Mult_to_Div", "Div">>, <<"Mult", "Mult_to_FloorDiv", "FloorDiv">>, <<"Mult", "Mult_to_Pow", "Pow">>,
    <<"Div", "Div_to_FloorDiv", "FloorDiv">>, <<"Div", "Div_to_Mult", "Mult">>,
    <<"FloorDiv", "FloorDiv_to_Div", "Div">>, <<"FloorDiv", "FloorDiv_to_Mult", "Mult">>,
    <<"Mod", "Mod", "Mult">>, <<"Pow", "Pow", "Mult">>>>
ArithmeticOperatorReplacement(t, n) ==
  When(Parent(t, n) # "AugAssign", Table(t, n, AbstractArithmeticOperatorReplacement))
    \o Table(t, n, <<<<"-", "USub", "+">>, <<"+", "UAdd", "-">>>>)
AssignmentOperatorReplacement(t, n) ==
  When(Parent(t, n) = "AugAssign", Table(t, n, AbstractArithmeticOperatorReplacement))
BreakContinueReplacement(t, n) ==
  Table(t, n, <<<<"Break", "Break", "Continue">>, <<"Break", "Break_to_return", "Return">>, <<"Continue", "Continue", "Break">>>>)
ConditionalOperatorDeletion(t, n) ==
  Table(t, n, <<<<"NotIn", "NotIn", "In">>, <<"not x", "UnaryOp", "x">>>>)
ConditionalOperatorInsertion(t, n) ==
  Table(t, n, <<<<"If", "If", "If not">>, <<"In", "In", "NotIn">>, <<"While", "While", "While not">>>>)
LogicalConnectorReplacement(t, n) == Table(t, n, <<<<"And", "And", "Or">>, <<"Or", "Or", "And">>>>)
LogicalOperatorDeletion(t, n) == When(Is(t, n, {"~x"}), To("UnaryOp", "x"))
LogicalOperatorReplacement(t, n) ==
  Table(t, n, <<<<"BitAnd", "BitAnd", "BitOr">>, <<"BitOr", "BitOr", "BitAnd">>,
                <<"BitXor", "BitXor", "BitAnd">>, <<"BitXor", "BitXor_to_BitOr", "BitOr">>,
                <<"LShift", "LShift", "RShift">>, <<"RShift", "RShift", "LShift">>>>)
RelationalOperatorReplacement(t, n) ==
  Table(t, n, <<<<"Eq", "Eq", "NotEq">>, <<"Gt", "Gt", "Lt">>, <<"Gt", "Gt_to_GtE", "GtE">>,
                <<"GtE", "GtE", "LtE">>, <<"GtE", "GtE_to_Gt", "Gt">>, <<"Is", "Is", "IsNot">>, <<"IsNot", "IsNot", "Is">>,
                <<"Lt", "Lt", "Gt">>, <<"Lt", "Lt_to_LtE", "LtE">>, <<"LtE", "LtE", "GtE">>, <<"LtE", "LtE_to_Lt", "Lt">>,
                <<"NotEq", "NotEq", "Eq">>>>)

\* what no assertion can observe: documentation, arguments of logging, messages of exceptions
is_docstring(t, n) ==
  Parent(t, n) = "Expr" /\ LET def == t[t[n].up].up IN
    Is(t, def, {"FunctionDef", "ClassDef", "Module"}) /\ t[n].up = def + 1
is_unobservable_string_context(t, n) ==
  \E a \in Ancestors(t, n) :
    /\ t[a].kind = "Raise" \/ (t[a].kind = "Call" /\ t[a].name = "log")
    /\ \A b \in Ancestors(t, n) : b > a => ~Has(t, b, "statement")
Observable(t, n) == ~is_docstring(t, n) /\ ~is_unobservable_string_context(t, n)

ReplacedByAny(t, n) ==
  LET v == t[n].value IN
    When(Is(t, n, {"Num"}), Number("num", v + 1) \o Number("num_decrement", v - 1)
                            \o When(v # 0, Number("num_neg", -v) \o Number("num_zero", 0)))
ConstantReplacement(t, n) ==
  LET v == t[n].value IN
    When(Is(t, n, {"Num"}), Number("num", v + 1) \o When(v # 1, Number("num_decrement", v - 1))
                              \o When(v # 0, Number("num_neg", -v) \o Number("num_zero", 0)))
      \o When(Is(t, n, {"mutpy"}) /\ Observable(t, n), To("str", "python") \o To("str_empty", "empty"))
      \o When(Is(t, n, {"Str"}) /\ Observable(t, n), To("str", "mutpy") \o To("str_empty", "empty"))
      \o When(Is(t, n, {"empty"}) /\ Observable(t, n), To("str", "mutpy"))
BooleanLiteralReplacement(t, n) == Table(t, n, <<<<"True", "bool", "False">>, <<"False", "bool", "True">>>>)
\* the format of a value in such a string is one as well
FStringReplacement(t, n) ==
  When(Is(t, n, {"JoinedStr"}) /\ Parent(t, n) # "FormattedValue" /\ ~is_unobservable_string_context(t, n),
       To("JoinedStr", "mutpy"))
SliceIndexRemove(t, n) ==
  When(Is(t, n, {"Slice"}),
       When(Has(t, n, "lower"), To("remove_lower", "Slice without lower"))
         \o When(Has(t, n, "step"), To("remove_step", "Slice without step"))
         \o When(Has(t, n, "upper"), To("remove_upper", "Slice without upper")))
DecoratorDeletion(t, n) == When(Is(t, n, {"FunctionDef"}) /\ Has(t, n, "decorated"), To("FunctionDef", "undecorated"))
ReturnValueReplacement(t, n) == When(Is(t, n, {"Return"}) /\ Has(t, n, "value"), To("Return", "Return None"))
MatchCaseDeletion(t, n) ==
  When(Is(t, n, {"Match"}) /\ Has(t, n, "cases"), To("remove_first", "Match later") \o To("remove_last", "Match earlier"))
ExceptionHandlerDeletion(t, n) == When(Is(t, n, {"ExceptHandler"}) /\ ~Has(t, n, "raises"), To("ExceptHandler", "except raise"))
ExceptionSwallowing(t, n) == When(Is(t, n, {"ExceptHandler"}) /\ ~Has(t, n, "passes"), To("ExceptHandler", "except pass"))
ExceptionTypeReplacement(t, n) ==
  When(Is(t, n, {"Raise"}) /\ Has(t, n, "named"),
       To("Raise", IF t[n].name = "RuntimeError" THEN "raise ValueError" ELSE "raise RuntimeError"))

\* only of classes that stand in classes, and among what their bases have
is_overridden(t, n) ==
  /\ Parent(t, n) = "ClassDef"
  /\ \A a \in Ancestors(t, n) : Is(t, a, {"ClassDef", "Module"})
  /\ t[n].name \in t[t[n].up].inherited
HidingVariableDeletion(t, n) == When(Is(t, n, {"Assign"}) /\ is_overridden(t, n), To("Assign", "Pass"))
Method(t, n) == Is(t, n, {"FunctionDef"}) /\ Parent(t, n) = "ClassDef"
OverriddenMethodCallingPositionChange(t, n) ==
  When(Method(t, n) /\ Has(t, n, "super") /\ Has(t, n, "long"), To("FunctionDef", "super moved"))
OverridingMethodDeletion(t, n) == When(Is(t, n, {"FunctionDef"}) /\ is_overridden(t, n), To("FunctionDef", "Pass"))
SuperCallingDeletion(t, n) == When(Method(t, n) /\ Has(t, n, "super"), To("FunctionDef", "super deleted"))
SuperCallingInsert(t, n) ==
  When(Method(t, n) /\ ~Has(t, n, "super") /\ is_overridden(t, n), To("FunctionDef", "super inserted"))

OneIterationLoop(t, n) == When(Is(t, n, {"For", "While"}), To(t[n].kind, "once"))
ReverseIterationLoop(t, n) == When(Is(t, n, {"For"}), To("For", "reversed"))
ZeroIterationLoop(t, n) == When(Is(t, n, {"For", "While"}), To(t[n].kind, "never"))

\* standard_operators and experimental_operators
operators == 1..28
_TIMEOUT_PRONE_OPERATORS == 26..28
Visited(op, t, n) ==
  CASE op = 1 -> ArithmeticOperatorDeletion(t, n) [] op = 2 -> ArithmeticOperatorReplacement(t, n)
    [] op = 3 -> AssignmentOperatorReplacement(t, n) [] op = 4 -> BooleanLiteralReplacement(t, n)
    [] op = 5 -> BreakContinueReplacement(t, n) [] op = 6 -> ConditionalOperatorDeletion(t, n)
    [] op = 7 -> ConditionalOperatorInsertion(t, n) [] op = 8 -> ConstantReplacement(t, n)
    [] op = 9 -> DecoratorDeletion(t, n) [] op = 10 -> ExceptionHandlerDeletion(t, n)
    [] op = 11 -> ExceptionSwallowing(t, n) [] op = 12 -> ExceptionTypeReplacement(t, n)
    [] op = 13 -> FStringReplacement(t, n) [] op = 14 -> HidingVariableDeletion(t, n)
    [] op = 15 -> LogicalConnectorReplacement(t, n) [] op = 16 -> LogicalOperatorDeletion(t, n)
    [] op = 17 -> LogicalOperatorReplacement(t, n) [] op = 18 -> MatchCaseDeletion(t, n)
    [] op = 19 -> OverriddenMethodCallingPositionChange(t, n) [] op = 20 -> OverridingMethodDeletion(t, n)
    [] op = 21 -> RelationalOperatorReplacement(t, n) [] op = 22 -> ReturnValueReplacement(t, n)
    [] op = 23 -> SliceIndexRemove(t, n) [] op = 24 -> SuperCallingDeletion(t, n)
    [] op = 25 -> SuperCallingInsert(t, n) [] op = 26 -> OneIterationLoop(t, n)
    [] op = 27 -> ReverseIterationLoop(t, n) [] op = 28 -> ZeroIterationLoop(t, n)

\* what an operator yields for a tree, node by node
mutate(op, t) == FlattenSeq([n \in DOMAIN t |->
  [i \in DOMAIN Visited(op, t, n) |-> [node |-> n, operator |-> op, result |-> Visited(op, t, n)[i]]]])
_generate_all_mutations == FlattenSeq([op \in operators |-> mutate(op, tree)])

--------------------------------------------------------------------------------
(* strategies.py: which mutations go together                                     *)

Nested(m, other) == m.node \in Ancestors(tree, other.node)
ConflictWithChildren(m, other) == m.node = other.node \/ tree[m.node].up = other.node \/ tree[other.node].up = m.node
Conflict(m, other) == m.node = other.node \/ Nested(m, other) \/ Nested(other, m)
remove_bad_mutations(available) ==
  SelectSeq(available, LAMBDA m : \A i \in DOMAIN group :
    ~Conflict(group[i], m) /\ (strategy = "between" => group[i].operator # m.operator))

Available == remove_bad_mutations(mutations)
LeastUsed(available) ==
  SelectSeq(available, LAMBDA m : \A i \in DOMAIN available : usage[m] <= usage[available[i]])
\* a shuffled sequence may have any of them next
Candidates ==
  CASE strategy \in {"first_order", "each_choice"} -> {Head(Available)}
    [] strategy = "first_to_last" -> {IF Len(group) % 2 = 0 THEN Head(Available) ELSE Last(Available)}
    [] strategy = "between" -> {Head(LeastUsed(Available))}
    [] strategy = "random" -> Range(Available)
Order == IF strategy = "first_order" THEN 1 ELSE order
Unused == {i \in DOMAIN mutations : usage[mutations[i]] = 0}

--------------------------------------------------------------------------------
(* mutators.py: a sample of the mutations, in an order that a limit may cut       *)

\* shares of the cap by size, what is left to those with the largest remainders
_stratified_counts(sizes) ==
  LET total == FoldSeq(LAMBDA s, n : s + n, 0, sizes)
      Share(i) == (sizes[i] * maximum_mutants) \div total
      Remainder(i) == (sizes[i] * maximum_mutants) % total
      left == maximum_mutants - FoldSeq(LAMBDA i, n : Share(i) + n, 0, [i \in DOMAIN sizes |-> i])
      Rank(i) == Cardinality({j \in DOMAIN sizes : Remainder(j) > Remainder(i) \/ (Remainder(j) = Remainder(i) /\ j < i)})
  IN  IF maximum_mutants = NoCap \/ total <= maximum_mutants THEN sizes
      ELSE [i \in DOMAIN sizes |-> Share(i) + IF Rank(i) < left THEN 1 ELSE 0]
_round_robin(lists) ==
  LET longest == Max({0} \cup {Len(lists[i]) : i \in DOMAIN lists})
  IN  FlattenSeq([k \in 1..longest |-> FlattenSeq([i \in DOMAIN lists |-> When(k <= Len(lists[i]), SubSeq(lists[i], k, k))])])
_sample(lists, chosen) == [op \in operators |-> SelectSeq(lists[op], LAMBDA m : m \in chosen)]
PerOperator == [op \in operators |-> mutate(op, tree)]
Samples ==
  LET counts == _stratified_counts([op \in operators |-> Len(PerOperator[op])])
  IN  {chosen \in SUBSET Range(_generate_all_mutations) :
         \A op \in operators : Cardinality({m \in chosen : m.operator = op}) = counts[op]}
_select_mutations(chosen) ==
  LET lists == _sample(PerOperator, chosen)
      Of(ops) == _round_robin([i \in 1..Cardinality(ops) |-> lists[Min(ops) + i - 1]])
  IN  Of(operators \ _TIMEOUT_PRONE_OPERATORS) \o Of(_TIMEOUT_PRONE_OPERATORS)

--------------------------------------------------------------------------------
Init ==
  /\ tree \in Modules
  /\ strategy \in Strategies
  /\ maximum_mutants \in IF strategy = "first_order" THEN Caps \cup {NoCap} ELSE {NoCap}
  /\ pc = "enumerate"
  /\ mutations = <<>> /\ usage = <<>> /\ group = <<>> /\ applied = <<>> /\ generators = <<>> /\ created = <<>>

\* without a bound in the order of the operators, else a sample of them, interleaved
Enumerate ==
  /\ pc = "enumerate"
  /\ IF maximum_mutants = NoCap THEN mutations' = _generate_all_mutations
     ELSE \E chosen \in Samples : mutations' = _select_mutations(chosen)
  /\ usage' = [m \in Range(_generate_all_mutations) |-> 0]
  /\ pc' = "select"
  /\ UNCHANGED <<tree, strategy, maximum_mutants, group, applied, generators, created>>

Complete == group # <<>> /\ (Len(group) = Order \/ Available = <<>>)
generate ==
  /\ pc = "select" /\ ~Complete
  /\ group # <<>> \/ Unused # {}
  /\ \E m \in Candidates :
       /\ group' = Append(group, m)
       /\ usage' = [usage EXCEPT ![m] = @ + 1]
       /\ mutations' = IF strategy = "between" THEN mutations ELSE Remove(mutations, m)
  /\ UNCHANGED <<tree, strategy, maximum_mutants, pc, applied, generators, created>>

\* the operator walks the tree again, as it now is, to the one mutation it is to make
Reached(m) == DOMAIN applied \cap (Ancestors(tree, m.node) \cup {m.node}) = {}
Apply ==
  /\ pc = "select" /\ Complete /\ Len(generators) < Len(group)
  /\ LET m == group[Len(generators) + 1] IN
       IF Reached(m)
       THEN /\ applied' = [n \in DOMAIN applied \cup {m.node} |-> IF n = m.node THEN m.result ELSE applied[n]]
            /\ generators' = Append(generators, m.node)
            /\ UNCHANGED pc
       ELSE /\ pc' = "failed"
            /\ UNCHANGED <<applied, generators>>
  /\ UNCHANGED <<tree, strategy, maximum_mutants, mutations, usage, group, created>>

\* the module is made of the tree as it is; the consumer may have no time left for another
create_mutants ==
  /\ pc = "select" /\ Complete /\ Len(generators) = Len(group)
  /\ created' = Append(created, applied)
  /\ pc' \in {"finish", "stopped"}
  /\ UNCHANGED <<tree, strategy, maximum_mutants, mutations, usage, group, applied, generators>>

NoneFinished ==
  /\ generators # <<>>
  /\ generators' = <<>>
  /\ UNCHANGED <<pc, group, applied>>
_finish_generators ==
  /\ generators # <<>>
  /\ applied' = [n \in DOMAIN applied \ {Last(generators)} |-> applied[n]]
  /\ generators' = Front(generators)
  /\ UNCHANGED <<pc, group>>
Finish ==
  /\ pc = "finish"
  /\ \/ _finish_generators
     \/ generators = <<>> /\ pc' = "select" /\ group' = <<>> /\ UNCHANGED <<applied, generators>>
  /\ UNCHANGED <<tree, strategy, maximum_mutants, mutations, usage, created>>

Done ==
  /\ pc = "select" /\ group = <<>> /\ Unused = {}
  /\ pc' = "done"
  /\ UNCHANGED <<tree, strategy, maximum_mutants, mutations, usage, group, applied, generators, created>>

Next == Enumerate \/ generate \/ Apply \/ create_mutants \/ Finish \/ Done
Spec == Init /\ [][Next]_vars

--------------------------------------------------------------------------------
\* Every mutation of a mutant can be made, and is there in what becomes the mutant:
\* none of them lies in a part of the tree that another one replaces.
AllTakeEffect ==
  /\ pc # "failed"
  /\ pc = "finish" /\ Len(generators) = Len(group) => \A i \in DOMAIN group :
       /\ applied[group[i].node] = group[i].result
       /\ DOMAIN applied \cap Ancestors(tree, group[i].node) = {}

\* No mutant has a mutation of an earlier one, nor is it one again: when all are made
\* the tree is the module's, and every mutation was in a mutant (in one only, unless
\* a strategy mixes operators), or as many of them as were asked for.
EachMutationOnce ==
  /\ group = <<>> => applied = <<>>
  /\ \A i, j \in DOMAIN created : i # j /\ strategy # "between" =>
       \A n \in DOMAIN created[i] \cap DOMAIN created[j] :
         <<created[i][n].kind, created[i][n].value>> # <<created[j][n].kind, created[j][n].value>>
  /\ pc = "done" =>
       LET used == UNION {{<<n, created[i][n]>> : n \in DOMAIN created[i]} : i \in DOMAIN created}
           all == {<<m.node, m.result>> : m \in DOMAIN usage}
       IN  IF maximum_mutants = NoCap THEN used = all
           ELSE Cardinality(used) = Min({maximum_mutants, Cardinality(all)})

\* The number of mutants given is the number of those that can be created.
mutation_count == Len(_generate_all_mutations)
CountIsWhatIsCreated == pc = "done" /\ maximum_mutants = NoCap => Len(created) = mutation_count
===============================================================================
