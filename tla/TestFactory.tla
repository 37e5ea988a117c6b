------------------------------- MODULE TestFactory -------------------------------
(***************************************************************************)
(* The test factory (pynguin/testcase/testfactory.py, TestFactory and      *)
(* MLTestFactory): it inserts calls together with the statements that      *)
(* produce their receivers and arguments, and changes statements in place. *)
(*                                                                         *)
(* An operator returns the set of its outcomes over all random choices.    *)
(* The outcome of a helper that provides a value is the test case with the *)
(* statements inserted so far, the variable that holds the value (None: an *)
(* inline literal, or a failure) and the cursor behind the insertions.     *)
(***************************************************************************)
EXTENDS TestCase

CONSTANTS
    Accessibles,    \* what the test cluster offers to call
    Kind,           \* constructor, method, function, enum or field
    Owner,          \* the class a method or field belongs to
    Parameters,     \* the types of the parameters, None where unknown
    Optional,       \* the parameters that have a default
    Gives,          \* the type of the result, None where unknown
    Constrained,    \* those the machine-learning mode has constraints for
    Subclasses,     \* the classes whose instances are of a type
    Primitives,     \* bool, int, float, complex, str, bytes
    Collections,    \* list, set, tuple, dict
    ElementType,    \* the element type of a collection, None where unknown
    Callables,      \* the types that hold callable values
    MaxRecursion,   \* test_creation.max_recursion
    CollectionSize, \* test_creation.collection_size
    Arities         \* _INVOCATION_ARITIES

\* What is declared of the accessibles speaks of the types there are, or of none.
ASSUME FactoryAssumption ==
    /\ None \notin Nat /\ None \notin Accessibles
    /\ Primitives \cup Collections \cup Callables \subseteq Types
    /\ Owner \in [Accessibles -> {None} \cup Types]
    /\ Gives \in [Accessibles -> {None} \cup Types]
    /\ Parameters \in [Accessibles -> Seq({None} \cup Types)]
    /\ ElementType \in [Collections -> {None} \cup Types]
    /\ MaxRecursion \in Nat /\ CollectionSize \in Nat /\ Arities \subseteq Nat

\* The test cases the factory works on
Statements ==
    [var : {None} \cup Nat, type : {None} \cup Types, uses : SUBSET Nat, call : {None} \cup Accessibles, ml : BOOLEAN]
TestCases == [stmts : Seq(Statements), counter : Nat]

Provided(tc, var, at) == [tc |-> tc, var |-> var, at |-> at]

\* get_generators_for: what is filed under exactly this type (None: Any); what
\* yields a primitive is no generator.
Generators(type) == {a \in Accessibles : Gives[a] = type} \ {a \in Accessibles : type \in Primitives}

\* offered: accessible_objects_under_test of the cluster, perhaps a filtered one
has_call_on_sut(tc, offered) == \E i \in DOMAIN tc.stmts : tc.stmts[i].call \in offered

--------------------------------------------------------------------------------
\* Mutant: a variable of the type anywhere in the test case.
FindAnywhere(tc, type, at) ==
    {tc.stmts[i].var : i \in {j \in DOMAIN tc.stmts :
        type # None /\ tc.stmts[j].type \in Subclasses[type]}} \ {None}

\* _find_variable_of_type: only variables bound before the position
FindVariableOfType(tc, type, at) ==
    IF type = None THEN {}
    ELSE {tc.stmts[i].var : i \in {j \in DOMAIN tc.stmts :
            j < at /\ tc.stmts[j].type \in Subclasses[type]}} \ {None}

\* _find_any_variable and _reference_pool
FindAnyVariable(tc, at) == BoundBefore(tc, at)

FindCallableVariable(tc, at) == UNION {FindVariableOfType(tc, t, at) : t \in Callables}

\* _emit_primitive_statement, _emit_class_statement, _emit_ml_assign: a literal
\* is bound to a variable, and the cursor moves behind it.
EmitLiteral(tc, type, at, ml) ==
    Provided(Bind(tc, at, type, {}, None, ml), tc.counter, at + 1)

\* _emit_callable_statement: a callable in scope, or a new one
EmitCallable(tc, at) ==
    {Provided(tc, v, at) : v \in FindCallableVariable(tc, at)}
    \cup {EmitLiteral(tc, t, at, FALSE) : t \in Callables}

\* _ml_arg_for_parameter: a value within the constraints, bound to a variable; for
\* an array, the call that turns it into a tensor is bound to another one (the
\* dtype, which gets a statement of its own, and the call of np.array are left out);
\* for a dtype without a strategy ConstructionFailedException is raised before
\* anything is inserted (None).
MLArgument(tc, at) ==
    LET payload == Bind(tc, at, None, {}, None, TRUE)
        tensor == Bind(payload, at + 1, None, {tc.counter}, None, TRUE)
    IN {EmitLiteral(tc, t, at, TRUE) : t \in Primitives \cup {None}}
       \cup {Provided(tensor, payload.counter, at + 2), Provided(tc, None, at)}

--------------------------------------------------------------------------------
(* How deep a generator may call generators and a collection hold collections is *)
(* limited: `scope` is what can be done one level down, the ways to create a      *)
(* value and to fill a collection of each type at each place (Providers).         *)

Places == [tc : TestCases, at : Nat]
Place(tc, at) == [tc |-> tc, at |-> at]

\* _create_or_reuse_var; None leaves the literal to the caller.
CreateOrReuse(scope, tc, type, at) ==
    IF type = None THEN {Provided(tc, None, at)}
    ELSE {Provided(tc, v, at) : v \in FindVariableOfType(tc, type, at)}
         \cup IF type \in Primitives THEN {Provided(tc, None, at)}
              ELSE scope.create[type][Place(tc, at)]

\* Several values after one another, the n-th in one of the ways that values[n] has
\* at the place reached; the variables read are collected.
InSequence(tc, at, count, values) ==
    LET after[n \in 0..count] ==
            IF n = 0 THEN {[tc |-> tc, uses |-> {}, at |-> at]}
            ELSE UNION {{[tc |-> v.tc, uses |-> o.uses \cup ({v.var} \ {None}), at |-> v.at] :
                            v \in values[n][Place(o.tc, o.at)]} : o \in after[n - 1]}
    IN after[count]

\* _collection_element: of a known type it becomes a variable of its own, else it
\* is a variable of the pool or a literal.
CollectionElement(scope, tc, type, at) ==
    UNION {IF v.var # None THEN {v}
           ELSE IF type \in Collections THEN scope.collect[type][Place(v.tc, v.at)]
           ELSE IF type \in Primitives THEN {EmitLiteral(v.tc, type, v.at, FALSE)}
           ELSE {Provided(v.tc, u, v.at) : u \in FindAnyVariable(v.tc, v.at) \cup {None}} :
                v \in CreateOrReuse(scope, tc, type, at)}

\* _emit_collection_statement and _build_dict: the elements first, then the
\* collection; too deep, the elements come from the pool of variables in scope.
BindCollection(type, e) == Provided(Bind(e.tc, e.at, type, e.uses, None, FALSE), e.tc.counter, e.at + 1)

Pools(tc, at) == {U \in SUBSET FindAnyVariable(tc, at) : Cardinality(U) <= CollectionSize}
PoolCollection(tc, type, at) ==
    {BindCollection(type, [tc |-> tc, uses |-> U, at |-> at]) : U \in Pools(tc, at)}

EmitCollection(scope, tc, type, at) ==
    LET element == [p \in Places |-> CollectionElement(scope, p.tc, ElementType[type], p.at)]
    IN {BindCollection(type, e) :
            e \in UNION {InSequence(tc, at, n, [i \in 1..n |-> element]) : n \in 0..CollectionSize}}

\* _resolve_arg_value; with an unknown type a callable may be wanted.
ResolveArgument(scope, tc, type, at) ==
    LET callable == IF type = None \/ type \in Callables THEN EmitCallable(tc, at) ELSE {}
        inline == {Provided(tc, v, at) : v \in FindAnyVariable(tc, at) \cup {None}}
    IN IF type \in Callables THEN callable
       ELSE callable \cup
            UNION {IF v.var # None THEN {v}
                   ELSE IF type \in Collections THEN scope.collect[type][Place(v.tc, v.at)]
                   ELSE IF type \in Primitives THEN {EmitLiteral(v.tc, type, v.at, FALSE)}
                   ELSE inline :
                        v \in CreateOrReuse(scope, tc, type, at)}

\* _satisfy_params: a parameter with a default may be left out; those of a
\* constrained accessible get values within the constraints, or fall back.
SatisfyParameter(scope, a, n, tc, at) ==
    (IF n \in Optional[a] THEN {Provided(tc, None, at)} ELSE {})
    \cup UNION {IF v.var # None THEN {v} ELSE ResolveArgument(scope, v.tc, Parameters[a][n], v.at) :
                    v \in {Provided(tc, None, at)}
                          \cup IF a \in Constrained THEN MLArgument(tc, at) ELSE {}}

SatisfyParameters(scope, tc, a, at) ==
    InSequence(tc, at, Len(Parameters[a]),
               [n \in DOMAIN Parameters[a] |-> [p \in Places |-> SatisfyParameter(scope, a, n, p.tc, p.at)]])

\* The receiver of a method or field: of the owner's type, found or created; when
\* inserting, not when replacing, also any variable at all.
Receivers(scope, tc, a, at, anyType) ==
    LET found == FindVariableOfType(tc, Owner[a], at)
    IN IF found # {} THEN {Provided(tc, v, at) : v \in found}
       ELSE UNION {{v} \cup IF v.var = None /\ anyType
                            THEN {Provided(v.tc, u, v.at) : u \in FindAnyVariable(v.tc, v.at)}
                            ELSE {} : v \in scope.create[Owner[a]][Place(tc, at)]}

NeedsReceiver(a) == Kind[a] \in {"method", "field"}
Arguments(scope, tc, a, at) ==
    IF Kind[a] \in {"enum", "field"} THEN {[tc |-> tc, uses |-> {}, at |-> at]}
    ELSE SatisfyParameters(scope, tc, a, at)

\* Mutant: the arguments come before the receiver, and stay when there is none.
BuildArgumentsFirst(scope, tc, a, at, anyType) ==
    UNION {IF NeedsReceiver(a)
           THEN {[tc |-> r.tc, uses |-> b.uses \cup {r.var}, at |-> r.at, built |-> r.var # None] :
                    r \in Receivers(scope, b.tc, a, b.at, anyType)}
           ELSE {[tc |-> b.tc, uses |-> b.uses, at |-> b.at, built |-> TRUE]} :
                b \in Arguments(scope, tc, a, at)}

\* _build_constructor, _build_method, _build_function, _build_enum, _build_field:
\* the statements a call needs and what it reads; without a receiver it is not built.
BuildCall(scope, tc, a, at, anyType) ==
    UNION {IF NeedsReceiver(a) /\ r.var = None
           THEN {[tc |-> r.tc, uses |-> {}, at |-> r.at, built |-> FALSE]}
           ELSE {[tc |-> b.tc, uses |-> b.uses \cup ({r.var} \ {None}), at |-> b.at, built |-> TRUE] :
                    b \in Arguments(scope, r.tc, a, r.at)} :
                r \in IF NeedsReceiver(a) THEN Receivers(scope, tc, a, at, anyType)
                      ELSE {Provided(tc, None, at)}}

\* _emit_accessible: the call goes behind what it needs, bound to a fresh name.
EmitAccessible(scope, tc, a, at) ==
    {IF b.built THEN Provided(Bind(b.tc, b.at, Gives[a], b.uses, a, FALSE), b.tc.counter, b.at + 1)
     ELSE Provided(b.tc, None, b.at) : b \in BuildCall(scope, tc, a, at, TRUE)}

\* _create_var_of_type: a generator of the type is called.
CreateVariable(scope, tc, type, at) ==
    IF Generators(type) = {} THEN {Provided(tc, None, at)}
    ELSE UNION {EmitAccessible(scope, tc, g, at) : g \in Generators(type)}

\* What can be done with so many levels left: with none, no generator is called.
Providers[left \in 0..MaxRecursion] ==
    [create |-> [type \in {None} \cup Types |-> [p \in Places |->
        IF left = 0 THEN {Provided(p.tc, None, p.at)}
        ELSE CreateVariable(Providers[left - 1], p.tc, type, p.at)]],
     collect |-> [type \in Collections |-> [p \in Places |->
        IF left = 0 THEN PoolCollection(p.tc, type, p.at)
        ELSE EmitCollection(Providers[left - 1], p.tc, type, p.at)]]]

\* The scopes of a statement under test and of what is inserted with it
Outermost == Providers[MaxRecursion]
Nested == Providers[IF MaxRecursion = 0 THEN 0 ELSE MaxRecursion - 1]

\* _maybe_invoke_result: a value that may be callable is perhaps called.
InvokeResult(tc, at) ==
    LET argument == [p \in Places |-> ResolveArgument(Nested, p.tc, None, p.at)]
    IN {tc} \cup
       IF tc.stmts[at].type # None /\ tc.stmts[at].type \notin Callables THEN {}
       ELSE UNION {{Bind(o.tc, o.at, None, o.uses \cup {tc.stmts[at].var}, None, FALSE) :
                        o \in InSequence(tc, at + 1, n, [i \in 1..n |-> argument])} : n \in Arities}

--------------------------------------------------------------------------------
(* The operations of the search: the test case they leave, and the answer    *)
(* whether they have changed it.                                            *)

Done(tcs) == {[tc |-> t, done |-> TRUE] : t \in tcs}
NotDone(tcs) == {[tc |-> t, done |-> FALSE] : t \in tcs}

\* insert_random_statement (and append_generic_accessible, at the end); the result of a
\* dependency is not invoked: what follows it is the caller's.
InsertRandomStatement(tc, at, offered) ==
    UNION {IF o.var = None THEN NotDone({o.tc}) ELSE Done(InvokeResult(o.tc, o.at - 1)) :
              o \in UNION {EmitAccessible(Outermost, tc, a, at) : a \in offered}}

\* _replace_with_node: the statement has moved behind the statements inserted
\* before it, and keeps its variable.
ReplaceWithNode(tc, at, built, type, call) ==
    LET old == at + size(built.tc) - size(tc)
        var == built.tc.stmts[old].var
        stmt == Statement(IF var = None THEN built.tc.counter ELSE var, type, built.uses, call, FALSE)
    IN [replace_statement(built.tc, old, stmt)
            EXCEPT !.counter = IF var = None THEN @ + 1 ELSE @]

\* _build_replacement_node, then _replace_with_node
Replaced(tc, at, a) ==
    {[tc |-> IF b.built THEN ReplaceWithNode(tc, at, b, Gives[a], a) ELSE b.tc, done |-> b.built] :
        b \in BuildCall(Outermost, tc, a, at, FALSE)}

\* change_random_call: another call with a result of the same type
ChangeRandomCall(tc, at) ==
    LET call == tc.stmts[at].call
        others == IF call = None \/ tc.stmts[at].ml \/ Kind[call] = "enum" THEN {}
                  ELSE Generators(Gives[call]) \ {call}
    IN IF others = {} THEN NotDone({tc}) ELSE UNION {Replaced(tc, at, a) : a \in others}

\* change_statement_type, with _change_to_literal and _change_to_accessible
ChangeStatementType(tc, at, offered) ==
    LET stmt == tc.stmts[at]
        literal(t) == replace_statement(tc, at, Statement(stmt.var, t, {}, None, FALSE))
    IN IF stmt.var = None \/ stmt.ml THEN NotDone({tc})
       ELSE NotDone({tc})
            \cup Done({literal(t) : t \in (Primitives \cup Collections) \ {stmt.type}})
            \cup UNION {Replaced(tc, at, a) : a \in offered \ {stmt.call}}

\* mutate_value, with _mutate_class_literal: the variables a collection reads are
\* drawn anew from those in scope; any other literal stays one.
MutateValue(tc, at) ==
    LET stmt == tc.stmts[at]
    IN IF stmt.ml THEN IF stmt.uses = {} THEN Done({tc}) \cup NotDone({tc}) ELSE NotDone({tc})
       ELSE IF stmt.type \in Collections
       THEN Done({replace_statement(tc, at, [stmt EXCEPT !.uses = U]) :
                U \in {V \in SUBSET FindAnyVariable(tc, at) : Cardinality(V) <= CollectionSize}})
       ELSE IF stmt.type \in Primitives THEN Done({tc})
       ELSE IF stmt.type \in Callables THEN Done({tc}) \cup NotDone({tc})
       ELSE NotDone({tc})

\* The variables an argument may refer to when nothing is inserted for it: one of
\* its type, any one where the type cannot be made, several from within a
\* collection, a callable one.  None of them: an inline value.
References(tc, type, at) ==
    LET found == FindVariableOfType(tc, type, at)
        single == IF type \in Callables THEN FindCallableVariable(tc, at)
                  ELSE IF type = None THEN FindAnyVariable(tc, at)
                  ELSE IF found = {} /\ type \notin Primitives \cup Collections
                  THEN FindAnyVariable(tc, at) ELSE found
    IN {{}} \cup {{v} : v \in single}
       \cup IF type \in {None} \cup Collections THEN Pools(tc, at) ELSE {}

\* _regen_args_in_place: arguments from what is in scope, nothing is inserted.
RegeneratedArguments(tc, a, at) ==
    LET taken == {args \in [DOMAIN Parameters[a] -> SUBSET FindAnyVariable(tc, at)] :
                    \A n \in DOMAIN args : args[n] \in References(tc, Parameters[a][n], at)}
    IN IF Kind[a] \in {"enum", "field"} THEN {{}}
       ELSE {UNION {args[n] : n \in DOMAIN args} : args \in taken}

\* mutate_call: the same call with new arguments, and with a receiver in scope
MutateCall(tc, at) ==
    LET stmt == tc.stmts[at]
        receivers == IF Kind[stmt.call] \in {"method", "field"}
                     THEN {{v} : v \in FindVariableOfType(tc, Owner[stmt.call], at)}
                     ELSE {{}}
    IN IF stmt.call = None \/ stmt.var = None \/ stmt.ml THEN NotDone({tc})
       ELSE IF receivers = {} THEN NotDone({tc})
       ELSE Done(UNION {{replace_statement(tc, at, [stmt EXCEPT !.uses = r \cup u]) :
                            u \in RegeneratedArguments(tc, stmt.call, at)} : r \in receivers})

\* change_random_field_call: another field of the same receiver
ChangeRandomField(tc, at) ==
    LET stmt == tc.stmts[at]
        others == {a \in Generators(Gives[stmt.call]) \ {stmt.call} : Kind[a] = "field"}
    IN IF others = {} THEN NotDone({tc})
       ELSE Done({replace_statement(tc, at, [stmt EXCEPT !.call = a]) : a \in others})

\* delete_statement_gracefully
DeleteGracefully(tc, at) == remove_statement_with_forward_dependencies(tc, at)
================================================================================
