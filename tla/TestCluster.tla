---------------------------- MODULE TestCluster -----------------------------
(***************************************************************************)
(* The test cluster of a module under test (analyses/module.py,            *)
(* analyses/generator.py): how it is filled by walking through the         *)
(* modules, classes and functions that the module under test can reach,    *)
(* and how executing test cases with type tracing changes it afterwards    *)
(* (testcase/execution_observers.py).  With it go the type system          *)
(* (analyses/typesystem.py) and the knowledge that proxies gather on the   *)
(* arguments of a call (utils/typetracing.py).                             *)
(*                                                                         *)
(* What can be called or read is <<"constructor", class>>, <<"enum",       *)
(* class>>, <<"method", class, name>>, <<"field", class, name>> or         *)
(* <<"function", name>>.  The dictionary of generators is a set of pairs:  *)
(* a type without generators is never one of its keys.  Proper types are   *)
(* tuples whose first element names the kind; a union is sorted when it is *)
(* made, so it is a set here.                                              *)
(*                                                                         *)
(* Left out: the constraints of the machine-learning mode, subtypes of     *)
(* strings (subtype_inference is NONE by default), the syntax trees and    *)
(* what is only logged.  A callable has one parameter.                     *)
(***************************************************************************)
EXTENDS Naturals, Sequences, FiniteSets, SequencesExt, TLC

CONSTANTS
    Universes,      \* what can be analysed: the modules, classes and functions
    KeptGuesses,    \* type_tracing_kept_guesses
    CollectionSize, \* collection_size, the longest tuple that is guessed
    MaxExecutions   \* bound on the traced calls

VARIABLES
    world,          \* the universe of this run; it does not change
    known,          \* the classes that have a TypeInfo, i.e. the nodes
    edges,          \* pairs: a class and one of its subclasses
    attributes,     \* the attributes each TypeInfo lists
    work,           \* push_attributes_down: the work list (any order)
    reach_in, reach_out,
    phase,          \* "modules", "classes", "push" or "run"
    current,        \* the module being analysed
    wait_list,      \* modules to analyse
    work_list,      \* classes of the current module to analyse
    seen,           \* modules, classes and functions that were
    generators,     \* pairs: a type and what generates it
    modifiers,      \* pairs: a class and a method or field of it
    under_test,     \* accessible_objects_under_test
    return_type,    \* inferred_signature.return_type of every callable
    usage_trace,    \* what proxies told about the parameter of a callable
    guessed,        \* current_guessed_parameters
    executions      \* the traced calls so far: pairs of callable and traced tree

typeVars == <<known, edges, attributes, work, reach_in, reach_out>>
clusterVars == <<phase, current, wait_list, work_list, seen, generators, modifiers,
                 under_test, return_type, usage_trace, guessed, executions, world, typeVars>>

-----------------------------------------------------------------------------
(* Proper types *)
ANY == <<"any">>
NONE_TYPE == <<"none">>
Instance(class, args) == <<"instance", class, args>>
TupleType(args, unknown_size) == <<"tuple", args, unknown_size>>
UnionType(items) == <<"union", items>>

(* How many type arguments a class has; only these three have any. *)
num_hardcoded_generic_parameters(class) ==
    CASE class = "dict" -> 2 [] class \in {"list", "set"} -> 1 [] OTHER -> 0

_fixup_known_generics(class, args) ==
    LET n == num_hardcoded_generic_parameters(class)
    IN  Instance(class, IF n = 0 THEN args
                        ELSE [i \in 1..n |-> IF i <= Len(args) THEN args[i] ELSE ANY])

(* The proper type of a raw class, as a hint or as the type of a value. *)
convert_type_hint(raw) ==
    CASE raw = "tuple" -> TupleType(<<ANY>>, TRUE)
      [] raw = "NoneType" -> NONE_TYPE
      [] OTHER -> _fixup_known_generics(raw, <<>>)

(* The type of an observed value: its class, with the classes of its       *)
(* elements where the class is one of the generic ones.                    *)
infer_known_generics(value) ==
    LET elements == [i \in DOMAIN value.elements |-> convert_type_hint(value.elements[i])]
    IN  IF value.class = "tuple" THEN TupleType(elements, FALSE)
        ELSE IF num_hardcoded_generic_parameters(value.class) > 0 /\ elements /= <<>>
             THEN Instance(value.class, elements)
             ELSE convert_type_hint(value.class)

PRIMITIVES == {"int", "str", "bytes", "bool", "float", "complex"}
COLLECTIONS == {"list", "set", "tuple", "dict"}
is_primitive_type(type) == type[1] = "instance" /\ type[2] \in PRIMITIVES \cup {"type"}
is_collection_type(type) == \/ type[1] = "tuple"
                            \/ type[1] = "instance" /\ type[2] \in COLLECTIONS \ {"tuple"}

-----------------------------------------------------------------------------
(* The inheritance graph *)
RECURSIVE Reachable(_, _)
Reachable(from, graph) ==
    LET next == from \cup {e[2] : e \in {x \in graph : x[1] \in from}}
    IN  IF next = from THEN from ELSE Reachable(next, graph)

Upwards(graph) == {<<e[2], e[1]>> : e \in graph}

get_subclasses(class) == IF class \in known THEN Reachable({class}, edges) ELSE {class}
get_superclasses(class) == IF class \in known THEN Reachable({class}, Upwards(edges)) ELSE {class}

get_type_outside_of(classes) == known \ UNION {get_subclasses(c) : c \in classes}

Predecessors(class) == {e[1] : e \in {x \in edges : x[2] = class}}
Successors(class) == {e[2] : e \in {x \in edges : x[1] = class}}

(* The classes that the type system makes nodes of when it is made; the    *)
(* conversion of tuple makes none.                                         *)
Intrinsic == PRIMITIVES \cup (COLLECTIONS \ {"tuple"})

(* enable_numeric_tower *)
Tower == {<<"int", "bool">>, <<"float", "int">>, <<"complex", "float">>}

-----------------------------------------------------------------------------
(* push_attributes_down *)

(* What is of no use when an object with an attribute is looked for. *)
OnlyStubs == {"__lt__", "__le__", "__gt__", "__ge__"}

StartPushing ==
    /\ attributes' = [attributes EXCEPT !["object"] = @ \ OnlyStubs]
    /\ work' = known
    /\ reach_in' = [c \in known |-> {}]
    /\ reach_out' = [c \in known |-> {}]
    /\ UNCHANGED <<known, edges>>

(* A bug: only what a class itself still has is seen below it. *)
OwnOnly(in, own) == own

(* Everything seen above a class is seen below it as well. *)
SeenBelow(in, own) == in \cup own

push_attributes_down ==
    \E type_info \in work :
        LET in == reach_in[type_info] \cup UNION {reach_out[p] : p \in Predecessors(type_info)}
            own == attributes[type_info] \ in
            out == SeenBelow(in, own)
        IN  /\ reach_in' = [reach_in EXCEPT ![type_info] = in]
            /\ attributes' = [attributes EXCEPT ![type_info] = own]
            /\ reach_out' = [reach_out EXCEPT ![type_info] = out]
            /\ work' = (work \ {type_info})
                       \cup (IF out /= reach_out[type_info] THEN Successors(type_info) ELSE {})
            /\ UNCHANGED <<known, edges>>

find_by_attribute(attr) == {c \in known : attr \in attributes[c]}

-----------------------------------------------------------------------------
(* UsageTraceNode: the tree of a proxy as a function from paths (sequences *)
(* of attributes) to what the node there holds; arg_types maps positions   *)
(* of arguments to the types seen there.                                   *)
EmptyNode == [type_checks |-> {}, arg_types |-> <<>>]
NoKnowledge == [path \in {<<>>} |-> EmptyNode]

(* __len__ of the root *)
Told(tree) == tree[<<>>] /= EmptyNode \/ DOMAIN tree /= {<<>>}

(* The nodes on the way to a path, in a tree that makes them on demand. *)
WithPath(tree, path) ==
    [p \in DOMAIN tree \cup {SubSeq(path, 1, n) : n \in 0..Len(path)} |->
        IF p \in DOMAIN tree THEN tree[p] ELSE EmptyNode]

(* arg_types is updated as a dictionary: the entry of the other one wins. *)
MergeNodes(node, other) ==
    [type_checks |-> node.type_checks \cup other.type_checks,
     arg_types |-> other.arg_types @@ node.arg_types]

(* A bug: the children are updated as a dictionary, too. *)
MergeRoot(tree, other) ==
    LET replaced == {p \in DOMAIN tree : p /= <<>> /\ SubSeq(p, 1, 1) \in DOMAIN other}
    IN  [p \in (DOMAIN tree \ replaced) \cup DOMAIN other |->
            IF p = <<>> THEN MergeNodes(tree[p], other[p])
            ELSE IF p \in DOMAIN other THEN other[p] ELSE tree[p]]

merge(tree, other) ==
    [p \in DOMAIN tree \cup DOMAIN other |->
        CASE p \notin DOMAIN other -> tree[p]
          [] p \notin DOMAIN tree -> MergeNodes(EmptyNode, other[p])
          [] OTHER -> MergeNodes(tree[p], other[p])]

Children(tree, path) == {p \in DOMAIN tree : Len(p) = Len(path) + 1 /\ IsPrefix(path, p)}

(* arg_types is a defaultdict: to look at a position makes the entry. *)
ReadArgTypes(tree, path, idx) ==
    [WithPath(tree, path) EXCEPT ![path].arg_types = @ @@ (idx :> {})]
ArgTypes(tree, path, idx) ==
    IF path \in DOMAIN tree /\ idx \in DOMAIN tree[path].arg_types
    THEN tree[path].arg_types[idx] ELSE {}

-----------------------------------------------------------------------------
(* Guessing a type.  Every operator gives the set of its outcomes: a guess *)
(* (<<>> for None), the tree it leaves, which it may have grown, and the   *)
(* classes that it has made a TypeInfo for.                                *)
Outcome(guess, tree, met) == [guess |-> guess, tree |-> tree, met |-> met]

make_instance(class) == convert_type_hint(class)

(* Any of the classes or, with the probability negate_type, any other. *)
_choose_type_or_negate(classes) ==
    IF classes = {} THEN {<<>>}
    ELSE {<<make_instance(c)>> : c \in classes \cup get_type_outside_of(classes)}

(* One of the types seen, which to_type_info makes known. *)
ChooseSeen(classes, tree) ==
    UNION {{Outcome(g, tree, {c}) : g \in _choose_type_or_negate({c})} : c \in classes}

_from_type_check(tree, path) == ChooseSeen(tree[path].type_checks, tree)

_ARGUMENT_ATTRIBUTES ==
    {"__eq__", "__ne__", "__lt__", "__le__", "__gt__", "__ge__", "__add__", "__radd__", "__sub__",
     "__rsub__", "__truediv__", "__rtruediv__", "__floordiv__", "__rfloordiv__"}

_from_attr_table(tree, path) ==
    UNION {LET read == ReadArgTypes(tree, Append(attr, "__call__"), 0)
               argument == Last(attr) \in _ARGUMENT_ATTRIBUTES
               after == IF argument THEN ReadArgTypes(read, attr, 0) ELSE read
           IN  {Outcome(g, after, {}) : g \in _choose_type_or_negate(find_by_attribute(Last(attr)))}
               \cup (IF argument THEN ChooseSeen(ArgTypes(tree, attr, 0), after) ELSE {}) :
           attr \in Children(tree, path)}

(* What the type arguments of a builtin collection are guessed from: the   *)
(* knowledge of an element, the argument of a dunder method, or that of a  *)
(* method that is called; one record for each type argument.               *)
Called(names) == {<<n, "__call__">> : n \in names}
Sources(elements, arguments, paths, idx) ==
    [elements |-> elements, arguments |-> arguments, paths |-> paths, idx |-> idx]
SourcesOf(type) ==
    CASE type[1] = "tuple" -> Sources({"__iter__", "__getitem__"}, {"__contains__"}, {}, 0)
      [] type[2] = "list" -> <<Sources({"__iter__", "__getitem__"}, {"__contains__", "__delitem__"},
                                       Called({"append", "remove"}), 0)>>
      [] type[2] = "set" -> <<Sources({"__iter__"}, {"__contains__", "__delitem__"},
                                      Called({"add", "remove", "discard"}), 0)>>
      [] OTHER -> <<Sources({"__iter__"}, {"__contains__", "__delitem__", "__getitem__", "__setitem__"}, {}, 0),
                    Sources({"__getitem__"}, {"__setitem__"}, {}, 1)>>

_guess_from_argument_types(tree, path, idx) ==
    LET after == ReadArgTypes(tree, path, idx) IN
    IF ArgTypes(tree, path, idx) = {} THEN {Outcome(<<>>, after, {})}
    ELSE ChooseSeen(ArgTypes(tree, path, idx), after)

(* The path ends at __call__, and then one __call__ more is read. *)
_guess_from_argument_types_from_path(tree, path) ==
    _guess_from_argument_types(tree, Append(path, Last(path)), 0)

RECURSIVE _guess_parameter_type_from(_, _, _)

_guess_generic_arguments(tree, path, depth, sources) ==
    LET Of(names) == {q \in Children(tree, path) : Last(q) \in names} IN
    UNION {_guess_parameter_type_from(tree, p, depth + 1) : p \in Of(sources.elements)}
    \cup UNION {_guess_from_argument_types(tree, p, sources.idx) : p \in Of(sources.arguments)}
    \cup UNION {_guess_from_argument_types_from_path(tree, path \o p) :
              p \in {q \in sources.paths : path \o q \in DOMAIN tree}}
    \cup {Outcome(<<ANY>>, tree, {})}

(* One type argument after the other; None leaves what the type has. *)
RECURSIVE GuessEach(_, _, _, _)
GuessEach(o, path, depth, sources) ==
    IF sources = <<>> THEN {o}
    ELSE UNION {GuessEach(Outcome(Append(o.guess, IF e.guess = <<>> THEN ANY ELSE e.guess[1]),
                                  e.tree, o.met \cup e.met), path, depth, Tail(sources)) :
                   e \in _guess_generic_arguments(o.tree, path, depth, Head(sources))}

_guess_generic_type_parameters_for_builtins(o, path, depth) ==
    LET type == o.guess[1]
        Guess(sources) == GuessEach(Outcome(<<>>, o.tree, o.met), path, depth, sources)
    IN  IF type[1] = "tuple"
        THEN UNION {{Outcome(<<TupleType(a.guess, FALSE)>>, a.tree, a.met) :
                        a \in Guess([i \in 1..n |-> SourcesOf(type)])} : n \in 1..CollectionSize}
        ELSE {Outcome(<<Instance(type[2], a.guess)>>, a.tree, a.met) : a \in Guess(SourcesOf(type))}

_guess_parameter_type_from(tree, path, depth) ==
    LET guesses == _from_type_check(tree, path) \cup _from_attr_table(tree, path)
        Refined(o) == depth <= 1 /\ o.guess /= <<>> /\ is_collection_type(o.guess[1])
    IN  IF guesses = {} THEN {Outcome(<<>>, tree, {})}
        ELSE UNION {IF Refined(o) THEN _guess_generic_type_parameters_for_builtins(o, path, depth)
                    ELSE {o} : o \in guesses}

(* The guesses that are kept: the last ones, each once. *)
_update_guess(guesses, guess) ==
    IF guess = <<>> \/ guess[1] \in Range(guesses) THEN guesses
    ELSE Append(IF Len(guesses) >= KeptGuesses THEN Tail(guesses) ELSE guesses, guess[1])

-----------------------------------------------------------------------------
(* Parts of the universe *)
Class(c) == world.classes[c]
Function(f) == world.functions[f]
Members(m, kind) == SelectSeq(world.modules[m].members, LAMBDA x : x[1] = kind)
Blacklisted(module) == module \in world.blacklist

AllowedBuiltins == PRIMITIVES \cup COLLECTIONS
IsBlacklistedClass(c) ==
    Blacklisted(Class(c).module) /\ ~(Class(c).module = "builtins" /\ c \in AllowedBuiltins)

(* A function is standalone if its name begins with main or test, if it    *)
(* has no module, or if it is on the list of methods to leave alone.       *)
IsBlacklistedFunction(f) == Blacklisted(Function(f).module) \/ Function(f).kind = "standalone"

(* Outside of the module under test only public elements count. *)
__should_skip_by_visibility(visibility, add_to_test) ==
    IF add_to_test THEN visibility \notin world.element_visibility ELSE visibility /= "public"

(* What vars() lists and what __init__ assigns, but for what every class   *)
(* has.                                                                    *)
IGNORED_SYMBOLS ==
    {"__new__", "__init__", "__del__", "__repr__", "__str__", "__sizeof__", "__getattribute__", "__getattr__"}
__add_symbols(c) == Class(c).attributes \ IGNORED_SYMBOLS

Add(gens, type, callable) ==
    IF type = NONE_TYPE \/ is_primitive_type(type) THEN gens ELSE gens \cup {<<type, callable>>}

Returns(callable) ==
    CASE callable[1] = "constructor" -> convert_type_hint(callable[2])
      [] callable[1] = "method" -> Class(callable[2]).methods[callable[3]].returns
      [] callable[1] = "enum" -> Instance(callable[2], <<>>)
      [] callable[1] = "field" -> Class(callable[2]).fields[callable[3]]
      [] OTHER -> Function(callable[2]).returns

(* A constructor answers with its class whatever its signature says. *)
generated_type(callable, returns) ==
    IF callable[1] = "constructor" THEN Instance(callable[2], <<>>) ELSE returns

-----------------------------------------------------------------------------
ClusterInit ==
    /\ world \in Universes
    /\ phase = "classes"                  \* builtins come first, then the root
    /\ current = "builtins"
    /\ wait_list = <<>>
    /\ work_list = SelectSeq(world.modules["builtins"].members, LAMBDA x : ~IsBlacklistedClass(x[2]))
    /\ seen = {}
    /\ generators = {} /\ modifiers = {} /\ under_test = {}
    /\ return_type = <<>> /\ usage_trace = <<>> /\ guessed = <<>> /\ executions = <<>>
    /\ known = Intrinsic \cap DOMAIN world.classes     \* a universe has the builtins it needs
    /\ edges = {} /\ attributes = [c \in known |-> {}]
    /\ work = {} /\ reach_in = <<>> /\ reach_out = <<>>

(* What is taken of a class, given whether it is under test: an enum is   *)
(* generated by its members, and one without members is passed over.       *)
ConstructorsOf(c) ==
    IF Class(c).is_abstract \/ c \in AllowedBuiltins THEN {}
    ELSE IF Class(c).kind = "enum" THEN {<<"enum", c>>} ELSE {<<"constructor", c>>}
MethodsOf(c, add_to_test) ==
    {<<"method", c, n>> : n \in {x \in DOMAIN Class(c).methods :
        /\ ~__should_skip_by_visibility(Class(c).methods[x].visibility, add_to_test)
        /\ ~Class(c).methods[x].coroutine}}

(* __analyse_fields: public data attributes and properties *)
FieldsOf(c) ==
    IF world.generate_field_statements THEN {<<"field", c, n>> : n \in DOMAIN Class(c).fields} ELSE {}

(* A bug: what is met while the module under test is analysed is its own. *)
AddAllMet(module) == module = world.root \/ current = world.root

AddToTest(module) == module = world.root

(* add for several callables. *)
RECURSIVE AddAll(_, _)
AddAll(gens, callables) ==
    IF callables = {} THEN gens
    ELSE LET x == CHOOSE y \in callables : TRUE
         IN  AddAll(Add(gens, generated_type(x, Returns(x)), x), callables \ {x})

IsAnalysed(c) == c /= "tuple" /\ Class(c).kind /= "empty enum"
Callables(found) == {x \in found : x[1] \in {"constructor", "method", "function"}}

(* __analyse_class *)
AnalyseClass(c) ==
    LET add_to_test == AddToTest(Class(c).module)
        callables == ConstructorsOf(c) \cup MethodsOf(c, add_to_test)
        found == IF IsAnalysed(c) THEN callables \cup FieldsOf(c) ELSE {}
    IN  /\ generators' = AddAll(generators, found)
        /\ modifiers' = modifiers \cup {<<c, x>> : x \in {y \in found : y[1] \in {"method", "field"}}}
        /\ under_test' = IF add_to_test THEN under_test \cup {x \in found : x[1] /= "field"} ELSE under_test
        /\ return_type' = [x \in Callables(found) |-> Returns(x)] @@ return_type

(* A bug: bases that were seen before are passed over, edge and all. *)
NewBases(c) == {<<b, c>> : b \in Range(Class(c).bases) \ seen}

BaseEdges(c) == {<<b, c>> : b \in Range(Class(c).bases)}

(* One round of the loop in __analyse_included_classes.  The bases of a    *)
(* class join the work list unfiltered.                                    *)
__analyse_included_classes ==
    /\ phase = "classes" /\ work_list /= <<>>
    /\ LET c == Head(work_list)[2] IN
       IF c \in seen
       THEN /\ work_list' = Tail(work_list)
            /\ UNCHANGED <<seen, known, edges, attributes, generators, modifiers, under_test, return_type>>
       ELSE IF Class(c).kind = "hidden"
       THEN \* a property as __module__, or a C extension without a module to parse
            /\ seen' = seen \cup {c}
            /\ known' = known \cup {c}
            /\ attributes' = attributes @@ [x \in {c} |-> {}]
            /\ work_list' = Tail(work_list)
            /\ UNCHANGED <<edges, generators, modifiers, under_test, return_type>>
       ELSE /\ AnalyseClass(c)
            /\ seen' = seen \cup {c}
            /\ known' = known \cup {c} \cup Range(Class(c).bases)
            /\ attributes' = [x \in {c} |-> __add_symbols(c)] @@ attributes
                             @@ [x \in Range(Class(c).bases) |-> {}]
            /\ edges' = edges \cup BaseEdges(c)
            /\ work_list' = Tail(work_list)
                            \o [i \in DOMAIN Class(c).bases |-> <<"class", Class(c).bases[i]>>]
    /\ UNCHANGED <<phase, current, wait_list, usage_trace, guessed, executions, world,
                   work, reach_in, reach_out>>

(* The functions of a module that are met now, and those that are taken: a *)
(* lambda has no name but that of the variable it is assigned to.          *)
NewFunctions(m) ==
    {x[2] : x \in {y \in Range(Members(m, "function")) : y[2] \notin seen /\ ~IsBlacklistedFunction(y[2])}}
FunctionsOf(m) ==
    {<<"function", f>> : f \in {x \in NewFunctions(m) :
        /\ ~__should_skip_by_visibility(Function(x).visibility, AddToTest(Function(x).module))
        /\ Function(x).kind \notin {"coroutine", "lambda"}}}

(* After the classes of a module: its functions, and the modules it knows. *)
__analyse_included_functions ==
    /\ phase = "classes" /\ work_list = <<>>
    /\ IF current = "builtins"
       THEN \* enable_numeric_tower, and the root module is put on the wait list
            /\ edges' = edges \cup {e \in Tower : {e[1], e[2]} \subseteq known}
            /\ wait_list' = <<world.root>>
            /\ UNCHANGED <<seen, generators, under_test, return_type>>
       ELSE /\ generators' = AddAll(generators, FunctionsOf(current))
            /\ under_test' = under_test
                 \cup {f \in FunctionsOf(current) : AddToTest(Function(f[2]).module)}
            /\ return_type' = [f \in FunctionsOf(current) |-> Returns(f)] @@ return_type
            /\ seen' = seen \cup {current} \cup NewFunctions(current)
            /\ wait_list' = wait_list \o world.modules[current].includes
            /\ UNCHANGED edges
    /\ phase' = "modules"
    /\ UNCHANGED <<current, work_list, known, attributes, modifiers, usage_trace, guessed, executions, world,
                   work, reach_in, reach_out>>

(* __resolve_dependencies: the next module, or the end of the analysis. *)
TakeModule ==
    /\ phase = "modules" /\ wait_list /= <<>>
    /\ LET m == Head(wait_list) IN
       IF m \in seen \/ Blacklisted(m)
       THEN UNCHANGED <<phase, current, work_list>>
       ELSE /\ current' = m
            /\ work_list' = SelectSeq(Members(m, "class"), LAMBDA x : ~IsBlacklistedClass(x[2]))
            /\ phase' = "classes"
    /\ wait_list' = Tail(wait_list)
    /\ UNCHANGED <<seen, generators, modifiers, under_test, return_type, usage_trace, guessed,
                   executions, world, typeVars>>

PushDown ==
    /\ \/ /\ phase = "modules" /\ wait_list = <<>>
          /\ StartPushing
          /\ phase' = "push"
          /\ UNCHANGED <<usage_trace, guessed>>
       \/ /\ phase = "push"
          /\ push_attributes_down
          /\ UNCHANGED <<phase, usage_trace, guessed>>
       \/ /\ phase = "push" /\ work = {}
          /\ phase' = "run"
          /\ usage_trace' = [x \in DOMAIN return_type |-> NoKnowledge]
          /\ guessed' = [x \in DOMAIN return_type |-> <<>>]
          /\ UNCHANGED typeVars
    /\ UNCHANGED <<current, wait_list, work_list, seen, generators, modifiers, under_test,
                   return_type, executions, world>>

-----------------------------------------------------------------------------
(* While test cases are executed *)

MaxUnion == 5
_add_or_make_union(old, new) ==
    IF old[1] = "union" THEN IF Cardinality(old[2]) >= MaxUnion THEN old ELSE UnionType(old[2] \cup {new})
    ELSE IF old \in {ANY, new} THEN UnionType({new})
    ELSE UnionType({old, new})

(* A bug: the signature is updated before the callable is dropped. *)
DropUnderNewType(callable) == <<"union", {}>>

_drop_generator(callable) == generated_type(callable, return_type[callable])

(* The callable is taken from where it is filed now, then filed anew; the  *)
(* type it is filed under is the one of its signature.                     *)
update_return_type(callable, new) ==
    LET old == return_type[callable]
        type == _add_or_make_union(old, new)
    IN  IF type = old THEN UNCHANGED <<generators, return_type>>
        ELSE /\ generators' = (generators \ {<<_drop_generator(callable), callable>>}) \cup {<<type, callable>>}
             /\ return_type' = [return_type EXCEPT ![callable] = type]

(* to_type_info: a class that was not met before makes a node without      *)
(* edges.  The conversion of tuple and NoneType asks for none.             *)
to_type_info(classes) ==
    /\ known' = known \cup classes
    /\ attributes' = attributes @@ [c \in classes |-> {}]
Meet(value) == to_type_info(({value.class} \cup Range(value.elements)) \ {"tuple", "NoneType"})

(* TypeTracingTestCaseExecutor: the test case is executed once for what it *)
(* returns and once more with proxies.  There is nothing returned if the   *)
(* call raises or answers NotImplemented, and nothing traced if the first  *)
(* execution timed out or no argument was replaced by a proxy.             *)
ExecuteTraced ==
    /\ phase = "run" /\ Len(executions) < MaxExecutions
    /\ \E callable \in world.called \cap DOMAIN return_type, tree \in world.traces :
          /\ \/ \E v \in {x \in world.values : x.by = callable[1]} :
                LET value == IF callable[1] = "constructor" THEN [v EXCEPT !.class = callable[2]] ELSE v
                IN  /\ Meet(value)
                    /\ update_return_type(callable, infer_known_generics(value))
             \/ UNCHANGED <<known, attributes, generators, return_type>>
          /\ usage_trace' = [usage_trace EXCEPT ![callable] = merge(@, tree)]
          /\ executions' = Append(executions, <<callable, tree>>)
    /\ UNCHANGED <<phase, current, wait_list, work_list, seen, modifiers, under_test, guessed,
                   world, edges, work, reach_in, reach_out>>

(* get_parameter_types: with any knowledge the guesses are updated first.  *)
(* The guess for *args is made from what iterating over it told.           *)
_guess_parameter_type(tree, kind) ==
    CASE kind = "args" -> IF <<"__iter__">> \in DOMAIN tree
                          THEN _guess_parameter_type_from(tree, <<"__iter__">>, 0)
                          ELSE {Outcome(<<>>, tree, {})}
      [] kind = "kwargs" -> IF <<"__getitem__">> \in DOMAIN tree
                            THEN _guess_parameter_type_from(tree, <<"__getitem__">>, 0)
                            ELSE {Outcome(<<>>, tree, {})}
      [] OTHER -> _guess_parameter_type_from(tree, <<>>, 0)

get_parameter_types ==
    /\ phase = "run"
    /\ \E callable \in Callables(under_test) :
          /\ Told(usage_trace[callable])
          /\ \A x \in Callables(under_test) \ {callable} : guessed[x] = <<>>  \* a bound: the guesses of one
          /\ \E o \in _guess_parameter_type(usage_trace[callable], world.kind) :
                /\ guessed' = [guessed EXCEPT ![callable] = _update_guess(@, o.guess)]
                /\ usage_trace' = [usage_trace EXCEPT ![callable] = o.tree]
                /\ to_type_info(o.met)
    /\ UNCHANGED <<phase, current, wait_list, work_list, seen, generators, modifiers, under_test,
                   return_type, executions, world, edges, work, reach_in, reach_out>>

ClusterNext == \/ __analyse_included_classes \/ __analyse_included_functions \/ TakeModule
               \/ PushDown \/ ExecuteTraced \/ get_parameter_types

ClusterSpec == ClusterInit /\ [][ClusterNext]_clusterVars

-----------------------------------------------------------------------------
get_generators_for(type) == {g[2] : g \in {x \in generators : x[1] = type}}
get_modifiers_for(type) ==
    LET Of(item) == CASE item[1] = "any" -> {m[2] : m \in modifiers}
                      [] item[1] = "instance" ->
                            {m[2] : m \in {x \in modifiers : x[1] \in get_superclasses(item[2])}}
                      [] OTHER -> {}
    IN  IF type[1] = "union" THEN UNION {Of(item) : item \in type[2]} ELSE Of(type)

-----------------------------------------------------------------------------
(* Properties *)

Own(kind) == {x[2] : x \in {y \in Range(world.modules[world.root].members) : y[1] = kind}}
Visible(classes) == {c \in classes : Class(c).kind /= "hidden"}
RECURSIVE WithBases(_)
WithBases(classes) ==
    LET next == classes \cup UNION {Range(Class(c).bases) : c \in Visible(classes)}
    IN  IF next = classes THEN classes ELSE WithBases(next)

Collected(classes) == {c \in Visible(classes) : Class(c).kind /= "empty enum"}
OwnClasses == {c \in Collected(WithBases(Own("class"))) : Class(c).module = world.root}
OwnFunctions == {f \in Own("function") : Function(f).module = world.root}

(* What is tested are the elements that the module under test defines and  *)
(* whose visibility is asked for, each found no matter through which other *)
(* module, base class or cycle of imports it is met (module.py:1745-1930). *)
UnderTestIsItsOwn ==
    phase \in {"push", "run"} =>
        under_test =
            {<<"function", f>> : f \in {x \in OwnFunctions :
                Function(x).visibility \in world.element_visibility /\ Function(x).kind = "function"}}
            \cup {<<IF Class(c).kind = "enum" THEN "enum" ELSE "constructor", c>> :
                    c \in {x \in OwnClasses : ~Class(x).is_abstract}}
            \cup UNION {{<<"method", c, n>> : n \in {x \in DOMAIN Class(c).methods :
                /\ Class(c).methods[x].visibility \in world.element_visibility
                /\ ~Class(c).methods[x].coroutine}} : c \in OwnClasses}

(* An object can be changed by the methods of its class and of all classes *)
(* above it, and its fields be read, in diamonds as well and however the   *)
(* walk came to them.                                                      *)
ModifiersAreInherited ==
    phase = "run" => \A c \in seen \cap DOMAIN world.classes :
        get_modifiers_for(Instance(c, <<>>)) =
            UNION {MethodsOf(b, Class(b).module = world.root) \cup FieldsOf(b) :
                      b \in Collected(WithBases({c}))}

(* Pushing attributes down leaves each of them at the top-most classes     *)
(* that define it, and only there (typesystem.py:1803-1810), in whatever   *)
(* order the work list is served.                                          *)
AttributesAreTopMost ==
    phase = "run" => \A c \in seen \cap DOMAIN world.classes :
        LET Defines(x) == IF x \notin seen \/ Class(x).kind = "hidden" THEN {}
                          ELSE __add_symbols(x) \ (IF x = "object" THEN OnlyStubs ELSE {})
        IN  attributes[c] = Defines(c) \ UNION {Defines(x) : x \in get_superclasses(c) \ {c}}

(* A function or method is filed under the type that its signature has by  *)
(* now, and under no type it had before (module.py:888-928).               *)
FiledOnce ==
    \A x \in DOMAIN return_type : x[1] /= "constructor" =>
        {g[1] : g \in {y \in generators : y[2] = x}}
          = IF return_type[x] = NONE_TYPE \/ is_primitive_type(return_type[x])
            THEN {} ELSE {return_type[x]}

(* What a proxy was checked against in one execution is known for good, at *)
(* the attribute it was seen at (typetracing.py:186-198).                  *)
ChecksAreKept ==
    \A i \in DOMAIN executions :
        LET callable == executions[i][1]
            tree == executions[i][2]
        IN  \A p \in DOMAIN tree :
                /\ p \in DOMAIN usage_trace[callable]
                /\ tree[p].type_checks \subseteq usage_trace[callable][p].type_checks

(* TestCluster.get_generators_for promises all generators that are known   *)
(* for a type (module.py:626-634); a constructor is one for its class.     *)
GeneratorsAreFound ==
    phase = "run" => \A x \in DOMAIN return_type :
        x[1] = "constructor" => x \in get_generators_for(Instance(x[2], <<>>))

(* "Merge the knowledge from the other proxy into this one"                *)
(* (typetracing.py:187): the types of the arguments of a method that   *)
(* one execution told stay known.                                          *)
ArgumentsAreKept ==
    \A i \in DOMAIN executions :
        \A p \in DOMAIN executions[i][2] :
            \A idx \in DOMAIN executions[i][2][p].arg_types :
                executions[i][2][p].arg_types[idx] \subseteq ArgTypes(usage_trace[executions[i][1]], p, idx)

(* "We can, for example, guess the generic type by looking at the argument *)
(* types of append.__call__" (typesystem.py:1465-1466).                    *)
ElementsAreGuessed ==
    \A x \in DOMAIN usage_trace :
        LET tree == usage_trace[x]
            path == <<"append", "__call__">>
        IN  world.kind = "plain" /\ "list" \in find_by_attribute("append") /\ ArgTypes(tree, path, 0) /= {}
            => \E o \in _guess_parameter_type_from(tree, <<>>, 0), c \in ArgTypes(tree, path, 0) :
                    o.guess = <<Instance("list", <<make_instance(c)>>)>>

(* "Don't include anything from the blacklist" (module.py:1792).           *)
NothingFromBlacklist ==
    \A x \in DOMAIN return_type : x[1] /= "function" =>
        ~IsBlacklistedClass(x[2]) \/ x[2] = "object"
=============================================================================
