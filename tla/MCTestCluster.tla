---------------------------- MODULE MCTestCluster ---------------------------
(* Two small programs: a diamond of classes whose top comes from a module  *)
(* that imports the module under test again, and a module with a class     *)
(* that extends one of a blacklisted module, an enum, and what the walk    *)
(* passes over.                                                            *)
EXTENDS TestCluster

Method(visibility, returns) == [visibility |-> visibility, coroutine |-> FALSE, returns |-> returns]
C(module, bases, attrs, methods, abstract) ==
    [module |-> module, kind |-> "class", bases |-> bases, attributes |-> attrs, methods |-> methods,
     fields |-> <<>>, is_abstract |-> abstract]
F(module, visibility, kind, returns) ==
    [module |-> module, visibility |-> visibility, kind |-> kind, returns |-> returns]

BuiltinClasses ==
    [object |-> C("builtins", <<>>, {"__lt__", "__hash__"}, <<>>, FALSE),
     int |-> C("builtins", <<"object">>, {"__lt__", "__hash__", "__add__"}, <<>>, FALSE),
     bool |-> C("builtins", <<"int">>, {"__add__"}, <<>>, FALSE),
     float |-> C("builtins", <<"object">>, {"__add__", "__lt__"}, <<>>, FALSE),
     list |-> C("builtins", <<"object">>, {"append", "__lt__"}, <<>>, FALSE)]
Builtins == [members |-> <<<<"class", "object">>, <<"class", "int">>, <<"class", "bool">>,
                           <<"class", "float">>, <<"class", "list">>>>, includes |-> <<>>]

Value(by, class, elements) == [by |-> by, class |-> class, elements |-> elements]
Node(checks, args) == [type_checks |-> checks, arg_types |-> args]
First(types) == 0 :> types

Diamond ==
    [root |-> "m", blacklist |-> {"builtins"}, element_visibility |-> {"public", "protected"}, kind |-> "plain",
     generate_field_statements |-> FALSE,
     modules |-> ("builtins" :> Builtins)
         @@ ("m" :> [members |-> <<<<"class", "D">>, <<"class", "A">>, <<"function", "f">>, <<"function", "_g">>,
                                   <<"function", "h">>>>, includes |-> <<"n">>])
         @@ ("n" :> [members |-> <<<<"class", "A">>, <<"class", "D">>, <<"function", "_q">>, <<"function", "f">>>>,
                     includes |-> <<"m", "n">>]),
     classes |-> BuiltinClasses
         @@ ("A" :> C("n", <<"object">>, {"a", "__lt__"}, [set |-> Method("public", ANY), _hide |-> Method("protected", ANY)], FALSE))
         @@ ("B" :> C("m", <<"A">>, {"a", "b"}, <<>>, TRUE))
         @@ ("C" :> C("m", <<"A">>, {"b"}, [change |-> Method("public", Instance("list", <<ANY>>))], FALSE))
         @@ ("D" :> C("m", <<"B", "C">>, {"a", "b", "__hash__"}, <<>>, FALSE)),
     functions |-> ("f" :> F("m", "public", "function", Instance("A", <<>>)))
         @@ ("_g" :> F("m", "protected", "function", Instance("int", <<>>)))
         @@ ("h" :> F("m", "public", "coroutine", ANY))
         @@ ("_q" :> F("n", "protected", "function", ANY)),
     called |-> {<<"constructor", "D">>, <<"method", "C", "change">>, <<"function", "f">>},
     values |-> {Value("constructor", "", <<>>), Value("function", "D", <<>>), Value("function", "NoneType", <<>>),
                 Value("method", "list", <<"int">>), Value("method", "tuple", <<"X", "int">>)},
     traces |-> {NoKnowledge,
                 [p \in {<<>>, <<"a">>, <<"__lt__">>} |->
                     IF p = <<>> THEN Node({"A"}, <<>>) ELSE IF p = <<"a">> THEN EmptyNode
                     ELSE Node({}, First({"int"}))],
                 [p \in {<<>>, <<"__lt__">>} |->
                     IF p = <<>> THEN EmptyNode ELSE Node({"list"}, First({"float"}))]}]

Blacklist ==
    [root |-> "m", blacklist |-> {"builtins", "threading"}, element_visibility |-> {"public"}, kind |-> "args",
     generate_field_statements |-> TRUE,
     modules |-> ("builtins" :> Builtins)
         @@ ("m" :> [members |-> <<<<"class", "T">>, <<"class", "W">>, <<"class", "Color">>, <<"class", "P">>, <<"function", "f">>,
                                   <<"function", "main">>, <<"function", "nameless">>>>, includes |-> <<"threading">>])
         @@ ("threading" :> [members |-> <<<<"class", "T">>>>, includes |-> <<>>]),
     classes |-> BuiltinClasses
         @@ ("T" :> C("threading", <<"object">>, {"start"}, [start |-> Method("public", NONE_TYPE)], FALSE))
         @@ ("W" :> [C("m", <<"T">>, {"start", "w", "size", "next"}, [w |-> Method("public", ANY)], FALSE)
                        EXCEPT !.fields = [size |-> Instance("int", <<>>), next |-> Instance("W", <<>>)]])
         @@ ("Enum" :> [C("enum", <<"object">>, {"name"}, [name |-> Method("public", ANY)], FALSE)
                           EXCEPT !.kind = "empty enum"])
         @@ ("Color" :> [C("m", <<"Enum">>, {"RED", "name"}, [mix |-> Method("public", Instance("Color", <<>>))], FALSE)
                            EXCEPT !.kind = "enum", !.fields = [RED |-> Instance("Color", <<>>)]])
         @@ ("P" :> [C("", <<"W">>, {"p"}, <<>>, FALSE) EXCEPT !.kind = "hidden"]),
     functions |-> ("f" :> F("m", "public", "function", UnionType({NONE_TYPE, Instance("W", <<>>)})))
         @@ ("main" :> F("m", "public", "standalone", ANY)) @@ ("nameless" :> F("m", "public", "lambda", ANY)),
     called |-> {<<"constructor", "W">>, <<"function", "f">>},
     values |-> {Value("constructor", "", <<>>), Value("function", "W", <<>>), Value("method", "int", <<>>)},
     traces |-> {NoKnowledge,
                 [p \in {<<>>, <<"__iter__">>, <<"append">>, <<"append", "__call__">>} |->
                     IF p = <<"append", "__call__">> THEN Node({}, First({"int"})) ELSE EmptyNode],
                 [p \in {<<>>, <<"__iter__">>, <<"__iter__", "__lt__">>} |->
                     IF p = <<"__iter__">> THEN Node({"list"}, <<>>)
                     ELSE IF Len(p) = 2 THEN Node({}, First({"W"})) ELSE EmptyNode]}]

\* A function whose argument may be a dictionary or a tuple.
Mapping ==
    [root |-> "m", blacklist |-> {"builtins"}, element_visibility |-> {"public"}, kind |-> "plain",
     generate_field_statements |-> FALSE,
     modules |-> ("builtins" :> [members |-> <<<<"class", "object">>, <<"class", "tuple">>, <<"class", "dict">>,
                                               <<"class", "int">>>>, includes |-> <<>>])
         @@ ("m" :> [members |-> <<<<"function", "f">>>>, includes |-> <<>>]),
     classes |-> [object |-> C("builtins", <<>>, {"__lt__"}, <<>>, FALSE),
                  tuple |-> C("builtins", <<"object">>, {"__iter__"}, <<>>, FALSE),
                  dict |-> C("builtins", <<"object">>, {"__iter__", "__setitem__"}, <<>>, FALSE),
                  int |-> C("builtins", <<"object">>, {"__add__"}, <<>>, FALSE)],
     functions |-> ("f" :> F("m", "public", "function", ANY)),
     called |-> {<<"function", "f">>},
     values |-> {Value("function", "dict", <<"int", "float">>)},
     traces |-> {NoKnowledge,
                 [p \in {<<>>, <<"__iter__">>, <<"__setitem__">>} |->
                     IF p = <<"__setitem__">> THEN Node({}, First({"int"}) @@ (1 :> {"float"})) ELSE EmptyNode],
                 [p \in {<<>>, <<"__iter__">>} |->
                     IF p = <<>> THEN Node({"tuple"}, <<>>) ELSE Node({"int"}, <<>>)]}]

MCUniverses == {Diamond, Blacklist, [Blacklist EXCEPT !.kind = "plain"], Mapping}
=============================================================================
