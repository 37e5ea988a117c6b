------------------------------- MODULE MCTestCases -------------------------------
(* A class with a constructor, a method that takes a number and two fields; a    *)
(* function that takes a list of objects; one that takes and yields anything;    *)
(* and one whose parameter has machine-learning constraints.                     *)
EXTENDS TestCaseChromosome, TLC

CONSTANTS Object, Number, List, Closure, make, method, field, other, gather, wrap, infer

MCTypes == {Object, Number, List, Closure}
MCKind == make :> "constructor" @@ method :> "method" @@ field :> "field" @@ other :> "field"
          @@ gather :> "function" @@ wrap :> "function" @@ infer :> "function"
MCOwner == [a \in Accessibles |-> IF a \in {method, field, other} THEN Object ELSE None]
MCParameters == make :> <<>> @@ method :> <<Number>> @@ field :> <<>> @@ other :> <<>>
                @@ gather :> <<List>> @@ wrap :> <<None>> @@ infer :> <<Number>>
MCOptional == [a \in Accessibles |-> IF a = method THEN {1} ELSE {}]
MCGives == make :> Object @@ method :> Number @@ field :> Object @@ other :> Object
           @@ gather :> Number @@ wrap :> None @@ infer :> Number
MCSubclasses == [t \in Types |-> {t}]
MCElementType == List :> Object

MCMaxNames == {method} :> 3 @@ {field, other} :> 3 @@ {gather} :> 3 @@ {wrap} :> 3 @@ {infer} :> 3

MCOffers == DOMAIN MCMaxNames

(* What two insertions into an empty test case yield. *)
MCMates ==
    LET inserted(S) == {o.tc : o \in UNION {InsertRandomStatement(t, size(t) + 1, {make, gather, field}) : t \in S}}
    IN {t \in inserted(inserted({EmptyTestCase})) : t.counter <= 3}
================================================================================
