SPECIFICATION Spec
CONSTANTS
    None = None
    Object = Object
    Number = Number
    List = List
    Closure = Closure
    make = make
    method = method
    field = field
    other = other
    gather = gather
    wrap = wrap
    infer = infer
    Types <- MCTypes
    Accessibles = {make, method, field, other, gather, wrap, infer}
    Kind <- MCKind
    Owner <- MCOwner
    Parameters <- MCParameters
    Optional <- MCOptional
    Gives <- MCGives
    Offers <- MCOffers
    Constrained = {infer}
    Subclasses <- MCSubclasses
    Primitives = {Number}
    Collections = {List}
    ElementType <- MCElementType
    Callables = {Closure}
    MaxRecursion = 1
    CollectionSize = 1
    Arities = {0, 1}
    ChromosomeLength = 3
    Chop = TRUE
    Mates <- MCMates
    MaxNames <- MCMaxNames
INVARIANTS
    WellFormed
    ChangeIsTold
    SutCallKept
CHECK_DEADLOCK FALSE
