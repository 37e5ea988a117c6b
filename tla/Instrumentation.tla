---------------------------- MODULE Instrumentation ----------------------------
(* The instrumentation adapters of src/pynguin/instrumentation/version: one    *)
(* basic block of the module under test, with the two blocks its jump may lead *)
(* to, is rewritten by the adapters of a run in the order in which             *)
(* build_transformer lists them and is then executed next to the original      *)
(* code.  The interpreter is external: a stack machine over symbolic values.   *)
(* A value is a tuple whose first entry is its kind.  Metadata that the code   *)
(* loads as constants (file name, ids, opcode, line) is the constant Meta; the *)
(* number of those loads is kept, for the positions on the stack depend on it. *)
EXTENDS Integers, Sequences, SequencesExt, FiniteSets, TLC

CONSTANT Programs  \* what may be instrumented and executed

(* A program is a record: the version of Python (10 to 14, for 3.10 to 3.14),  *)
(* its blocks main, next and target, the stack and the variables it starts     *)
(* with, the comparisons that hold, whether the                                *)
(* iterator has another item, the kinds of values that are true, the lines to  *)
(* cover, those whose condition is, and the adapters that are enabled.         *)

VARIABLES
  program,   \* the program that runs
  code,      \* its three blocks, rewritten
  block,     \* the block that is executed
  pc,        \* the next instruction in it
  stack,     \* the stack and
  frame,     \* the variables of the instrumented run
  plain,     \* the same of the original code, run in step
  told,      \* the calls of the tracer and the constant provider
  due,       \* the calls a faithful instrumentation would make
  crashed    \* an unbound local variable was loaded
vars == <<program, code, block, pc, stack, frame, plain, told, due, crashed>>

Unbound == <<"unbound">>
None == <<"none">>
Meta == <<"meta">>
Probe == <<"probe">>             \* the tracer or the constant provider
Bool(b) == <<"bool", b>>
Sum(a, b) == <<"sum", a, b>>
Pair(a, b) == <<"pair", a, b>>

\* an instruction that the instrumentation adds has the identity 0
ArtificialInstr(op, arg) == [op |-> op, arg |-> arg, line |-> 0, id |-> 0]
ops(names) == [i \in DOMAIN names |-> ArtificialInstr(names[i], 0)]
IsOriginal(in) == in.id # 0

Nth(s, k) == s[Len(s) + 1 - k]   \* the k-th from the top
Drop(s, k) == SubSeq(s, 1, Len(s) - k)
Top(s, k) == SubSeq(s, Len(s) + 1 - k, Len(s))

--------------------------------------------------------------------------------
(* What the generators emit.                                                    *)

Copying == {"COPY_FIRST_SHIFT_DOWN_TWO", "COPY_SECOND", "COPY_SECOND_SHIFT_DOWN_TWO",
            "COPY_SECOND_SHIFT_DOWN_THREE", "COPY_THIRD_SHIFT_DOWN_THREE",
            "COPY_THIRD_SHIFT_DOWN_FOUR", "ADD_FIRST_TWO", "ADD_FIRST_TWO_REVERSED"}

\* Python 3.10 has only DUP and ROT
SetupByRotation ==
  [NO_ACTION |-> <<>>,
   COPY_FIRST |-> ops(<<"DUP_TOP">>),
   COPY_FIRST_SHIFT_DOWN_TWO |-> ops(<<"DUP_TOP", "ROT_THREE">>),
   COPY_SECOND |-> ops(<<"DUP_TOP_TWO", "POP_TOP">>),
   COPY_SECOND_SHIFT_DOWN_TWO |-> ops(<<"ROT_TWO", "DUP_TOP", "ROT_THREE", "ROT_THREE">>),
   COPY_SECOND_SHIFT_DOWN_THREE |-> ops(<<"ROT_TWO", "DUP_TOP", "ROT_FOUR", "ROT_TWO">>),
   COPY_THIRD_SHIFT_DOWN_THREE |->
     ops(<<"ROT_THREE", "ROT_THREE", "DUP_TOP", "ROT_FOUR", "ROT_FOUR">>),
   COPY_FIRST_TWO |-> ops(<<"DUP_TOP_TWO">>),
   ADD_FIRST_TWO |-> ops(<<"DUP_TOP_TWO", "BINARY_ADD">>),
   ADD_FIRST_TWO_REVERSED |-> ops(<<"DUP_TOP_TWO", "ROT_TWO", "BINARY_ADD">>)]

\* from 3.11 on, values are copied where they are needed
Copies(n) == <<ArtificialInstr("COPY", n)>>
Swaps(ns) == [i \in DOMAIN ns |-> ArtificialInstr("SWAP", ns[i])]
SetupByCopy ==
  [NO_ACTION |-> <<>>, COPY_FIRST |-> <<>>, COPY_FIRST_TWO |-> <<>>,
   COPY_FIRST_SHIFT_DOWN_TWO |-> Swaps(<<2>>) \o Copies(2),
   COPY_SECOND |-> Copies(2),
   COPY_SECOND_SHIFT_DOWN_TWO |-> Copies(2) \o Swaps(<<2>>),
   COPY_SECOND_SHIFT_DOWN_THREE |-> Copies(2) \o Swaps(<<4, 3, 2>>),
   COPY_THIRD_SHIFT_DOWN_THREE |-> Copies(3) \o Swaps(<<3, 2>>),
   COPY_THIRD_SHIFT_DOWN_FOUR |-> Copies(3) \o Swaps(<<5, 4, 3, 2>>),
   ADD_FIRST_TWO |-> Copies(2) \o Copies(2) \o ops(<<"BINARY_OP">>),
   ADD_FIRST_TWO_REVERSED |-> Copies(1) \o Copies(3) \o ops(<<"BINARY_OP">>)]

generate_setup_instructions(v, action) ==
  IF v = 10 THEN SetupByRotation[action] ELSE SetupByCopy[action]

\* the arguments of a call: constants, variables, pairs of them, stack values
Const(x) == [kind |-> "const", is |-> x]
Consts(n) == [i \in 1..n |-> Const(Meta)]
Load(op, name) == [kind |-> "load", is |-> <<op, name>>]
Both(names) == [kind |-> "both", is |-> names]
FIRST == [kind |-> "stack", is |-> 1]
SECOND == [kind |-> "stack", is |-> 2]

LoadArgument(v, arg) ==
  CASE arg.kind = "const" -> <<ArtificialInstr("LOAD_CONST", arg.is)>>
    [] arg.kind = "both" ->
         (IF v >= 13 THEN <<ArtificialInstr("LOAD_FAST_LOAD_FAST", arg.is)>>
          ELSE <<ArtificialInstr("LOAD_FAST", arg.is[1]), ArtificialInstr("LOAD_FAST", arg.is[2])>>)
         \o <<ArtificialInstr("BUILD_TUPLE", 2)>>
    [] arg.kind = "load" /\ arg.is[1] = "LOAD_CLASSDEREF" /\ v >= 12 ->
         ops(<<"LOAD_LOCALS">>) \o <<ArtificialInstr("LOAD_FROM_DICT_OR_DEREF", arg.is[2])>>
    [] OTHER -> <<ArtificialInstr(arg.is[1], arg.is[2])>>

\* (a slip: the arguments that are on the stack already are not counted)
ArgumentsUncounted(v, arg, position) ==
  IF arg.kind = "stack" THEN Copies(2 + arg.is) ELSE LoadArgument(v, arg)

\* 3.11 on: a stack value is copied from below the method, its object and the arguments before it
_generate_argument_instructions(v, arg, position) ==
  IF arg.kind = "stack" THEN Copies(position + 2 + arg.is) ELSE LoadArgument(v, arg)

\* 3.10: the values on top of the stack are moved above the method, swapped if their
\* order differs from that of the arguments, and rotated above each argument loaded before them
ArgumentsByRotation(args) ==
  LET Where(value) == {i \in DOMAIN args : args[i] = value}
      first == Where(FIRST)
      second == Where(SECOND)
      targets == first \cup second
      Waiting(i) == Cardinality({t \in targets : t > i})
      Placed(i) ==
        IF i \in targets THEN <<>>
        ELSE LoadArgument(10, args[i])
             \o (CASE Waiting(i) = 0 -> <<>>
                   [] Waiting(i) = 1 -> ops(<<"ROT_TWO">>)
                   [] OTHER -> ops(<<"ROT_THREE">>))
      up == CASE targets = {} -> <<>>
              [] second = {} -> ops(<<"ROT_THREE", "ROT_THREE">>)
              [] first = {} -> ops(<<"ROT_FOUR", "ROT_FOUR", "ROT_FOUR">>)
              [] OTHER -> ops(<<"ROT_FOUR", "ROT_FOUR">>)
      swap == IF \E f \in first, s \in second : f < s THEN ops(<<"ROT_TWO">>) ELSE <<>>
  IN  up \o swap \o FlattenSeq([i \in DOMAIN args |-> Placed(i)])

generate_method_call_instructions(v, method, args) ==
  <<ArtificialInstr("LOAD_CONST", Probe),
    ArtificialInstr(IF v >= 12 THEN "LOAD_ATTR_METHOD" ELSE "LOAD_METHOD", method)>>
  \o (IF v = 10 THEN ArgumentsByRotation(args)
      ELSE FlattenSeq([i \in DOMAIN args |-> _generate_argument_instructions(v, args[i], i - 1)]))
  \o (IF v = 11 THEN <<ArtificialInstr("PRECALL", Len(args))>> ELSE <<>>)
  \o <<ArtificialInstr(IF v = 10 THEN "CALL_METHOD" ELSE "CALL", Len(args))>>

\* (a slip: only the result of the call is removed)
TeardownOfTheCall(v, action) == ops(<<"POP_TOP">>)

generate_teardown_instructions(v, action) ==
  IF v # 10 /\ action \in Copying THEN ops(<<"POP_TOP", "POP_TOP">>) ELSE ops(<<"POP_TOP">>)

generate_instructions(v, action, method, args) ==
  generate_setup_instructions(v, action) \o generate_method_call_instructions(v, method, args)
  \o generate_teardown_instructions(v, action)

generate_overriding_instructions(v, action, in, method, args) ==
  generate_setup_instructions(v, action) \o <<in>>
  \o generate_method_call_instructions(v, method, args)
  \o generate_teardown_instructions(v, action)

before(b, i, snippet) == SubSeq(b, 1, i - 1) \o snippet \o SubSeq(b, i, Len(b))
after(b, i, snippet) == before(b, i + 1, snippet)
override(b, i, snippet) == SubSeq(b, 1, i - 1) \o snippet \o SubSeq(b, i + 1, Len(b))

--------------------------------------------------------------------------------
(* The positions at which a block is looked at.                                 *)

NoInstr == [op |-> "none", arg |-> 0, line |-> 0, id |-> 0]
\* an index from the end, over all the instructions
try_get_instruction(b, k) == IF k <= Len(b) THEN Nth(b, k) ELSE NoInstr
original_instructions(b) == SelectSeq(b, IsOriginal)
PositionOf(b, in) == CHOOSE i \in DOMAIN b : b[i].id = in.id
\* an index from the end, over the instructions that are not artificial
find_instruction_by_original_index(b, k) == try_get_instruction(original_instructions(b), k)

\* every original instruction is visited once; what a visit adds is skipped
ForEachOriginal(b, Visit(_, _)) ==
  FoldLeft(LAMBDA acc, in : Visit(acc, in), b, original_instructions(b))

ShouldCover(in) == in.line \in program.lines

--------------------------------------------------------------------------------
(* Branch coverage.                                                             *)

\* (a slip: the comparison that keeps the jump from being taken)
NoneBasedJumpsSwapped == [POP_JUMP_IF_NOT_NONE |-> "IS", POP_JUMP_IF_NONE |-> "IS_NOT"]

NoneBasedJumps == [POP_JUMP_IF_NOT_NONE |-> "IS_NOT", POP_JUMP_IF_NONE |-> "IS"]
CompareNames == {"COMPARE_OP", "IS_OP", "CONTAINS_OP"}
ConditionalJumps == {"POP_JUMP_IF_TRUE", "POP_JUMP_IF_FALSE", "JUMP_IF_NOT_EXC_MATCH"}
                    \cup DOMAIN NoneBasedJumps

get_branch_type(op) == op \in {"POP_JUMP_IF_TRUE", "POP_JUMP_IF_NOT_NONE"}

LoopIsTold(v, truth) ==
  generate_instructions(v, "NO_ACTION", "executed_bool_predicate", <<Const(Bool(truth)), Const(Meta)>>)

\* the exit of a loop: an extra NOP up to 3.11, the instruction that ends the loop later
visit_for_loop_natural_exit(v, b) ==
  LET Marker(i) == b[i].op = IF v = 13 THEN "POP_TOP" ELSE "END_FOR"
      first == CHOOSE i \in DOMAIN b : Marker(i) /\ \A j \in 1..(i - 1) : ~Marker(j)
  IN  IF v <= 11 THEN before(b, 1, LoopIsTold(v, FALSE))
      ELSE after(b, first, LoopIsTold(v, FALSE))

\* the condition a block ends with is told before the instruction `at`
Told(v, b, at, action, method, args) ==
  before(b, PositionOf(b, at), generate_instructions(v, action, method, args))

visit_for_loop(v, blocks) ==
  [blocks EXCEPT !.next = before(@, 1, LoopIsTold(v, TRUE)), !.target = visit_for_loop_natural_exit(v, @)]

visit_compare_based_conditional_jump(v, b, in) ==
  Told(v, b, in, "COPY_FIRST_TWO", "executed_compare_predicate",
       <<SECOND, FIRST, Const(Meta), Const(<<"compare", in.arg>>)>>)
visit_exception_based_conditional_jump(v, b, in) ==
  Told(v, b, in, "COPY_FIRST_TWO", "executed_exception_match", <<SECOND, FIRST, Const(Meta)>>)
visit_bool_based_conditional_jump(v, b, in) ==
  Told(v, b, in, "COPY_FIRST", "executed_bool_predicate", <<FIRST, Const(Meta)>>)
visit_none_based_conditional_jump(v, b, in) ==
  Told(v, b, in, "COPY_FIRST", "executed_compare_predicate",
       <<FIRST, Const(None), Const(Meta), Const(<<"compare", NoneBasedJumps[in.op]>>)>>)
\* an item that is read: whether the container has it, for the predicate of the block
visit_subscr_presence(v, b, in) ==
  IF in.op = "BINARY_SUBSCR" /\ ShouldCover(in)
  THEN Told(v, b, in, "COPY_FIRST_TWO", "executed_in_presence_predicate", <<FIRST, SECOND, Const(Meta)>>)
  ELSE b

VisitCondition310(v, b) ==
  LET jump == try_get_instruction(b, 1)
      maybe_compare == find_instruction_by_original_index(b, 2)
      seen == ForEachOriginal(b, LAMBDA acc, in : visit_subscr_presence(v, acc, in))
  IN  CASE maybe_compare.op \in CompareNames ->
             visit_compare_based_conditional_jump(v, seen, maybe_compare)
        [] jump.op = "JUMP_IF_NOT_EXC_MATCH" -> visit_exception_based_conditional_jump(v, seen, jump)
        [] OTHER -> visit_bool_based_conditional_jump(v, seen, jump)

VisitCondition311(v, b) ==
  LET jump == try_get_instruction(b, 1)
      maybe_compare == find_instruction_by_original_index(b, 2)
  IN  CASE jump.op \in DOMAIN NoneBasedJumps -> visit_none_based_conditional_jump(v, b, jump)
        [] maybe_compare.op \in CompareNames -> visit_compare_based_conditional_jump(v, b, maybe_compare)
        [] maybe_compare.op = "CHECK_EXC_MATCH" ->
             visit_exception_based_conditional_jump(v, b, maybe_compare)
        [] OTHER -> visit_bool_based_conditional_jump(v, b, jump)

BranchesAreToCover(b) ==
  /\ try_get_instruction(b, 1).line \in program.conditions
  /\ \E i \in DOMAIN b : IsOriginal(b[i]) /\ ShouldCover(b[i])

\* the first block also tells that the code object is entered
BranchCoverageInstrumentation(v, blocks) ==
  LET jump == try_get_instruction(blocks.main, 1).op
      entered == [blocks EXCEPT !.main = before(@, 1,
                    generate_instructions(v, "NO_ACTION", "executed_code_object", Consts(1)))]
  IN  CASE ~BranchesAreToCover(blocks.main) -> entered
        [] jump = "FOR_ITER" -> visit_for_loop(v, entered)
        [] jump \in ConditionalJumps ->
             [entered EXCEPT !.main = IF v = 10 THEN VisitCondition310(v, @) ELSE VisitCondition311(v, @)]
        [] OTHER -> entered

--------------------------------------------------------------------------------
(* Line coverage.                                                               *)

\* instructions that never make a line of their own
LineMarkers(v) == (IF v >= 11 THEN {"RESUME"} ELSE {}) \cup (IF v >= 12 THEN {"END_FOR"} ELSE {})
                  \cup (IF v >= 13 THEN {"POP_TOP"} ELSE {})
should_instrument_line(v, in, lineno) == in.line # lineno /\ in.op \notin LineMarkers(v)

visit_line(v, b, in) ==
  before(b, PositionOf(b, in),
         generate_instructions(v, "NO_ACTION", "track_line_visit", <<Const(<<"line", in.line>>)>>))

LinesOfBlock(v, b) ==
  LET Visit(acc, in) ==
        IF ShouldCover(in) /\ should_instrument_line(v, in, acc.lineno)
        THEN [code |-> visit_line(v, acc.code, in), lineno |-> in.line] ELSE acc
  IN  FoldLeft(Visit, [code |-> b, lineno |-> 0], original_instructions(b)).code

LineCoverageInstrumentation(v, blocks) ==
  [name \in DOMAIN blocks |-> LinesOfBlock(v, blocks[name])]

--------------------------------------------------------------------------------
(* Checked coverage: every operation the slicer may have to follow.             *)

Operations == CompareNames \cup {"UNARY_NOT", "GET_ITER", "TO_BOOL", "BINARY_ADD", "BINARY_OP"}
MemoryAccess(v, b, in, value, is_before) ==
  LET snippet == generate_instructions(v, "NO_ACTION", "track_memory_access", Append(Consts(7), value))
  IN  IF is_before THEN before(b, PositionOf(b, in), snippet) ELSE after(b, PositionOf(b, in), snippet)

\* what is about to be forgotten is read before the instruction, all else after it
Locals == {"LOAD_FAST", "STORE_FAST", "DELETE_FAST", "LOAD_FAST_CHECK", "LOAD_FAST_AND_CLEAR"}
visit_local_access(v, b, in) ==
  MemoryAccess(v, b, in, Load("LOAD_FAST", in.arg), in.op \in {"DELETE_FAST", "LOAD_FAST_AND_CLEAR"})

\* two local variables in one instruction, since 3.13
FastPairs == {"LOAD_FAST_LOAD_FAST", "STORE_FAST_STORE_FAST", "STORE_FAST_LOAD_FAST"}
visit_local_pair_access(v, b, in) == MemoryAccess(v, b, in, Both(in.arg), FALSE)

\* borrowed references, since 3.14
BorrowedPairs == {"LOAD_FAST_BORROW_LOAD_FAST_BORROW"}
Borrowing == {"LOAD_FAST_BORROW"} \cup BorrowedPairs
visit_borrowing_access(v, b, in) ==
  MemoryAccess(v, b, in, IF in.op \in BorrowedPairs THEN Both(in.arg) ELSE Load("LOAD_FAST", in.arg), FALSE)

NameAccesses == {"LOAD_NAME", "STORE_NAME", "DELETE_NAME"}
visit_name_access(v, b, in) == MemoryAccess(v, b, in, Load("LOAD_NAME", in.arg), in.op = "DELETE_NAME")

GlobalAccesses == {"LOAD_GLOBAL", "STORE_GLOBAL", "DELETE_GLOBAL"}
visit_global_access(v, b, in) ==
  MemoryAccess(v, b, in, Load("LOAD_GLOBAL", in.arg), in.op = "DELETE_GLOBAL")

\* the free variables of a class body have a reader of their own
ClassDerefs == {"LOAD_CLASSDEREF", "LOAD_FROM_DICT_OR_DEREF"}
DerefAccesses == {"LOAD_DEREF", "STORE_DEREF", "DELETE_DEREF"} \cup ClassDerefs
visit_deref_access(v, b, in) ==
  MemoryAccess(v, b, in, Load(IF in.op \in ClassDerefs THEN "LOAD_CLASSDEREF" ELSE "LOAD_DEREF", in.arg),
               in.op = "DELETE_DEREF")

visit_import_name_access(v, b, in) ==
  after(b, PositionOf(b, in),
        generate_instructions(v, "COPY_FIRST", "track_memory_access", Append(Consts(7), FIRST)))

\* an attribute, an item or a slice: the object is copied below the operands of an
\* instruction that is told of after it, and on top of the stack otherwise
AccessBefore(v, b, in, action) ==
  before(b, PositionOf(b, in),
         generate_instructions(v, action, "track_attribute_access", Append(Consts(7), FIRST)))
AccessAfter(v, b, in, action) ==
  override(b, PositionOf(b, in),
           generate_overriding_instructions(v, action, in, "track_attribute_access", Append(Consts(7), FIRST)))

Attributes == {"LOAD_ATTR", "LOAD_ATTR_METHOD", "LOAD_METHOD", "LOAD_SUPER_ATTR", "DELETE_ATTR",
               "IMPORT_FROM", "STORE_ATTR"}
visit_attr_access(v, b, in) ==
  IF in.op = "STORE_ATTR" THEN AccessAfter(v, b, in, "COPY_FIRST_SHIFT_DOWN_TWO")
  ELSE AccessBefore(v, b, in, "COPY_FIRST")

Subscripts == {"BINARY_SUBSCR", "STORE_SUBSCR", "DELETE_SUBSCR"}
visit_subscr_access(v, b, in) ==
  CASE in.op = "STORE_SUBSCR" -> AccessAfter(v, b, in, "COPY_SECOND_SHIFT_DOWN_THREE")
    [] in.op = "DELETE_SUBSCR" -> AccessAfter(v, b, in, "COPY_SECOND_SHIFT_DOWN_TWO")
    [] OTHER -> AccessBefore(v, b, in, "COPY_SECOND")

Slices == {"BINARY_SLICE", "STORE_SLICE"}
visit_slice_access(v, b, in) ==
  AccessAfter(v, b, in, IF in.op = "STORE_SLICE" THEN "COPY_THIRD_SHIFT_DOWN_FOUR"
                        ELSE "COPY_THIRD_SHIFT_DOWN_THREE")

\* operations of which only the place is told
PlaceIsTold(v, b, in, method, n) ==
  before(b, PositionOf(b, in), generate_instructions(v, "NO_ACTION", method, Consts(n)))
visit_generic(v, b, in) == PlaceIsTold(v, b, in, "track_generic", 6)
visit_jump(v, b, in) == PlaceIsTold(v, b, in, "track_jump", 7)
visit_return(v, b, in) == PlaceIsTold(v, b, in, "track_return", 6)

\* in 3.11 and 3.12 the instructions of one call stay together
visit_call(v, b, in) ==
  LET Skip(j, op) == IF v \in {11, 12} /\ j > 1 /\ b[j - 1].op = op THEN j - 1 ELSE j
      start == Skip(Skip(PositionOf(b, in), "PRECALL"), "KW_NAMES")
  IN  before(b, start, generate_instructions(v, "NO_ACTION", "track_call", Consts(7)))

Calls == {"CALL", "CALL_METHOD", "CALL_FUNCTION"}
Returning == {"RETURN_VALUE", "YIELD_VALUE"}
CheckedJumps == ConditionalJumps \cup {"FOR_ITER", "JUMP_FORWARD"}

VisitChecked(v, b, in) ==
  CASE ~ShouldCover(in) -> b
    [] in.op \in Operations -> visit_generic(v, b, in)
    [] in.op \in Locals -> visit_local_access(v, b, in)
    [] in.op \in FastPairs -> visit_local_pair_access(v, b, in)
    [] in.op \in Borrowing -> visit_borrowing_access(v, b, in)
    [] in.op \in NameAccesses -> visit_name_access(v, b, in)
    [] in.op \in GlobalAccesses -> visit_global_access(v, b, in)
    [] in.op \in DerefAccesses -> visit_deref_access(v, b, in)
    [] in.op = "IMPORT_NAME" -> visit_import_name_access(v, b, in)
    [] in.op \in Attributes -> visit_attr_access(v, b, in)
    [] in.op \in Subscripts -> visit_subscr_access(v, b, in)
    [] in.op \in Slices -> visit_slice_access(v, b, in)
    [] in.op \in CheckedJumps -> visit_jump(v, b, in)
    [] in.op \in Calls -> visit_call(v, b, in)
    [] in.op \in Returning -> visit_return(v, b, in)
    [] OTHER -> b

CheckedCoverageInstrumentation(v, blocks) ==
  [name \in DOMAIN blocks |->
     ForEachOriginal(blocks[name], LAMBDA acc, in : VisitChecked(v, acc, in))]

--------------------------------------------------------------------------------
(* Dynamic seeding: values that the module under test compares are collected.   *)

StringFunctions == {"isalnum", "islower", "isupper"}
STRING_FUNC_POS(v) == IF v \in {10, 12} THEN 3 ELSE 4
STRING_FUNC_POS_WITH_ARG(v) == STRING_FUNC_POS(v) + 1
extract_method_name(in) == IF in.op \in {"LOAD_METHOD", "LOAD_ATTR_METHOD"} THEN in.arg ELSE "none"

\* the index k from the end, as a position
Index(b, k) == Len(b) + 1 - k
Seed(v, action) == generate_instructions(v, action, "add_value", <<FIRST>>)

visit_compare_op(v, b, k) == before(b, Index(b, k), Seed(v, "COPY_FIRST") \o Seed(v, "COPY_SECOND"))
visit_string_function_without_arg(v, b, k) ==
  before(b, Index(b, k) + 1,
         generate_instructions(v, "COPY_FIRST", "add_value_for_strings",
           <<FIRST, Const(<<"name", extract_method_name(try_get_instruction(b, k))>>)>>))
visit_startswith_function(v, b, k) == before(b, Index(b, k) + 2, Seed(v, "ADD_FIRST_TWO_REVERSED"))
visit_endswith_function(v, b, k) == before(b, Index(b, k) + 2, Seed(v, "ADD_FIRST_TWO"))

\* the block is recognised by what stands two to five places before its end, whoever put it there
SeedingOfBlock(v, b) ==
  LET k == STRING_FUNC_POS(v)
      l == STRING_FUNC_POS_WITH_ARG(v)
      with_arg == extract_method_name(try_get_instruction(b, l))
  IN  CASE ~ShouldCover(try_get_instruction(b, 1)) -> b
        [] try_get_instruction(b, 2).op = "COMPARE_OP" -> visit_compare_op(v, b, 2)
        [] extract_method_name(try_get_instruction(b, k)) \in StringFunctions ->
             visit_string_function_without_arg(v, b, k)
        [] with_arg = "startswith" -> visit_startswith_function(v, b, l)
        [] with_arg = "endswith" -> visit_endswith_function(v, b, l)
        [] OTHER -> b

DynamicSeedingInstrumentation(v, blocks) ==
  [name \in DOMAIN blocks |-> SeedingOfBlock(v, blocks[name])]

\* the order of build_transformer
Instrumented(v, blocks, chosen) ==
  LET b1 == IF "BRANCH" \in chosen THEN BranchCoverageInstrumentation(v, blocks) ELSE blocks
      b2 == IF "LINE" \in chosen THEN LineCoverageInstrumentation(v, b1) ELSE b1
      b3 == IF "CHECKED" \in chosen THEN CheckedCoverageInstrumentation(v, b2) ELSE b2
  IN  IF "SEEDING" \in chosen THEN DynamicSeedingInstrumentation(v, b3) ELSE b3

--------------------------------------------------------------------------------
(* The interpreter (external): what an instruction does to a stack and the      *)
(* variables.                                                                   *)

Rotated(s, n) == Drop(s, n) \o <<Nth(s, 1)>> \o SubSeq(s, Len(s) - n + 1, Len(s) - 1)
Swapped(s, n) == [s EXCEPT ![Len(s)] = Nth(s, n), ![Len(s) + 1 - n] = Nth(s, 1)]

\* operations that replace their operands by a result, or by nothing
Operands ==
  [op \in {"TO_BOOL", "GET_ITER", "UNARY_NOT", "LOAD_ATTR"} |-> 1]
  @@ [op \in {"BINARY_SUBSCR", "IMPORT_NAME"} |-> 2]
  @@ [op \in {"BINARY_SLICE", "LOAD_SUPER_ATTR"} |-> 3]
Consumed ==
  [op \in {"POP_TOP", "POP_ITER", "DELETE_ATTR", "RETURN_VALUE", "YIELD_VALUE"} |-> 1]
  @@ [op \in {"STORE_ATTR", "DELETE_SUBSCR"} |-> 2]
  @@ [STORE_SUBSCR |-> 3, STORE_SLICE |-> 4]
Fetching == {"LOAD_FAST", "LOAD_FAST_CHECK", "LOAD_FAST_BORROW", "LOAD_NAME", "LOAD_GLOBAL",
             "LOAD_DEREF", "LOAD_CLASSDEREF"}
Storing == {"STORE_FAST", "STORE_NAME", "STORE_GLOBAL", "STORE_DEREF"}
Deleting == {"DELETE_FAST", "DELETE_NAME", "DELETE_GLOBAL", "DELETE_DEREF"}

Compared(a, op, b) ==
  CASE op = "IS" -> a = b
    [] op = "IS_NOT" -> a # b
    [] OTHER -> <<a, op, b>> \in program.holds
Truth(value) == IF value[1] = "bool" THEN value[2] ELSE value[1] \in program.true

\* a run: its stack and variables after an instruction
Ran(in, s, f) ==
  LET Result(t) == [stack |-> t, frame |-> f]
      Push(value) == Result(Append(s, value))
  IN  CASE in.op = "LOAD_CONST" -> Push(in.arg)
        [] in.op = "LOAD_LOCALS" -> Push(<<"locals">>)
        [] in.op \in Fetching -> Push(f[in.arg])
        [] in.op = "LOAD_FROM_DICT_OR_DEREF" -> Result(Append(Drop(s, 1), f[in.arg]))
        [] in.op = "LOAD_FAST_AND_CLEAR" ->
             [stack |-> Append(s, f[in.arg]), frame |-> [f EXCEPT ![in.arg] = Unbound]]
        [] in.op \in {"LOAD_FAST_LOAD_FAST", "LOAD_FAST_BORROW_LOAD_FAST_BORROW"} ->
             Result(s \o <<f[in.arg[1]], f[in.arg[2]]>>)
        [] in.op \in Storing -> [stack |-> Drop(s, 1), frame |-> [f EXCEPT ![in.arg] = Nth(s, 1)]]
        [] in.op = "STORE_FAST_STORE_FAST" ->
             [stack |-> Drop(s, 2),
              frame |-> [f EXCEPT ![in.arg[1]] = Nth(s, 1), ![in.arg[2]] = Nth(s, 2)]]
        [] in.op = "STORE_FAST_LOAD_FAST" ->
             LET g == [f EXCEPT ![in.arg[1]] = Nth(s, 1)]
             IN  [stack |-> Append(Drop(s, 1), g[in.arg[2]]), frame |-> g]
        [] in.op \in Deleting -> [stack |-> s, frame |-> [f EXCEPT ![in.arg] = Unbound]]
        [] in.op = "DUP_TOP" -> Push(Nth(s, 1))
        [] in.op = "DUP_TOP_TWO" -> Result(s \o Top(s, 2))
        [] in.op = "ROT_TWO" -> Result(Rotated(s, 2))
        [] in.op = "ROT_THREE" -> Result(Rotated(s, 3))
        [] in.op = "ROT_FOUR" -> Result(Rotated(s, 4))
        [] in.op = "COPY" -> Push(Nth(s, in.arg))
        [] in.op = "SWAP" -> Result(Swapped(s, in.arg))
        [] in.op = "BUILD_TUPLE" -> Result(Append(Drop(s, 2), Pair(Nth(s, 2), Nth(s, 1))))
        [] in.op \in {"BINARY_ADD", "BINARY_OP"} ->
             Result(Append(Drop(s, 2), Sum(Nth(s, 2), Nth(s, 1))))
        [] in.op \in CompareNames ->
             Result(Append(Drop(s, 2), Bool(Compared(Nth(s, 2), in.arg, Nth(s, 1)))))
        [] in.op = "CHECK_EXC_MATCH" ->
             Result(Append(Drop(s, 1), Bool(Compared(Nth(s, 2), "MATCH", Nth(s, 1)))))
        [] in.op \in {"LOAD_METHOD", "LOAD_ATTR_METHOD"} ->
             Result(Drop(s, 1) \o <<<<"method", in.arg>>, Nth(s, 1)>>)
        [] in.op \in Calls ->
             [stack |-> Append(Drop(s, in.arg + 2),
                               IF Nth(s, in.arg + 1) = Probe THEN None
                               ELSE <<"called", Top(s, in.arg + 2), f.kwnames>>),
              frame |-> [f EXCEPT !.kwnames = None]]
        [] in.op = "KW_NAMES" -> [stack |-> s, frame |-> [f EXCEPT !.kwnames = in.arg]]
        [] in.op = "IMPORT_FROM" -> Push(<<"from", Nth(s, 1)>>)
        [] in.op \in DOMAIN Operands ->
             Result(Append(Drop(s, Operands[in.op]), <<"result", in.op, Top(s, Operands[in.op])>>))
        [] in.op \in DOMAIN Consumed -> Result(Drop(s, Consumed[in.op]))
        [] OTHER -> Result(s)

\* a jump: what is left on the stack, and whether it is taken
JumpTaken(op, s) ==
  CASE op \in {"POP_JUMP_IF_TRUE"} -> Truth(Nth(s, 1))
    [] op \in {"POP_JUMP_IF_FALSE"} -> ~Truth(Nth(s, 1))
    [] op = "POP_JUMP_IF_NONE" -> Nth(s, 1) = None
    [] op = "POP_JUMP_IF_NOT_NONE" -> Nth(s, 1) # None
    [] op = "JUMP_IF_NOT_EXC_MATCH" -> ~Compared(Nth(s, 2), "MATCH", Nth(s, 1))
    [] op = "FOR_ITER" -> ~program.more
StackAfterJump(v, op, s) ==
  CASE op = "FOR_ITER" /\ program.more -> Append(s, <<"item">>)
    [] op = "FOR_ITER" /\ v >= 13 -> s
    [] op = "JUMP_IF_NOT_EXC_MATCH" -> Drop(s, 2)
    [] OTHER -> Drop(s, 1)
Jumps == ConditionalJumps \cup {"FOR_ITER"}
\* from 3.12 on an exhausted iterator skips the first instruction of the target
EntryOfTarget(v, op) == IF op = "FOR_ITER" /\ v >= 12 THEN 2 ELSE 1

Reads(in, f) ==
  IF in.op \in Fetching \cup Deleting \cup {"LOAD_FROM_DICT_OR_DEREF"} THEN {f[in.arg]}
  ELSE IF in.op \in {"LOAD_FAST_LOAD_FAST", "LOAD_FAST_BORROW_LOAD_FAST_BORROW"}
       THEN {f[in.arg[1]], f[in.arg[2]]} ELSE {}

--------------------------------------------------------------------------------
(* What is told, and what a faithful instrumentation would tell: the truth of   *)
(* the edge that is taken, the lines that are entered, the object or the value  *)
(* each operation works on, the operands of a condition.                        *)

Meaning(method, args) ==
  CASE method = "executed_bool_predicate" -> <<"branch", Truth(args[1])>>
    [] method = "executed_compare_predicate" -> <<"branch", Compared(args[1], args[4][2], args[2])>>
    [] method = "executed_exception_match" -> <<"branch", Compared(args[1], "MATCH", args[2])>>
    [] method = "executed_in_presence_predicate" -> <<"presence", Compared(args[1], "IN", args[2])>>
    [] method = "track_line_visit" -> <<"line", args[1][2]>>
    [] method \in {"track_memory_access", "track_attribute_access"} -> <<"access", args[8]>>
    [] method \in {"add_value", "add_value_for_strings"} -> <<"seed", args[1]>>
    [] OTHER -> <<method>>

ToldBy(in, s) ==
  IF in.op \in Calls /\ Nth(s, in.arg + 1) = Probe
  THEN <<Meaning(Nth(s, in.arg + 2)[2], Top(s, in.arg))>> ELSE <<>>

BranchDue(v, op, taken) == <<"branch", IF get_branch_type(op) THEN taken ELSE ~taken>>

\* the value an operation gives access to, from the runs before and after it
Accessed(in, s, t, f, g) ==
  CASE in.op \in FastPairs \cup BorrowedPairs -> {Pair(g[in.arg[1]], g[in.arg[2]])}
    [] in.op \in Deleting \cup {"LOAD_FAST_AND_CLEAR"} -> {f[in.arg]}
    [] in.op \in UNION {Locals, Borrowing, NameAccesses, GlobalAccesses, DerefAccesses} -> {g[in.arg]}
    [] in.op = "IMPORT_NAME" -> {Nth(t, 1)}
    [] in.op \in Subscripts -> {Nth(s, 2)}
    [] in.op \in Slices -> {Nth(s, 3)}
    [] in.op \in Attributes -> {Nth(s, 1)}
    [] OTHER -> {}

CheckedDue(in, s, t, f, g) ==
  CASE in.op \in Operations -> <<<<"track_generic">>>>
    [] in.op \in CheckedJumps -> <<<<"track_jump">>>>
    [] in.op \in Calls -> <<<<"track_call">>>>
    [] in.op \in Returning -> <<<<"track_return">>>>
    [] OTHER -> [i \in 1..Cardinality(Accessed(in, s, t, f, g)) |->
                   <<"access", CHOOSE x \in Accessed(in, s, t, f, g) : TRUE>>]

\* both operands of a comparison, the string of a test without argument, and the string
\* that would make a test of a prefix or a suffix succeed
SeedDue(in, s) ==
  LET method == IF in.op \in Calls THEN Nth(s, in.arg + 2)[2] ELSE "none"
  IN  CASE in.op = "COMPARE_OP" -> <<<<"seed", Nth(s, 1)>>, <<"seed", Nth(s, 2)>>>>
        [] method \in StringFunctions -> <<<<"seed", Nth(s, 1)>>>>
        [] method = "startswith" -> <<<<"seed", Sum(Nth(s, 1), Nth(s, 2))>>>>
        [] method = "endswith" -> <<<<"seed", Sum(Nth(s, 2), Nth(s, 1))>>>>
        [] OTHER -> <<>>

DueFor(in, s, t, f, g) ==
  IF ~ShouldCover(in) THEN <<>>
  ELSE (IF "CHECKED" \in program.adapters THEN CheckedDue(in, s, t, f, g) ELSE <<>>)
       \o (IF "SEEDING" \in program.adapters THEN SeedDue(in, s) ELSE <<>>)
       \o (IF "LINE" \in program.adapters /\ in.op \notin LineMarkers(program.version)
           THEN <<<<"line", in.line>>>> ELSE <<>>)

--------------------------------------------------------------------------------
(* The two runs.                                                                *)

Init ==
  /\ program \in Programs
  /\ code = Instrumented(program.version,
               [main |-> program.main, next |-> program.next, target |-> program.target], program.adapters)
  /\ block = "main"
  /\ pc = 1
  /\ stack = program.stack
  /\ frame = program.frame
  /\ plain = [stack |-> program.stack, frame |-> program.frame]
  /\ told = <<>>
  /\ due = <<>>
  /\ crashed = FALSE

Current == code[block][pc]
AtEnd == pc > Len(code[block])

Crash ==
  /\ ~AtEnd /\ ~crashed /\ Unbound \in Reads(Current, frame)
  /\ crashed' = TRUE
  /\ UNCHANGED <<program, code, block, pc, stack, frame, plain, told, due>>

Goes ==
  /\ ~AtEnd /\ ~crashed /\ Unbound \notin Reads(Current, frame)
  /\ UNCHANGED <<program, code, crashed>>

ExecuteArtificial ==
  /\ Goes /\ ~IsOriginal(Current)
  /\ LET after_it == Ran(Current, stack, frame)
     IN  stack' = after_it.stack /\ frame' = after_it.frame
  /\ told' = told \o ToldBy(Current, stack)
  /\ pc' = pc + 1
  /\ UNCHANGED <<block, plain, due>>

ExecuteOriginal ==
  /\ Goes /\ IsOriginal(Current) /\ Current.op \notin Jumps
  /\ LET after_it == Ran(Current, stack, frame)
     IN  stack' = after_it.stack /\ frame' = after_it.frame
  /\ plain' = Ran(Current, plain.stack, plain.frame)
  /\ due' = due \o DueFor(Current, plain.stack, plain'.stack, plain.frame, plain'.frame)
  /\ pc' = pc + 1
  /\ UNCHANGED <<block, told>>

Jump ==
  /\ Goes /\ IsOriginal(Current) /\ Current.op \in Jumps
  /\ LET v == program.version
         op == Current.op
         taken == JumpTaken(op, stack)
     IN  /\ stack' = StackAfterJump(v, op, stack)
         /\ plain' = [plain EXCEPT !.stack = StackAfterJump(v, op, @)]
         /\ block' = IF taken THEN "target" ELSE "next"
         /\ pc' = IF taken THEN EntryOfTarget(v, op) ELSE 1
         /\ due' = due \o DueFor(Current, plain.stack, plain.stack, plain.frame, plain.frame)
                    \o (IF "BRANCH" \in program.adapters /\ Current.line \in program.conditions
                           /\ \E i \in DOMAIN program.main : ShouldCover(program.main[i])
                        THEN <<BranchDue(v, op, taken)>> ELSE <<>>)
  /\ UNCHANGED <<frame, told>>

FallThrough ==
  /\ AtEnd /\ ~crashed /\ block = "main"
  /\ block' = "next"
  /\ pc' = 1
  /\ UNCHANGED <<program, code, stack, frame, plain, told, due, crashed>>

Next == Crash \/ ExecuteArtificial \/ ExecuteOriginal \/ Jump \/ FallThrough
Spec == Init /\ [][Next]_vars

--------------------------------------------------------------------------------
Finished == AtEnd /\ block # "main"
Of(kinds, calls) == SelectSeq(calls, LAMBDA c : c[1] \in kinds)
LinesOf(calls) == {c[2] : c \in {calls[i] : i \in {j \in DOMAIN calls : calls[j][1] = "line"}}}

(* The instrumented block decides its jump on the same stack and leaves the    *)
(* same stack and variables as the original one, whichever adapters rewrote it *)
(* and in every version, and raises only where the original does: the setup,    *)
(* the call and the teardown of generate_instructions balance.                 *)
Transparent ==
  /\ crashed => IsOriginal(Current)
  /\ Finished \/ (~AtEnd /\ Current.op \in Jumps) => plain = [stack |-> stack, frame |-> frame]

(* The truth the tracer is told for the condition of a block (the branch that   *)
(* then counts as covered) is the value of the edge that is taken, by which     *)
(* CFG._create_nodes_and_edges labels what depends on the condition; and        *)
(* nothing else is told for the predicate, unless Python 3.10 reads an item in  *)
(* the block (python3_10.py:891-910).                                           *)
ReadsItem == program.version = 10 /\ \E i \in DOMAIN program.main : program.main[i].op = "BINARY_SUBSCR"
BranchToldIsTaken ==
  /\ Finished => Of({"branch"}, told) = Of({"branch"}, due)
  /\ Of({"presence"}, told) # <<>> => ReadsItem

(* Whatever is told for the predicate of a block is the value of the edge that  *)
(* is taken.  (The presence of the key is told for the same predicate.)         *)
OutcomesAgree ==
  Finished => LET outcomes == Of({"branch", "presence"}, told) \o Of({"branch"}, due)
              IN  \A i, j \in DOMAIN outcomes : outcomes[i][2] = outcomes[j][2]

(* Each operation is told once, in order, with the object or value it works on: *)
(* the copies that the setup makes are of the operands the slicer and the       *)
(* constant pool expect, although the adapters before have moved the code.      *)
CheckedKinds == {"access", "track_generic", "track_jump", "track_call", "track_return"}
OperandsTold ==
  /\ Finished => Of(CheckedKinds, told) = Of(CheckedKinds, due)
  /\ Finished => Of({"seed"}, told) = Of({"seed"}, due)
  /\ LinesOf(due) \subseteq LinesOf(told)
  /\ Finished => LinesOf(told) \subseteq LinesOf(due)
================================================================================
