----------------------------- MODULE ExecutionFlow -----------------------------
(* A test that runs under the instrumentation for checked coverage, the trace   *)
(* that the tracer keeps of it, and the way back through the trace:             *)
(* CheckedCoverageInstrumentation (instrumentation/version/python3_10.py),      *)
(* track_* (instrumentation/tracer.py), slicer/executionflowbuilder.py.         *)
(* Each statement of a test is a code object of its own.  Blocks are numbered   *)
(* from 1.  Generators, and imports of the module under test while a test runs, *)
(* are left out.                                                                *)
EXTENDS Integers, Sequences, SequencesExt, FiniteSets

CONSTANTS Programs,     \* [statements, code, handler, cdg, below]: see MCSlicer
          MaxExecuted   \* bound: the instructions a test executes

VARIABLES program,
          machine,      \* the interpreter
          executed,     \* the instructions it has executed
          trace,        \* [executed_instructions, object_addresses]
          state         \* the InstrState the way back has come to

flowVars == <<program, machine, executed, trace, state>>

(* An instruction is [op, arg, to, line], its place <<code object, block, index>>; *)
(* `to` is the block a jump leads to, or the code object that is called.         *)
None == <<>>
Instr(at) == program.code[at[1]][at[2]][at[3]]
Name(at) == Instr(at).op

BUILTIN == 0    \* a callee without instrumented code
CLASS == -1     \* the same, and what it returns is a new object

LOADS == {"LOAD_FAST", "LOAD_NAME", "LOAD_GLOBAL"}
STORES == {"STORE_FAST", "STORE_NAME", "STORE_GLOBAL"}
COND_BRANCH_NAMES == {"POP_JUMP_IF_FALSE", "JUMP_IF_FALSE_OR_POP"}
JUMP_NAMES == COND_BRANCH_NAMES \cup {"JUMP_FORWARD"}
CALL_NAMES == {"CALL_FUNCTION"}
MEMORY_USE_NAMES == LOADS \cup {"LOAD_ATTR"}
MEMORY_DEF_NAMES == STORES \cup {"STORE_ATTR"}
TRACED_NAMES == {"BINARY_ADD", "RETURN_VALUE"} \cup MEMORY_USE_NAMES \cup MEMORY_DEF_NAMES \cup JUMP_NAMES \cup CALL_NAMES

\* values taken from the stack; a jump may leave its condition there
Pops(op, jump) ==
  CASE op \in {"LOAD_CONST", "JUMP_FORWARD"} \cup LOADS -> 0
    [] op \in {"BINARY_ADD", "STORE_ATTR"} -> 2
    [] op = "JUMP_IF_FALSE_OR_POP" /\ jump -> 0
    [] OTHER -> 1
Pushes(op) == IF op \in {"LOAD_CONST", "LOAD_ATTR", "BINARY_ADD", "CALL_FUNCTION"} \cup LOADS THEN 1 ELSE 0

--------------------------------------------------------------------------------
(* The interpreter.  A value carries the address of a mutable object, or 0, and *)
(* the instructions it depends on: that is what a slice must contain.           *)

Value(address, from) == [address |-> address, from |-> from]

Frame(code, argument, call) ==
  [at |-> <<code, 1, 1>>, stack |-> <<>>, locals |-> [x \in {"p"} |-> argument], decided |-> <<>>, call |-> call]

frame == Head(machine.frames)
here == frame.at

\* what decides that the block is executed: the call, and the latest of the branches
Control ==
  LET deciding == SelectSeq(frame.decided, LAMBDA d : <<d.block, here[2]>> \in program.cdg[here[1]])
  IN  frame.call \cup {here} \cup (IF deciding = <<>> THEN {} ELSE Head(deciding).from)

operand(n) == frame.stack[n]
Used(n) == Control \cup UNION {operand(k).from : k \in 1..n}

Running == machine.frames # <<>> /\ state = None /\ Len(executed) < MaxExecuted

After(at) == IF at[3] < Len(program.code[at[1]][at[2]]) THEN <<at[1], at[2], at[3] + 1>> ELSE <<at[1], at[2] + 1, 1>>

\* the frame takes n values from its stack, puts vs on it, and goes on at `at`
Moved(n, vs, at) == [frame EXCEPT !.stack = vs \o SubSeq(@, n + 1, Len(@)), !.at = at]
Continue(f) == [machine EXCEPT !.frames = <<f>> \o Tail(@)]

IsNew(address) == address # 0 /\ address \notin trace.object_addresses

\* an ExecutedInstruction: address and creation of the value, address of the object it belongs to
Traced(address, src) ==
  [at |-> here, op |-> Name(here), arg |-> Instr(here).arg, to |-> Instr(here).to,
   arg_address |-> address, src_address |-> src,
   object_creation |-> src = 0 /\ IsNew(address)]

Record(instruction) == [trace EXCEPT !.executed_instructions = Append(@, instruction)]

track_generic == Record(Traced(0, 0))
track_memory_access(value) ==
  [Record(Traced(value.address, 0)) EXCEPT !.object_addresses = IF value.address = 0 THEN @ ELSE @ \cup {value.address}]
track_attribute_access(object, value) == Record(Traced(value.address, object.address))

Executes(ops) == Running /\ Name(here) \in ops /\ executed' = Append(executed, here) /\ UNCHANGED <<program, state>>

LoadConst ==
  /\ Executes({"LOAD_CONST"})
  /\ machine' = Continue(Moved(0, <<Value(0, Control)>>, After(here)))
  /\ UNCHANGED trace

PopTop ==
  /\ Executes({"POP_TOP"})
  /\ machine' = Continue(Moved(1, <<>>, After(here)))
  /\ UNCHANGED trace

LoadFrom(variables, op) ==
  /\ Executes({op})
  /\ Instr(here).arg \in DOMAIN variables
  /\ LET variable == variables[Instr(here).arg]
         value == Value(variable.address, variable.from \cup Control)
     IN  /\ machine' = Continue(Moved(0, <<value>>, After(here)))
         /\ trace' = track_memory_access(value)

Stored == Instr(here).arg :> Value(operand(1).address, Used(1))
StoreGlobal == [Continue(Moved(1, <<>>, After(here))) EXCEPT !.globals = Stored @@ @]

visit_local_access ==
  \/ LoadFrom(frame.locals, "LOAD_FAST")
  \/ /\ Executes({"STORE_FAST"})
     /\ machine' = Continue([Moved(1, <<>>, After(here)) EXCEPT !.locals = Stored @@ @])
     /\ trace' = track_memory_access(operand(1))

\* the variables of a statement
visit_name_access ==
  \/ LoadFrom(machine.globals, "LOAD_NAME")
  \/ Executes({"STORE_NAME"}) /\ machine' = StoreGlobal /\ trace' = track_memory_access(operand(1))

visit_global_access ==
  \/ LoadFrom(machine.globals, "LOAD_GLOBAL")
  \/ Executes({"STORE_GLOBAL"}) /\ machine' = StoreGlobal /\ trace' = track_memory_access(operand(1))

visit_attr_access ==
  LET attribute == <<operand(1).address, Instr(here).arg>>
  IN  \/ /\ Executes({"LOAD_ATTR"})
         /\ attribute \in DOMAIN machine.attributes
         /\ LET value == machine.attributes[attribute]
            IN  /\ trace' = track_attribute_access(operand(1), value)
                /\ machine' = Continue(Moved(1, <<Value(value.address, value.from \cup Control)>>, After(here)))
      \/ /\ Executes({"STORE_ATTR"})
         /\ operand(1).address # 0
         /\ trace' = track_attribute_access(operand(1), operand(2))
         /\ machine' = [Continue(Moved(2, <<>>, After(here))) EXCEPT
                          !.attributes = (attribute :> Value(operand(2).address, operand(2).from \cup Control)) @@ @]

\* an operation calls the code of a magic method, if the operand has one
visit_call ==
  LET callee == Instr(here).to
      n == Pops(Name(here), FALSE)
      fresh == Cardinality(machine.objects) + 1
  IN  /\ Executes({"CALL_FUNCTION", "BINARY_ADD"})
      /\ trace' = track_generic
      /\ machine' =
           CASE callee = BUILTIN -> Continue(Moved(n, <<Value(0, Used(n))>>, After(here)))
             [] callee = CLASS -> [Continue(Moved(n, <<Value(fresh, Used(n))>>, After(here))) EXCEPT !.objects = @ \cup {fresh}]
             [] OTHER -> [machine EXCEPT !.frames = <<Frame(callee, Value(operand(1).address, Used(n)), Control),
                                                        Moved(n, <<>>, After(here))>> \o Tail(@)]

visit_return ==
  /\ Executes({"RETURN_VALUE"})
  /\ trace' = track_generic
  /\ machine' = [machine EXCEPT !.frames =
       IF Len(@) = 1 THEN <<>>
       ELSE <<[@[2] EXCEPT !.stack = <<Value(operand(1).address, Used(1))>> \o @]>> \o SubSeq(@, 3, Len(@))]

visit_jump ==
  LET target == <<here[1], Instr(here).to, 1>>
      decided == <<[block |-> here[2], from |-> Used(1)]>> \o frame.decided
      Going(n, at) == [Moved(n, <<>>, at) EXCEPT !.decided = decided]
  IN  /\ Executes(JUMP_NAMES)
      /\ trace' = track_generic
      /\ \/ Name(here) = "JUMP_FORWARD" /\ machine' = Continue(Moved(0, <<>>, target))
         \/ Name(here) # "JUMP_FORWARD" /\ machine' = Continue(Going(Pops(Name(here), TRUE), target))
         \/ Name(here) # "JUMP_FORWARD" /\ machine' = Continue(Going(1, After(here)))

\* the next frame that handles exceptions goes on at its handler; without one the test ends
Raise ==
  LET handling == {n \in DOMAIN machine.frames : program.handler[machine.frames[n].at[1]] # 0}
      n == CHOOSE k \in handling : \A j \in handling : k <= j
      code == machine.frames[n].at[1]
      handler == [machine.frames[n] EXCEPT !.at = <<code, program.handler[code], 1>>, !.stack = <<>>]
  IN  /\ Executes({"RAISE_VARARGS"})
      /\ machine' = IF handling = {} THEN [machine EXCEPT !.frames = <<>>, !.next = Len(program.statements) + 1]
                    ELSE [machine EXCEPT !.frames = <<handler>> \o SubSeq(@, n + 1, Len(@))]
      /\ UNCHANGED trace

ExecuteStatement ==
  /\ machine.frames = <<>> /\ state = None
  /\ machine.next <= Len(program.statements)
  /\ machine' = [machine EXCEPT !.next = @ + 1, !.frames = <<Frame(program.statements[machine.next], Value(0, {}), {})>>]
  /\ UNCHANGED <<program, executed, trace, state>>

FlowInit ==
  /\ program \in Programs
  /\ machine = [next |-> 1, frames |-> <<>>, globals |-> <<>>, attributes |-> <<>>, objects |-> {}]
  /\ executed = <<>>
  /\ trace = [executed_instructions |-> <<>>, object_addresses |-> {}]
  /\ state = None

--------------------------------------------------------------------------------
(* The way back.                                                                *)

InstrState(at, position) ==
  [instr |-> at, trace_position |-> position, jump |-> FALSE, call |-> FALSE, returned |-> FALSE, exception |-> FALSE]

At(at) == InstrState(at, 0)
is_traced(at) == Name(at) \in TRACED_NAMES

\* the first instruction of a block that some block jumps to
is_jump_target(at) ==
  at[3] = 1 /\ \E b \in DOMAIN program.code[at[1]] :
                 LET last == Last(program.code[at[1]][b]) IN last.op \in JUMP_NAMES /\ last.to = at[2]

_continue_at_last_basic_block(at) ==
  IF at[2] = 1 THEN None ELSE <<at[1], at[2] - 1, Len(program.code[at[1]][at[2] - 1])>>

_finish_basic_block(at) ==
  IF at[3] > 1 THEN <<at[1], at[2], at[3] - 1>> ELSE _continue_at_last_basic_block(at)

BeforeInTheCode(at, traced) == At(_finish_basic_block(at))

_determine_previous_instruction(at, traced) ==
  IF is_jump_target(at) /\ traced.op \in JUMP_NAMES /\ traced.to = at[2]
  THEN [At(traced.at) EXCEPT !.jump = TRUE]
  ELSE At(_finish_basic_block(at))

\* behind a call, or an operation that has called, there is the end of what was called;
\* a statement begins after the end of the one before it
_handle_return_instructions(previous, traced) ==
  IF /\ traced.op = "RETURN_VALUE"
     /\ \/ previous.instr = None
        \/ Name(previous.instr) \in CALL_NAMES
        \/ is_traced(previous.instr) /\ Name(previous.instr) # traced.op
  THEN [previous EXCEPT !.instr = traced.at, !.returned = TRUE]
  ELSE previous

_handle_method_invocation(previous, traced) ==
  IF previous.instr = None THEN [previous EXCEPT !.instr = traced.at, !.call = TRUE] ELSE previous

OnlyReturns(previous, traced) == previous

\* what should have been traced and was not has not been executed
_handle_generator_and_exceptions(previous, traced) ==
  IF ~previous.call /\ ~previous.returned /\ is_traced(previous.instr) /\ Name(previous.instr) # traced.op
  THEN [previous EXCEPT !.instr = traced.at, !.exception = TRUE]
  ELSE previous

get_previous_instruction_state(s) ==
  LET position == IF is_traced(s.instr) THEN s.trace_position - 1 ELSE s.trace_position
      traced == trace.executed_instructions[position]
      before == _determine_previous_instruction(s.instr, traced)
      returned == _handle_return_instructions(before, traced)
      called == _handle_method_invocation(returned, traced)
      previous == IF position = 0 THEN At(_finish_basic_block(s.instr))
                  ELSE _handle_generator_and_exceptions(called, traced)
  IN  [previous EXCEPT !.trace_position = position]
================================================================================
