--------------------------------- MODULE Slicer ---------------------------------
(* Dynamic slicing backwards from an executed instruction: slicer/              *)
(* dynamicslicer.py and slicer/stack/stacksimulation.py.  The slice is kept as  *)
(* a set, and the time limit is left out.                                       *)
EXTENDS ExecutionFlow

VARIABLES
  slice,        \* context.instr_in_slice
  context,      \* the dependences whose origin is still looked for
  trace_stack,  \* the frames, innermost first: [block, attribute_uses]
  pending,      \* [code_object_dependent, new_attribute_object_uses, stack_simulation]
  expected,     \* the slice the values themselves ask for
  visited       \* the instructions the way back has passed

slicerVars == <<slice, context, trace_stack, pending, expected, visited>>
vars == <<flowVars, slicerVars>>

EmptyFrame == [block |-> <<>>, attribute_uses |-> {}]

--------------------------------------------------------------------------------
(* The simulated stack.  What takes a value in the test leaves an entry here,   *)
(* [instr, in_slice], that the instruction which gave the value takes away; the *)
(* frames below the criterion are empty.                                        *)

push_stack(frames, uses) == <<[block |-> <<>>, attribute_uses |-> uses]>> \o frames
pop_stack(frames) == IF Len(frames) = 1 THEN <<EmptyFrame>> ELSE Tail(frames)

InSlice(block) == block # <<>> /\ Head(block).in_slice

\* [dependent, include_use, frames]
PushWithinTheFrame(frames, pushes, returned) ==
  LET block == frames[1].block
  IN  [dependent |-> pushes = 1 /\ InSlice(block), include_use |-> TRUE,
       frames |-> IF pushes = 0 \/ block = <<>> THEN frames ELSE [frames EXCEPT ![1].block = Tail(@)]]

update_push_operations(frames, pushes, returned) ==
  LET block == frames[1].block
      caller == IF Len(frames) > 1 THEN frames[2].block ELSE <<>>
      Takes(names) == Name(Head(block).instr) \in names
      used == pushes = 1 /\ InSlice(block)
      \* the object whose attribute is accessed is included, and what it depends on is not
      accessed == \/ Takes({"STORE_ATTR"}) /\ InSlice(Tail(block)) /\ Name(block[2].instr) = "STORE_ATTR"
                  \/ Takes({"LOAD_ATTR"})
  IN  [dependent |-> used \/ (returned /\ InSlice(caller)),
       include_use |-> ~(used /\ accessed),
       frames |-> IF pushes = 0 \/ block = <<>> THEN frames ELSE [frames EXCEPT ![1].block = Tail(@)]]

update_pop_operations(frames, pops, at, in_slice) ==
  [frames EXCEPT ![1].block = [k \in 1..pops |-> [instr |-> at, in_slice |-> in_slice]] \o @]

--------------------------------------------------------------------------------
(* Control dependences.                                                         *)

Below(code, b) == program.below[code][b]     \* cdg.get_descendants
Above(code, b) == {a \in DOMAIN program.code[code] : b \in Below(code, a)}

get_dominator_loops(code) == {b \in DOMAIN program.code[code] : <<b, b>> \in program.cdg[code]}

\* a node is known by its number alone, whatever its code object
dominated_instr_ctrl_deps(at) ==
  LET code == at[1]
  IN  {dep \in context.instr_ctrl_deps :
         /\ Name(at) \in COND_BRANCH_NAMES
         /\ dep[2] \in Below(code, at[2])
         /\ Name(dep) \in JUMP_NAMES => program.successors[code][dep[2]] \cap get_dominator_loops(code) = {}}

add_control_dependency(deps, at) ==
  IF Above(at[1], at[2]) \ Below(at[1], at[2]) # {} THEN deps \cup {at} ELSE deps

--------------------------------------------------------------------------------
(* Data dependences.                                                            *)

\* [found, context, created: the attributes to look for as variables of the class]
_check_variables(ctx, traced, at) ==
  LET local == <<traced.arg, at[1]>>
      attribute_uses == IF traced.object_creation THEN {u \in ctx.attr_uses : u[1] = traced.arg_address} ELSE {}
      defined == IF traced.op = "STORE_FAST" THEN local \in ctx.local_var_uses ELSE traced.arg \in ctx.global_var_uses
      address == {a \in ctx.var_address_uses : traced.object_creation /\ a = traced.arg_address}
  IN  [found |-> defined \/ attribute_uses # {} \/ address # {} \/ traced.arg \in ctx.attribute_variables,
       created |-> {u[2] : u \in attribute_uses},
       context |-> [ctx EXCEPT !.local_var_uses = IF traced.op = "STORE_FAST" THEN @ \ {local} ELSE @,
                               !.global_var_uses = IF traced.op = "STORE_FAST" THEN @ ELSE @ \ {traced.arg},
                               !.attr_uses = @ \ attribute_uses,
                               !.var_address_uses = @ \ address,
                               !.attribute_variables = @ \ {traced.arg}]]

check_explicit_data_dependency(ctx, at, position) ==
  LET traced == trace.executed_instructions[position]
      combined_attr == <<traced.src_address, traced.arg>>
  IN  CASE Name(at) \in STORES -> _check_variables(ctx, traced, at)
        [] Name(at) = "STORE_ATTR" ->
             [found |-> combined_attr \in ctx.attr_uses \/ traced.src_address \in ctx.var_address_uses,
              created |-> {}, context |-> [ctx EXCEPT !.attr_uses = @ \ {combined_attr}]]
        [] OTHER -> [found |-> FALSE, created |-> {}, context |-> ctx]

Address(traced) == IF traced.arg_address = 0 THEN {} ELSE {traced.arg_address}

_add_variable_uses(ctx, traced) ==
  [ctx EXCEPT !.var_address_uses = @ \cup Address(traced),
              !.local_var_uses = IF traced.op = "LOAD_FAST" THEN @ \cup {<<traced.arg, traced.at[1]>>} ELSE @,
              !.global_var_uses = IF traced.op = "LOAD_FAST" THEN @ ELSE @ \cup {traced.arg}]

_add_attribute_uses(ctx, traced) ==
  [ctx EXCEPT !.var_address_uses = @ \cup Address(traced), !.attr_uses = @ \cup {<<traced.src_address, traced.arg>>}]

add_uses(ctx, at, position) ==
  CASE Name(at) \in LOADS -> _add_variable_uses(ctx, trace.executed_instructions[position])
    [] Name(at) = "LOAD_ATTR" -> _add_attribute_uses(ctx, trace.executed_instructions[position])
    [] OTHER -> ctx

--------------------------------------------------------------------------------
NoContext == [instr_ctrl_deps |-> {}, local_var_uses |-> {}, global_var_uses |-> {}, var_address_uses |-> {},
              attr_uses |-> {}, attribute_variables |-> {}]

Init ==
  /\ FlowInit
  /\ slice = {} /\ expected = {} /\ visited = <<>>
  /\ context = NoContext
  /\ trace_stack = <<EmptyFrame>>
  /\ pending = [code_object_dependent |-> FALSE, new_attribute_object_uses |-> {}, stack_simulation |-> TRUE]

_setup_slicing_configuration(at, position) ==
  /\ state' = InstrState(at, position)
  /\ slice' = {at}
  /\ context' = [context EXCEPT !.instr_ctrl_deps = add_control_dependency({}, at)]
  /\ trace_stack' = update_pop_operations(trace_stack, Pops(Name(at), FALSE), at, TRUE)
  /\ visited' = <<at>>
  /\ UNCHANGED <<program, machine, executed, trace, pending>>

Sliced(at) == state = None /\ executed # <<>> /\ at = Last(executed) /\ at[1] \in Range(program.statements)

\* a statement is sliced at what it stores, an assertion at its conditional jump
SliceStatement ==
  \E at \in Range(executed) :
    /\ Sliced(at) /\ Name(at) = "STORE_NAME"
    /\ expected' = machine.globals[Instr(at).arg].from
    /\ _setup_slicing_configuration(at, Len(trace.executed_instructions))

track_assertion_position ==
  \E at \in Range(executed) :
    /\ Sliced(at) /\ Name(at) = "POP_JUMP_IF_FALSE"
    /\ expected' = frame.decided[1].from
    /\ _setup_slicing_configuration(at, Len(trace.executed_instructions))

\* [frames, simulating]; behind the frame that an exception has left, the stack is known again
_stack_housekeeping(s, simulating) ==
  LET saved == [trace_stack EXCEPT ![1].attribute_uses = context.attribute_variables]
      entered == IF s.returned THEN push_stack(saved, pending.new_attribute_object_uses) ELSE saved
  IN  CASE ~s.call -> [frames |-> entered, simulating |-> simulating]
        [] simulating -> [frames |-> pop_stack(entered), simulating |-> TRUE]
        [] OTHER -> [frames |-> push_stack(pop_stack(entered), {}), simulating |-> TRUE]

\* a step back
Slice ==
  /\ state # None
  /\ LET s == get_previous_instruction_state(state)
         at == s.instr
         stack == _stack_housekeeping(s, pending.stack_simulation /\ ~s.exception)
         dominated == dominated_instr_ctrl_deps(at)
         undecided == [context EXCEPT !.attribute_variables = stack.frames[1].attribute_uses,
                                      !.instr_ctrl_deps = @ \ dominated]
         data == check_explicit_data_dependency(undecided, at, s.trace_position)
         pushed == IF stack.simulating THEN update_push_operations(stack.frames, Pushes(Name(at)), s.returned)
                   ELSE [dependent |-> FALSE, include_use |-> TRUE, frames |-> stack.frames]
         explicit == dominated # {} \/ data.found
         criterion_in_slice ==
           \/ explicit \/ pushed.dependent
           \/ s.call /\ pending.code_object_dependent
           \/ s.jump /\ Name(at) = "JUMP_FORWARD"
         controlled == [data.context EXCEPT !.instr_ctrl_deps = add_control_dependency(@, at)]
     IN  /\ at # None
         /\ state' = s
         /\ visited' = Append(visited, at)
         /\ trace_stack' = IF stack.simulating
                           THEN update_pop_operations(pushed.frames, Pops(Name(at), s.jump), at, criterion_in_slice)
                           ELSE pushed.frames
         /\ slice' = IF criterion_in_slice THEN slice \cup {at} ELSE slice
         /\ context' = IF ~criterion_in_slice THEN data.context
                       ELSE IF pushed.include_use THEN add_uses(controlled, at, s.trace_position) ELSE controlled
         /\ pending' = [code_object_dependent |-> ~s.returned \/ (~s.call /\ explicit),
                        new_attribute_object_uses |-> data.created, stack_simulation |-> stack.simulating]
  /\ UNCHANGED <<program, machine, executed, trace, expected>>

Execute ==
  LoadConst \/ PopTop \/ visit_local_access \/ visit_name_access \/ visit_global_access \/ visit_attr_access
  \/ visit_call \/ visit_return \/ visit_jump \/ Raise \/ ExecuteStatement

Next == (Execute /\ UNCHANGED slicerVars) \/ SliceStatement \/ track_assertion_position \/ Slice
Spec == Init /\ [][Next]_vars

Finished == state # None /\ get_previous_instruction_state(state).instr = None

\* the lines of the module under test that the statement checks
map_instructions_to_lines(instructions) == {Instr(at).line : at \in {i \in instructions : i[1] \notin Range(program.statements)}}

--------------------------------------------------------------------------------
(* The way back passes every executed instruction, in reverse order, although   *)
(* the trace holds only some of them (ExecutionFlowBuilder: it reconstructs the *)
(* execution flow of a program run), unless there has been an exception.        *)
FlowIsReconstructed ==
  (\E at \in Range(executed) : Name(at) = "RAISE_VARARGS") \/
  /\ \A k \in DOMAIN visited : k <= Len(executed) /\ visited[k] = executed[Len(executed) + 1 - k]
  /\ Finished => Len(visited) = Len(executed)

(* A slice misses nothing that the value at its criterion depends on, by the    *)
(* data or by the branches and calls that have led there (DynamicSlicer: all    *)
(* the variables and instructions that contributed to reaching an instruction). *)
SliceIsSound == Finished => expected \subseteq slice

(* Exceptions break the way back; still, a line that counts as checked is a     *)
(* line that has been executed before the criterion.                            *)
CheckedIsExecuted == map_instructions_to_lines(slice) \subseteq map_instructions_to_lines(Range(executed))
================================================================================
