--------------------------------- MODULE TestCase --------------------------------
(***************************************************************************)
(* A test case (pynguin/testcase/testcase.py): a sequence of statements,   *)
(* each of which may bind a variable and reads variables bound before it,  *)
(* and the counter that gives every variable a name of its own.  The       *)
(* operators are what the methods of TestCase return; those that draw at   *)
(* random return the set of what they may return.                          *)
(***************************************************************************)
EXTENDS Naturals, FiniteSets, SequencesExt

CONSTANTS
    Types,      \* the Python classes of values
    None        \* no variable, no type, no accessible

\* A statement: the variable it binds, that variable's type, the variables it
\* reads, the accessible it calls, and whether the machine-learning factory made it.
Statement(var, type, uses, call, ml) ==
    [var |-> var, type |-> type, uses |-> uses, call |-> call, ml |-> ml]

EmptyTestCase == [stmts |-> <<>>, counter |-> 0]

size(tc) == Len(tc.stmts)

BoundBefore(tc, at) ==
    {tc.stmts[i].var : i \in {j \in DOMAIN tc.stmts : j < at}} \ {None}

\* variables_of_type: the registry holds the variables of exactly this type.
variables_of_type(tc, type) ==
    {tc.stmts[i].var : i \in {j \in DOMAIN tc.stmts : tc.stmts[j].type = type}} \ {None}

--------------------------------------------------------------------------------
\* insert_statement and add_statement, of a statement bound to next_var_name()
Bind(tc, at, type, uses, call, ml) ==
    [stmts |-> InsertAt(tc.stmts, at, Statement(tc.counter, type, uses, call, ml)),
     counter |-> tc.counter + 1]

replace_statement(tc, at, stmt) == [tc EXCEPT !.stmts[at] = stmt]

remove_statements_batch(tc, indices) ==
    LET kept[n \in 0..size(tc)] ==
            IF n = 0 THEN <<>>
            ELSE IF n \in indices THEN kept[n - 1] ELSE Append(kept[n - 1], tc.stmts[n])
    IN [tc EXCEPT !.stmts = kept[size(tc)]]

\* chop: everything after the position goes.
chop(tc, at) == remove_statements_batch(tc, {i \in DOMAIN tc.stmts : i > at})

\* Mutant: only what reads the removed variable itself.
DirectReaders(tc, at) ==
    {at} \cup {j \in DOMAIN tc.stmts : j > at /\ tc.stmts[at].var \in tc.stmts[j].uses}

\* forward_dependencies: the statement and whatever reads, directly or not, the
\* variable it binds; delete_statement_gracefully of the factory computes the same.
forward_dependencies(tc, at) ==
    LET closure[n \in 0..size(tc)] ==
            IF n = 0 THEN {at}
            ELSE closure[n - 1] \cup
                 {j \in (at + 1)..size(tc) :
                    \E i \in closure[n - 1] : tc.stmts[i].var \in tc.stmts[j].uses}
    IN closure[size(tc)]

remove_statement_with_forward_dependencies(tc, at) ==
    remove_statements_batch(tc, forward_dependencies(tc, at))

--------------------------------------------------------------------------------
\* Mutant: references into the other parent's head are left as they are.
ResolveNothing(tc, other, start, renamed, dropped, stmt) == {renamed}

\* _resolve_head_references: the extensions of the renaming under which the
\* statement can be appended.  What the other parent bound before `start` is
\* replaced by a variable of this test case of the same type; without one, or if
\* it reads a dropped variable, the statement cannot be kept.  (The renaming a
\* failed attempt leaves behind is one that a later attempt can choose anyway.)
ResolveHeadReferences(tc, other, start, renamed, dropped, stmt) ==
    LET open == (stmt.uses \cap BoundBefore(other, start)) \ DOMAIN renamed
        typeOf(v) == other.stmts[CHOOSE i \in DOMAIN other.stmts : other.stmts[i].var = v].type
        candidates(v) == IF typeOf(v) = None THEN {} ELSE variables_of_type(tc, typeOf(v))
    IN IF stmt.uses \cap dropped # {} THEN {}
       ELSE {[v \in DOMAIN renamed \cup open |-> IF v \in open THEN f[v] ELSE renamed[v]] :
                f \in {g \in [open -> UNION {candidates(v) : v \in open}] :
                            \A v \in open : g[v] \in candidates(v)}}

\* A statement of the other parent under a renaming, bound to a fresh name.
AppendRenamed(tc, stmt, renamed) ==
    LET uses == {IF v \in DOMAIN renamed THEN renamed[v] ELSE v : v \in stmt.uses}
    IN IF stmt.var = None
       THEN [tc EXCEPT !.stmts = Append(@, [stmt EXCEPT !.uses = uses])]
       ELSE Bind(tc, size(tc) + 1, stmt.type, uses, stmt.call, stmt.ml)

\* append_test_case_from: the outcomes of appending other from `start` on.
append_test_case_from(tc, other, start) ==
    LET Extend(s, stmt) ==
            LET resolved == ResolveHeadReferences(s.tc, other, start, s.renamed, s.dropped, stmt)
            IN IF resolved = {}
               THEN {[s EXCEPT !.dropped = @ \cup ({stmt.var} \ {None})]}
               ELSE {[tc |-> AppendRenamed(s.tc, stmt, r), dropped |-> s.dropped,
                      renamed |-> IF stmt.var = None THEN r
                                  ELSE [v \in DOMAIN r \cup {stmt.var} |->
                                          IF v = stmt.var THEN s.tc.counter ELSE r[v]]] :
                        r \in resolved}
        after[n \in 0..size(other)] ==
            IF n < start
            THEN {[tc |-> tc, renamed |-> [v \in {} |-> v], dropped |-> {}]}
            ELSE UNION {Extend(s, other.stmts[n]) : s \in after[n - 1]}
    IN {s.tc : s \in after[size(other)]}

--------------------------------------------------------------------------------
\* Every variable a statement reads has been bound by a statement before it.
DefinedBeforeUse(tc) ==
    \A i \in DOMAIN tc.stmts : tc.stmts[i].uses \subseteq BoundBefore(tc, i)

\* No two statements bind the same name, and the counter is past all of them.
NamesUnique(tc) ==
    /\ \A i, j \in DOMAIN tc.stmts :
        tc.stmts[i].var = tc.stmts[j].var /\ tc.stmts[i].var # None => i = j
    /\ \A v \in BoundBefore(tc, size(tc) + 1) : v < tc.counter
================================================================================
