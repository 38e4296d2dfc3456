---------------------------- MODULE EffectCheck -----------------------------
(***************************************************************************)
(* Effect rows of functions: the call graph and its strongly connected       *)
(* components, the inference of the rows that private functions omit, and    *)
(* the check of the declared ones (src/src/effectcheck.c).                   *)
(*                                                                           *)
(* A program is a sequence of functions.  The body of a function is the      *)
(* sequence of its calls and panics, its sites, in the order of the walk; a  *)
(* site knows the handlers around it.                                        *)
(***************************************************************************)
EXTENDS Naturals, Sequences, SequencesExt

CONSTANTS Program,      \* the programs
          Operation,    \* capability operations: [row, sites, body]
          Atom          \* what a released row may be read as

ASSUME ProgramAssumption ==
    \A p \in Program : Len(p) \in Nat /\ DOMAIN p = 1..Len(p) /\ \A f \in DOMAIN p :
        /\ p[f].row \in Seq(Atom) /\ p[f].fixed \in Seq(Atom)
        /\ DOMAIN p[f].sites = 1..Len(p[f].sites) /\ Len(p[f].sites) \in Nat
        /\ p[f].callback = "open" => p[f].clause
        /\ \A s \in ToSet(p[f].sites) :
              /\ s.kind \in {"call", "operation", "apply", "panic"}
              /\ s.pass \in {"none", "own", "function"}
              /\ s.roots \in Seq(STRING)
              /\ \A v \in DOMAIN s.args : s.args[v] \in Seq(STRING)
              /\ s.kind = "call" => s.target \in DOMAIN p
              /\ s.kind = "operation" => s.operation \in DOMAIN Operation
              /\ s.pass = "function" => s.function \in DOMAIN p

ASSUME OperationAssumption ==
    \A m \in DOMAIN Operation : Operation[m].row \in Seq([name : STRING, arg : STRING])

VARIABLES program, phase, errors,
          visited, stack, order, component, count,       \* find_components
          rows, current, at, required, moved, changed,   \* infer_functions
          stale         \* whether an atom of a released row was read

graph == <<visited, stack, order, component, count>>
walk == <<rows, current, at, required, moved, changed, stale>>
vars == <<program, phase, errors, graph, walk>>

Functions == DOMAIN program
Inferred(f) == ~program[f].clause /\ ~program[f].public
Open(f) == program[f].callback = "open"

Panic == [name |-> "panic", arg |-> "none"]

-----------------------------------------------------------------------------
(* What a site requires.  An atom's argument is "none", "self" or a          *)
(* parameter of the row's owner.                                             *)

Polymorphic(s) == s.kind = "call" /\ Open(s.target)

(* The row of the callback that s passes on; fixed is the row of the         *)
(* caller's own callback parameter.                                          *)
sol_effect_callback_row(R, fixed, s) ==
    CASE s.pass = "own" -> fixed
      [] s.pass = "function" -> R[s.function]
      [] OTHER -> << >>

(* An atom of the callback that sol_effect_infer_call_row does not add.      *)
NotCaptured(s, a) == a.arg # "none" \/ a \in ToSet(program[s.target].fixed)

(* The atoms of the callee, and for a polymorphic one those of the callback. *)
Required(R, fixed, s) ==
    CASE s.kind = "panic" -> <<Panic>>
      [] s.kind = "apply" -> fixed
      [] s.kind = "operation" -> Operation[s.operation].row
      [] Polymorphic(s) -> R[s.target] \o sol_effect_callback_row(R, fixed, s)
      [] OTHER -> R[s.target]

(* Whether the i-th of them comes from the callback.                         *)
Captured(s, i) == Polymorphic(s) /\ i > Len(program[s.target].row)

(* The authorities that an atom's argument stands for at s, none of them     *)
(* when the argument's provenance is unknown.                                *)
Roots(s, a) ==
    CASE a.arg = "self" -> s.roots
      [] a.arg # "self" /\ a.arg \in DOMAIN s.args -> s.args[a.arg]
      [] OTHER -> << >>

sol_effect_instantiate_atom(s, a) ==
    IF a.arg = "none" THEN <<a>>
    ELSE [i \in DOMAIN Roots(s, a) |-> [a EXCEPT !.arg = Roots(s, a)[i]]]

(* The i-th required atom in terms of the caller.                            *)
Instances(s, i, a) ==
    IF Captured(s, i) /\ NotCaptured(s, a) THEN << >> ELSE sol_effect_instantiate_atom(s, a)

HandledByName(s, a) == \E h \in s.handled : h[1] = a.name
sol_effect_atom_is_handled(s, a) == <<a.name, a.arg>> \in s.handled

(* An unresolved row: the caller's own effect parameter.                     *)
Unresolved(callback, s) ==
    callback = "open" /\ (s.kind = "apply" \/ (Polymorphic(s) /\ s.pass = "own"))

sol_effect_row_append(row, a) == IF a \in ToSet(row) THEN row ELSE Append(row, a)

-----------------------------------------------------------------------------
(* The edges of a function, the last one added first.                        *)

EdgesWithoutCallbacks(f) ==
    LET sites == program[f].sites
        calls == SelectSeq(sites, LAMBDA s : s.kind = "call") IN
    Reverse([i \in DOMAIN calls |-> calls[i].target])

Edges(f) ==
    LET edges(s) ==
          CASE Polymorphic(s) /\ s.pass = "function" -> <<s.target, s.function>>
            [] s.kind = "call" -> <<s.target>>
            [] OTHER -> << >> IN
    Reverse(FlattenSeq([i \in DOMAIN program[f].sites |-> edges(program[f].sites[i])]))

Start(f) == [function |-> f, site |-> 1, index |-> 0, instance |-> 1]

Init ==
    /\ program \in Program
    /\ phase = "order"
    /\ errors = \E f \in Functions : program[f].public /\ ~program[f].clause
    /\ visited = {} /\ stack = << >> /\ order = << >>
    /\ component = [f \in Functions |-> 0] /\ count = 0
    /\ rows = [f \in Functions |-> program[f].row]
    /\ current = 0 /\ at = Start(1) /\ required = << >>
    /\ moved = FALSE /\ changed = FALSE /\ stale = FALSE

-----------------------------------------------------------------------------
(* sol_effect_find_components: functions in the order in which a depth-first *)
(* search leaves them, then components along incoming edges, in any order of *)
(* the callers.                                                              *)

Node(f) == [node |-> f, edges |-> Edges(f)]
Top == stack[Len(stack)]

Root ==
    /\ phase = "order" /\ stack = << >>
    /\ \E f \in Functions \ visited :
          /\ \A g \in Functions \ visited : f <= g
          /\ visited' = visited \cup {f}
          /\ stack' = <<Node(f)>>
    /\ UNCHANGED <<program, phase, errors, order, component, count, walk>>

Descend ==
    /\ phase = "order" /\ stack # << >> /\ Top.edges # << >>
    /\ LET target == Head(Top.edges)
           rest == [stack EXCEPT ![Len(stack)].edges = Tail(@)] IN
       /\ visited' = visited \cup {target}
       /\ stack' = IF target \in visited THEN rest
                   ELSE Append(rest, Node(target))
    /\ UNCHANGED <<program, phase, errors, order, component, count, walk>>

Leave ==
    /\ phase = "order" /\ stack # << >> /\ Top.edges = << >>
    /\ order' = Append(order, Top.node)
    /\ stack' = Front(stack)
    /\ UNCHANGED <<program, phase, errors, visited, component, count, walk>>

Ordered ==
    /\ phase = "order" /\ stack = << >> /\ Functions \subseteq visited
    /\ phase' = "assign"
    /\ UNCHANGED <<program, errors, graph, walk>>

Assign ==
    /\ phase = "assign" /\ stack = << >> /\ order # << >>
    /\ LET root == Last(order)
           found == component[root] # 0 IN
       /\ count' = IF found THEN count ELSE count + 1
       /\ component' = IF found THEN component ELSE [component EXCEPT ![root] = count + 1]
       /\ stack' = IF found THEN << >> ELSE <<[node |-> root, edges |-> << >>]>>
    /\ order' = Front(order)
    /\ UNCHANGED <<program, phase, errors, visited, walk>>

Spread ==
    /\ phase = "assign" /\ stack # << >>
    /\ LET callers == {f \in Functions : Top.node \in ToSet(Edges(f)) /\ component[f] = 0} IN
       /\ component' = [f \in Functions |-> IF f \in callers THEN count ELSE component[f]]
       /\ stack' = Front(stack) \o
                      [i \in DOMAIN SetToSeq(callers) |->
                         [node |-> SetToSeq(callers)[i], edges |-> << >>]]
    /\ UNCHANGED <<program, phase, errors, visited, order, count, walk>>

Assigned ==
    /\ phase = "assign" /\ stack = << >> /\ order = << >>
    /\ phase' = "infer"
    /\ current' = count
    /\ at' = Start(1)
    /\ UNCHANGED <<program, errors, graph, rows, required, moved, changed, stale>>

-----------------------------------------------------------------------------
(* sol_effect_infer_functions: components from the last, which calls only    *)
(* itself, to the first; the functions of one are walked until nothing is    *)
(* added.                                                                    *)

(* The function at hand is one of the component whose row is omitted.        *)
Walking ==
    /\ phase = "infer" /\ at.function \in Functions
    /\ component[at.function] = current /\ Inferred(at.function)

Site == program[at.function].sites[at.site]
NextSite == [Start(at.function) EXCEPT !.site = at.site + 1]

(* A site is reached: the callee's row is read.                              *)
sol_effect_process_call ==
    /\ Walking /\ at.index = 0 /\ at.site \in DOMAIN program[at.function].sites
    /\ required' = Required(rows, program[at.function].fixed, Site)
    /\ errors' = (errors \/ (Unresolved(program[at.function].callback, Site)
                               /\ Site.handled # {}))
    /\ moved' = FALSE
    /\ at' = IF required' = << >> THEN NextSite ELSE [at EXCEPT !.index = 1]
    /\ UNCHANGED <<program, phase, graph, rows, current, changed, stale>>

(* The atom at.index of the callee's row, with one of its authorities.  The  *)
(* row of a function that calls itself is read in place: once an atom was    *)
(* appended to it the old array is released, and the next atom is read from  *)
(* there.                                                                    *)
Advanced(instances) ==
    IF at.instance < Len(instances) THEN [at EXCEPT !.instance = @ + 1]
    ELSE IF at.index < Len(required) THEN [at EXCEPT !.index = @ + 1, !.instance = 1]
    ELSE NextSite

InPlace == Site.kind = "call" /\ Site.target = at.function /\ ~Polymorphic(Site)

InferAtom ==
    /\ Walking /\ at.index \in DOMAIN required
    /\ \E a \in IF moved /\ at.instance = 1 THEN Atom ELSE {required[at.index]} :
          LET instances == Instances(Site, at.index, a)
              i == instances[at.instance] IN
          /\ rows' = IF at.instance \notin DOMAIN instances \/ sol_effect_atom_is_handled(Site, i)
                     THEN rows
                     ELSE [rows EXCEPT ![at.function] = sol_effect_row_append(@, i)]
          /\ errors' = (errors \/ (instances = << >> /\ ~Captured(Site, at.index)))
          /\ required' = [required EXCEPT ![at.index] = a]
          /\ at' = Advanced(instances)
    /\ stale' = (stale \/ (moved /\ at.instance = 1))
    /\ moved' = (moved \/ (InPlace /\ rows' # rows))
    /\ changed' = (changed \/ rows' # rows)
    /\ UNCHANGED <<program, phase, graph, current>>

WalkedFunction ==
    /\ phase = "infer" /\ at.function \in Functions /\ at.index = 0
    /\ Walking => at.site \notin DOMAIN program[at.function].sites
    /\ at' = Start(at.function + 1)
    /\ UNCHANGED <<program, phase, errors, graph, rows, current, required, moved, changed, stale>>

WalkedAndChanged ==
    /\ phase = "infer" /\ at.function \notin Functions
    /\ current' = IF changed THEN current ELSE current - 1
    /\ phase' = IF current' = 0 THEN "coerce" ELSE "infer"
    /\ at' = Start(1)
    /\ UNCHANGED <<program, errors, graph, rows, required, moved, changed, stale>>

WalkedComponent ==
    /\ phase = "infer" /\ at.function \notin Functions
    /\ changed' = FALSE
    /\ current' = IF changed THEN current ELSE current - 1
    /\ phase' = IF current' = 0 THEN "coerce" ELSE "infer"
    /\ at' = Start(1)
    /\ UNCHANGED <<program, errors, graph, rows, required, moved, stale>>

-----------------------------------------------------------------------------
(* The checks of what is declared, once every row is known.                  *)

(* A function is passed where a callback of another row is expected, or a    *)
(* polymorphic call has no callback with a row that it can capture.          *)
Incoherent(f, s) ==
    LET passed == ToSet(sol_effect_callback_row(rows, program[f].fixed, s))
        closed == ToSet(program[s.target].fixed) IN
    /\ s.kind = "call"
    /\ \/ s.pass # "none" /\ \E a \in passed : a.arg # "none"
       \/ s.pass = "function" /\ ~Open(s.target) /\ ~(passed \subseteq closed)
       \/ s.pass = "none" /\ Open(s.target)

sol_effect_validate_function_coercions ==
    /\ phase = "coerce"
    /\ phase' = "validate"
    /\ errors' = (errors \/ \E f \in Functions : \E s \in ToSet(program[f].sites) : Incoherent(f, s))
    /\ UNCHANGED <<program, graph, walk>>

(* Self in the row of a capability's member covers the capability's source.  *)
Declares(row, a) ==
    a \in ToSet(row) \/ (a.arg = "source" /\ [a EXCEPT !.arg = "self"] \in ToSet(row))

(* What owner, a function or an operation with a body, does not declare.     *)
Undeclared(owner, s) ==
    LET needed == Required(rows, owner.fixed, s) IN
    \/ Unresolved(owner.callback, s) /\ s.handled # {}
    \/ \E i \in DOMAIN needed :
          LET instances == Instances(s, i, needed[i]) IN
          \/ instances = << >> /\ ~Captured(s, i)
          \/ \E a \in ToSet(instances) :
                ~sol_effect_atom_is_handled(s, a) /\ ~Declares(owner.row, a)

Validate ==
    /\ phase = "validate"
    /\ LET checked == {program[f] : f \in {g \in Functions : program[g].clause}}
                        \cup {Operation[m] : m \in DOMAIN Operation} IN
       phase' = IF errors \/ \E o \in checked : \E s \in ToSet(o.sites) : Undeclared(o, s)
                THEN "rejected" ELSE "accepted"
    /\ UNCHANGED <<program, errors, graph, walk>>

CheckNext ==
    \/ Root \/ Descend \/ Leave \/ Ordered \/ Assign \/ Spread \/ Assigned
    \/ sol_effect_process_call \/ InferAtom \/ WalkedFunction \/ WalkedComponent
    \/ sol_effect_validate_function_coercions \/ Validate

Spec == Init /\ [][CheckNext]_vars

-----------------------------------------------------------------------------
(* What s requires when the rows of the functions are the sets R.            *)
Needs(R, fixed, s) ==
    CASE s.kind = "panic" -> {Panic}
      [] s.kind = "apply" -> fixed
      [] s.kind = "operation" -> ToSet(Operation[s.operation].row)
      [] s.kind = "call" -> R[s.target]

Captures(R, fixed, s) ==
    IF ~Polymorphic(s) \/ s.pass = "none" THEN {}
    ELSE {a \in IF s.pass = "own" THEN fixed ELSE R[s.function] : ~NotCaptured(s, a)}

(* What s adds to the row of f then.                                         *)
Adds(R, f, s) ==
    LET fixed == ToSet(program[f].fixed)
        needed == Needs(R, fixed, s) \cup Captures(R, fixed, s) IN
    {a \in UNION {ToSet(sol_effect_instantiate_atom(s, b)) : b \in needed} :
       ~sol_effect_atom_is_handled(s, a)}

Union(R, f) == R[f] \cup UNION {Adds(R, f, s) : s \in ToSet(program[f].sites)}
=============================================================================
