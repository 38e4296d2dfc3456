------------------------- MODULE EffectCheckProofs --------------------------
(***************************************************************************)
(* The rows that sol_effect_infer_functions infers hold, for every program,  *)
(* nothing more than they must.                                              *)
(***************************************************************************)
EXTENDS EffectCheck, SequenceTheorems, TLAPS

(* Rows, as sets, that hold what is declared and what the sites of every     *)
(* function that omits its row add.                                          *)
Closed(R) ==
    /\ \A f \in Functions : ToSet(program[f].row) \subseteq R[f]
    /\ \A f \in Functions : Inferred(f) =>
          \A s \in ToSet(program[f].sites) : Adds(R, f, s) \subseteq R[f]

Below(R) == \A f \in Functions : ToSet(rows[f]) \subseteq R[f]

(* An atom that site s of f requires when the rows are R, or one of the      *)
(* callback that is left out.                                                *)
Justified(R, f, s, i, a) ==
    \/ Captured(s, i) /\ NotCaptured(s, a)
    \/ a \in Needs(R, ToSet(program[f].fixed), s) \cup Captures(R, ToSet(program[f].fixed), s)

-----------------------------------------------------------------------------
Cursor == [function : Nat, site : Nat, index : Nat, instance : Nat]

(* The cursor of the walk and the rows are well formed.                      *)
ShapeInv ==
    /\ program \in Program
    /\ stale \in BOOLEAN /\ moved \in BOOLEAN /\ changed \in BOOLEAN
    /\ at \in Cursor
    /\ DOMAIN rows = Functions
    /\ \A f \in Functions : \E S : rows[f] \in Seq(S)
    /\ \E S : required \in Seq(S)
    /\ at.index # 0 => at.function \in Functions /\ at.site \in DOMAIN program[at.function].sites

(* A row that is declared, or omitted by a public function, stays what it is. *)
DeclaredInv == \A f \in Functions : ~Inferred(f) => rows[f] = program[f].row

(* The rows are below every closed assignment, and what was read of a        *)
(* callee's row is justified by it.                                          *)
LeastInv ==
    ~stale => \A R : Closed(R) =>
        /\ Below(R)
        /\ at.index # 0 =>
             \A i \in DOMAIN required : Justified(R, at.function, Site, i, required[i])

-----------------------------------------------------------------------------
(* Appending an atom to a row adds that atom and nothing else.               *)
LEMMA AppendAdds ==
    ASSUME NEW row, NEW S, row \in Seq(S), NEW a
    PROVE  /\ ToSet(sol_effect_row_append(row, a)) = ToSet(row) \cup {a}
           /\ \E T : sol_effect_row_append(row, a) \in Seq(T)
<1>1. CASE a \in ToSet(row)
  BY <1>1 DEF sol_effect_row_append
<1>2. CASE a \notin ToSet(row)
  <2>1. row \in Seq(S \cup {a})
    BY SMT
  <2>2. /\ Append(row, a) \in Seq(S \cup {a}) /\ Len(Append(row, a)) = Len(row) + 1
        /\ \A i \in 1..Len(row) : Append(row, a)[i] = row[i]
        /\ Append(row, a)[Len(row) + 1] = a
    BY <2>1, AppendProperties
  <2>3. DOMAIN row = 1..Len(row) /\ DOMAIN Append(row, a) = 1..Len(row) + 1 /\ Len(row) \in Nat
    BY <2>1, <2>2
  <2>4. ToSet(Append(row, a)) = ToSet(row) \cup {a}
    <3>1. ASSUME NEW i \in DOMAIN row PROVE i \in DOMAIN Append(row, a) /\ row[i] = Append(row, a)[i]
      BY <2>2, <2>3
    <3>2. ASSUME NEW i \in DOMAIN Append(row, a)
          PROVE  i \in DOMAIN row \/ Append(row, a)[i] = a
      BY <2>2, <2>3
    <3>3. Len(row) + 1 \in DOMAIN Append(row, a)
      BY <2>3
    <3> QED
      BY <2>2, <3>1, <3>2, <3>3 DEF ToSet
  <2> QED
    BY <1>2, <2>2, <2>4 DEF sol_effect_row_append
<1> QED
  BY <1>1, <1>2

(* The sites and rows of a program of Program.                               *)
LEMMA ProgramFacts ==
    ASSUME program \in Program, NEW f \in Functions
    PROVE  /\ program[f].row \in Seq(Atom) /\ program[f].fixed \in Seq(Atom)
           /\ Open(f) => ~Inferred(f)
           /\ \A s \in ToSet(program[f].sites) :
                 /\ s.kind \in {"call", "operation", "apply", "panic"}
                 /\ s.pass \in {"none", "own", "function"}
                 /\ s.roots \in Seq(STRING)
                 /\ \A v \in DOMAIN s.args : s.args[v] \in Seq(STRING)
                 /\ s.kind = "call" => s.target \in Functions
                 /\ s.kind = "operation" => s.operation \in DOMAIN Operation
                 /\ s.pass = "function" => s.function \in Functions
  BY ProgramAssumption DEF Functions, Open, Inferred

(* The callback's row is a sequence, of the caller's closed row or of what   *)
(* has been inferred.                                                        *)
LEMMA CallbackRow ==
    ASSUME ShapeInv, NEW f \in Functions, NEW s \in ToSet(program[f].sites)
    PROVE  \E S : sol_effect_callback_row(rows, program[f].fixed, s) \in Seq(S)
<1> DEFINE cb == sol_effect_callback_row(rows, program[f].fixed, s)
<1>1. CASE s.pass = "own"
  BY <1>1, ProgramFacts DEF ShapeInv, sol_effect_callback_row
<1>2. CASE s.pass = "function"
  <2>1. s.function \in Functions
    BY <1>2, ProgramFacts DEF ShapeInv
  <2> QED
    BY <1>2, <2>1 DEF ShapeInv, sol_effect_callback_row
<1>3. CASE s.pass \notin {"own", "function"}
  <2>1. cb = << >>
    BY <1>3 DEF sol_effect_callback_row
  <2>2. << >> \in Seq({})
    OBVIOUS
  <2> QED
    BY <2>1, <2>2
<1> QED
  BY <1>1, <1>2, <1>3

(* The two parts of what a polymorphic call requires.                        *)
LEMMA PolymorphicParts ==
    ASSUME ShapeInv, DeclaredInv, NEW f \in Functions, NEW s \in ToSet(program[f].sites),
           Polymorphic(s)
    PROVE  LET row == program[s.target].row
               cb == sol_effect_callback_row(rows, program[f].fixed, s)
               needed == Required(rows, program[f].fixed, s) IN
           /\ rows[s.target] = row
           /\ DOMAIN row = 1..Len(row) /\ Len(row) \in Nat
           /\ DOMAIN cb = 1..Len(cb) /\ Len(cb) \in Nat
           /\ needed = row \o cb
           /\ DOMAIN needed = 1..(Len(row) + Len(cb))
           /\ \A i \in DOMAIN needed :
                 needed[i] = IF i <= Len(row) THEN row[i] ELSE cb[i - Len(row)]
<1> DEFINE row == program[s.target].row
           cb == sol_effect_callback_row(rows, program[f].fixed, s)
<1>1. s.kind = "call" /\ s.target \in Functions /\ Open(s.target)
  BY ProgramFacts DEF ShapeInv, Polymorphic
<1>2. rows[s.target] = row /\ row \in Seq(Atom)
  BY <1>1, ProgramFacts DEF ShapeInv, DeclaredInv
<1>3. PICK S : cb \in Seq(S)
  BY CallbackRow
<1>4. row \in Seq(Atom \cup S) /\ cb \in Seq(Atom \cup S)
  BY <1>2, <1>3, SMT
<1>5. Required(rows, program[f].fixed, s) = row \o cb
  BY <1>1, <1>2 DEF Required, Polymorphic
<1> HIDE DEF row, cb
<1>6. /\ row \o cb \in Seq(Atom \cup S) /\ Len(row \o cb) = Len(row) + Len(cb)
      /\ \A i \in 1..Len(row) + Len(cb) :
            (row \o cb)[i] = IF i <= Len(row) THEN row[i] ELSE cb[i - Len(row)]
  BY <1>4, ConcatProperties
<1>7. /\ DOMAIN row = 1..Len(row) /\ Len(row) \in Nat /\ DOMAIN cb = 1..Len(cb) /\ Len(cb) \in Nat
      /\ DOMAIN (row \o cb) = 1..(Len(row) + Len(cb))
  BY <1>4, <1>6
<1> QED
  BY <1>2, <1>5, <1>6, <1>7 DEF row, cb

(* What a site requires is a sequence.                                       *)
LEMMA RequiredIsSequence ==
    ASSUME ShapeInv, NEW f \in Functions, NEW s \in ToSet(program[f].sites)
    PROVE  \E S : Required(rows, program[f].fixed, s) \in Seq(S)
<1> DEFINE needed == Required(rows, program[f].fixed, s)
           cb == sol_effect_callback_row(rows, program[f].fixed, s)
<1>1. s.kind \in {"call", "operation", "apply", "panic"}
  BY ProgramFacts DEF ShapeInv
<1>2. CASE s.kind = "panic"
  <2>1. needed = <<Panic>>
    BY <1>2 DEF Required, Polymorphic
  <2>2. <<Panic>> \in Seq({Panic})
    OBVIOUS
  <2> QED
    BY <2>1, <2>2
<1>3. CASE s.kind = "apply"
  <2>1. needed = program[f].fixed
    BY <1>3 DEF Required, Polymorphic
  <2> QED
    BY <2>1, ProgramFacts DEF ShapeInv
<1>4. CASE s.kind = "operation"
  <2>1. needed = Operation[s.operation].row
    BY <1>4 DEF Required, Polymorphic
  <2>2. s.operation \in DOMAIN Operation
    BY <1>4, ProgramFacts DEF ShapeInv
  <2> QED
    BY <2>1, <2>2, OperationAssumption
<1>5. CASE s.kind = "call"
  <2>1. PICK S : rows[s.target] \in Seq(S)
    BY <1>5, ProgramFacts DEF ShapeInv
  <2>2. PICK T : cb \in Seq(T)
    BY CallbackRow
  <2>3. rows[s.target] \in Seq(S \cup T) /\ cb \in Seq(S \cup T)
    BY <2>1, <2>2, SMT
  <2>4. needed = rows[s.target] \/ needed = rows[s.target] \o cb
    BY <1>5 DEF Required, Polymorphic
  <2> HIDE DEF needed, cb
  <2>5. rows[s.target] \o cb \in Seq(S \cup T)
    BY <2>3, ConcatProperties
  <2>6. needed \in Seq(S \cup T)
    BY <2>3, <2>4, <2>5
  <2> QED
    BY <2>6 DEF needed
<1> QED
  BY <1>1, <1>2, <1>3, <1>4, <1>5

(* What is read of a callee's row is required by the site in every           *)
(* assignment that the rows are below.                                       *)
LEMMA RequiredJustified ==
    ASSUME ShapeInv, DeclaredInv, NEW f \in Functions, NEW s \in ToSet(program[f].sites),
           NEW R, Below(R), NEW i \in DOMAIN Required(rows, program[f].fixed, s)
    PROVE  Justified(R, f, s, i, Required(rows, program[f].fixed, s)[i])
<1> DEFINE fixed == program[f].fixed
           needed == Required(rows, fixed, s)
<1>1. s.kind \in {"call", "operation", "apply", "panic"}
  BY ProgramFacts DEF ShapeInv
<1>2. CASE s.kind = "panic"
  <2>1. needed = <<Panic>> /\ Needs(R, ToSet(fixed), s) = {Panic}
    BY <1>2 DEF Required, Needs, Polymorphic
  <2> QED
    BY <2>1 DEF Justified
<1>3. CASE s.kind = "apply"
  <2>1. needed = fixed /\ Needs(R, ToSet(fixed), s) = ToSet(fixed)
    BY <1>3 DEF Required, Needs, Polymorphic
  <2> QED
    BY <2>1 DEF Justified, ToSet
<1>4. CASE s.kind = "operation"
  <2>1. needed = Operation[s.operation].row /\ Needs(R, ToSet(fixed), s) = ToSet(needed)
    BY <1>4 DEF Required, Needs, Polymorphic
  <2> QED
    BY <2>1 DEF Justified, ToSet
<1>5. CASE s.kind = "call" /\ ~Polymorphic(s)
  <2>1. s.target \in Functions
    BY <1>5, ProgramFacts DEF ShapeInv
  <2>2. needed = rows[s.target] /\ Needs(R, ToSet(fixed), s) = R[s.target]
    BY <1>5 DEF Required, Needs, Polymorphic
  <2> QED
    BY <2>1, <2>2 DEF Justified, ToSet, Below
<1>6. CASE Polymorphic(s)
  <2> DEFINE row == program[s.target].row
             cb == sol_effect_callback_row(rows, fixed, s)
  <2>1. s.kind = "call" /\ s.target \in Functions
    BY <1>6, ProgramFacts DEF ShapeInv, Polymorphic
  <2>2. /\ rows[s.target] = row
        /\ DOMAIN row = 1..Len(row) /\ Len(row) \in Nat
        /\ DOMAIN cb = 1..Len(cb) /\ Len(cb) \in Nat
        /\ DOMAIN needed = 1..(Len(row) + Len(cb))
        /\ needed[i] = IF i <= Len(row) THEN row[i] ELSE cb[i - Len(row)]
    BY <1>6, PolymorphicParts
  <2>3. CASE i <= Len(row)
    <3>1. needed[i] \in ToSet(rows[s.target])
      BY <2>2, <2>3 DEF ToSet
    <3>2. Needs(R, ToSet(fixed), s) = R[s.target]
      BY <2>1 DEF Needs
    <3> QED
      BY <2>1, <3>1, <3>2 DEF Justified, Below
  <2>4. CASE i > Len(row) /\ ~NotCaptured(s, needed[i])
    <3>1. i - Len(row) \in DOMAIN cb /\ needed[i] = cb[i - Len(row)]
      <4>1. i \in 1..(Len(row) + Len(cb)) /\ i > Len(row)
        BY <2>2, <2>4
      <4> HIDE DEF needed, row, cb
      <4>2. ASSUME NEW n \in Nat, NEW m \in Nat, i \in 1..(n + m), i > n PROVE i - n \in 1..m /\ ~(i <= n)
        BY <4>2
      <4> QED
        BY <2>2, <4>1, <4>2
    <3>2. needed[i] \in ToSet(cb)
      BY <3>1 DEF ToSet
    <3>3. s.pass \in {"none", "own", "function"}
      BY ProgramFacts DEF ShapeInv
    <3>4. CASE s.pass = "none"
      <4>1. cb = << >>
        BY <3>4 DEF sol_effect_callback_row
      <4> QED
        BY <4>1, <3>1
    <3>5. CASE s.pass = "own"
      <4>1. cb = fixed
        BY <3>5 DEF sol_effect_callback_row
      <4> QED
        BY <1>6, <2>4, <3>2, <3>5, <4>1 DEF Justified, Captures
    <3>6. CASE s.pass = "function"
      <4>1. cb = rows[s.function] /\ s.function \in Functions
        BY <3>6, ProgramFacts DEF sol_effect_callback_row, ShapeInv
      <4>2. needed[i] \in R[s.function]
        BY <3>2, <4>1 DEF Below
      <4> QED
        BY <1>6, <2>4, <3>6, <4>2 DEF Justified, Captures
    <3> QED
      BY <3>3, <3>4, <3>5, <3>6
  <2>5. CASE i > Len(row) /\ NotCaptured(s, needed[i])
    <3>1. Captured(s, i)
      BY <1>6, <2>5 DEF Captured
    <3> QED
      BY <2>5, <3>1 DEF Justified
  <2>6. i <= Len(row) \/ i > Len(row)
    BY <2>2
  <2> HIDE DEF needed, row, cb
  <2> QED
    BY <2>3, <2>4, <2>5, <2>6 DEF needed
<1> QED
  BY <1>1, <1>2, <1>3, <1>4, <1>5, <1>6

(* A justified atom that is not handled belongs to the row of f.             *)
LEMMA InstanceBelongs ==
    ASSUME NEW R, Closed(R), NEW f \in Functions, Inferred(f),
           NEW s \in ToSet(program[f].sites), NEW i, NEW a, Justified(R, f, s, i, a),
           NEW k \in DOMAIN Instances(s, i, a),
           ~sol_effect_atom_is_handled(s, Instances(s, i, a)[k])
    PROVE  Instances(s, i, a)[k] \in R[f]
<1>1. ~(Captured(s, i) /\ NotCaptured(s, a))
  <2>1. SUFFICES ASSUME Captured(s, i) /\ NotCaptured(s, a) PROVE FALSE
    OBVIOUS
  <2>2. Instances(s, i, a) = << >>
    BY <2>1 DEF Instances
  <2> QED
    BY <2>2
<1>2. Instances(s, i, a) = sol_effect_instantiate_atom(s, a)
  BY <1>1 DEF Instances
<1>3. Instances(s, i, a)[k] \in ToSet(sol_effect_instantiate_atom(s, a))
  BY <1>2 DEF ToSet
<1>4. Instances(s, i, a)[k] \in Adds(R, f, s)
  BY <1>1, <1>3 DEF Adds, Justified
<1> QED
  BY <1>4 DEF Closed

-----------------------------------------------------------------------------
(* What a step does to the walk: nothing, a new start, the reading of a      *)
(* callee's row, or one atom of it.                                          *)
NewStart ==
    /\ \E n \in Nat \ {0} : at' = Start(n)
    /\ changed' \in BOOLEAN
    /\ UNCHANGED <<program, rows, required, moved, stale>>

(* A step leaves the program and the walk alone, starts a walk anew, reads a *)
(* site or takes up an atom of what it requires.                             *)
LEMMA StepCases ==
    ASSUME ShapeInv, [CheckNext]_vars
    PROVE  \/ UNCHANGED <<program, walk>>
           \/ NewStart
           \/ sol_effect_process_call
           \/ InferAtom
<1>1. CASE UNCHANGED vars
  BY <1>1 DEF vars
<1>2. CASE \/ Root \/ Descend \/ Leave \/ Ordered \/ Assign \/ Spread
           \/ sol_effect_validate_function_coercions \/ Validate
  BY <1>2 DEF Root, Descend, Leave, Ordered, Assign, Spread,
              sol_effect_validate_function_coercions, Validate
<1>0. 1 \in Nat \ {0}
  OBVIOUS
<1>3. CASE Assigned
  BY <1>0, <1>3 DEF Assigned, NewStart, ShapeInv
<1>4. CASE WalkedFunction
  <2>1. at.function + 1 \in Nat \ {0}
    BY DEF ShapeInv, Cursor
  <2> QED
    BY <1>4, <2>1 DEF WalkedFunction, NewStart, ShapeInv
<1>5. CASE WalkedComponent
  BY <1>0, <1>5 DEF WalkedComponent, NewStart
<1> QED
  BY <1>1, <1>2, <1>3, <1>4, <1>5 DEF CheckNext

(* The cursor at the next site.                                              *)
LEMMA NextSiteFacts ==
    ASSUME ShapeInv
    PROVE  /\ NextSite \in Cursor
           /\ NextSite.function = at.function /\ NextSite.site = at.site + 1
           /\ NextSite.index = 0 /\ NextSite.instance = 1
  BY DEF ShapeInv, NextSite, Start, Cursor

(* The cursor after an atom: the next instance of it, the next atom, or the  *)
(* next site.                                                                *)
LEMMA AdvancedFacts ==
    ASSUME ShapeInv, NEW q
    PROVE  /\ Advanced(q) \in Cursor
           /\ Advanced(q).function = at.function
           /\ \/ /\ at.instance < Len(q)
                 /\ Advanced(q).instance = at.instance + 1
                 /\ Advanced(q).index = at.index /\ Advanced(q).site = at.site
              \/ /\ ~(at.instance < Len(q)) /\ at.index < Len(required)
                 /\ Advanced(q).instance = 1
                 /\ Advanced(q).index = at.index + 1 /\ Advanced(q).site = at.site
              \/ /\ ~(at.instance < Len(q)) /\ ~(at.index < Len(required))
                 /\ Advanced(q) = NextSite
<1>1. CASE at.instance < Len(q)
  <2>1. Advanced(q) = [at EXCEPT !.instance = at.instance + 1]
    BY <1>1 DEF Advanced
  <2> QED
    BY <1>1, <2>1 DEF ShapeInv, Cursor
<1>2. CASE ~(at.instance < Len(q)) /\ at.index < Len(required)
  <2> DEFINE r == [at EXCEPT !.index = at.index + 1]
  <2>1. Advanced(q) = [r EXCEPT !.instance = 1]
    BY <1>2 DEF Advanced, ShapeInv
  <2>2. r \in Cursor /\ r.function = at.function /\ r.site = at.site /\ r.index = at.index + 1
    BY DEF ShapeInv, Cursor
  <2> HIDE DEF r
  <2> QED
    BY <1>2, <2>1, <2>2 DEF Cursor
<1>3. CASE ~(at.instance < Len(q)) /\ ~(at.index < Len(required))
  <2>1. Advanced(q) = NextSite
    BY <1>3 DEF Advanced
  <2> QED
    BY <1>3, <2>1, NextSiteFacts
<1> QED
  BY <1>1, <1>2, <1>3

(* Every step keeps the rows and what was required sequences.                *)
LEMMA ShapeStep == ShapeInv /\ [CheckNext]_vars => ShapeInv'
<1> SUFFICES ASSUME ShapeInv, [CheckNext]_vars PROVE ShapeInv'
  OBVIOUS
<1>1. CASE UNCHANGED <<program, walk>>
  BY <1>1 DEF walk, ShapeInv, Functions
<1>2. CASE NewStart
  <2>1. at' \in Cursor /\ at'.index = 0
    BY <1>2 DEF NewStart, Start, Cursor
  <2> QED
    BY <1>2, <2>1 DEF NewStart, ShapeInv, Functions
<1>3. CASE sol_effect_process_call
  <2>1. at' \in Cursor /\ (at'.index # 0 => at'.function = at.function /\ at'.site = at.site)
    BY <1>3, NextSiteFacts DEF sol_effect_process_call, ShapeInv, Cursor
  <2>2. at.function \in Functions /\ at.site \in DOMAIN program[at.function].sites
    BY <1>3 DEF sol_effect_process_call, Walking
  <2>3. Site \in ToSet(program[at.function].sites)
    BY <2>2 DEF Site, ToSet
  <2>4. \E S : required' \in Seq(S)
    BY <1>3, <2>2, <2>3, RequiredIsSequence DEF sol_effect_process_call
  <2>5. UNCHANGED <<program, rows, stale, changed>> /\ moved' \in BOOLEAN
    BY <1>3 DEF sol_effect_process_call
  <2> QED
    BY <2>1, <2>2, <2>4, <2>5 DEF ShapeInv, Functions
<1>4. CASE InferAtom
  <2>1. PICK a : LET instances == Instances(Site, at.index, a)
                     i == instances[at.instance] IN
            /\ rows' = IF at.instance \notin DOMAIN instances \/ sol_effect_atom_is_handled(Site, i)
                       THEN rows
                       ELSE [rows EXCEPT ![at.function] = sol_effect_row_append(@, i)]
            /\ required' = [required EXCEPT ![at.index] = a]
            /\ at' = Advanced(instances)
    BY <1>4 DEF InferAtom
  <2>2. at' \in Cursor /\ (at'.index # 0 => at'.function = at.function /\ at'.site = at.site)
    BY <2>1, AdvancedFacts, NextSiteFacts
  <2>3. DOMAIN rows' = Functions
    BY <2>1 DEF ShapeInv
  <2>4. ASSUME NEW f \in Functions PROVE \E S : rows'[f] \in Seq(S)
    <3>1. \/ rows'[f] = rows[f]
          \/ \E i : rows'[f] = sol_effect_row_append(rows[f], i)
      BY <2>1 DEF ShapeInv
    <3>2. PICK S : rows[f] \in Seq(S)
      BY DEF ShapeInv
    <3> QED
      BY <3>1, <3>2, AppendAdds
  <2>5. \E S : required' \in Seq(S)
    <3>1. PICK S : required \in Seq(S)
      BY DEF ShapeInv
    <3>2. required \in [1..Len(required) -> S] /\ Len(required) \in Nat
      BY <3>1
    <3>3. required' \in [1..Len(required) -> S \cup {a}]
      BY <2>1, <3>2
    <3>4. required' \in Seq(S \cup {a})
      BY <3>2, <3>3, SeqDef
    <3> QED
      BY <3>4
  <2>6. at.index # 0
    <3>1. PICK S : required \in Seq(S)
      BY DEF ShapeInv
    <3>2. DOMAIN required = 1..Len(required)
      BY <3>1
    <3> QED
      BY <1>4, <3>2 DEF InferAtom
  <2>7. program' = program /\ stale' \in BOOLEAN /\ moved' \in BOOLEAN /\ changed' \in BOOLEAN
    BY <1>4 DEF InferAtom, ShapeInv
  <2> QED
    BY <2>2, <2>3, <2>4, <2>5, <2>6, <2>7 DEF ShapeInv, Functions
<1> QED
  BY <1>1, <1>2, <1>3, <1>4, StepCases

(* Every step keeps the rows that are declared: inference only appends to rows *)
(* that were omitted.                                                        *)
LEMMA DeclaredStep == ShapeInv /\ DeclaredInv /\ [CheckNext]_vars => DeclaredInv'
<1> SUFFICES ASSUME ShapeInv, DeclaredInv, [CheckNext]_vars PROVE DeclaredInv'
  OBVIOUS
<1>1. CASE UNCHANGED <<program, walk>>
  BY <1>1 DEF walk, DeclaredInv, Functions, Inferred
<1>2. CASE NewStart
  BY <1>2 DEF NewStart, DeclaredInv, Functions, Inferred
<1>3. CASE sol_effect_process_call
  BY <1>3 DEF sol_effect_process_call, DeclaredInv, Functions, Inferred
<1>4. CASE InferAtom
  <2>1. /\ rows' = rows \/ \E r : rows' = [rows EXCEPT ![at.function] = r]
        /\ program' = program /\ Inferred(at.function)
    BY <1>4 DEF InferAtom, Walking
  <2> QED
    BY <2>1 DEF DeclaredInv, ShapeInv, Functions, Inferred
<1> QED
  BY <1>1, <1>2, <1>3, <1>4, StepCases

(* What the program alone determines.                                        *)
LEMMA SameProgram ==
    ASSUME program' = program
    PROVE  /\ \A R : Closed(R)' <=> Closed(R)
           /\ \A R, f, s, i, a : Justified(R, f, s, i, a)' <=> Justified(R, f, s, i, a)
<1>1. ASSUME NEW R, NEW f, NEW s PROVE Adds(R, f, s)' = Adds(R, f, s)
  BY DEF Adds, Needs, Captures, Polymorphic, NotCaptured, Open
<1>2. ASSUME NEW R PROVE Closed(R)' <=> Closed(R)
  BY <1>1 DEF Closed, Functions, Inferred
<1>3. ASSUME NEW R, NEW f, NEW s, NEW i, NEW a
      PROVE  Justified(R, f, s, i, a)' <=> Justified(R, f, s, i, a)
  BY DEF Justified, Captured, Needs, Captures, Polymorphic, NotCaptured, Open
<1> QED
  BY <1>2, <1>3

(* Every step keeps the rows below any assignment that is closed under what the *)
(* sites add: InferAtom adds only what a site requires.                      *)
LEMMA LeastStep == ShapeInv /\ DeclaredInv /\ LeastInv /\ [CheckNext]_vars => LeastInv'
<1> SUFFICES ASSUME ShapeInv, DeclaredInv, LeastInv, [CheckNext]_vars PROVE LeastInv'
  OBVIOUS
<1>0. program' = program /\ (~stale' => ~stale)
  BY StepCases DEF walk, NewStart, sol_effect_process_call, InferAtom, ShapeInv
<1>1. SUFFICES ASSUME ~stale', NEW R, Closed(R)
              PROVE  /\ Below(R)'
                     /\ at'.index # 0 =>
                          \A i \in DOMAIN required' : Justified(R, at'.function, Site', i, required'[i])
  BY <1>0, SameProgram DEF LeastInv
<1>2. /\ Below(R)
      /\ at.index # 0 =>
           \A i \in DOMAIN required : Justified(R, at.function, Site, i, required[i])
  BY <1>0, <1>1 DEF LeastInv
<1>3. CASE UNCHANGED <<program, walk>>
  BY <1>2, <1>3 DEF walk, Below, Functions, Site
<1>4. CASE NewStart
  <2>1. at'.index = 0
    BY <1>4 DEF NewStart, Start
  <2> QED
    BY <1>2, <1>4, <2>1 DEF NewStart, Below, Functions
<1>5. CASE sol_effect_process_call
  <2>1. Below(R)'
    BY <1>2, <1>5 DEF sol_effect_process_call, Below, Functions
  <2>2. ASSUME at'.index # 0, NEW i \in DOMAIN required'
        PROVE  Justified(R, at'.function, Site', i, required'[i])
    <3>1. at' = [at EXCEPT !.index = 1]
      BY <1>5, <2>2, NextSiteFacts DEF sol_effect_process_call
    <3>2. at'.function = at.function /\ at'.site = at.site
      BY <3>1 DEF ShapeInv, Cursor
    <3>3. Site' = Site
      BY <1>0, <3>2 DEF Site
    <3>4. at.function \in Functions /\ Site \in ToSet(program[at.function].sites)
      BY <1>5 DEF sol_effect_process_call, Walking, Site, ToSet
    <3>5. required' = Required(rows, program[at.function].fixed, Site)
      BY <1>5 DEF sol_effect_process_call
    <3>6. Justified(R, at.function, Site, i, required'[i])
      BY <1>2, <2>2, <3>4, <3>5, RequiredJustified
    <3> QED
      BY <3>2, <3>3, <3>6
  <2> QED
    BY <2>1, <2>2
<1>6. CASE InferAtom
  <2> DEFINE f == at.function
             a == required[at.index]
             instances == Instances(Site, at.index, a)
             i == instances[at.instance]
  <2>1. /\ rows' = IF at.instance \notin DOMAIN instances \/ sol_effect_atom_is_handled(Site, i)
                   THEN rows
                   ELSE [rows EXCEPT ![f] = sol_effect_row_append(@, i)]
        /\ required' = [required EXCEPT ![at.index] = a]
        /\ at' = Advanced(instances)
    <3>1. ~(moved /\ at.instance = 1)
      BY <1>1, <1>6 DEF InferAtom, ShapeInv
    <3> QED
      BY <1>6, <3>1 DEF InferAtom
  <2>2. /\ f \in Functions /\ Inferred(f) /\ at.index \in DOMAIN required
    BY <1>6 DEF InferAtom, Walking
  <2>3. PICK S : required \in Seq(S)
    BY DEF ShapeInv
  <2>4. at.index # 0
    <3>1. DOMAIN required = 1..Len(required)
      BY <2>3
    <3> QED
      BY <2>2, <3>1
  <2>5. Site \in ToSet(program[f].sites)
    BY <2>4 DEF ShapeInv, Site, ToSet
  <2>6. Justified(R, f, Site, at.index, a)
    BY <1>2, <2>2, <2>4
  <2>7. Below(R)'
    <3> HIDE DEF f, a
    <3>1. CASE at.instance \notin DOMAIN instances \/ sol_effect_atom_is_handled(Site, i)
      <4>1. rows' = rows
        BY <2>1, <3>1
      <4> QED
        BY <1>0, <1>2, <4>1 DEF Below, Functions
    <3>2. CASE at.instance \in DOMAIN instances /\ ~sol_effect_atom_is_handled(Site, i)
      <4>1. i \in R[f]
        BY <1>1, <2>2, <2>5, <2>6, <3>2, InstanceBelongs
      <4>2. rows' = [rows EXCEPT ![f] = sol_effect_row_append(rows[f], i)]
        BY <2>1, <3>2
      <4>3. PICK T : rows[f] \in Seq(T)
        BY <2>2 DEF ShapeInv
      <4>4. ToSet(rows'[f]) = ToSet(rows[f]) \cup {i}
        BY <2>2, <4>2, <4>3, AppendAdds DEF ShapeInv
      <4>5. ASSUME NEW g \in Functions, g # f PROVE rows'[g] = rows[g]
        BY <4>2, <4>5 DEF ShapeInv
      <4> QED
        BY <1>0, <1>2, <2>2, <4>1, <4>4, <4>5 DEF Below, Functions
    <3> QED
      BY <3>1, <3>2
  <2>8. ASSUME at'.index # 0, NEW j \in DOMAIN required'
        PROVE  Justified(R, at'.function, Site', j, required'[j])
    <3>1. at'.function = at.function /\ at'.site = at.site
      BY <2>1, <2>8, AdvancedFacts, NextSiteFacts
    <3>2. Site' = Site
      BY <1>0, <3>1 DEF Site
    <3>3. j \in DOMAIN required /\ required'[j] = required[j]
      BY <2>1
    <3> QED
      BY <1>2, <2>4, <3>1, <3>2, <3>3
  <2> QED
    BY <2>7, <2>8
<1> QED
  BY <1>3, <1>4, <1>5, <1>6, StepCases

-----------------------------------------------------------------------------
(* At first every row is the declared one, or empty.                         *)
LEMMA InitInv == Init => ShapeInv /\ DeclaredInv /\ LeastInv
<1> SUFFICES ASSUME Init PROVE ShapeInv /\ DeclaredInv /\ LeastInv
  OBVIOUS
<1>1. at \in Cursor /\ at.index = 0
  BY DEF Init, Start, Cursor
<1>2. DOMAIN rows = Functions /\ \A f \in Functions : rows[f] = program[f].row
  BY DEF Init
<1>3. program \in Program /\ stale = FALSE /\ moved = FALSE /\ changed = FALSE /\ required = << >>
  BY DEF Init
<1>4. << >> \in Seq({})
  OBVIOUS
<1>5. ShapeInv
  BY <1>1, <1>2, <1>3, <1>4, ProgramFacts DEF ShapeInv
<1>6. LeastInv
  BY <1>1, <1>2 DEF LeastInv, Closed, Below
<1> QED
  BY <1>2, <1>5, <1>6 DEF DeclaredInv

(* The rows are below every closed assignment.                               *)
NothingExtra == ~stale => \A R : Closed(R) => Below(R)

(* For every program: unless a released row was read,                        *)
(* sol_effect_infer_functions puts nothing in a row that is not in each      *)
(* assignment of rows that holds what is declared and what the sites of the  *)
(* functions add.                                                            *)
THEOREM InferenceAddsNothingExtra == Spec => []NothingExtra
<1>1. LeastInv => NothingExtra
  BY DEF LeastInv, NothingExtra
<1> QED
  BY <1>1, InitInv, ShapeStep, DeclaredStep, LeastStep, PTL DEF Spec
=============================================================================
