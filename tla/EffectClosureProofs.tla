------------------------ MODULE EffectClosureProofs -------------------------
(***************************************************************************)
(* For every program, sol_effect_infer_functions leaves a component only     *)
(* when its rows hold what its functions perform.                            *)
(***************************************************************************)
EXTENDS EffectCheckProofs

RowSets == [f \in Functions |-> ToSet(rows[f])]

(* The row of f holds what its site s adds.                                  *)
Holds(f, s) == Adds(RowSets, f, s) \subseteq RowSets[f]

(* Everything that site s of f adds comes from an atom that is read.         *)
LEMMA RequiredComplete ==
    ASSUME ShapeInv, DeclaredInv, NEW f \in Functions, NEW s \in ToSet(program[f].sites),
           NEW b \in Needs(RowSets, ToSet(program[f].fixed), s)
                      \cup Captures(RowSets, ToSet(program[f].fixed), s)
    PROVE  \E j \in DOMAIN Required(rows, program[f].fixed, s) :
              /\ Required(rows, program[f].fixed, s)[j] = b
              /\ ~(Captured(s, j) /\ NotCaptured(s, b))
<1> DEFINE fixed == program[f].fixed
           needed == Required(rows, fixed, s)
<1>1. s.kind \in {"call", "operation", "apply", "panic"}
  BY ProgramFacts DEF ShapeInv
<1>2. CASE s.kind = "panic"
  <2>1. needed = <<Panic>> /\ Needs(RowSets, ToSet(fixed), s) = {Panic} /\ ~Polymorphic(s)
    BY <1>2 DEF Required, Needs, Polymorphic
  <2>2. b = Panic
    BY <2>1 DEF Captures
  <2>3. 1 \in DOMAIN needed /\ needed[1] = b
    BY <2>1, <2>2
  <2> QED
    BY <2>1, <2>3 DEF Captured
<1>3. CASE s.kind \in {"apply", "operation"}
  <2>1. Needs(RowSets, ToSet(fixed), s) = ToSet(needed) /\ ~Polymorphic(s)
    BY <1>3 DEF Required, Needs, Polymorphic
  <2>2. b \in ToSet(needed)
    BY <2>1 DEF Captures
  <2> QED
    BY <2>1, <2>2 DEF Captured, ToSet
<1>4. CASE s.kind = "call" /\ ~Polymorphic(s)
  <2>1. s.target \in Functions
    BY <1>4, ProgramFacts DEF ShapeInv
  <2>2. needed = rows[s.target] /\ Needs(RowSets, ToSet(fixed), s) = ToSet(rows[s.target])
    BY <1>4, <2>1 DEF Required, Needs, Polymorphic, RowSets
  <2>3. b \in ToSet(needed)
    BY <1>4, <2>2 DEF Captures
  <2> QED
    BY <1>4, <2>3 DEF Captured, ToSet
<1>5. CASE Polymorphic(s)
  <2> DEFINE row == program[s.target].row
             cb == sol_effect_callback_row(rows, fixed, s)
  <2>1. s.kind = "call" /\ s.target \in Functions
    BY <1>5, ProgramFacts DEF ShapeInv, Polymorphic
  <2>2. /\ rows[s.target] = row
        /\ DOMAIN row = 1..Len(row) /\ Len(row) \in Nat
        /\ DOMAIN cb = 1..Len(cb) /\ Len(cb) \in Nat
        /\ DOMAIN needed = 1..(Len(row) + Len(cb))
        /\ \A j \in DOMAIN needed : needed[j] = IF j <= Len(row) THEN row[j] ELSE cb[j - Len(row)]
    BY <1>5, PolymorphicParts
  <2>3. Needs(RowSets, ToSet(fixed), s) = ToSet(row)
    BY <2>1, <2>2 DEF Needs, RowSets
  <2>4. CASE b \in ToSet(row)
    <3>1. PICK j \in DOMAIN row : row[j] = b
      BY <2>4 DEF ToSet
    <3> HIDE DEF needed, row, cb
    <3>2. j \in DOMAIN needed /\ needed[j] = b /\ ~(j > Len(row))
      BY <2>2, <3>1
    <3> QED
      BY <3>2 DEF Captured, needed, row
  <2>5. CASE b \in Captures(RowSets, ToSet(fixed), s)
    <3>1. ~NotCaptured(s, b) /\ s.pass # "none"
      BY <2>5 DEF Captures
    <3>2. s.pass \in {"own", "function"} /\ (s.pass = "function" => s.function \in Functions)
      BY <3>1, ProgramFacts DEF ShapeInv
    <3>3. b \in ToSet(cb)
      BY <1>5, <2>5, <3>1, <3>2 DEF Captures, RowSets, sol_effect_callback_row
    <3>4. PICK k \in DOMAIN cb : cb[k] = b
      BY <3>3 DEF ToSet
    <3> HIDE DEF needed, row, cb
    <3>5. k + Len(row) \in DOMAIN needed /\ needed[k + Len(row)] = b
      <4>1. k \in Nat \ {0} /\ k <= Len(cb) /\ Len(row) \in Nat
        BY <2>2, <3>4
      <4>2. k + Len(row) \in DOMAIN needed /\ ~(k + Len(row) <= Len(row)) /\ k + Len(row) - Len(row) = k
        BY <2>2, <4>1
      <4> QED
        BY <2>2, <3>4, <4>2
    <3> QED
      BY <3>1, <3>5 DEF needed
  <2> QED
    BY <2>3, <2>4, <2>5
<1> QED
  BY <1>1, <1>2, <1>3, <1>4, <1>5

(* The instances of an atom are a sequence.                                  *)
LEMMA InstancesSequence ==
    ASSUME ShapeInv, NEW f \in Functions, NEW s \in ToSet(program[f].sites), NEW j, NEW a
    PROVE  LET q == Instances(s, j, a) IN DOMAIN q = 1..Len(q) /\ Len(q) \in Nat
<1> DEFINE q == Instances(s, j, a)
           roots == Roots(s, a)
<1>1. roots \in Seq(STRING)
  <2>1. << >> \in Seq(STRING)
    OBVIOUS
  <2>2. s.roots \in Seq(STRING) /\ \A v \in DOMAIN s.args : s.args[v] \in Seq(STRING)
    BY ProgramFacts DEF ShapeInv
  <2> QED
    BY <2>1, <2>2 DEF Roots
<1>2. \/ q = << >> \/ q = <<a>> \/ q = [i \in DOMAIN roots |-> [a EXCEPT !.arg = roots[i]]]
  BY DEF Instances, sol_effect_instantiate_atom
<1>3. \E T : q \in Seq(T)
  <2>1. CASE q = << >>
    <3>1. << >> \in Seq({})
      OBVIOUS
    <3> QED
      BY <2>1, <3>1
  <2>2. CASE q = <<a>>
    <3>1. <<a>> \in Seq({a})
      OBVIOUS
    <3> QED
      BY <2>2, <3>1
  <2>3. CASE q = [i \in DOMAIN roots |-> [a EXCEPT !.arg = roots[i]]]
    <3> DEFINE T == {[a EXCEPT !.arg = r] : r \in STRING}
    <3> HIDE DEF roots, q
    <3>1. roots \in [1..Len(roots) -> STRING] /\ Len(roots) \in Nat
      BY <1>1
    <3>2. q \in [1..Len(roots) -> T]
      BY <2>3, <3>1
    <3> HIDE DEF T
    <3>3. q \in Seq(T)
      BY <3>1, <3>2, SeqDef
    <3> QED
      BY <3>3
  <2> QED
    BY <1>2, <2>1, <2>2, <2>3
<1>4. PICK T : q \in Seq(T)
  BY <1>3
<1> HIDE DEF q
<1>5. DOMAIN q = 1..Len(q) /\ Len(q) \in Nat
  BY <1>4
<1> QED
  BY <1>5 DEF q

(* The n-th instance of an atom is handled at s or in the row of f.          *)
Added(f, s, q, n) == sol_effect_atom_is_handled(s, q[n]) \/ q[n] \in RowSets[f]

(* A site all of whose instances are handled or in the row adds nothing.     *)
LEMMA SiteHolds ==
    ASSUME ShapeInv, DeclaredInv, NEW f \in Functions, NEW s \in ToSet(program[f].sites),
           \A j \in DOMAIN Required(rows, program[f].fixed, s) :
              LET q == Instances(s, j, Required(rows, program[f].fixed, s)[j]) IN
              \A n \in DOMAIN q : Added(f, s, q, n)
    PROVE  Holds(f, s)
<1> DEFINE fixed == ToSet(program[f].fixed)
           needed == Needs(RowSets, fixed, s) \cup Captures(RowSets, fixed, s)
<1>1. SUFFICES ASSUME NEW b \in needed, NEW c \in ToSet(sol_effect_instantiate_atom(s, b)),
                      ~sol_effect_atom_is_handled(s, c)
              PROVE  c \in RowSets[f]
  <2>1. Adds(RowSets, f, s) =
          {c \in UNION {ToSet(sol_effect_instantiate_atom(s, b)) : b \in needed} :
             ~sol_effect_atom_is_handled(s, c)}
    BY DEF Adds
  <2> HIDE DEF needed
  <2> QED
    BY <2>1 DEF Holds
<1>2. PICK j \in DOMAIN Required(rows, program[f].fixed, s) :
          /\ Required(rows, program[f].fixed, s)[j] = b
          /\ ~(Captured(s, j) /\ NotCaptured(s, b))
  BY <1>1, RequiredComplete
<1>3. Instances(s, j, b) = sol_effect_instantiate_atom(s, b)
  BY <1>2 DEF Instances
<1>4. PICK n \in DOMAIN Instances(s, j, b) : Instances(s, j, b)[n] = c
  BY <1>1, <1>3 DEF ToSet
<1>5. Added(f, s, Instances(s, j, b), n)
  BY <1>2
<1> QED
  BY <1>1, <1>4, <1>5 DEF Added

-----------------------------------------------------------------------------
(* The cursor is within the functions and the sites, or just past them.      *)
PlaceInv ==
    /\ at.function >= 1 /\ at.site >= 1 /\ (at.index = 0 => at.instance = 1)
    /\ at.function \in Functions => at.site <= Len(program[at.function].sites) + 1

(* What the pass has walked, if no row has grown in it: the rows hold what   *)
(* the walked sites add, and of the site at hand what the atoms that have    *)
(* been read add.                                                            *)
ReadInv ==
    at.index # 0 =>
      /\ ~moved
      /\ required = Required(rows, program[at.function].fixed, Site)
      /\ \A j \in DOMAIN required :
            LET q == Instances(Site, j, required[j]) IN
            \A n \in DOMAIN q :
               j < at.index \/ (j = at.index /\ n < at.instance) => Added(at.function, Site, q, n)

WalkedInv ==
    \A f \in Functions : component[f] = current /\ Inferred(f) =>
       \A k \in DOMAIN program[f].sites :
          f < at.function \/ (f = at.function /\ k < at.site) => Holds(f, program[f].sites[k])

PassInv == phase = "infer" /\ ~changed => ReadInv /\ WalkedInv

(* Functions are numbered from 1, and so are the sites of each.              *)
LEMMA SitesFacts ==
    ASSUME program \in Program
    PROVE  /\ Functions \subseteq Nat \ {0}
           /\ \E m \in Nat : Functions = 1..m
           /\ \A f \in Functions : /\ Len(program[f].sites) \in Nat
                                   /\ DOMAIN program[f].sites = 1..Len(program[f].sites)
<1>1. Len(program) \in Nat /\ Functions = 1..Len(program)
  BY ProgramAssumption DEF Functions
<1>2. ASSUME NEW f \in Functions
      PROVE  Len(program[f].sites) \in Nat /\ DOMAIN program[f].sites = 1..Len(program[f].sites)
  BY ProgramAssumption, <1>2 DEF Functions
<1> QED
  BY <1>1, <1>2

(* While an atom is at hand, its site is.                                    *)
LEMMA ReadingSite ==
    ASSUME ShapeInv, at.index \in DOMAIN required
    PROVE  at.index # 0 /\ DOMAIN required = 1..Len(required) /\ Len(required) \in Nat
<1>1. PICK S : required \in Seq(S)
  BY DEF ShapeInv
<1>2. DOMAIN required = 1..Len(required) /\ Len(required) \in Nat
  BY <1>1
<1> QED
  BY <1>2

(* Every step keeps the place of the walk at a site of its function, or just *)
(* behind the last one.                                                      *)
LEMMA PlaceStep == ShapeInv /\ PlaceInv /\ [CheckNext]_vars => PlaceInv'
<1> SUFFICES ASSUME ShapeInv, PlaceInv, [CheckNext]_vars PROVE PlaceInv'
  OBVIOUS
<1>1. CASE UNCHANGED <<program, walk>>
  BY <1>1 DEF walk, PlaceInv, Functions
<1>2. CASE NewStart
  <2>1. at'.function \in Nat \ {0} /\ at'.site = 1 /\ at'.instance = 1 /\ program' = program
    BY <1>2 DEF NewStart, Start
  <2> QED
    BY <2>1, SitesFacts DEF ShapeInv, PlaceInv, Functions
<1>3. ASSUME program' = program, at'.function = at.function,
             at'.site = at.site \/ at'.site = at.site + 1, at'.index = 0 => at'.instance = 1,
             at.function \in Functions, at.site \in DOMAIN program[at.function].sites
      PROVE  PlaceInv'
  <2>1. at.site \in 1..Len(program[at.function].sites) /\ Len(program[at.function].sites) \in Nat
    BY <1>3, SitesFacts DEF ShapeInv
  <2> QED
    BY <1>3, <2>1 DEF PlaceInv, Functions, ShapeInv, Cursor
<1>4. CASE sol_effect_process_call
  <2>1. /\ at'.function = at.function /\ (at'.site = at.site \/ at'.site = at.site + 1)
        /\ at'.index = 0 => at'.instance = 1
    BY <1>4, NextSiteFacts DEF sol_effect_process_call, ShapeInv, Cursor
  <2> QED
    BY <1>3, <1>4, <2>1 DEF sol_effect_process_call, Walking
<1>5. CASE InferAtom
  <2>0. at.index # 0 /\ program' = program
    BY <1>5, ReadingSite DEF InferAtom
  <2>1. /\ at'.function = at.function /\ (at'.site = at.site \/ at'.site = at.site + 1)
        /\ at'.index = 0 => at'.instance = 1
    <3>1. PICK q : at' = Advanced(q)
      BY <1>5 DEF InferAtom
    <3>2. at.index + 1 # 0
      BY DEF ShapeInv, Cursor
    <3> QED
      BY <2>0, <3>1, <3>2, AdvancedFacts, NextSiteFacts
  <2> QED
    BY <1>3, <2>0, <2>1 DEF ShapeInv
<1> QED
  BY <1>1, <1>2, <1>4, <1>5, StepCases

(* What the program and the rows determine.                                  *)
LEMMA SameRows ==
    ASSUME program' = program, rows' = rows
    PROVE  /\ RowSets' = RowSets
           /\ \A f, s : Holds(f, s)' <=> Holds(f, s)
           /\ \A f, s, q, n : Added(f, s, q, n)' <=> Added(f, s, q, n)
           /\ \A s, j, a : Instances(s, j, a)' = Instances(s, j, a)
           /\ \A r, x, s : Required(r, x, s)' = Required(r, x, s)
<1>1. RowSets' = RowSets
  BY DEF RowSets, Functions
<1>2. ASSUME NEW R, NEW f, NEW s PROVE Adds(R, f, s)' = Adds(R, f, s)
  BY DEF Adds, Needs, Captures, Polymorphic, NotCaptured, Open
<1>3. ASSUME NEW f, NEW s PROVE Holds(f, s)' <=> Holds(f, s)
  BY <1>1, <1>2 DEF Holds
<1>4. ASSUME NEW f, NEW s, NEW q, NEW n PROVE Added(f, s, q, n)' <=> Added(f, s, q, n)
  BY <1>1 DEF Added
<1>5. ASSUME NEW s, NEW j, NEW a PROVE Instances(s, j, a)' = Instances(s, j, a)
  BY DEF Instances, Captured, NotCaptured, Polymorphic, Open
<1>6. ASSUME NEW r, NEW x, NEW s PROVE Required(r, x, s)' = Required(r, x, s)
  BY DEF Required, Polymorphic, Open
<1> QED
  BY <1>1, <1>3, <1>4, <1>5, <1>6

(* The steps that end in the inference.                                      *)
LEMMA InferCases ==
    ASSUME [CheckNext]_vars, phase' = "infer"
    PROVE  \/ UNCHANGED <<program, phase, component, walk>>
           \/ at' = Start(1) /\ UNCHANGED program
           \/ WalkedFunction
           \/ sol_effect_process_call
           \/ InferAtom
<1>1. CASE UNCHANGED vars
  BY <1>1 DEF vars, graph
<1>2. CASE \/ Root \/ Descend \/ Leave \/ Ordered \/ Assign \/ Spread
           \/ sol_effect_validate_function_coercions \/ Validate
  BY <1>2 DEF Root, Descend, Leave, Ordered, Assign, Spread,
              sol_effect_validate_function_coercions, Validate
<1>3. CASE Assigned \/ WalkedComponent
  BY <1>3 DEF Assigned, WalkedComponent
<1> QED
  BY <1>1, <1>2, <1>3 DEF CheckNext

(* When the cursor goes to the next site, the site it leaves holds.          *)
LEMMA NextSiteWalked ==
    ASSUME ShapeInv, PlaceInv, WalkedInv, at.function \in Functions,
           at.site \in DOMAIN program[at.function].sites, Holds(at.function, Site),
           UNCHANGED <<program, rows, component, current>>, at' = NextSite
    PROVE  ReadInv' /\ WalkedInv'
<1>1. at'.function = at.function /\ at'.site = at.site + 1 /\ at'.index = 0
  BY NextSiteFacts
<1>2. ReadInv'
  BY <1>1 DEF ReadInv
<1>3. ASSUME NEW f \in Functions, component[f] = current, Inferred(f),
             NEW k \in DOMAIN program[f].sites,
             f < at'.function \/ (f = at'.function /\ k < at'.site)
      PROVE  Holds(f, program[f].sites[k])
  <2>1. CASE f = at.function /\ k = at.site
    BY <2>1 DEF Site
  <2>2. CASE ~(f = at.function /\ k = at.site)
    <3>1. k \in Nat /\ at.site \in Nat
      <4>1. program \in Program /\ at.site \in Nat
        BY DEF ShapeInv, Cursor
      <4>2. k \in 1..Len(program[f].sites) /\ Len(program[f].sites) \in Nat
        BY <1>3, <4>1, SitesFacts
      <4> QED
        BY <4>1, <4>2
    <3>2. f < at.function \/ (f = at.function /\ k < at.site)
      BY <1>1, <1>3, <2>2, <3>1
    <3> QED
      BY <1>3, <3>2 DEF WalkedInv
  <2> QED
    BY <2>1, <2>2
<1>4. WalkedInv'
  <2>1. \A f, s : Holds(f, s)' <=> Holds(f, s)
    BY SameRows
  <2> QED
    BY <1>3, <2>1 DEF WalkedInv, Functions, Inferred
<1> QED
  BY <1>2, <1>4

(* Reading a site (sol_effect_process_call) keeps what the pass has walked.  *)
LEMMA ProcessCallStep ==
    ASSUME ShapeInv, DeclaredInv, PlaceInv, WalkedInv, sol_effect_process_call
    PROVE  ReadInv' /\ WalkedInv'
<1>1. at.function \in Functions /\ at.site \in DOMAIN program[at.function].sites
  BY DEF sol_effect_process_call, Walking
<1>2. Site \in ToSet(program[at.function].sites)
  BY <1>1 DEF Site, ToSet
<1>3. /\ UNCHANGED <<program, rows, component, current>> /\ ~moved'
      /\ required' = Required(rows, program[at.function].fixed, Site)
  BY DEF sol_effect_process_call, graph
<1>4. CASE required' = << >>
  <2>1. Holds(at.function, Site)
    <3>1. DOMAIN Required(rows, program[at.function].fixed, Site) = {}
      BY <1>3, <1>4
    <3> QED
      BY <1>1, <1>2, <3>1, SiteHolds
  <2>2. at' = NextSite
    BY <1>4 DEF sol_effect_process_call
  <2> QED
    BY <1>1, <1>3, <2>1, <2>2, NextSiteWalked
<1>5. CASE required' # << >>
  <2>1. at' = [at EXCEPT !.index = 1]
    BY <1>5 DEF sol_effect_process_call
  <2>2. /\ at'.function = at.function /\ at'.site = at.site /\ at'.index = 1
        /\ at'.instance = at.instance
    BY <2>1 DEF ShapeInv, Cursor
  <2>3. Site' = Site
    BY <1>3, <2>2 DEF Site
  <2>4. WalkedInv'
    <3>1. \A f, s : Holds(f, s)' <=> Holds(f, s)
      BY <1>3, SameRows
    <3> QED
      BY <1>3, <2>2, <3>1 DEF WalkedInv, Functions, Inferred
  <2>5. required' = Required(rows, program[at.function].fixed, Site)'
    BY <1>3, <2>2, <2>3, SameRows
  <2>6. at.instance = 1
    BY DEF PlaceInv, sol_effect_process_call
  <2>7. ASSUME NEW j \in DOMAIN required', NEW n \in DOMAIN Instances(Site, j, required'[j])
        PROVE  ~(j < 1 \/ (j = 1 /\ n < 1))
    <3>1. PICK S : required' \in Seq(S)
      BY <1>1, <1>2, <1>3, RequiredIsSequence
    <3>2. j \in Nat \ {0}
      BY <3>1
    <3>3. n \in Nat \ {0}
      BY <1>1, <1>2, InstancesSequence
    <3> QED
      BY <3>2, <3>3
  <2>8. ReadInv'
    <3>1. \A j, c : Instances(Site, j, c)' = Instances(Site, j, c)
      BY <1>3, <2>3, SameRows
    <3>2. at'.index = 1 /\ at'.instance = 1
      BY <2>2, <2>6
    <3> QED
      BY <1>3, <2>5, <2>7, <3>1, <3>2 DEF ReadInv
  <2> QED
    BY <2>4, <2>8
<1> QED
  BY <1>4, <1>5

(* Taking up an atom that is in the row already (sol_effect_row_append adds  *)
(* nothing) keeps what the pass has walked closed.                           *)
LEMMA InferAtomStep ==
    ASSUME ShapeInv, DeclaredInv, PlaceInv, ReadInv, WalkedInv, InferAtom, ~changed'
    PROVE  ReadInv' /\ WalkedInv'
<1> DEFINE f == at.function
           a == required[at.index]
           q == Instances(Site, at.index, a)
<1>1. /\ at.index # 0 /\ at.index \in DOMAIN required
      /\ DOMAIN required = 1..Len(required) /\ Len(required) \in Nat
  BY ReadingSite DEF InferAtom
<1>2. f \in Functions /\ at.site \in DOMAIN program[f].sites /\ Site \in ToSet(program[f].sites)
  BY <1>1 DEF ShapeInv, Site, ToSet
<1>3. UNCHANGED <<program, rows, component, current>>
  BY DEF InferAtom, ShapeInv, graph
<1>4. /\ ~moved /\ required = Required(rows, program[f].fixed, Site)
      /\ \A j \in DOMAIN required : \A n \in DOMAIN Instances(Site, j, required[j]) :
            j < at.index \/ (j = at.index /\ n < at.instance) =>
               Added(f, Site, Instances(Site, j, required[j]), n)
  BY <1>1 DEF ReadInv
<1>5. /\ rows' = IF at.instance \notin DOMAIN q \/ sol_effect_atom_is_handled(Site, q[at.instance])
                 THEN rows
                 ELSE [rows EXCEPT ![f] = sol_effect_row_append(@, q[at.instance])]
      /\ required' = [required EXCEPT ![at.index] = a]
      /\ at' = Advanced(q)
      /\ moved' = (moved \/ (InPlace /\ rows' # rows))
  BY <1>4 DEF InferAtom
<1>6. required' = required /\ ~moved'
  <2>1. PICK S : required \in Seq(S)
    BY DEF ShapeInv
  <2>2. required \in [1..Len(required) -> S]
    BY <2>1
  <2> QED
    BY <1>3, <1>4, <1>5, <2>2
<1> HIDE DEF a
<1>7. at.instance \in DOMAIN q => Added(f, Site, q, at.instance)
  <2>1. SUFFICES ASSUME at.instance \in DOMAIN q, ~sol_effect_atom_is_handled(Site, q[at.instance])
                PROVE  q[at.instance] \in ToSet(rows[f])
    BY <1>2 DEF Added, RowSets
  <2>2. PICK S : rows[f] \in Seq(S)
    BY <1>2 DEF ShapeInv
  <2>3. rows = [rows EXCEPT ![f] = sol_effect_row_append(rows[f], q[at.instance])]
    BY <1>3, <1>5, <2>1
  <2>4. rows[f] = sol_effect_row_append(rows[f], q[at.instance])
    BY <1>2, <2>3 DEF ShapeInv
  <2> HIDE DEF q
  <2> QED
    BY <2>2, <2>4, AppendAdds
<1>8. ASSUME NEW j \in DOMAIN required, NEW n \in DOMAIN Instances(Site, j, required[j]),
             j < at.index \/ (j = at.index /\ n <= at.instance)
      PROVE  Added(f, Site, Instances(Site, j, required[j]), n)
  <2>1. n \in Nat /\ at.instance \in Nat
    <3>1. LET r == Instances(Site, j, required[j]) IN DOMAIN r = 1..Len(r) /\ Len(r) \in Nat
      BY <1>2, InstancesSequence
    <3> QED
      BY <3>1 DEF ShapeInv, Cursor
  <2>2. CASE j = at.index /\ n = at.instance
    BY <1>7, <2>2 DEF a
  <2>3. CASE ~(j = at.index /\ n = at.instance)
    <3>1. j < at.index \/ (j = at.index /\ n < at.instance)
      BY <1>8, <2>1, <2>3
    <3> QED
      BY <1>4, <3>1
  <2> QED
    BY <2>2, <2>3
<1>9. DOMAIN q = 1..Len(q) /\ Len(q) \in Nat /\ at.instance \in Nat /\ at.index \in Nat
  BY <1>2, InstancesSequence DEF ShapeInv, Cursor
<1>10. ASSUME at'.function = f, at'.site = at.site,
              \A j \in DOMAIN required : \A n \in DOMAIN Instances(Site, j, required[j]) :
                 j < at'.index \/ (j = at'.index /\ n < at'.instance) =>
                    j < at.index \/ (j = at.index /\ n <= at.instance)
       PROVE  ReadInv' /\ WalkedInv'
  <2>1. Site' = Site
    BY <1>3, <1>10 DEF Site
  <2>2. WalkedInv'
    <3>1. \A g, s : Holds(g, s)' <=> Holds(g, s)
      BY <1>3, SameRows
    <3> QED
      BY <1>3, <1>10, <3>1 DEF WalkedInv, Functions, Inferred
  <2>3. required' = Required(rows, program[at.function].fixed, Site)'
    BY <1>3, <1>4, <1>6, <1>10, <2>1, SameRows
  <2>4. ASSUME NEW j \in DOMAIN required, NEW n \in DOMAIN Instances(Site, j, required[j]),
               j < at'.index \/ (j = at'.index /\ n < at'.instance)
        PROVE  Added(f, Site, Instances(Site, j, required[j]), n)
    BY <1>8, <1>10, <2>4
  <2>5. ReadInv'
    <3>1. \A j, c : Instances(Site, j, c)' = Instances(Site, j, c)
      BY <1>3, <2>1, SameRows
    <3>2. \A r, n : Added(at.function, Site, r, n)' <=> Added(f, Site, r, n)
      BY <1>3, <1>10, <2>1, SameRows
    <3> QED
      BY <1>6, <2>3, <2>4, <3>1, <3>2 DEF ReadInv
  <2> QED
    BY <2>2, <2>5
<1>11. CASE /\ at.instance < Len(q) /\ at'.instance = at.instance + 1
            /\ at'.index = at.index /\ at'.site = at.site
  <2>1. ASSUME NEW j \in DOMAIN required, NEW n \in DOMAIN Instances(Site, j, required[j]),
               j < at'.index \/ (j = at'.index /\ n < at'.instance)
        PROVE  j < at.index \/ (j = at.index /\ n <= at.instance)
    <3>1. LET r == Instances(Site, j, required[j]) IN DOMAIN r = 1..Len(r) /\ Len(r) \in Nat
      BY <1>2, InstancesSequence
    <3>2. n \in Nat
      BY <3>1
    <3> QED
      BY <1>9, <1>11, <2>1, <3>2
  <2>2. at'.function = f
    BY <1>5, AdvancedFacts
  <2> QED
    BY <1>10, <1>11, <2>1, <2>2
<1>12. CASE /\ ~(at.instance < Len(q)) /\ at'.instance = 1
            /\ at'.index = at.index + 1 /\ at'.site = at.site
  <2>1. ASSUME NEW j \in DOMAIN required, NEW n \in DOMAIN Instances(Site, j, required[j]),
               j < at'.index \/ (j = at'.index /\ n < at'.instance)
        PROVE  j < at.index \/ (j = at.index /\ n <= at.instance)
    <3>1. LET r == Instances(Site, j, required[j]) IN DOMAIN r = 1..Len(r) /\ Len(r) \in Nat
      BY <1>2, InstancesSequence
    <3>2. n \in Nat \ {0} /\ j \in Nat
      BY <1>1, <3>1
    <3>3. j < at.index \/ j = at.index
      BY <1>9, <1>12, <2>1, <3>2
    <3>4. CASE j = at.index
      <4>1. n \in 1..Len(q)
        BY <1>9, <3>4 DEF a
      <4> QED
        BY <1>9, <1>12, <3>4, <4>1
    <3> QED
      BY <3>3, <3>4
  <2>2. at'.function = f
    BY <1>5, AdvancedFacts
  <2> QED
    BY <1>10, <1>12, <2>1, <2>2
<1>13. CASE ~(at.instance < Len(q)) /\ ~(at.index < Len(required)) /\ at' = NextSite
  <2>1. ASSUME NEW j \in DOMAIN required, NEW n \in DOMAIN Instances(Site, j, required[j])
        PROVE  Added(f, Site, Instances(Site, j, required[j]), n)
    <3>1. j < at.index \/ j = at.index
      BY <1>1, <1>9, <1>13
    <3>2. CASE j = at.index
      <4>1. n \in 1..Len(q)
        BY <1>9, <3>2 DEF a
      <4> QED
        BY <1>8, <1>9, <1>13, <3>2, <4>1
    <3> QED
      BY <1>8, <3>1, <3>2
  <2>2. Holds(f, Site)
    BY <1>2, <1>4, <2>1, SiteHolds
  <2> QED
    BY <1>2, <1>3, <1>13, <2>2, NextSiteWalked
<1> QED
  BY <1>5, <1>11, <1>12, <1>13, AdvancedFacts

(* Every step keeps what the current pass has walked closed, as long as the  *)
(* pass changed nothing.                                                     *)
LEMMA PassStep ==
    ShapeInv /\ DeclaredInv /\ PlaceInv /\ PassInv /\ [CheckNext]_vars => PassInv'
<1> SUFFICES ASSUME ShapeInv, DeclaredInv, PlaceInv, PassInv, [CheckNext]_vars,
                    phase' = "infer", ~changed'
             PROVE  ReadInv' /\ WalkedInv'
  BY DEF PassInv
<1>1. CASE UNCHANGED <<program, phase, component, walk>>
  <2>1. ReadInv /\ WalkedInv
    BY <1>1 DEF PassInv, walk
  <2>2. /\ \A f, s : Holds(f, s)' <=> Holds(f, s)
        /\ \A f, s, q, n : Added(f, s, q, n)' <=> Added(f, s, q, n)
        /\ \A s, j, a : Instances(s, j, a)' = Instances(s, j, a)
        /\ \A r, x, s : Required(r, x, s)' = Required(r, x, s)
    BY <1>1, SameRows DEF walk
  <2>3. WalkedInv'
    BY <1>1, <2>1, <2>2 DEF WalkedInv, walk, Functions, Inferred
  <2>4. Site' = Site
    BY <1>1 DEF Site, walk
  <2>5. ReadInv'
    BY <1>1, <2>1, <2>2, <2>4 DEF ReadInv, walk
  <2> QED
    BY <2>3, <2>5
<1>2. CASE at' = Start(1) /\ UNCHANGED program
  <2>1. at'.function = 1 /\ at'.site = 1 /\ at'.index = 0
    BY <1>2 DEF Start
  <2>2. ASSUME NEW f \in Functions, NEW k \in DOMAIN program[f].sites
        PROVE  ~(f < 1 \/ (f = 1 /\ k < 1))
    <3>1. program \in Program
      BY DEF ShapeInv
    <3>2. f \in Nat \ {0} /\ k \in Nat \ {0}
      BY <3>1, SitesFacts
    <3> QED
      BY <3>2
  <2> QED
    BY <1>2, <2>1, <2>2 DEF ReadInv, WalkedInv, Functions
<1>3. CASE WalkedFunction
  <2>1. at' = Start(at.function + 1) /\ UNCHANGED <<program, rows, component, current, changed, phase>>
    BY <1>3 DEF WalkedFunction, graph
  <2>2. WalkedInv
    BY <2>1 DEF PassInv
  <2>3. at'.function = at.function + 1 /\ at'.site = 1 /\ at'.index = 0
    BY <2>1 DEF Start
  <2>4. ASSUME NEW f \in Functions, component[f] = current, Inferred(f),
               NEW k \in DOMAIN program[f].sites,
               f < at'.function \/ (f = at'.function /\ k < at'.site)
        PROVE  Holds(f, program[f].sites[k])
    <3>1. program \in Program /\ at.function \in Nat /\ at.site \in Nat
      BY DEF ShapeInv, Cursor
    <3>2. /\ f \in Nat /\ k \in Nat \ {0}
          /\ DOMAIN program[f].sites = 1..Len(program[f].sites) /\ Len(program[f].sites) \in Nat
      BY <3>1, SitesFacts
    <3>3. f < at.function \/ f = at.function
      BY <2>3, <2>4, <3>1, <3>2
    <3>4. CASE f = at.function
      <4>1. Walking
        BY <1>3, <2>4, <3>4 DEF Walking, WalkedFunction
      <4>2. at.site \notin DOMAIN program[f].sites
        BY <1>3, <3>4, <4>1 DEF WalkedFunction
      <4>3. at.site >= 1
        BY DEF PlaceInv
      <4>4. k < at.site
        BY <3>1, <3>2, <4>2, <4>3
      <4> QED
        BY <2>2, <2>4, <3>4, <4>4 DEF WalkedInv
    <3> QED
      BY <2>2, <2>4, <3>3, <3>4 DEF WalkedInv
  <2>5. \A f, s : Holds(f, s)' <=> Holds(f, s)
    BY <2>1, SameRows
  <2>6. WalkedInv'
    BY <2>1, <2>4, <2>5 DEF WalkedInv, Functions, Inferred
  <2> QED
    BY <2>3, <2>6 DEF ReadInv
<1>4. CASE sol_effect_process_call
  <2>1. WalkedInv
    BY <1>4 DEF PassInv, sol_effect_process_call
  <2> QED
    BY <1>4, <2>1, ProcessCallStep
<1>5. CASE InferAtom
  <2>1. ReadInv /\ WalkedInv
    BY <1>5 DEF PassInv, InferAtom, ShapeInv
  <2> QED
    BY <1>5, <2>1, InferAtomStep
<1> QED
  BY <1>1, <1>2, <1>3, <1>4, <1>5, InferCases

(* At the end of a pass in which no row grew, the rows of the component hold *)
(* everything that its functions perform.                                    *)
PassCloses ==
    phase = "infer" /\ at.function \notin Functions /\ ~changed =>
      \A f \in Functions : component[f] = current /\ Inferred(f) =>
         \A s \in ToSet(program[f].sites) : Adds(RowSets, f, s) \subseteq RowSets[f]

(* For every program: sol_effect_infer_functions leaves a component, after a *)
(* pass without a change, only when the row of each of its functions holds   *)
(* what the function's sites add with the rows as they are, also when the    *)
(* last row was read in place or a callback's row is among them.             *)
THEOREM ComponentsCloseBeforeTheyAreLeft == Spec => []PassCloses
<1>1. Init => PlaceInv /\ PassInv
  <2> SUFFICES ASSUME Init PROVE PlaceInv /\ PassInv
    OBVIOUS
  <2>1. at.function = 1 /\ at.site = 1 /\ at.instance = 1 /\ phase = "order" /\ program \in Program
    BY DEF Init, Start
  <2>2. at.function \in Functions => Len(program[at.function].sites) \in Nat
    BY <2>1, SitesFacts
  <2> QED
    BY <2>1, <2>2 DEF PlaceInv, PassInv
<1>2. ShapeInv /\ PlaceInv /\ PassInv => PassCloses
  <2> SUFFICES ASSUME ShapeInv, PlaceInv, PassInv, phase = "infer", at.function \notin Functions,
                      ~changed, NEW f \in Functions, component[f] = current, Inferred(f),
                      NEW s \in ToSet(program[f].sites)
               PROVE  Holds(f, s)
    BY DEF PassCloses, Holds
  <2>1. program \in Program /\ at.function \in Nat /\ at.function >= 1
    BY DEF ShapeInv, Cursor, PlaceInv
  <2>2. PICK m \in Nat : Functions = 1..m
    BY <2>1, SitesFacts
  <2>3. f < at.function
    BY <2>1, <2>2
  <2>4. PICK k \in DOMAIN program[f].sites : s = program[f].sites[k]
    BY DEF ToSet
  <2> QED
    BY <2>3, <2>4 DEF PassInv, WalkedInv
<1> QED
  BY <1>1, <1>2, InitInv, ShapeStep, DeclaredStep, PlaceStep, PassStep, PTL DEF Spec
=============================================================================
