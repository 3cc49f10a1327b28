---------------------------- MODULE BoundaryEval ----------------------------
(***************************************************************************)
(* The boundary evaluator of the Rust command line: evaluate walks the     *)
(* specification depth first, and every atom about the time reads the      *)
(* system clock for itself.  The call stack is the variable stack, so that *)
(* time can pass between two atoms of one evaluation.                      *)
(***************************************************************************)
EXTENDS Integers, Sequences

CONSTANTS
  Nodes,           \* the atoms of the specifications, nested ones included
  Atom,            \* Atom[n]: the members of atom n, None for an absent one
  Nesting,         \* Nesting[n]: the levels of atoms inside atom n
  Roots,           \* the specifications evaluated
  FieldNames,
  Contexts,        \* [FieldNames -> values or Absent]
  None, Absent,
  Unparsable,      \* the instant of a string that is no RFC 3339 timestamp
  TicksPerSecond,  \* resolution of the clock
  MaxTime          \* bound of the model: the clock stops here

(* A JSON value: its type, its place in the order of the values of that    *)
(* type, and for strings the instant they denote.  The order of strings is *)
(* that of their characters, not of the instants.                          *)
Null == [type |-> "null", ord |-> 0, instant |-> Unparsable]

FieldAtoms == {"equals", "in", "range", "present", "before", "after", "within", "expired",
               "not_expired", "age_lt", "age_gt", "within_last", "within_next"}
Composite == {"all", "any", "not"}

ASSUME BoundaryAssumption ==
  /\ Roots \subseteq Nodes
  /\ None \notin {"true", "false", "error"} /\ {None, Unparsable} \cap Int = {}
  /\ \A n \in Nodes : Atom[n].operands # None =>
       /\ Atom[n].operands \in Seq(Nodes)
       /\ Atom[n].type = "not" => Len(Atom[n].operands) = 1
  /\ TicksPerSecond \in Nat \ {0} /\ MaxTime \in Nat

(* A specification is a JSON document: nested finitely, and a tree, whose   *)
(* atoms stand in one place each.                                           *)
Groups == {n \in Nodes : Atom[n].operands # None}
ASSUME DocumentAssumption ==
  /\ Nesting \in [Nodes -> Nat]
  /\ \A n \in Groups : \A i \in 1 .. Len(Atom[n].operands) :
       Nesting[Atom[n].operands[i]] < Nesting[n]
  /\ \A m, n \in Groups : \A i \in 1 .. Len(Atom[m].operands), j \in 1 .. Len(Atom[n].operands) :
       Atom[m].operands[i] = Atom[n].operands[j] => m = n /\ i = j

VARIABLES
  context,   \* the context object of this evaluation
  root,      \* the specification evaluated
  clock,     \* Utc::now() in ticks
  started,   \* history: the clock at the call of evaluate
  stack,     \* the active calls, innermost last: [node, next operand]
  ret        \* what the last call returned, None while a call runs

vars == <<context, root, clock, started, stack, ret>>

-----------------------------------------------------------------------------
(* The field atoms: "true", "false" or "error" *)

Truth(p) == IF p THEN "true" ELSE "false"
Negation(v) == CASE v = "true" -> "false" [] v = "false" -> "true" [] OTHER -> "error"

Number(i) == [type |-> "int", ord |-> i, instant |-> Unparsable]

Has(n) == Atom[n].field # None /\ context[Atom[n].field] # Absent
(* Fault: an absent field is read as zero. *)
FieldOrZero(n) == IF Has(n) THEN context[Atom[n].field] ELSE Number(0)

Field(n) == IF Has(n) THEN context[Atom[n].field] ELSE Null

(* compare_values: an error for floats, arrays, objects and unlike types.  *)
Comparable(a, b) == a.type = b.type /\ a.type \in {"null", "bool", "int", "string"}

EvalEquals(n) ==
  IF Atom[n].value = None THEN "error" ELSE Truth(Field(n) = Atom[n].value)

EvalIn(n) ==
  IF Atom[n].values = None THEN "error" ELSE Truth(Field(n) \in Atom[n].values)

EvalRange(n) ==
  LET bounds == {Atom[n].min, Atom[n].max} \ {None} IN
  IF bounds = {} \/ \E b \in bounds : ~Comparable(Field(n), b) THEN "error"
  ELSE Truth(/\ Atom[n].min # None => Field(n).ord >= Atom[n].min.ord
             /\ Atom[n].max # None => Field(n).ord <= Atom[n].max.ord)

EvalPresent(n) == IF Atom[n].field = None THEN "error" ELSE Truth(Has(n))

EvalOrder(n, holds) ==
  IF Atom[n].value = None THEN "error"
  ELSE IF ~Comparable(Field(n), Atom[n].value) THEN "error" ELSE Truth(holds)

(* Unlike range, within is false where values cannot be compared.          *)
EvalWithin(n) ==
  IF Atom[n].min = None \/ Atom[n].max = None THEN "error"
  ELSE Truth(/\ Comparable(Field(n), Atom[n].min) /\ Field(n).ord >= Atom[n].min.ord
             /\ Comparable(Field(n), Atom[n].max) /\ Field(n).ord <= Atom[n].max.ord)

(* A value that is no string is false, a string that does not parse is an  *)
(* error.                                                                  *)
At(n) == Field(n).instant
OfInstant(n, holds) ==
  IF Field(n).type # "string" THEN "false"
  ELSE IF At(n) = Unparsable THEN "error"
  ELSE Truth(holds)

EvalExpired(n, now) == OfInstant(n, now > At(n))

OfSeconds(n, holds) ==
  IF Atom[n].seconds = None THEN "error" ELSE OfInstant(n, holds)

(* Fault: the fraction is dropped towards the past. *)
SecondsFloored(d) == d \div TicksPerSecond

(* chrono's num_seconds drops the fraction, towards zero.                  *)
Seconds(d) == IF d >= 0 THEN d \div TicksPerSecond ELSE -((-d) \div TicksPerSecond)

FieldAtom(n, now) ==
  LET s == Atom[n].seconds IN
  CASE Atom[n].type = "equals"      -> EvalEquals(n)
    [] Atom[n].type = "in"          -> EvalIn(n)
    [] Atom[n].type = "range"       -> EvalRange(n)
    [] Atom[n].type = "present"     -> EvalPresent(n)
    [] Atom[n].type = "before"      -> EvalOrder(n, Field(n).ord < Atom[n].value.ord)
    [] Atom[n].type = "after"       -> EvalOrder(n, Field(n).ord > Atom[n].value.ord)
    [] Atom[n].type = "within"      -> EvalWithin(n)
    [] Atom[n].type = "expired"     -> EvalExpired(n, now)
    [] Atom[n].type = "not_expired" -> Negation(EvalExpired(n, now))
    [] Atom[n].type = "age_lt"      -> OfSeconds(n, Seconds(now - At(n)) < s)
    [] Atom[n].type = "age_gt"      -> OfSeconds(n, Seconds(now - At(n)) > s)
    [] Atom[n].type = "within_last" -> OfSeconds(n, Seconds(now - At(n)) \in 0 .. s)
    [] Atom[n].type = "within_next" -> OfSeconds(n, Seconds(At(n) - now) \in 0 .. s)

-----------------------------------------------------------------------------
(* The recursive walk *)

Top == stack[Len(stack)]
Popped == SubSeq(stack, 1, Len(stack) - 1)
Advanced == [stack EXCEPT ![Len(stack)].next = @ + 1]

(* "conditions" of all and any; the "condition" of not as a list of one.   *)
Operands(n) == Atom[n].operands

Calling == stack # <<>> /\ ret = None
Return(v) == stack' = Popped /\ ret' = v
Walk == UNCHANGED <<context, root, clock, started>>

EvaluateField ==
  /\ Calling /\ Atom[Top.node].type \in FieldAtoms
  /\ Return(FieldAtom(Top.node, clock))
  /\ Walk

(* No object, no type, an unknown type, or no operands member.             *)
Malformed ==
  /\ Calling /\ Atom[Top.node].type \notin FieldAtoms
  /\ Atom[Top.node].type \in Composite => Operands(Top.node) = None
  /\ Return("error")
  /\ Walk

HasOperands == Calling /\ Atom[Top.node].type \in Composite /\ Operands(Top.node) # None

(* Fault: the loop moves on at the call and again at the return. *)
CallAndAdvance ==
  /\ HasOperands /\ Top.next <= Len(Operands(Top.node))
  /\ stack' = Append(Advanced, [node |-> Operands(Top.node)[Top.next], next |-> 1])
  /\ UNCHANGED ret
  /\ Walk

CallOperand ==
  /\ HasOperands /\ Top.next <= Len(Operands(Top.node))
  /\ stack' = Append(stack, [node |-> Operands(Top.node)[Top.next], next |-> 1])
  /\ UNCHANGED ret
  /\ Walk

(* The loop over the conditions ends: true for all, false for any, also    *)
(* when there are none.                                                    *)
LoopEnds ==
  /\ HasOperands /\ Top.next > Len(Operands(Top.node))
  /\ Return(Truth(Atom[Top.node].type = "all"))
  /\ Walk

Returned == stack # <<>> /\ ret # None

(* Fault: an error in one operand is taken for false. *)
SettlesLeniently(type, v) ==
  type = "not" \/ v = Truth(type = "any")

(* An operand that settles the result, an error among them, ends the loop. *)
Settles(type, v) ==
  \/ v = "error"
  \/ type = "all" /\ v = "false"
  \/ type = "any" /\ v = "true"
  \/ type = "not"

ShortCircuit ==
  /\ Returned /\ Settles(Atom[Top.node].type, ret)
  /\ Return(IF Atom[Top.node].type = "not" THEN Negation(ret) ELSE ret)
  /\ Walk

(* Fault: the next operand is not moved to. *)
NextOperandAgain ==
  /\ Returned /\ ~Settles(Atom[Top.node].type, ret)
  /\ stack' = stack /\ ret' = None
  /\ Walk

(* Fault: one operand is left out. *)
NextOperandButOne ==
  /\ Returned /\ ~Settles(Atom[Top.node].type, ret)
  /\ stack' = [stack EXCEPT ![Len(stack)].next = @ + 2] /\ ret' = None
  /\ Walk

NextOperand ==
  /\ Returned /\ ~Settles(Atom[Top.node].type, ret)
  /\ stack' = Advanced /\ ret' = None
  /\ Walk

Tick ==
  /\ stack # <<>> /\ clock < MaxTime
  /\ clock' = clock + 1
  /\ UNCHANGED <<context, root, started, stack, ret>>

Init ==
  /\ context \in Contexts /\ root \in Roots
  /\ clock \in 0 .. MaxTime /\ started = clock
  /\ stack = <<[node |-> root, next |-> 1]>> /\ ret = None

Step == \/ EvaluateField \/ Malformed \/ CallOperand \/ LoopEnds
        \/ ShortCircuit \/ NextOperand
Next == Step \/ Tick

Spec == Init /\ [][Next]_vars
FairSpec == Spec /\ WF_vars(Step)

-----------------------------------------------------------------------------
(* Properties *)

Finished == stack = <<>>

(* The stack is a path from the root, each call the operand its caller      *)
(* waits for.                                                               *)
TypeOK ==
  /\ clock \in started .. MaxTime
  /\ ret \in {"true", "false", "error", None}
  /\ Finished => ret # None
  /\ stack # <<>> => stack[1].node = root
  /\ \A i \in 1 .. Len(stack) - 1 :
       LET caller == stack[i] IN
       /\ Atom[caller.node].type \in Composite
       /\ caller.next \in 1 .. Len(Operands(caller.node))
       /\ stack[i + 1].node = Operands(caller.node)[caller.next]

(* The value of an atom when the clock stands still: an operator of its      *)
(* operands, the first of which that is not neutral decides.                *)
Worth(value, n, t) ==
  LET type == Atom[n].type
      operands == Operands(n)
      deciding == {i \in 1 .. Len(operands) : value[operands[i]] # Truth(type = "all")}
  IN CASE type \in FieldAtoms -> FieldAtom(n, t)
       [] type \notin FieldAtoms /\ (type \in Composite => operands = None) -> "error"
       [] type = "not" /\ operands # None -> Negation(value[operands[1]])
       [] type \in {"all", "any"} /\ operands # None /\ deciding = {} -> Truth(type = "all")
       [] OTHER -> LET first == CHOOSE i \in deciding : \A j \in deciding : i <= j
                   IN value[operands[first]]

AtInstant(t) == LET value[n \in Nodes] == Worth(value, n, t) IN value[root]

TimeAtoms == {n \in Nodes : Atom[n].type \in {"expired", "not_expired", "age_lt", "age_gt",
                                              "within_last", "within_next"}}

(* The atoms the evaluation of a specification can reach. *)
Around(reach, n) ==
  {n} \cup (IF Atom[n].type \in Composite /\ Operands(n) # None
            THEN UNION {reach[Operands(n)[i]] : i \in 1 .. Len(Operands(n))} ELSE {})

Below == LET reach[n \in Nodes] == Around(reach, n) IN reach[root]

(* When no atom about the time changes its value while it is evaluated, the *)
(* walk with its short circuits computes the value of the specification.    *)
StableIsExact ==
  (Finished /\ \A n \in Below \cap TimeAtoms :
                 \A t \in started .. clock : FieldAtom(n, t) = FieldAtom(n, clock))
    => ret = AtInstant(clock)

(* With one atom about the time, the result is that of some one moment of   *)
(* the evaluation, however long it takes.                                   *)
OneReadingIsAtomic ==
  (Finished /\ \A m, n \in Below \cap TimeAtoms : m = n)
    => \E t \in started .. clock : ret = AtInstant(t)

(* The age and window atoms, to the tick: "seconds" counts whole ones, so    *)
(* that age_gt holds a second late, and the windows reach almost a second    *)
(* further at either end, into the future too (SPEC.md 12.4 has them between *)
(* 0 and "seconds").  The reference multiplies where the code divides.       *)
InWindow(n, t) ==
  LET age == t - At(n)
      end == (Atom[n].seconds + 1) * TicksPerSecond
  IN CASE Atom[n].type = "age_lt"      -> age < Atom[n].seconds * TicksPerSecond
       [] Atom[n].type = "age_gt"      -> age >= end
       [] Atom[n].type = "within_last" -> -TicksPerSecond < age /\ age < end
       [] Atom[n].type = "within_next" -> -TicksPerSecond < -age /\ -age < end

WindowAtoms == {"age_lt", "age_gt", "within_last", "within_next"}

(* However the clock runs meanwhile, the answer is right for a moment since  *)
(* the start (age_lt of no seconds alone has another border).                *)
WindowsToTheTick ==
  (/\ Finished /\ Atom[root].type \in WindowAtoms
   /\ Field(root).type = "string" /\ At(root) \in Int
   /\ Atom[root].seconds \in Nat
   /\ Atom[root].type = "age_lt" => Atom[root].seconds > 0)
    => \E t \in started .. clock : ret = Truth(InWindow(root, t))

(* A field the context does not have passes no test of its value, but for    *)
(* one that names null itself and for not_expired.                           *)
NamesNull(n) ==
  \/ \E v \in {Atom[n].value, Atom[n].min, Atom[n].max} \ {None} : v.type = "null"
  \/ Atom[n].values # None /\ \E v \in Atom[n].values : v.type = "null"
AbsentFails ==
  (/\ Finished /\ Atom[root].type \in FieldAtoms \ {"not_expired"}
   /\ ~Has(root) /\ ~NamesNull(root))
    => ret # "true"

(* Every evaluation returns: nesting and lists are finite and the loops     *)
(* move on.                                                                 *)
EvaluateReturns == <>Finished

(* SPEC.md 12.4: "The not_expired atom is the negation of expired": one of  *)
(* the two holds of every timestamp.                                        *)
EitherOr(a, b) ==
  /\ Atom[a].type = "expired" /\ Atom[b].type = "not_expired"
  /\ Atom[a].field = Atom[b].field
NegationHolds ==
  (/\ Finished /\ Atom[root].type = "any" /\ Operands(root) # None
   /\ \E i, j \in 1 .. Len(Operands(root)) : EitherOr(Operands(root)[i], Operands(root)[j]))
    => ret # "false"
=============================================================================
