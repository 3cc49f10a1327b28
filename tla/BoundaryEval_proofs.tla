------------------------ MODULE BoundaryEval_proofs ------------------------
(***************************************************************************)
(* Theorems about the boundary evaluator, for every specification, every   *)
(* context and every run of the clock.                                      *)
(***************************************************************************)
EXTENDS BoundaryEval, SequenceTheorems, RecursionTheorems, TLAPS

Frames == [node : Nodes, next : Nat \ {0}]
Values == {"true", "false", "error"}

(* A call that waits for an operand. *)
Waits(f) ==
  /\ Atom[f.node].type \in Composite /\ Operands(f.node) # None
  /\ f.next \in 1 .. Len(Operands(f.node))

(* The stack as a path of waiting calls; only the last one may not wait.    *)
PathInv ==
  /\ root \in Nodes
  /\ started \in Nat /\ clock \in started .. MaxTime
  /\ stack \in Seq(Frames)
  /\ ret \in Values \cup {None}
  /\ stack = <<>> => ret # None
  /\ stack # <<>> => stack[1].node = root
  /\ \A i \in 1 .. Len(stack) - 1 :
       Waits(stack[i]) /\ stack[i + 1].node = Operands(stack[i].node)[stack[i].next]
  /\ stack # <<>> /\ ret # None => Waits(Top)

(* The one operand of a negation is the one it is at.                       *)
NotInv ==
  \A i \in 1 .. Len(stack) : Atom[stack[i].node].type = "not" => stack[i].next = 1

(* What AtInstant and Below are defined by.                                 *)
Solves(V, t) == V = [n \in Nodes |-> Worth(V, n, t)]
Reaches(R) == R = [n \in Nodes |-> Around(R, n)]

(* Every active call is one that the calls around it can reach.             *)
ReachInv ==
  \A R : Reaches(R) =>
    \A k \in 1 .. Len(stack) : \A i \in 1 .. k : R[stack[k].node] \subseteq R[stack[i].node]

(* No atom about the time has changed since the evaluation began.           *)
Stable(R, T) ==
  \A n \in R[root] \cap TimeAtoms : \A t \in started .. clock : FieldAtom(n, t) = FieldAtom(n, T)

(* The operands a call has gone through are neutral, and what was returned  *)
(* last is the value of the atom it was returned for.                       *)
Exact(V) ==
  /\ \A i \in 1 .. Len(stack) :
       Atom[stack[i].node].type \in {"all", "any"} /\ Operands(stack[i].node) # None =>
         \A j \in 1 .. stack[i].next - 1 :
           j <= Len(Operands(stack[i].node)) =>
             V[Operands(stack[i].node)[j]] = Truth(Atom[stack[i].node].type = "all")
  /\ ret # None =>
       ret = IF stack = <<>> THEN V[root] ELSE V[Operands(Top.node)[Top.next]]

ExactInv ==
  \A R, T, V : Reaches(R) /\ Solves(V, T) /\ Stable(R, T) => Exact(V)

Inv == PathInv /\ NotInv /\ ReachInv

-----------------------------------------------------------------------------
LEMMA OperandType ==
  ASSUME NEW n \in Nodes, Operands(n) # None
  PROVE  /\ Operands(n) \in Seq(Nodes) /\ Len(Operands(n)) \in Nat
         /\ \A i \in 1 .. Len(Operands(n)) : Operands(n)[i] \in Nodes
         /\ Atom[n].type = "not" => Len(Operands(n)) = 1
<1>1. Operands(n) \in Seq(Nodes) /\ (Atom[n].type = "not" => Len(Operands(n)) = 1)
  BY BoundaryAssumption DEF Operands
<1> QED BY <1>1

(* Field atoms give a truth value or an error. *)
LEMMA FieldAtomType ==
  ASSUME NEW n \in Nodes, Atom[n].type \in FieldAtoms, NEW t
  PROVE  FieldAtom(n, t) \in Values
<1>1. \A p : Truth(p) \in Values
  BY DEF Truth, Values
<1>2. \A p : OfInstant(n, p) \in Values
  BY <1>1 DEF OfInstant, Values
<1>3. \A p : OfSeconds(n, p) \in Values /\ EvalOrder(n, p) \in Values
  BY <1>1, <1>2 DEF OfSeconds, EvalOrder, Values
<1>4. EvalExpired(n, t) \in Values /\ Negation(EvalExpired(n, t)) \in Values
  BY <1>2 DEF EvalExpired, Negation, Values
<1>5. /\ EvalEquals(n) \in Values /\ EvalIn(n) \in Values /\ EvalRange(n) \in Values
      /\ EvalPresent(n) \in Values /\ EvalWithin(n) \in Values
  BY <1>1 DEF EvalEquals, EvalIn, EvalRange, EvalPresent, EvalWithin, Values
<1> QED BY <1>3, <1>4, <1>5 DEF FieldAtom, FieldAtoms

(* Most field atoms do not ask for the time. *)
LEMMA Timeless ==
  ASSUME NEW n \in Nodes, Atom[n].type \in FieldAtoms, n \notin TimeAtoms, NEW s, NEW t
  PROVE  FieldAtom(n, s) = FieldAtom(n, t)
<1>1. Atom[n].type \in {"equals", "in", "range", "present", "before", "after", "within"}
  BY DEF TimeAtoms, FieldAtoms
<1> QED BY <1>1 DEF FieldAtom

LEMMA TopType ==
  ASSUME PathInv, stack # <<>>
  PROVE  /\ Len(stack) \in Nat \ {0} /\ Top \in Frames /\ Top = stack[Len(stack)]
         /\ Top.node \in Nodes /\ Top.next \in Nat \ {0}
<1>1. stack \in Seq(Frames) /\ Len(stack) \in Nat \ {0}
  BY DEF PathInv
<1>2. Top \in Frames /\ Top = stack[Len(stack)]
  BY <1>1 DEF Top
<1> QED BY <1>1, <1>2 DEF Frames

(* What a solution of the equations says of each atom. *)
LEMMA WorthOf ==
  ASSUME NEW V, NEW T, Solves(V, T), NEW n \in Nodes
  PROVE  V[n] = Worth(V, n, T)
BY DEF Solves

LEMMA AroundOf ==
  ASSUME NEW R, Reaches(R), NEW n \in Nodes
  PROVE  /\ n \in R[n]
         /\ \A i \in 1 .. Len(Operands(n)) :
              Atom[n].type \in Composite /\ Operands(n) # None => R[Operands(n)[i]] \subseteq R[n]
<1>1. R[n] = Around(R, n)
  BY DEF Reaches
<1> QED BY <1>1 DEF Around

(* The context is fixed, and with it the equations. *)
LEMMA EquationsFixed ==
  ASSUME UNCHANGED context, NEW V, NEW T
  PROVE  /\ Solves(V, T)' <=> Solves(V, T)
         /\ \A n, t : FieldAtom(n, t)' = FieldAtom(n, t)
<1>1. \A n : Has(n)' = Has(n) /\ Field(n)' = Field(n) /\ At(n)' = At(n)
  BY DEF Has, Field, At
<1>2. \A n, t : EvalExpired(n, t)' = EvalExpired(n, t)
  BY <1>1 DEF EvalExpired, OfInstant
<1>3. \A n, t : FieldAtom(n, t)' = FieldAtom(n, t)
  <2> TAKE n, t
  <2>1. /\ EvalEquals(n)' = EvalEquals(n) /\ EvalIn(n)' = EvalIn(n)
        /\ EvalRange(n)' = EvalRange(n) /\ EvalPresent(n)' = EvalPresent(n)
        /\ EvalWithin(n)' = EvalWithin(n)
    BY <1>1 DEF EvalEquals, EvalIn, EvalRange, EvalPresent, EvalWithin, Comparable
  <2>2. /\ EvalOrder(n, Field(n).ord < Atom[n].value.ord)'
             = EvalOrder(n, Field(n).ord < Atom[n].value.ord)
        /\ EvalOrder(n, Field(n).ord > Atom[n].value.ord)'
             = EvalOrder(n, Field(n).ord > Atom[n].value.ord)
    BY <1>1 DEF EvalOrder, Comparable
  <2>3. \A s : /\ OfSeconds(n, Seconds(t - At(n)) < s)' = OfSeconds(n, Seconds(t - At(n)) < s)
               /\ OfSeconds(n, Seconds(t - At(n)) > s)' = OfSeconds(n, Seconds(t - At(n)) > s)
               /\ OfSeconds(n, Seconds(t - At(n)) \in 0 .. s)'
                    = OfSeconds(n, Seconds(t - At(n)) \in 0 .. s)
               /\ OfSeconds(n, Seconds(At(n) - t) \in 0 .. s)'
                    = OfSeconds(n, Seconds(At(n) - t) \in 0 .. s)
    BY <1>1 DEF OfSeconds, OfInstant, Seconds
  <2> QED BY <1>2, <2>1, <2>2, <2>3 DEF FieldAtom
<1>4. \A n : Worth(V, n, T)' = Worth(V, n, T)
  BY <1>3 DEF Worth
<1> QED BY <1>3, <1>4 DEF Solves

(* The premises of Exact are no weaker after a step than before it. *)
LEMMA PremisesKept ==
  ASSUME PathInv, UNCHANGED <<context, root, started>>, clock' \in {clock, clock + 1},
         NEW R, NEW T, NEW V, Solves(V, T)', Stable(R, T)'
  PROVE  Solves(V, T) /\ Stable(R, T)
<1>1. Solves(V, T) /\ \A n, t : FieldAtom(n, t)' = FieldAtom(n, t)
  BY EquationsFixed
<1>2. started .. clock \subseteq started' .. clock'
  BY BoundaryAssumption DEF PathInv
<1> QED BY <1>1, <1>2 DEF Stable

-----------------------------------------------------------------------------
LEMMA InitHolds == Init => Inv /\ ExactInv
<1> SUFFICES ASSUME Init PROVE Inv /\ ExactInv
  OBVIOUS
<1> DEFINE f == [node |-> root, next |-> 1]
<1>1. root \in Nodes /\ f \in Frames /\ stack = <<f>> /\ ret = None
  BY BoundaryAssumption DEF Init, Frames
<1>2. /\ stack \in Seq(Frames) /\ Len(stack) = 1 /\ stack[1] = f /\ stack # <<>>
      /\ f.node = root /\ f.next = 1
  BY <1>1
<1>3. PathInv
  BY <1>1, <1>2, BoundaryAssumption DEF Init, PathInv
<1>4. NotInv /\ ReachInv
  BY <1>2 DEF NotInv, ReachInv
<1>5. ExactInv
  BY <1>1, <1>2 DEF ExactInv, Exact
<1> QED BY <1>3, <1>4, <1>5 DEF Inv

(* A call returns to its caller, which waits for it. *)
LEMMA ReturnKeeps ==
  ASSUME Inv, stack # <<>>, NEW v \in Values, Return(v), Walk
  PROVE  Inv'
<1> USE DEF Inv
<1>0. PICK n \in Nat \ {0} : n = Len(stack)
  BY TopType
<1>1. stack \in Seq(Frames) /\ n = Len(stack) /\ n - 1 \in 0 .. n
  BY <1>0 DEF PathInv
<1>2. /\ stack' \in Seq(Frames) /\ Len(stack') = n - 1
      /\ \A i \in 1 .. n - 1 : stack'[i] = stack[i]
  BY <1>1, SubSeqProperties DEF Return, Popped
<1>3. UNCHANGED <<context, root, clock, started>> /\ ret' = v /\ v # None
  BY BoundaryAssumption DEF Walk, Return, Values
<1>4. \A i \in 1 .. n - 1 : Waits(stack[i])
  BY <1>1 DEF PathInv
<1>5. PathInv'
  <2>1. stack' # <<>> => n - 1 \in 1 .. n - 1 /\ 1 \in 1 .. n - 1
    BY <1>1, <1>2
  <2>2. stack' # <<>> => Waits(Top)'
    BY <1>2, <1>4, <2>1 DEF Top, Waits
  <2>3. stack' # <<>> => stack'[1].node = root'
    BY <1>2, <1>3, <2>1 DEF PathInv
  <2>4. ASSUME NEW i \in 1 .. Len(stack') - 1
        PROVE  Waits(stack[i])' /\ stack'[i + 1].node = Operands(stack'[i].node)[stack'[i].next]
    <3>1. i \in 1 .. Len(stack) - 1 /\ i \in 1 .. n - 1 /\ i + 1 \in 1 .. n - 1
      BY <1>1, <1>2
    <3>2. stack'[i] = stack[i] /\ stack'[i + 1] = stack[i + 1]
      BY <1>2, <3>1
    <3> QED BY <3>1, <3>2 DEF PathInv, Waits
  <2> QED BY <1>2, <1>3, <2>2, <2>3, <2>4 DEF PathInv
<1>6. NotInv' /\ ReachInv'
  <2>1. \A k \in 1 .. Len(stack') : k \in 1 .. Len(stack) /\ \A i \in 1 .. k : i \in 1 .. n - 1
    BY <1>1, <1>2
  <2> QED BY <1>1, <1>2, <1>3, <2>1 DEF NotInv, ReachInv, Reaches, Around, Operands
<1> QED BY <1>5, <1>6

LEMMA ReturnIsExact ==
  ASSUME Inv, stack # <<>>, NEW v \in Values, Return(v), Walk,
         NEW V, Exact(V), v = V[Top.node]
  PROVE  Exact(V)'
<1> USE DEF Inv
<1>0. PICK n \in Nat \ {0} : n = Len(stack)
  BY TopType
<1>1. stack \in Seq(Frames) /\ n = Len(stack) /\ n - 1 \in 0 .. n
  BY <1>0 DEF PathInv
<1>2. /\ stack' \in Seq(Frames) /\ Len(stack') = n - 1
      /\ \A i \in 1 .. n - 1 : stack'[i] = stack[i]
  BY <1>1, SubSeqProperties DEF Return, Popped
<1>3. UNCHANGED <<context, root, clock, started>> /\ ret' = v
  BY DEF Walk, Return
<1>5. Exact(V) /\ v = V[Top.node]
  OBVIOUS
<1>6. v = IF stack' = <<>> THEN V[root'] ELSE V[Operands(Top'.node)[Top'.next]]
  <2>1. Top = stack[n]
    BY <1>1 DEF Top
  <2>2. CASE stack' = <<>>
    <3>1. n = 1
      <4>1. Len(stack') = 0
        BY <2>2
      <4>2. Len(stack') = n - 1
        BY <1>2
      <4> QED BY <4>1, <4>2
    <3> QED BY <1>3, <1>5, <2>1, <2>2, <3>1 DEF PathInv
  <2>3. CASE stack' # <<>>
    <3>1. n - 1 \in 1 .. n - 1 /\ n - 1 \in 1 .. Len(stack) - 1
      BY <1>1, <1>2, <2>3
    <3>2. Top' = stack[n - 1]
      BY <1>2, <3>1 DEF Top
    <3>3. stack[(n - 1) + 1].node = Operands(stack[n - 1].node)[stack[n - 1].next]
      BY <3>1 DEF PathInv
    <3>4. (n - 1) + 1 = n
      BY <1>1
    <3> QED BY <1>5, <2>1, <2>3, <3>2, <3>3, <3>4
  <2> QED BY <2>2, <2>3
<1>7. \A i \in 1 .. Len(stack') : i \in 1 .. Len(stack) /\ stack'[i] = stack[i]
  BY <1>1, <1>2
<1>8. \A i \in 1 .. Len(stack') :
        Atom[stack'[i].node].type \in {"all", "any"} /\ Operands(stack'[i].node) # None =>
          \A j \in 1 .. stack'[i].next - 1 :
            j <= Len(Operands(stack'[i].node)) =>
              V[Operands(stack'[i].node)[j]] = Truth(Atom[stack'[i].node].type = "all")
  BY <1>5, <1>7 DEF Exact
<1>9. ret' = IF stack' = <<>> THEN V[root'] ELSE V[Operands(Top'.node)[Top'.next]]
  BY <1>3, <1>6
<1> QED BY <1>8, <1>9 DEF Exact, Operands, Truth

-----------------------------------------------------------------------------
(* What each return gives is a value, and the worth of the atom.            *)
FieldValue == FieldAtom(Top.node, clock)

LEMMA FieldIsExact ==
  ASSUME Inv, stack # <<>>, Atom[Top.node].type \in FieldAtoms, NEW T, NEW V, Solves(V, T),
         Top.node \in TimeAtoms => FieldAtom(Top.node, T) = FieldValue
  PROVE  FieldValue = V[Top.node]
<1>1. Top.node \in Nodes
  BY TopType DEF Inv
<1>2. Worth(V, Top.node, T) = FieldAtom(Top.node, T)
  BY DEF Worth, FieldAtoms, Composite
<1>3. V[Top.node] = FieldAtom(Top.node, T)
  BY <1>1, <1>2, WorthOf
<1> QED BY <1>1, <1>3, Timeless DEF FieldValue

LEMMA MalformedIsExact ==
  ASSUME Inv, Malformed, NEW V, NEW T, Solves(V, T)
  PROVE  "error" = V[Top.node]
<1>1. Top.node \in Nodes
  BY TopType DEF Inv, Malformed, Calling
<1> QED BY <1>1, WorthOf DEF Worth, Malformed, FieldAtoms, Composite

(* A loop that has gone through its operands found none that decides.       *)
LEMMA LoopIsExact ==
  ASSUME Inv, LoopEnds, NEW V, NEW T, Solves(V, T), Exact(V)
  PROVE  Truth(Atom[Top.node].type = "all") = V[Top.node]
<1> DEFINE n == Top.node
           k == Len(Operands(n))
<1>1. /\ n \in Nodes /\ Top = stack[Len(stack)] /\ Len(stack) \in 1 .. Len(stack)
      /\ Top.next \in Nat \ {0}
  BY TopType DEF Inv, LoopEnds, HasOperands, Calling
<1>2. Atom[n].type \in Composite /\ Operands(n) # None /\ Top.next > k
  BY DEF LoopEnds, HasOperands
<1>3. k \in Nat /\ (Atom[n].type = "not" => k = 1)
  BY <1>1, <1>2, OperandType
<1>4. Atom[n].type \in {"all", "any"}
  <2>1. Atom[n].type # "not"
    BY <1>1, <1>2, <1>3 DEF Inv, NotInv
  <2> QED BY <1>2, <2>1 DEF Composite
<1>5. \A j \in 1 .. k : V[Operands(n)[j]] = Truth(Atom[n].type = "all")
  <2> TAKE j \in 1 .. k
  <2>1. j \in 1 .. Top.next - 1 /\ j <= k
    BY <1>1, <1>2, <1>3
  <2> QED BY <1>1, <1>2, <1>4, <2>1 DEF Exact
<1>6. Worth(V, n, T) = Truth(Atom[n].type = "all")
  BY <1>2, <1>4, <1>5 DEF Worth, FieldAtoms, Composite
<1> QED BY <1>1, <1>6, WorthOf

(* The value of a call whose operand settles it. *)
Settled == IF Atom[Top.node].type = "not" THEN Negation(ret) ELSE ret

LEMMA ShortCircuitIsExact ==
  ASSUME Inv, ShortCircuit, NEW V, NEW T, Solves(V, T), Exact(V)
  PROVE  Settled = V[Top.node]
<1> DEFINE n == Top.node
           k == Top.next
           deciding == {i \in 1 .. Len(Operands(n)) :
                          V[Operands(n)[i]] # Truth(Atom[n].type = "all")}
<1>1. /\ n \in Nodes /\ Top = stack[Len(stack)] /\ Len(stack) \in 1 .. Len(stack)
      /\ k \in Nat \ {0}
  BY TopType DEF Inv, ShortCircuit, Returned
<1>2. Atom[n].type \in Composite /\ Operands(n) # None /\ k \in 1 .. Len(Operands(n))
  BY DEF Inv, PathInv, Waits, ShortCircuit, Returned
<1>3. Len(Operands(n)) \in Nat
  BY <1>1, <1>2, OperandType
<1>4. ret = V[Operands(n)[k]]
  BY DEF Exact, ShortCircuit, Returned
<1>5. CASE Atom[n].type = "not"
  <2>1. k = 1
    BY <1>1, <1>5 DEF Inv, NotInv
  <2>2. Worth(V, n, T) = Negation(V[Operands(n)[1]])
    BY <1>2, <1>5 DEF Worth, FieldAtoms, Composite
  <2> QED BY <1>1, <1>4, <1>5, <2>1, <2>2, WorthOf DEF Settled
<1>6. CASE Atom[n].type # "not"
  <2>1. Atom[n].type \in {"all", "any"}
    BY <1>2, <1>6 DEF Composite
  <2>2. ret # Truth(Atom[n].type = "all")
    BY <1>6, <2>1 DEF ShortCircuit, Settles, Truth
  <2>3. k \in deciding
    BY <1>2, <1>4, <2>2
  <2>4. \A j \in 1 .. k - 1 : j \notin deciding
    <3> TAKE j \in 1 .. k - 1
    <3>1. j <= Len(Operands(n))
      BY <1>2, <1>3
    <3> QED BY <1>1, <1>2, <2>1, <3>1 DEF Exact
  <2>5. \A j \in deciding : k <= j
    BY <1>1, <1>3, <2>4
  <2>6. (CHOOSE i \in deciding : \A j \in deciding : i <= j) = k
    <3>1. \A i \in deciding : (\A j \in deciding : i <= j) => i = k
      BY <1>1, <1>3, <2>3, <2>5
    <3> HIDE DEF deciding
    <3> QED BY <2>3, <2>5, <3>1
  <2>7. Worth(V, n, T) = V[Operands(n)[k]]
    <3>1. deciding # {}
      BY <2>3
    <3> QED BY <1>2, <2>1, <2>6, <3>1 DEF Worth, FieldAtoms, Composite
  <2> QED BY <1>1, <1>4, <1>6, <2>7, WorthOf DEF Settled
<1> QED BY <1>5, <1>6

(* All returns at once. *)
Reads(T) ==
  EvaluateField /\ Top.node \in TimeAtoms => FieldAtom(Top.node, T) = FieldValue

LEMMA ReturnsKeep ==
  ASSUME Inv, EvaluateField \/ Malformed \/ LoopEnds \/ ShortCircuit
  PROVE  \E v \in Values :
           /\ Return(v) /\ Inv'
           /\ \A T, V : Solves(V, T) /\ Exact(V) /\ Reads(T) => v = V[Top.node]
<1>1. stack # <<>> /\ Walk
  BY DEF EvaluateField, Malformed, LoopEnds, HasOperands, ShortCircuit, Calling, Returned
<1>2. Top.node \in Nodes
  BY <1>1, TopType DEF Inv
<1>3. CASE EvaluateField
  <2>1. FieldValue \in Values /\ Return(FieldValue) /\ Atom[Top.node].type \in FieldAtoms
    BY <1>2, <1>3, FieldAtomType DEF EvaluateField, FieldValue
  <2>2. \A T, V : Solves(V, T) /\ Reads(T) => FieldValue = V[Top.node]
    BY <1>1, <1>3, <2>1, FieldIsExact DEF Reads
  <2> QED BY <1>1, <2>1, <2>2, ReturnKeeps
<1>4. CASE Malformed
  <2>1. "error" \in Values /\ Return("error")
    BY <1>4 DEF Malformed, Values
  <2>2. \A T, V : Solves(V, T) => "error" = V[Top.node]
    BY <1>4, MalformedIsExact
  <2> QED BY <1>1, <2>1, <2>2, ReturnKeeps
<1>5. CASE LoopEnds
  <2> DEFINE v == Truth(Atom[Top.node].type = "all")
  <2>1. v \in Values /\ Return(v)
    BY <1>5 DEF LoopEnds, Truth, Values
  <2>2. \A T, V : Solves(V, T) /\ Exact(V) => v = V[Top.node]
    BY <1>5, LoopIsExact
  <2> QED BY <1>1, <2>1, <2>2, ReturnKeeps
<1>6. CASE ShortCircuit
  <2>1. Settled \in Values /\ Return(Settled)
    <3>1. ret \in Values
      BY <1>6 DEF Inv, PathInv, ShortCircuit, Returned
    <3> QED BY <1>6, <3>1 DEF ShortCircuit, Settled, Negation, Values
  <2>2. \A T, V : Solves(V, T) /\ Exact(V) => Settled = V[Top.node]
    BY <1>6, ShortCircuitIsExact
  <2> QED BY <1>1, <2>1, <2>2, ReturnKeeps
<1> QED BY <1>3, <1>4, <1>5, <1>6

-----------------------------------------------------------------------------
(* A call of the operand a call is at. *)
LEMMA CallKeeps ==
  ASSUME Inv, CallOperand
  PROVE  Inv' /\ \A V : Exact(V) => Exact(V)'
<1> USE DEF Inv
<1>0. stack # <<>> /\ ret = None
  BY DEF CallOperand, HasOperands, Calling
<1>9. PICK n \in Nat \ {0} : n = Len(stack)
  BY <1>0, TopType
<1> DEFINE f == [node |-> Operands(Top.node)[Top.next], next |-> 1]
<1>1. /\ stack \in Seq(Frames) /\ n = Len(stack) /\ Top = stack[n]
      /\ Top.node \in Nodes /\ Top.next \in Nat \ {0} /\ Waits(Top)
  <2>1. Top.next \in 1 .. Len(Operands(Top.node))
    BY <1>0, TopType, OperandType DEF CallOperand, HasOperands
  <2> QED BY <1>0, <1>9, <2>1, TopType DEF PathInv, Waits, CallOperand, HasOperands
<1>2. Operands(Top.node)[Top.next] \in Nodes
  BY <1>1, OperandType DEF Waits
<1>3. f \in Frames /\ f.node = Operands(Top.node)[Top.next] /\ f.next = 1
  BY <1>2 DEF Frames
<1>4. /\ stack' = Append(stack, f)
      /\ UNCHANGED <<ret, context, root, clock, started>>
  BY DEF CallOperand, Walk
<1>5. /\ stack' \in Seq(Frames) /\ Len(stack') = n + 1 /\ stack'[n + 1] = f
      /\ \A i \in 1 .. n : stack'[i] = stack[i]
      /\ stack' # <<>>
  BY <1>1, <1>3, <1>4
<1>6. \A i \in 1 .. n + 1 : i \in 1 .. n \/ i = n + 1
  OBVIOUS
<1>7. PathInv'
  <2>1. stack'[1].node = root'
    BY <1>0, <1>4, <1>5 DEF PathInv
  <2>2. ASSUME NEW i \in 1 .. n
        PROVE  Waits(stack[i])' /\ stack'[i + 1].node = Operands(stack'[i].node)[stack'[i].next]
    <3>1. CASE i = n
      BY <1>1, <1>3, <1>5, <3>1 DEF Waits
    <3>2. CASE i \in 1 .. n - 1
      <4>1. i \in 1 .. Len(stack) - 1 /\ i + 1 \in 1 .. n
        BY <1>1, <3>2
      <4> QED BY <1>5, <3>2, <4>1 DEF PathInv, Waits
    <3> QED BY <3>1, <3>2
  <2>3. Len(stack') - 1 = n
    BY <1>5
  <2> QED BY <1>0, <1>4, <1>5, <2>1, <2>2, <2>3 DEF PathInv
<1>8. NotInv'
  <2> SUFFICES ASSUME NEW i \in 1 .. n + 1, Atom[stack'[i].node].type = "not"
               PROVE  stack'[i].next = 1
    BY <1>5 DEF NotInv
  <2>1. CASE i = n + 1
    BY <1>3, <1>5, <2>1
  <2>2. CASE i \in 1 .. n
    BY <1>1, <1>5, <2>2 DEF NotInv
  <2> QED BY <1>6, <2>1, <2>2
<1>10. ReachInv'
  <2> SUFFICES ASSUME NEW R, Reaches(R), NEW k \in 1 .. n + 1, NEW i \in 1 .. k
               PROVE  R[stack'[k].node] \subseteq R[stack'[i].node]
    BY <1>4, <1>5 DEF ReachInv, Reaches, Around, Operands
  <2>1. CASE k \in 1 .. n
    <3>1. i \in 1 .. n
      BY <2>1
    <3> QED BY <1>1, <1>5, <2>1, <3>1 DEF ReachInv
  <2>2. CASE k = n + 1 /\ i \in 1 .. n
    <3>1. R[Top.node] \subseteq R[stack[i].node]
      BY <1>1, <2>2 DEF ReachInv
    <3>2. R[f.node] \subseteq R[Top.node]
      BY <1>1, <1>3, AroundOf DEF Waits
    <3> QED BY <1>5, <2>2, <3>1, <3>2
  <2>3. k \in 1 .. n \/ (k = n + 1 /\ (i \in 1 .. n \/ i = k))
    BY <1>6
  <2> QED BY <2>1, <2>2, <2>3
<1>11. ASSUME NEW V, Exact(V) PROVE Exact(V)'
  <2>1. Exact(V)
    BY <1>11
  <2>2. ASSUME NEW i \in 1 .. n + 1,
               Atom[stack'[i].node].type \in {"all", "any"}, Operands(stack'[i].node) # None,
               NEW j \in 1 .. stack'[i].next - 1, j <= Len(Operands(stack'[i].node))
        PROVE  V[Operands(stack'[i].node)[j]] = Truth(Atom[stack'[i].node].type = "all")
    <3>1. i \in 1 .. n /\ stack'[i] = stack[i]
      <4>1. i # n + 1
        BY <1>3, <1>5, <2>2
      <4> QED BY <1>5, <1>6, <4>1
    <3> QED BY <1>1, <2>1, <2>2, <3>1 DEF Exact
  <2> QED BY <1>0, <1>4, <1>5, <2>2 DEF Exact, Operands, Truth
<1> QED BY <1>7, <1>8, <1>10, <1>11

(* An operand that decides nothing is passed by. *)
LEMMA AdvanceKeeps ==
  ASSUME Inv, NextOperand
  PROVE  Inv' /\ \A V : Exact(V) => Exact(V)'
<1> USE DEF Inv
<1>0. stack # <<>> /\ ret # None /\ ~Settles(Atom[Top.node].type, ret)
  BY DEF NextOperand, Returned
<1>9. PICK n \in Nat \ {0} : n = Len(stack)
  BY <1>0, TopType
<1> DEFINE f == [Top EXCEPT !.next = @ + 1]
<1>1. /\ stack \in Seq(Frames) /\ n = Len(stack) /\ Top = stack[n] /\ Top \in Frames
      /\ Top.node \in Nodes /\ Top.next \in Nat \ {0} /\ Waits(Top)
  BY <1>0, <1>9, TopType DEF PathInv
<1>2. f \in Frames /\ f.node = Top.node /\ f.next = Top.next + 1
  BY <1>1 DEF Frames
<1>3. Atom[Top.node].type \in {"all", "any"} /\ ret = Truth(Atom[Top.node].type = "all")
  <2>1. ret \in Values /\ Atom[Top.node].type \in Composite
    BY <1>0, <1>1 DEF PathInv, Waits
  <2> QED BY <1>0, <2>1 DEF Settles, Truth, Values, Composite
<1>4. stack' = [stack EXCEPT ![n] = f] /\ UNCHANGED <<context, root, clock, started>> /\ ret' = None
  BY <1>1 DEF NextOperand, Advanced, Walk
<1>5. /\ stack' \in Seq(Frames) /\ Len(stack') = n /\ stack'[n] = f
      /\ \A i \in 1 .. n : i # n => stack'[i] = stack[i]
      /\ stack' # <<>>
  BY <1>1, <1>2, <1>4
<1>6. \A i \in 1 .. n : stack'[i].node = stack[i].node
  BY <1>1, <1>2, <1>5
<1>7. PathInv'
  <2>1. stack'[1].node = root'
    BY <1>0, <1>4, <1>6 DEF PathInv
  <2>2. ASSUME NEW i \in 1 .. n - 1
        PROVE  Waits(stack[i])' /\ stack'[i + 1].node = Operands(stack'[i].node)[stack'[i].next]
    <3>1. i \in 1 .. Len(stack) - 1 /\ i \in 1 .. n /\ i # n /\ i + 1 \in 1 .. n
      BY <1>1
    <3>2. stack'[i] = stack[i] /\ stack'[i + 1].node = stack[i + 1].node
      BY <1>5, <1>6, <3>1
    <3> QED BY <3>1, <3>2 DEF PathInv, Waits
  <2> QED BY <1>4, <1>5, <2>1, <2>2 DEF PathInv
<1>8. NotInv'
  <2> SUFFICES ASSUME NEW i \in 1 .. n, Atom[stack'[i].node].type = "not"
               PROVE  stack'[i].next = 1
    BY <1>5 DEF NotInv
  <2>1. i # n
    BY <1>1, <1>3, <1>6
  <2> QED BY <1>1, <1>5, <2>1 DEF NotInv
<1>10. ReachInv'
  <2> SUFFICES ASSUME NEW R, Reaches(R), NEW k \in 1 .. n, NEW i \in 1 .. k
               PROVE  R[stack'[k].node] \subseteq R[stack'[i].node]
    BY <1>4, <1>5 DEF ReachInv, Reaches, Around, Operands
  <2>1. i \in 1 .. n
    OBVIOUS
  <2> QED BY <1>1, <1>6, <2>1 DEF ReachInv
<1>11. ASSUME NEW V, Exact(V) PROVE Exact(V)'
  <2>1. Exact(V)
    BY <1>11
  <2>2. ASSUME NEW i \in 1 .. n,
               Atom[stack'[i].node].type \in {"all", "any"}, Operands(stack'[i].node) # None,
               NEW j \in 1 .. stack'[i].next - 1, j <= Len(Operands(stack'[i].node))
        PROVE  V[Operands(stack'[i].node)[j]] = Truth(Atom[stack'[i].node].type = "all")
    <3>1. CASE i # n
      BY <1>1, <1>5, <2>1, <2>2, <3>1 DEF Exact
    <3>2. CASE i = n /\ j = Top.next
      BY <1>0, <1>1, <1>3, <1>6, <2>1, <3>2 DEF Exact
    <3>3. CASE i = n /\ j \in 1 .. Top.next - 1
      BY <1>1, <1>6, <2>1, <2>2, <3>3 DEF Exact
    <3>4. i = n => j = Top.next \/ j \in 1 .. Top.next - 1
      <4>1. i = n => j \in 1 .. (Top.next + 1) - 1
        BY <1>2, <1>5, <2>2
      <4> QED BY <1>1, <4>1
    <3> QED BY <3>1, <3>2, <3>3, <3>4
  <2> QED BY <1>4, <1>5, <2>2 DEF Exact, Operands, Truth
<1> QED BY <1>7, <1>8, <1>10, <1>11

(* While the clock goes on nothing is evaluated. *)
LEMMA TickKeeps ==
  ASSUME Inv, UNCHANGED <<context, root, started, stack, ret>>, clock' \in {clock, clock + 1},
         clock' <= MaxTime
  PROVE  Inv' /\ \A V : Exact(V) => Exact(V)'
<1>1. PathInv' /\ NotInv' /\ ReachInv'
  <2>1. clock' \in started' .. MaxTime
    BY BoundaryAssumption DEF Inv, PathInv
  <2>2. PathInv' /\ NotInv'
    BY <2>1 DEF Inv, PathInv, NotInv, Waits, Top, Operands
  <2>3. ReachInv'
    BY DEF Inv, ReachInv, Reaches, Around, Operands
  <2> QED BY <2>2, <2>3
<1>2. \A V : Exact(V) => Exact(V)'
  BY DEF Exact, Top, Operands, Truth
<1> QED BY <1>1, <1>2 DEF Inv

(* A step keeps the values right, if the atom about the time it reads, if   *)
(* any, has the value it has at the instant the values are those of.        *)
LEMMA NextKeeps ==
  ASSUME Inv, [Next]_vars
  PROVE  /\ Inv' /\ UNCHANGED <<context, root, started>> /\ clock' \in {clock, clock + 1}
         /\ \A T, V : Solves(V, T) /\ Exact(V) /\ Reads(T) => Exact(V)'
<1>1. clock \in Int /\ clock <= MaxTime /\ MaxTime \in Nat
  BY BoundaryAssumption DEF Inv, PathInv
<1>2. CASE EvaluateField \/ Malformed \/ LoopEnds \/ ShortCircuit
  <2>1. Walk /\ stack # <<>>
    BY <1>2 DEF EvaluateField, Malformed, LoopEnds, HasOperands, ShortCircuit, Calling, Returned
  <2>2. PICK v \in Values :
          /\ Return(v) /\ Inv'
          /\ \A T, V : Solves(V, T) /\ Exact(V) /\ Reads(T) => v = V[Top.node]
    BY <1>2, ReturnsKeep
  <2>3. ASSUME NEW T, NEW V, Solves(V, T), Exact(V), Reads(T) PROVE Exact(V)'
    BY <2>1, <2>2, <2>3, ReturnIsExact
  <2> QED BY <2>1, <2>2, <2>3 DEF Walk
<1>3. CASE CallOperand
  BY <1>3, CallKeeps DEF CallOperand, Walk
<1>4. CASE NextOperand
  BY <1>4, AdvanceKeeps DEF NextOperand, Walk
<1>5. CASE Tick
  <2>1. clock + 1 <= MaxTime
    BY <1>1, <1>5 DEF Tick
  <2> QED BY <1>5, <2>1, TickKeeps DEF Tick
<1>6. CASE UNCHANGED vars
  BY <1>1, <1>6, TickKeeps DEF vars
<1> QED BY <1>2, <1>3, <1>4, <1>5, <1>6 DEF Next, Step

(* A call that is running is of an atom the specification can reach.        *)
LEMMA TopReached ==
  ASSUME Inv, stack # <<>>, NEW R, Reaches(R)
  PROVE  R[Top.node] \subseteq R[root] /\ Top.node \in R[root]
<1>1. Top.node \in Nodes /\ Top = stack[Len(stack)] /\ Len(stack) \in Nat \ {0}
  BY TopType DEF Inv
<1>2. 1 \in 1 .. Len(stack) /\ Len(stack) \in 1 .. Len(stack) /\ stack[1].node = root
  BY <1>1 DEF Inv, PathInv
<1>3. R[stack[Len(stack)].node] \subseteq R[stack[1].node]
  BY <1>2 DEF Inv, ReachInv
<1>4. Top.node \in R[Top.node]
  BY <1>1, AroundOf
<1> QED BY <1>1, <1>2, <1>3, <1>4

LEMMA ExactKept ==
  ASSUME Inv, ExactInv, [Next]_vars
  PROVE  ExactInv'
<1> SUFFICES ASSUME NEW R, NEW T, NEW V, Reaches(R), Solves(V, T)', Stable(R, T)'
             PROVE  Exact(V)'
  BY DEF ExactInv, Reaches, Around, Operands
<1>1. Solves(V, T) /\ Stable(R, T)
  BY NextKeeps, PremisesKept DEF Inv
<1>2. Exact(V)
  BY <1>1 DEF ExactInv
<1>3. Reads(T)
  <2> SUFFICES ASSUME EvaluateField, Top.node \in TimeAtoms
               PROVE  FieldAtom(Top.node, T) = FieldValue
    BY DEF Reads
  <2>1. Top.node \in R[root]
    BY TopReached DEF EvaluateField, Calling
  <2>2. clock \in started .. clock
    BY BoundaryAssumption DEF Inv, PathInv
  <2> QED BY <1>1, <2>1, <2>2 DEF Stable, FieldValue
<1> QED BY <1>1, <1>2, <1>3, NextKeeps

(* The stack of the evaluator is a path from the root of the specification, *)
(* each call the operand its caller waits for.                              *)
THEOREM TypeCorrect == Spec => []TypeOK
<1>1. Init => Inv
  BY InitHolds
<1>2. Inv /\ [Next]_vars => Inv'
  BY NextKeeps
<1>3. Inv => TypeOK
  BY DEF Inv, PathInv, Waits, TypeOK, Finished, Values
<1> QED BY <1>1, <1>2, <1>3, PTL DEF Spec

-----------------------------------------------------------------------------
(* The two recursive definitions have a solution: a document does not       *)
(* contain itself.  It is found along Nesting.                              *)
LEMMA WorthType ==
  ASSUME NEW V \in [Nodes -> Values], NEW n \in Nodes, NEW t
  PROVE  Worth(V, n, t) \in Values
<1> DEFINE deciding == {i \in 1 .. Len(Operands(n)) :
                          V[Operands(n)[i]] # Truth(Atom[n].type = "all")}
<1>1. CASE Atom[n].type \in FieldAtoms
  <2>1. Worth(V, n, t) = FieldAtom(n, t)
    BY <1>1 DEF Worth, FieldAtoms, Composite
  <2> QED BY <1>1, <2>1, FieldAtomType
<1>2. CASE Atom[n].type \notin FieldAtoms /\ (Atom[n].type \in Composite => Operands(n) = None)
  <2>1. Worth(V, n, t) = "error"
    BY <1>2 DEF Worth, FieldAtoms, Composite
  <2> QED BY <2>1 DEF Values
<1>3. CASE Atom[n].type = "not" /\ Operands(n) # None
  <2>1. V[Operands(n)[1]] \in Values
    BY <1>3, OperandType
  <2> QED BY <1>3, <2>1 DEF Worth, Negation, Values, FieldAtoms, Composite
<1>4. CASE Atom[n].type \in {"all", "any"} /\ Operands(n) # None /\ deciding = {}
  BY <1>4 DEF Worth, Truth, Values, FieldAtoms, Composite
<1>5. CASE Atom[n].type \in {"all", "any"} /\ Operands(n) # None /\ deciding # {}
  <2> DEFINE first == CHOOSE i \in deciding : \A j \in deciding : i <= j
  <2>1. deciding \in SUBSET Nat
    OBVIOUS
  <2>2. \E i \in deciding : \A j \in deciding : i <= j
    <3> HIDE DEF deciding
    <3> QED BY <1>5, <2>1, LeastNatural
  <2>3. first \in deciding
    <3> HIDE DEF deciding
    <3> QED BY <2>2
  <2>4. V[Operands(n)[first]] \in Values
    BY <1>5, <2>3, OperandType
  <2>5. Worth(V, n, t) = V[Operands(n)[first]]
    BY <1>5 DEF Worth, FieldAtoms, Composite
  <2> QED BY <2>4, <2>5
<1> QED BY <1>1, <1>2, <1>3, <1>4, <1>5 DEF Composite

LEMMA OperandsSmaller ==
  ASSUME NEW n \in Nodes, Operands(n) # None, NEW i \in 1 .. Len(Operands(n))
  PROVE  Nesting[Operands(n)[i]] < Nesting[n]
BY DocumentAssumption DEF Groups, Operands

LEMMA WorthExists ==
  ASSUME NEW t
  PROVE  \E V \in [Nodes -> Values] : Solves(V, t)
<1> DEFINE F == [V \in [Nodes -> Values] |-> [n \in Nodes |-> Worth(V, n, t)]]
<1>1. F \in [[Nodes -> Values] -> [Nodes -> Values]]
  BY WorthType
<1>2. LooksDown(F, Nodes, Values, Nesting)
  <2> SUFFICES ASSUME NEW g \in [Nodes -> Values], NEW h \in [Nodes -> Values], NEW n \in Nodes,
                      \A y \in Nodes : Nesting[y] < Nesting[n] => g[y] = h[y]
               PROVE  Worth(g, n, t) = Worth(h, n, t)
    BY DEF LooksDown
  <2> DEFINE ops == Operands(n)
             decides(V) == {i \in 1 .. Len(ops) : V[ops[i]] # Truth(Atom[n].type = "all")}
  <2>1. CASE Atom[n].type \in FieldAtoms
    BY <2>1 DEF Worth, FieldAtoms, Composite
  <2>2. CASE Atom[n].type \notin FieldAtoms /\ (Atom[n].type \in Composite => ops = None)
    BY <2>2 DEF Worth, FieldAtoms, Composite
  <2>3. CASE Atom[n].type \in Composite /\ ops # None
    <3>1. Len(ops) \in Nat /\ \A i \in 1 .. Len(ops) : ops[i] \in Nodes
      BY <2>3, OperandType
    <3>2. \A i \in 1 .. Len(ops) : g[ops[i]] = h[ops[i]]
      BY <2>3, <3>1, OperandsSmaller
    <3>3. CASE Atom[n].type = "not"
      <4>1. Len(ops) = 1
        BY <2>3, <3>3, OperandType
      <4>2. \A V : Worth(V, n, t) = Negation(V[ops[1]])
        BY <2>3, <3>3 DEF Worth, FieldAtoms, Composite
      <4>3. 1 \in 1 .. Len(ops)
        <5> HIDE DEF ops
        <5> QED BY <4>1
      <4> QED BY <3>2, <4>2, <4>3
    <3>4. CASE Atom[n].type \in {"all", "any"}
      <4>1. decides(g) = decides(h)
        BY <3>2
      <4>2. \A V : Worth(V, n, t) =
                IF decides(V) = {} THEN Truth(Atom[n].type = "all")
                ELSE V[ops[CHOOSE i \in decides(V) : \A j \in decides(V) : i <= j]]
        BY <2>3, <3>4 DEF Worth, FieldAtoms, Composite
      <4>3. CASE decides(g) = {}
        BY <4>1, <4>2, <4>3
      <4>4. CASE decides(g) # {}
        <5> DEFINE first == CHOOSE i \in decides(g) : \A j \in decides(g) : i <= j
        <5>1. first \in decides(g)
          <6>1. decides(g) \in SUBSET Nat
            BY <3>1
          <6> HIDE DEF decides
          <6> QED BY <4>4, <6>1, LeastNatural
        <5>2. g[ops[first]] = h[ops[first]]
          BY <3>2, <5>1
        <5> HIDE DEF decides
        <5> QED BY <4>1, <4>2, <4>4, <5>2
      <4> QED BY <4>3, <4>4
    <3> QED BY <2>3, <3>3, <3>4 DEF Composite
  <2> QED BY <2>1, <2>2, <2>3
<1>3. \E V \in [Nodes -> Values] : FixedPoint(F, V)
  <2> HIDE DEF F
  <2>1. "true" \in Values /\ Nesting \in [Nodes -> Nat]
    BY DocumentAssumption DEF Values
  <2> QED BY <1>1, <1>2, <2>1, RankedRecursion
<1>4. PICK V \in [Nodes -> Values] : FixedPoint(F, V)
  BY <1>3
<1>5. V = [n \in Nodes |-> Worth(V, n, t)]
  BY <1>4 DEF FixedPoint
<1> QED BY <1>5 DEF Solves

LEMMA AroundExists == \E R \in [Nodes -> SUBSET Nodes] : Reaches(R)
<1> DEFINE F == [R \in [Nodes -> SUBSET Nodes] |-> [n \in Nodes |-> Around(R, n)]]
<1>1. F \in [[Nodes -> SUBSET Nodes] -> [Nodes -> SUBSET Nodes]]
  <2> SUFFICES ASSUME NEW R \in [Nodes -> SUBSET Nodes], NEW n \in Nodes
               PROVE  Around(R, n) \in SUBSET Nodes
    OBVIOUS
  <2>1. Operands(n) # None => \A i \in 1 .. Len(Operands(n)) : R[Operands(n)[i]] \subseteq Nodes
    BY OperandType
  <2> QED BY <2>1 DEF Around
<1>2. LooksDown(F, Nodes, SUBSET Nodes, Nesting)
  <2> SUFFICES ASSUME NEW g \in [Nodes -> SUBSET Nodes], NEW h \in [Nodes -> SUBSET Nodes],
                      NEW n \in Nodes, \A y \in Nodes : Nesting[y] < Nesting[n] => g[y] = h[y]
               PROVE  Around(g, n) = Around(h, n)
    BY DEF LooksDown
  <2>1. Operands(n) # None =>
          \A i \in 1 .. Len(Operands(n)) : g[Operands(n)[i]] = h[Operands(n)[i]]
    BY OperandType, OperandsSmaller
  <2> QED BY <2>1 DEF Around
<1>3. \E R \in [Nodes -> SUBSET Nodes] : FixedPoint(F, R)
  <2> DEFINE Y == SUBSET Nodes
  <2>1. {} \in Y /\ Nesting \in [Nodes -> Nat] /\ F \in [[Nodes -> Y] -> [Nodes -> Y]]
    BY <1>1, DocumentAssumption
  <2>2. LooksDown(F, Nodes, Y, Nesting)
    BY <1>2
  <2>3. \E R \in [Nodes -> Y] : FixedPoint(F, R)
    <3> HIDE DEF F, Y
    <3> QED BY <2>1, <2>2, RankedRecursion
  <2> QED BY <2>3
<1>4. PICK R \in [Nodes -> SUBSET Nodes] : FixedPoint(F, R)
  BY <1>3
<1>5. R = [n \in Nodes |-> Around(R, n)]
  BY <1>4 DEF FixedPoint
<1> QED BY <1>5 DEF Reaches

LEMMA BelowSolves == \E R : Reaches(R) /\ Below = R[root]
<1> DEFINE R == CHOOSE R : R = [n \in Nodes |-> Around(R, n)]
<1>1. R = [n \in Nodes |-> Around(R, n)]
  BY AroundExists DEF Reaches
<1>2. Below = R[root]
  BY DEF Below
<1> HIDE DEF R
<1> QED BY <1>1, <1>2 DEF Reaches

LEMMA InstantSolves ==
  ASSUME NEW t
  PROVE  \E V : Solves(V, t) /\ AtInstant(t) = V[root]
<1> DEFINE V == CHOOSE V : V = [n \in Nodes |-> Worth(V, n, t)]
<1>1. V = [n \in Nodes |-> Worth(V, n, t)]
  BY WorthExists DEF Solves
<1>2. AtInstant(t) = V[root]
  BY DEF AtInstant
<1> HIDE DEF V
<1> QED BY <1>1, <1>2 DEF Solves

(* For every specification, in every context: where no atom about the time  *)
(* changes, the walk with its short circuits computes the value defined     *)
(* bottom-up.                                                               *)
THEOREM StableEvaluation == Spec => []StableIsExact
<1>1. Init => Inv /\ ExactInv
  BY InitHolds
<1>2. Inv /\ ExactInv /\ [Next]_vars => Inv' /\ ExactInv'
  BY NextKeeps, ExactKept
<1>3. Inv /\ ExactInv => StableIsExact
  <2> SUFFICES ASSUME Inv, ExactInv, Finished,
                      \A n \in Below \cap TimeAtoms :
                        \A t \in started .. clock : FieldAtom(n, t) = FieldAtom(n, clock)
               PROVE  ret = AtInstant(clock)
    BY DEF StableIsExact
  <2>1. PICK R : Reaches(R) /\ Below = R[root]
    BY BelowSolves
  <2>2. PICK V : Solves(V, clock) /\ AtInstant(clock) = V[root]
    BY InstantSolves
  <2>3. Stable(R, clock)
    BY <2>1 DEF Stable
  <2>4. Exact(V)
    BY <2>1, <2>2, <2>3 DEF ExactInv
  <2>5. stack = <<>> /\ ret # None
    BY DEF Finished, Inv, PathInv
  <2> QED BY <2>2, <2>4, <2>5 DEF Exact
<1> QED BY <1>1, <1>2, <1>3, PTL DEF Spec
-----------------------------------------------------------------------------
(* An atom stands in one place of its document, so that what lies inside    *)
(* two operands of one atom is disjoint.                                    *)
IsOperand(y, p) ==
  /\ p \in Nodes /\ Atom[p].type \in Composite /\ Operands(p) # None
  /\ \E i \in 1 .. Len(Operands(p)) : Operands(p)[i] = y

LEMMA AroundCases ==
  ASSUME NEW R, Reaches(R), NEW n \in Nodes, NEW y \in R[n], y # n
  PROVE  \E c : IsOperand(c, n) /\ y \in R[c]
<1>1. R[n] = Around(R, n)
  BY DEF Reaches
<1> QED BY <1>1 DEF Around, IsOperand

LEMMA OperandInside ==
  ASSUME NEW R, Reaches(R), NEW n, NEW c, IsOperand(c, n)
  PROVE  c \in Nodes /\ Nesting[c] < Nesting[n] /\ R[c] \subseteq R[n] /\ c \in R[c]
BY AroundOf, OperandType, OperandsSmaller DEF IsOperand

LEMMA OneParent ==
  ASSUME NEW c, NEW m, NEW n, IsOperand(c, m), IsOperand(c, n)
  PROVE  m = n
BY DocumentAssumption DEF IsOperand, Operands, Groups

LEMMA InsideSmaller ==
  ASSUME NEW R, Reaches(R)
  PROVE  \A n \in Nodes : \A y \in R[n] : y \in Nodes /\ Nesting[y] <= Nesting[n]
<1> DEFINE S == {n \in Nodes : \E y \in R[n] : ~(y \in Nodes /\ Nesting[y] <= Nesting[n])}
<1>1. Nesting \in [Nodes -> Nat]
  BY DocumentAssumption
<1>2. ASSUME NEW n \in S PROVE \E c \in S : Nesting[c] < Nesting[n]
  <2>1. PICK y \in R[n] : ~(y \in Nodes /\ Nesting[y] <= Nesting[n])
    OBVIOUS
  <2>2. y # n
    BY <1>1, <2>1
  <2>3. PICK c : IsOperand(c, n) /\ y \in R[c]
    BY <2>2, AroundCases
  <2>4. c \in Nodes /\ Nesting[c] < Nesting[n]
    BY <2>3, OperandInside
  <2>5. ~(y \in Nodes /\ Nesting[y] <= Nesting[c])
    BY <1>1, <2>1, <2>4
  <2> QED BY <2>3, <2>4, <2>5
<1>3. S = {}
  <2>1. S \in SUBSET Nodes
    OBVIOUS
  <2> HIDE DEF S
  <2> QED BY <1>1, <1>2, <2>1, RankInduction
<1> QED BY <1>3

LEMMA ParentInside ==
  ASSUME NEW R, Reaches(R)
  PROVE  \A n \in Nodes : \A y \in R[n] : y = n \/ \E p \in R[n] : IsOperand(y, p)
<1> DEFINE S == {n \in Nodes : \E y \in R[n] : y # n /\ \A p \in R[n] : ~IsOperand(y, p)}
<1>1. ASSUME NEW n \in S PROVE \E c \in S : Nesting[c] < Nesting[n]
  <2>1. PICK y \in R[n] : y # n /\ \A p \in R[n] : ~IsOperand(y, p)
    OBVIOUS
  <2>2. PICK c : IsOperand(c, n) /\ y \in R[c]
    BY <2>1, AroundCases
  <2>3. c \in Nodes /\ Nesting[c] < Nesting[n] /\ R[c] \subseteq R[n]
    BY <2>2, OperandInside
  <2>4. y # c
    BY <2>1, <2>2, AroundOf
  <2> QED BY <2>1, <2>2, <2>3, <2>4
<1>2. S = {}
  <2>1. S \in SUBSET Nodes /\ Nesting \in [Nodes -> Nat]
    BY DocumentAssumption
  <2> HIDE DEF S
  <2> QED BY <1>1, <2>1, RankInduction
<1> QED BY <1>2

(* The atoms around one atom lie inside each other. *)
LEMMA AroundNested ==
  ASSUME NEW R, Reaches(R), NEW x
  PROVE  \A m, n \in Nodes : x \in R[m] /\ x \in R[n] => m \in R[n] \/ n \in R[m]
<1> DEFINE S == {m \in Nodes : \E n \in Nodes : /\ x \in R[m] /\ x \in R[n]
                                                 /\ m \notin R[n] /\ n \notin R[m]}
<1>1. ASSUME NEW m \in S PROVE \E c \in S : Nesting[c] < Nesting[m]
  <2>1. PICK n \in Nodes : x \in R[m] /\ x \in R[n] /\ m \notin R[n] /\ n \notin R[m]
    OBVIOUS
  <2>2. PICK c : IsOperand(c, m) /\ x \in R[c]
    BY <2>1, AroundCases
  <2>3. c \in Nodes /\ Nesting[c] < Nesting[m] /\ R[c] \subseteq R[m] /\ c \in R[c]
    BY <2>2, OperandInside
  <2>4. c \notin R[n]
    <3> SUFFICES ASSUME c \in R[n] PROVE FALSE
      OBVIOUS
    <3>1. c # n
      BY <2>1, <2>3
    <3>2. PICK p \in R[n] : IsOperand(c, p)
      BY <3>1, ParentInside
    <3> QED BY <2>1, <2>2, <3>2, OneParent
  <2>5. n \notin R[c]
    BY <2>1, <2>3
  <2> QED BY <2>1, <2>2, <2>3, <2>4, <2>5
<1>2. S = {}
  <2>1. S \in SUBSET Nodes /\ Nesting \in [Nodes -> Nat]
    BY DocumentAssumption
  <2> HIDE DEF S
  <2> QED BY <1>1, <2>1, RankInduction
<1> QED BY <1>2

(* The atoms in operand j of n.                                             *)
InOperand(R, a, n, j) ==
  /\ Atom[n].type \in Composite /\ Operands(n) # None
  /\ j \in 1 .. Len(Operands(n)) /\ a \in R[Operands(n)[j]]

LEMMA OperandsApart ==
  ASSUME NEW R, Reaches(R), NEW a, NEW n \in Nodes, NEW i, NEW j,
         InOperand(R, a, n, i), InOperand(R, a, n, j)
  PROVE  i = j
<1> DEFINE c == Operands(n)[i]
           d == Operands(n)[j]
<1>1. /\ IsOperand(c, n) /\ IsOperand(d, n) /\ a \in R[c] /\ a \in R[d]
      /\ n \in Groups /\ i \in 1 .. Len(Operands(n)) /\ j \in 1 .. Len(Operands(n))
  BY DEF InOperand, IsOperand, Groups, Operands
<1>2. c \in Nodes /\ d \in Nodes /\ Nesting[c] < Nesting[n] /\ Nesting[d] < Nesting[n]
  BY <1>1, OperandInside
<1>3. c = d => i = j
  BY <1>1, DocumentAssumption DEF Operands
<1>4. ASSUME NEW e, NEW f, IsOperand(e, n), IsOperand(f, n), e # f PROVE e \notin R[f]
  <2> SUFFICES ASSUME e \in R[f] PROVE FALSE
    OBVIOUS
  <2>1. f \in Nodes /\ Nesting[f] < Nesting[n]
    BY <1>4, OperandInside
  <2>2. PICK p \in R[f] : IsOperand(e, p)
    BY <1>4, <2>1, ParentInside
  <2>3. p = n
    BY <1>4, <2>2, OneParent
  <2>4. Nesting[n] <= Nesting[f] /\ Nesting[n] \in Nat /\ Nesting[f] \in Nat
    BY <2>1, <2>2, <2>3, InsideSmaller, DocumentAssumption
  <2> QED BY <2>1, <2>4
<1>5. c \in R[d] \/ d \in R[c]
  BY <1>1, <1>2, AroundNested
<1> HIDE DEF c, d
<1> QED BY <1>1, <1>3, <1>4, <1>5

-----------------------------------------------------------------------------
(* What the evaluation may still come to: the operand it is at, if the call *)
(* has not returned, and the operands after it, in every active call.       *)
AheadOf(R, a) ==
  \/ \E i \in 1 .. Len(stack), j \in Nat :
       j > stack[i].next /\ InOperand(R, a, stack[i].node, j)
  \/ /\ ret = None /\ stack # <<>>
     /\ \/ Atom[Top.node].type \in FieldAtoms /\ a = Top.node
        \/ InOperand(R, a, Top.node, Top.next)

(* With one atom about the time, the calls are right about some moment so   *)
(* far, and about any moment until that atom has been read.                 *)
RightAt(T) == \A V : Solves(V, T) => Exact(V)

AtomicInv ==
  \A R, a : Reaches(R) /\ R[root] \cap TimeAtoms \subseteq {a} =>
    /\ \E T \in started .. clock : RightAt(T)
    /\ AheadOf(R, a) => \A T : RightAt(T)

LEMMA InitAtomic == Init => AtomicInv
<1> SUFFICES ASSUME Init PROVE AtomicInv
  OBVIOUS
<1> DEFINE f == [node |-> root, next |-> 1]
<1>1. stack = <<f>> /\ ret = None
  BY DEF Init
<1>2. Len(stack) = 1 /\ stack[1] = f /\ f.next = 1
  BY <1>1
<1>3. \A V : Exact(V)
  BY <1>1, <1>2 DEF Exact
<1>4. started \in started .. clock
  BY BoundaryAssumption DEF Init
<1> QED BY <1>3, <1>4 DEF AtomicInv, RightAt

(* A call that returns leaves the operands after it to its callers.         *)
LEMMA ReturnAhead ==
  ASSUME Inv, stack # <<>>, NEW v \in Values, Return(v), NEW R, NEW a, AheadOf(R, a)'
  PROVE  \E i \in 1 .. Len(stack) - 1, j \in Nat :
           j > stack[i].next /\ InOperand(R, a, stack[i].node, j)
<1>0. PICK n \in Nat \ {0} : n = Len(stack)
  BY TopType DEF Inv
<1>1. stack \in Seq(Frames) /\ n = Len(stack) /\ n - 1 \in 0 .. n
  BY <1>0 DEF Inv, PathInv
<1>2. /\ stack' \in Seq(Frames) /\ Len(stack') = n - 1
      /\ \A i \in 1 .. n - 1 : stack'[i] = stack[i]
  BY <1>1, SubSeqProperties DEF Return, Popped
<1>3. ret' # None
  BY BoundaryAssumption DEF Return, Values
<1>4. PICK i \in 1 .. Len(stack'), j \in Nat :
        j > stack'[i].next /\ InOperand(R, a, stack'[i].node, j)
  BY <1>3 DEF AheadOf, InOperand, Operands
<1> QED BY <1>1, <1>2, <1>4

(* Nothing comes to lie ahead. *)
LEMMA AheadShrinks ==
  ASSUME Inv, [Next]_vars, NEW R, Reaches(R), NEW a, AheadOf(R, a)'
  PROVE  AheadOf(R, a)
<1>1. CASE EvaluateField \/ Malformed \/ LoopEnds \/ ShortCircuit
  <2>1. stack # <<>>
    BY <1>1 DEF EvaluateField, Malformed, LoopEnds, HasOperands, ShortCircuit, Calling, Returned
  <2>2. PICK v \in Values : Return(v)
    BY <1>1, ReturnsKeep
  <2>3. PICK i \in 1 .. Len(stack) - 1, j \in Nat :
          j > stack[i].next /\ InOperand(R, a, stack[i].node, j)
    BY <2>1, <2>2, ReturnAhead
  <2>4. i \in 1 .. Len(stack)
    BY <2>1, TopType DEF Inv
  <2> QED BY <2>3, <2>4 DEF AheadOf
<1>2. CASE CallOperand
  <2>0. stack # <<>> /\ ret = None
    BY <1>2 DEF CallOperand, HasOperands, Calling
  <2>1. PICK n \in Nat \ {0} : n = Len(stack)
    BY <2>0, TopType DEF Inv
  <2> DEFINE f == [node |-> Operands(Top.node)[Top.next], next |-> 1]
  <2>2. /\ stack \in Seq(Frames) /\ Top = stack[n] /\ Top.node \in Nodes
        /\ Atom[Top.node].type \in Composite /\ Operands(Top.node) # None
        /\ Top.next \in 1 .. Len(Operands(Top.node))
    BY <1>2, <2>0, <2>1, TopType, OperandType DEF Inv, PathInv, CallOperand, HasOperands
  <2>3. f.node \in Nodes /\ f \in Frames /\ f.next = 1 /\ R[f.node] \subseteq R[Top.node]
    BY <2>2, OperandType, AroundOf DEF Frames
  <2>4. /\ stack' = Append(stack, f) /\ ret' = ret
        /\ Len(stack') = n + 1 /\ stack'[n + 1] = f /\ \A i \in 1 .. n : stack'[i] = stack[i]
    BY <1>2, <2>1, <2>2, <2>3 DEF CallOperand
  <2>5. Top' = f
    BY <2>4 DEF Top
  <2>6. \A j : InOperand(R, a, f.node, j) => InOperand(R, a, Top.node, Top.next)
    BY <2>2, <2>3, AroundOf DEF InOperand
  <2>7. a = f.node => InOperand(R, a, Top.node, Top.next)
    BY <2>2, <2>3, AroundOf DEF InOperand
  <2>8. InOperand(R, a, Top.node, Top.next) => AheadOf(R, a)
    BY <2>0 DEF AheadOf
  <2>9. CASE \E i \in 1 .. n, j \in Nat : j > stack[i].next /\ InOperand(R, a, stack[i].node, j)
    BY <2>1, <2>9 DEF AheadOf
  <2>10. \/ \E i \in 1 .. n + 1, j \in Nat : j > stack'[i].next /\ InOperand(R, a, stack'[i].node, j)
         \/ a = f.node \/ InOperand(R, a, f.node, f.next)
    BY <2>4, <2>5 DEF AheadOf, InOperand, Operands
  <2>11. \A i \in 1 .. n + 1 : i \in 1 .. n \/ i = n + 1
    OBVIOUS
  <2> QED BY <2>4, <2>6, <2>7, <2>8, <2>9, <2>10, <2>11
<1>3. CASE NextOperand
  <2>0. stack # <<>>
    BY <1>3 DEF NextOperand, Returned
  <2>1. PICK n \in Nat \ {0} : n = Len(stack)
    BY <2>0, TopType DEF Inv
  <2> DEFINE f == [Top EXCEPT !.next = @ + 1]
  <2>2. stack \in Seq(Frames) /\ Top = stack[n] /\ Top \in Frames /\ Top.next \in Nat
    BY <2>0, <2>1, TopType DEF Inv, PathInv
  <2>3. f \in Frames /\ f.node = Top.node /\ f.next = Top.next + 1
    BY <2>2 DEF Frames
  <2>4. /\ Len(stack') = n /\ stack'[n] = f /\ \A i \in 1 .. n : i # n => stack'[i] = stack[i]
    BY <1>3, <2>1, <2>2, <2>3 DEF NextOperand, Advanced
  <2>5. Top' = f
    BY <2>4 DEF Top
  <2>6. Atom[Top.node].type \notin FieldAtoms
    BY <1>3 DEF Inv, PathInv, Waits, NextOperand, Returned, FieldAtoms, Composite
  <2>7. \/ \E i \in 1 .. n, j \in Nat : j > stack'[i].next /\ InOperand(R, a, stack'[i].node, j)
        \/ InOperand(R, a, f.node, f.next)
    BY <2>3, <2>4, <2>5, <2>6 DEF AheadOf, InOperand, Operands
  <2>8. \A i \in 1 .. n, j \in Nat : j > stack'[i].next =>
          stack'[i].node = stack[i].node /\ j > stack[i].next
    <3> TAKE i \in 1 .. n, j \in Nat
    <3>1. CASE i = n
      <4>1. stack'[i] = f /\ stack[i] = Top
        BY <2>2, <2>4, <3>1
      <4> QED BY <2>2, <2>3, <4>1
    <3>2. CASE i # n
      BY <2>4, <3>2
    <3> QED BY <3>1, <3>2
  <2>9. n \in 1 .. n /\ f.next \in Nat /\ f.next > stack[n].next /\ f.node = stack[n].node
    BY <2>2, <2>3
  <2> QED BY <2>1, <2>7, <2>8, <2>9 DEF AheadOf
<1>4. CASE Tick \/ UNCHANGED vars
  BY <1>4 DEF Tick, vars, AheadOf, InOperand, Operands, Top
<1> QED BY <1>1, <1>2, <1>3, <1>4 DEF Next, Step

(* An atom that has been read does not come again. *)
LEMMA ReadOnce ==
  ASSUME Inv, EvaluateField, NEW R, Reaches(R), NEW a, a = Top.node
  PROVE  ~AheadOf(R, a)'
<1> SUFFICES ASSUME AheadOf(R, a)' PROVE FALSE
  OBVIOUS
<1>1. stack # <<>> /\ Top.node \in Nodes /\ Atom[Top.node].type \in FieldAtoms
  BY TopType DEF Inv, EvaluateField, Calling
<1>2. Return(FieldValue) /\ FieldValue \in Values
  BY <1>1, FieldAtomType DEF EvaluateField, FieldValue
<1>3. PICK i \in 1 .. Len(stack) - 1, j \in Nat :
        j > stack[i].next /\ InOperand(R, a, stack[i].node, j)
  BY <1>1, <1>2, ReturnAhead
<1>4. PICK n \in Nat \ {0} : n = Len(stack) /\ Top = stack[n]
  BY <1>1, TopType DEF Inv
<1>5. stack[i] \in Frames /\ stack[i].node \in Nodes /\ stack[i].next \in Nat
  <2>1. stack \in Seq(Frames) /\ i \in 1 .. Len(stack)
    BY <1>3, <1>4 DEF Inv, PathInv
  <2>2. stack[i] \in Frames
    BY <2>1
  <2> QED BY <2>2 DEF Frames
<1>6. i + 1 \in 1 .. n /\ n \in 1 .. Len(stack)
  BY <1>3, <1>4
<1>7. Waits(stack[i]) /\ stack[i + 1].node = Operands(stack[i].node)[stack[i].next]
  BY <1>3 DEF Inv, PathInv
<1>8. R[stack[n].node] \subseteq R[stack[i + 1].node] /\ a \in R[stack[n].node]
  BY <1>1, <1>4, <1>6, AroundOf DEF Inv, ReachInv
<1>9. InOperand(R, a, stack[i].node, stack[i].next)
  BY <1>7, <1>8 DEF InOperand, Waits
<1>10. j = stack[i].next
  BY <1>3, <1>5, <1>9, OperandsApart
<1> QED BY <1>3, <1>5, <1>10

LEMMA AtomicKept ==
  ASSUME Inv, AtomicInv, [Next]_vars
  PROVE  AtomicInv'
<1> SUFFICES ASSUME NEW R, NEW a, Reaches(R), R[root] \cap TimeAtoms \subseteq {a}
             PROVE  /\ \E T \in started' .. clock' : RightAt(T)'
                    /\ AheadOf(R, a)' => \A T : RightAt(T)'
  BY NextKeeps DEF AtomicInv, Reaches, Around, Operands, TimeAtoms
<1>1. /\ \E T \in started .. clock : RightAt(T)
      /\ AheadOf(R, a) => \A T : RightAt(T)
  BY DEF AtomicInv
<1>2. /\ UNCHANGED <<context, root, started>> /\ clock' \in {clock, clock + 1}
      /\ \A T, V : Solves(V, T) /\ Exact(V) /\ Reads(T) => Exact(V)'
  BY NextKeeps
<1>3. \A T : RightAt(T) /\ Reads(T) => RightAt(T)'
  BY <1>2, EquationsFixed DEF RightAt
<1>4. started .. clock \subseteq started' .. clock' /\ clock \in started .. clock
  BY <1>2, BoundaryAssumption DEF Inv, PathInv
<1>5. CASE EvaluateField /\ Top.node \in TimeAtoms
  <2>1. Top.node = a
    BY <1>5, TopReached DEF EvaluateField, Calling
  <2>2. AheadOf(R, a)
    BY <1>5, <2>1 DEF AheadOf, EvaluateField, Calling
  <2>3. PICK T : T = clock
    OBVIOUS
  <2>4. Reads(T)
    BY <2>3 DEF Reads, FieldValue
  <2>5. RightAt(T)'
    BY <1>1, <1>3, <2>2, <2>4
  <2>6. ~AheadOf(R, a)'
    BY <1>5, <2>1, ReadOnce
  <2> QED BY <1>4, <2>3, <2>5, <2>6
<1>6. CASE ~(EvaluateField /\ Top.node \in TimeAtoms)
  <2>1. \A T : Reads(T)
    BY <1>6 DEF Reads
  <2>2. AheadOf(R, a)' => AheadOf(R, a)
    BY AheadShrinks
  <2> QED BY <1>1, <1>3, <1>4, <2>1, <2>2
<1> QED BY <1>5, <1>6

(* For every specification with one atom about the time, however long its   *)
(* evaluation takes: the result is the value the specification has at some  *)
(* moment between the call and the return.                                  *)
THEOREM OneReading == Spec => []OneReadingIsAtomic
<1>1. Init => Inv /\ AtomicInv
  BY InitHolds, InitAtomic
<1>2. Inv /\ AtomicInv /\ [Next]_vars => Inv' /\ AtomicInv'
  BY NextKeeps, AtomicKept
<1>3. Inv /\ AtomicInv => OneReadingIsAtomic
  <2> SUFFICES ASSUME Inv, AtomicInv, Finished, \A m, n \in Below \cap TimeAtoms : m = n
               PROVE  \E t \in started .. clock : ret = AtInstant(t)
    BY DEF OneReadingIsAtomic
  <2>1. PICK R : Reaches(R) /\ Below = R[root]
    BY BelowSolves
  <2>2. PICK a : R[root] \cap TimeAtoms \subseteq {a}
    BY <2>1
  <2>3. PICK t \in started .. clock : RightAt(t)
    BY <2>1, <2>2 DEF AtomicInv
  <2>4. PICK V : Solves(V, t) /\ AtInstant(t) = V[root]
    BY InstantSolves
  <2>5. stack = <<>> /\ ret # None
    BY DEF Finished, Inv, PathInv
  <2> QED BY <2>3, <2>4, <2>5 DEF RightAt, Exact
<1> QED BY <1>1, <1>2, <1>3, PTL DEF Spec
-----------------------------------------------------------------------------
(* A specification that is one field atom is evaluated in one step.         *)
LeafInv ==
  /\ started \in Nat /\ clock \in started .. MaxTime
  /\ Atom[root].type \in FieldAtoms =>
       \/ stack = <<[node |-> root, next |-> 1]>> /\ ret = None
       \/ stack = <<>> /\ \E t \in started .. clock : ret = FieldAtom(root, t)

LEMMA LeafKept == LeafInv /\ [Next]_vars => LeafInv'
<1> SUFFICES ASSUME LeafInv, [Next]_vars PROVE LeafInv'
  OBVIOUS
<1> DEFINE f == [node |-> root, next |-> 1]
<1>0. started \in Nat /\ clock \in Nat /\ started <= clock /\ clock <= MaxTime /\ MaxTime \in Nat
  BY BoundaryAssumption DEF LeafInv
<1>1. CASE Tick
  <2>1. UNCHANGED <<context, root, started, stack, ret>> /\ clock' = clock + 1 /\ clock < MaxTime
    BY <1>1 DEF Tick
  <2>2. \A t \in started .. clock : t \in started' .. clock' /\ FieldAtom(root, t)' = FieldAtom(root, t)
    <3> SUFFICES ASSUME NEW t \in started .. clock
                 PROVE  t \in started' .. clock' /\ FieldAtom(root, t)' = FieldAtom(root, t)
      OBVIOUS
    <3>1. t \in started' .. clock'
      BY <1>0, <2>1
    <3>2. FieldAtom(root, t)' = FieldAtom(root, t)
      BY <2>1 DEF FieldAtom, EvalEquals, EvalIn, EvalRange, EvalPresent, EvalOrder, EvalWithin,
                  EvalExpired, OfSeconds, OfInstant, At, Field, Has, Negation
    <3> QED BY <3>1, <3>2
  <2>3. clock' \in started' .. MaxTime /\ started' \in Nat
    BY <1>0, <2>1
  <2> QED BY <2>1, <2>2, <2>3 DEF LeafInv
<1>2. CASE Step
  <2>1. UNCHANGED <<context, root, clock, started>>
    BY <1>2 DEF Step, EvaluateField, Malformed, CallOperand, LoopEnds, ShortCircuit, NextOperand, Walk
  <2>2. CASE Atom[root].type \in FieldAtoms /\ stack = <<f>> /\ ret = None
    <3>1. Top = f /\ Len(stack) = 1
      BY <2>2 DEF Top
    <3>2. Atom[Top.node].type \in FieldAtoms /\ Atom[Top.node].type \notin Composite
      BY <2>2, <3>1 DEF FieldAtoms, Composite
    <3>3. EvaluateField
      BY <1>2, <2>2, <3>2 DEF Step, Malformed, CallOperand, LoopEnds, ShortCircuit, NextOperand,
                              HasOperands, Returned
    <3>4. stack' = SubSeq(<<f>>, 1, 0) /\ ret' = FieldAtom(root, clock)
      BY <2>2, <3>1, <3>3 DEF EvaluateField, Return, Popped
    <3>5. stack' = <<>>
      BY <3>4
    <3>6. FieldAtom(root, clock)' = FieldAtom(root, clock) /\ clock \in started .. clock
      BY <1>0, <2>1 DEF FieldAtom, EvalEquals, EvalIn, EvalRange, EvalPresent, EvalOrder, EvalWithin,
                  EvalExpired, OfSeconds, OfInstant, At, Field, Has, Negation
    <3>7. \E t \in started' .. clock' : ret' = FieldAtom(root, t)'
      BY <2>1, <3>4, <3>6
    <3> QED BY <2>1, <3>5, <3>7 DEF LeafInv
  <2>3. CASE Atom[root].type \in FieldAtoms /\ stack = <<>>
    BY <1>2, <2>3 DEF Step, EvaluateField, Malformed, CallOperand, LoopEnds, ShortCircuit, NextOperand,
                      HasOperands, Returned, Calling
  <2>4. CASE Atom[root].type \notin FieldAtoms
    BY <2>1, <2>4 DEF LeafInv
  <2> QED BY <2>2, <2>3, <2>4 DEF LeafInv
<1>3. CASE UNCHANGED vars
  <2>1. UNCHANGED <<context, root, clock, started, stack, ret>>
    BY <1>3 DEF vars
  <2>2. \A t : FieldAtom(root, t)' = FieldAtom(root, t)
    BY <2>1 DEF FieldAtom, EvalEquals, EvalIn, EvalRange, EvalPresent, EvalOrder, EvalWithin,
                EvalExpired, OfSeconds, OfInstant, At, Field, Has, Negation
  <2> QED BY <2>1, <2>2 DEF LeafInv
<1> QED BY <1>1, <1>2, <1>3 DEF Next

(* num_seconds, by its borders in ticks.                                    *)
LEMMA SecondsBorders ==
  ASSUME NEW d \in Int, NEW s \in Nat
  PROVE  /\ s > 0 => (Seconds(d) < s <=> d < s * TicksPerSecond)
         /\ Seconds(d) > s <=> d >= (s + 1) * TicksPerSecond
         /\ Seconds(d) \in 0 .. s <=> -TicksPerSecond < d /\ d < (s + 1) * TicksPerSecond
<1> DEFINE T == TicksPerSecond
<1>0. T \in Nat /\ T > 0
  BY BoundaryAssumption
<1> HIDE DEF T
<1>1. CASE d >= 0
  <2>1. PICK q \in Int : q = d \div T
    BY <1>0
  <2>2. q * T <= d /\ d < (q + 1) * T /\ q >= 0
    BY <1>0, <1>1, <2>1
  <2>3. \A k \in Nat : q < k <=> d < k * T
    <3> SUFFICES ASSUME NEW k \in Nat PROVE q < k <=> d < k * T
      OBVIOUS
    <3>1. CASE q < k
      <4>1. q + 1 <= k
        BY <3>1
      <4>2. (q + 1) * T <= k * T
        BY <1>0, <4>1
      <4>3. (q + 1) * T \in Int /\ k * T \in Int
        BY <1>0
      <4> QED BY <2>2, <3>1, <4>2, <4>3
    <3>2. CASE k <= q
      <4>1. k * T <= q * T
        BY <1>0, <3>2
      <4>2. q * T \in Int /\ k * T \in Int
        BY <1>0
      <4> QED BY <2>2, <3>2, <4>1, <4>2
    <3> QED BY <3>1, <3>2
  <2>4. Seconds(d) = q
    BY <1>1, <2>1 DEF Seconds, T
  <2>5. q < s <=> d < s * T
    BY <2>3
  <2>6. q < s + 1 <=> d < (s + 1) * T
    <3>1. s + 1 \in Nat
      OBVIOUS
    <3> QED BY <2>3, <3>1
  <2>7. (s + 1) * T \in Int /\ s * T \in Int
    BY <1>0
  <2> QED BY <1>0, <1>1, <2>2, <2>4, <2>5, <2>6, <2>7 DEF T
<1>2. CASE d < 0
  <2>1. PICK q \in Int : q = (-d) \div T
    BY <1>0
  <2>2. q * T <= -d /\ -d < (q + 1) * T /\ q >= 0
    BY <1>0, <1>2, <2>1
  <2>3. Seconds(d) = -q
    BY <1>2, <2>1 DEF Seconds, T
  <2>4. q = 0 <=> -T < d
    <3>1. CASE q = 0
      BY <1>0, <2>2, <3>1
    <3>2. CASE q >= 1
      <4>1. T <= q * T
        BY <1>0, <3>2
      <4>2. q * T \in Int
        BY <1>0
      <4> QED BY <1>0, <2>2, <3>2, <4>1, <4>2
    <3> QED BY <2>2, <3>1, <3>2
  <2>5. (s + 1) * T \in Int /\ (s + 1) * T >= 0 /\ s * T \in Int /\ s * T >= 0
    BY <1>0
  <2> QED BY <1>0, <1>2, <2>2, <2>3, <2>4, <2>5 DEF T
<1> QED BY <1>1, <1>2

LEMMA LeafInitially == Init => LeafInv
  BY BoundaryAssumption DEF Init, LeafInv

(* The age and window atoms answer to the tick, for every context, number   *)
(* of seconds and resolution of the clock.                                  *)
THEOREM Windows == Spec => []WindowsToTheTick
<1>1. LeafInv => WindowsToTheTick
  <2> SUFFICES ASSUME LeafInv, Finished, Atom[root].type \in WindowAtoms,
                      Field(root).type = "string", At(root) \in Int, Atom[root].seconds \in Nat,
                      Atom[root].type = "age_lt" => Atom[root].seconds > 0
               PROVE  \E t \in started .. clock : ret = Truth(InWindow(root, t))
    BY DEF WindowsToTheTick
  <2>1. PICK t \in started .. clock : ret = FieldAtom(root, t)
    BY DEF LeafInv, Finished, WindowAtoms, FieldAtoms
  <2>2. t \in Int
    BY DEF LeafInv
  <2> DEFINE s == Atom[root].seconds
  <2> DEFINE d == t - At(root)
  <2>3. d \in Int /\ -d \in Int /\ At(root) - t = -d /\ s \in Nat
    BY <2>2
  <2>4. \A p : OfSeconds(root, p) = Truth(p)
    <3>1. At(root) # Unparsable /\ s # None
      BY BoundaryAssumption
    <3> QED BY <3>1 DEF OfSeconds, OfInstant
  <2>5. CASE Atom[root].type = "age_lt"
    <3>1. FieldAtom(root, t) = Truth(Seconds(d) < s)
      BY <2>4, <2>5 DEF FieldAtom
    <3>2. Seconds(d) < s <=> d < s * TicksPerSecond
      BY <2>3, <2>5, SecondsBorders
    <3>3. InWindow(root, t) <=> d < s * TicksPerSecond
      BY <2>5 DEF InWindow
    <3> QED BY <2>1, <3>1, <3>2, <3>3 DEF Truth
  <2>6. CASE Atom[root].type = "age_gt"
    <3>1. FieldAtom(root, t) = Truth(Seconds(d) > s)
      BY <2>4, <2>6 DEF FieldAtom
    <3>2. Seconds(d) > s <=> d >= (s + 1) * TicksPerSecond
      BY <2>3, SecondsBorders
    <3>3. InWindow(root, t) <=> d >= (s + 1) * TicksPerSecond
      BY <2>6 DEF InWindow
    <3> QED BY <2>1, <3>1, <3>2, <3>3 DEF Truth
  <2>7. CASE Atom[root].type = "within_last"
    <3>1. FieldAtom(root, t) = Truth(Seconds(d) \in 0 .. s)
      BY <2>4, <2>7 DEF FieldAtom
    <3>2. Seconds(d) \in 0 .. s <=> -TicksPerSecond < d /\ d < (s + 1) * TicksPerSecond
      BY <2>3, SecondsBorders
    <3>3. InWindow(root, t) <=> -TicksPerSecond < d /\ d < (s + 1) * TicksPerSecond
      BY <2>7 DEF InWindow
    <3> QED BY <2>1, <3>1, <3>2, <3>3 DEF Truth
  <2>8. CASE Atom[root].type = "within_next"
    <3>1. FieldAtom(root, t) = Truth(Seconds(-d) \in 0 .. s)
      BY <2>3, <2>4, <2>8 DEF FieldAtom
    <3>2. Seconds(-d) \in 0 .. s <=> -TicksPerSecond < -d /\ -d < (s + 1) * TicksPerSecond
      BY <2>3, SecondsBorders
    <3>3. InWindow(root, t) <=> -TicksPerSecond < -d /\ -d < (s + 1) * TicksPerSecond
      BY <2>8 DEF InWindow
    <3> QED BY <2>1, <3>1, <3>2, <3>3 DEF Truth
  <2> QED BY <2>5, <2>6, <2>7, <2>8 DEF WindowAtoms
<1> QED
  BY <1>1, LeafInitially, LeafKept, PTL DEF Spec

(* A field the context does not have passes no test of its value, in every  *)
(* context and for every atom that does not name null.                      *)
THEOREM AbsentField == Spec => []AbsentFails
<1>1. LeafInv => AbsentFails
  <2> SUFFICES ASSUME LeafInv, Finished, Atom[root].type \in FieldAtoms \ {"not_expired"},
                      ~Has(root), ~NamesNull(root)
               PROVE  ret # "true"
    BY DEF AbsentFails
  <2>1. PICK t \in started .. clock : ret = FieldAtom(root, t)
    BY DEF LeafInv, Finished
  <2>2. Field(root) = Null /\ Field(root).type = "null"
    BY DEF Field, Null, Has
  <2>3. \A p : OfInstant(root, p) = "false"
    BY <2>2 DEF OfInstant
  <2>4. \A p : OfSeconds(root, p) # "true"
    BY <2>3 DEF OfSeconds
  <2>5. EvalExpired(root, t) # "true"
    BY <2>3 DEF EvalExpired
  <2>6. CASE Atom[root].type \in {"expired", "age_lt", "age_gt", "within_last", "within_next"}
    BY <2>1, <2>4, <2>5, <2>6 DEF FieldAtom
  <2>7. CASE Atom[root].type = "equals"
    BY <2>1, <2>2, <2>7 DEF FieldAtom, EvalEquals, NamesNull, Truth
  <2>8. CASE Atom[root].type = "in"
    BY <2>1, <2>2, <2>8 DEF FieldAtom, EvalIn, NamesNull, Truth
  <2>9. CASE Atom[root].type = "range"
    BY <2>1, <2>2, <2>9 DEF FieldAtom, EvalRange, NamesNull, Truth, Comparable
  <2>10. CASE Atom[root].type = "present"
    BY <2>1, <2>10 DEF FieldAtom, EvalPresent, Truth
  <2>11. CASE Atom[root].type \in {"before", "after"}
    BY <2>1, <2>2, <2>11 DEF FieldAtom, EvalOrder, NamesNull, Comparable
  <2>12. CASE Atom[root].type = "within"
    BY <2>1, <2>2, <2>12 DEF FieldAtom, EvalWithin, NamesNull, Truth, Comparable
  <2> QED
    BY <2>6, <2>7, <2>8, <2>9, <2>10, <2>11, <2>12 DEF FieldAtoms
<1> QED
  BY <1>1, LeafInitially, LeafKept, PTL DEF Spec
=============================================================================
