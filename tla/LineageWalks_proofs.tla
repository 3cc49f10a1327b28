------------------------ MODULE LineageWalks_proofs ------------------------
(***************************************************************************)
(* Proofs about the lineage walks of the four libraries, for every set of  *)
(* documents, every store, every budget and any number of changes of the   *)
(* store during a walk.                                                     *)
(***************************************************************************)
EXTENDS LineageWalks, RecursionTheorems, SequenceTheorems, FiniteSetTheorems, TLAPS

Frames == [at : Bundles, next : Nat \ {0}, seen : SUBSET Ids]

(* The references that are answered by a bundle that needs no further look. *)
Answered == {ref \in Refs : \E p \in Bundles : Answers(Rule, ref, p) /\ Promise!Settled(p)}

(* The bundles all of whose references are answered. *)
Finished == {b \in Bundles : \A i \in DOMAIN RefsOf[b] : RefsOf[b][i] \in Answered}

(* Before the walk nothing has been looked at but the bundle itself.        *)
StartInv == stack = <<>> => found = {root} /\ shared = {}

(* The calls on the stack are a line of descent.                            *)
LineInv ==
  \A k \in 1 .. Len(stack) :
    /\ stack[k].at \in found
    /\ k < Len(stack) =>
         /\ stack[k].next <= Len(RefsOf[stack[k].at])
         /\ Answers(Rule, RefsOf[stack[k].at][stack[k].next], stack[k + 1].at)

(* What a call has gone through is answered.                                *)
PassedInv ==
  \A k \in 1 .. Len(stack) : \A i \in 1 .. stack[k].next - 1 :
    RefsOf[stack[k].at][i] \in Answered

(* Every bundle the walk went into is still on the stack or finished.       *)
FinishedInv ==
  stack # <<>> =>
    \A b \in found : b \in Finished \/ \E k \in 1 .. Len(stack) : stack[k].at = b

(* rc remembers only ids of bundles it went into.                           *)
MemoryInv == walker = "rc" => \A n \in shared : \E q \in found : IdOf[q] = n

(* rc goes only into bundles that have an id.                               *)
NamedInv == walker = "rc" => \A k \in 1 .. Len(stack) : IdOf[stack[k].at] # NoId

IInv == NamedInv /\ TypeOK /\ StartInv /\ LineInv /\ PassedInv /\ FinishedInv /\ MemoryInv

-----------------------------------------------------------------------------
LEMMA BundleType ==
  ASSUME NEW b \in Bundles
  PROVE  /\ IdOf[b] \in Ids \cup {NoId}
         /\ RefsOf[b] \in Seq(Refs)
         /\ Len(RefsOf[b]) \in Nat
         /\ DOMAIN RefsOf[b] = 1 .. Len(RefsOf[b])
         /\ \A i \in 1 .. Len(RefsOf[b]) : RefsOf[b][i] \in Refs
BY ParentRefsAssumption

LEMMA BudgetNat == Budget \in Nat
BY WalksAssumption DEF Budget

LEMMA BudgetFixed ==
  ASSUME UNCHANGED walker
  PROVE  Budget' = Budget
BY DEF Budget

(* The entry checks give one of their verdicts. *)
LEMMA EntryVerdicts ==
  ASSUME NEW p \in Bundles
  PROVE  /\ CopyingEntry(p) \in {"skip", "depth", "cycle", "enter"}
         /\ RcEntry(p) \in {"depth", "no-id", "cycle", "skip", "enter"}
         /\ RootEntry \in {"depth", "no-id", "cycle", "missing", "error", "skip", "enter"}
         /\ CopyingEntry(p) = "skip" => RefsOf[p] = <<>>
         /\ RcEntry(p) = "skip" => IdOf[p] \in shared
         /\ RcEntry(p) = "enter" => IdOf[p] # NoId
<1>1. CopyingEntry(p) \in {"skip", "depth", "cycle", "enter"}
  BY DEF CopyingEntry
<1>2. RcEntry(p) \in {"depth", "no-id", "cycle", "skip", "enter"}
  BY DEF RcEntry
<1>3. RootEntry \in {"depth", "no-id", "cycle", "missing", "error", "skip", "enter"}
  BY DEF RootEntry, PyEntry, CopyingEntry, RcEntry
<1>4. CopyingEntry(p) = "skip" => RefsOf[p] = <<>>
  BY DEF CopyingEntry
<1>5. RcEntry(p) = "skip" => IdOf[p] \in shared
  BY DEF RcEntry
<1>6. RcEntry(p) = "enter" => IdOf[p] # NoId
  BY DEF RcEntry
<1> QED BY <1>1, <1>2, <1>3, <1>4, <1>5, <1>6

LEMMA ParentVerdicts ==
  ASSUME NEW ref, NEW p \in Bundles
  PROVE  /\ ParentVerdict(ref, p) \in Verdicts \cup {"skip", "enter"}
         /\ ParentVerdict(ref, p) \notin {"none", "valid"}
         /\ ParentVerdict(ref, p) \in {"skip", "enter"} => Answers(Rule, ref, p)
         /\ ParentVerdict(ref, p) = "skip" =>
              RefsOf[p] = <<>> \/ (walker = "rc" /\ IdOf[p] \in shared)
         /\ ParentVerdict(ref, p) = "enter" /\ walker = "rc" => IdOf[p] # NoId
<1>1. /\ ParentVerdict(ref, p) \in Verdicts \cup {"skip", "enter"}
      /\ ParentVerdict(ref, p) \notin {"none", "valid"}
  BY EntryVerdicts DEF ParentVerdict, Verdicts
<1>2. ParentVerdict(ref, p) \in {"skip", "enter"} => Answers(Rule, ref, p)
  BY DEF ParentVerdict, Matches
<1>3. ParentVerdict(ref, p) = "skip" =>
              RefsOf[p] = <<>> \/ (walker = "rc" /\ IdOf[p] \in shared)
  BY EntryVerdicts DEF ParentVerdict
<1>4. ParentVerdict(ref, p) = "enter" /\ walker = "rc" => IdOf[p] # NoId
  BY EntryVerdicts DEF ParentVerdict
<1> QED BY <1>1, <1>2, <1>3, <1>4

LEMMA LookupType ==
  ASSUME TypeOK, NEW ref \in Refs
  PROVE  Lookup(ref) \in SUBSET Bundles
BY DEF Lookup, TypeOK, Refs

(* The reference under the cursor. *)
LEMMA RefType ==
  ASSUME TypeOK, HasRef
  PROVE  /\ Len(stack) \in Nat \ {0}
         /\ Top \in Frames /\ Top = stack[Len(stack)]
         /\ Top.next \in 1 .. Len(RefsOf[Top.at])
         /\ Ref \in Refs /\ Ref.id \in Ids
<1>1. stack \in Seq(Frames) /\ stack # <<>>
  BY DEF TypeOK, HasRef, Frames
<1>2. Len(stack) \in Nat \ {0} /\ Top \in Frames /\ Top = stack[Len(stack)]
  BY <1>1 DEF Top
<1>3. Top.next \in 1 .. Len(RefsOf[Top.at])
  BY <1>2, BundleType DEF HasRef, Frames
<1>4. Ref \in Refs /\ Ref.id \in Ids
  BY <1>2, <1>3, BundleType DEF Ref, Refs, Frames
<1> QED BY <1>2, <1>3, <1>4

(* More bundles looked at leave answered references answered. *)
LEMMA AnsweredGrows ==
  ASSUME UNCHANGED walker, found \subseteq found'
  PROVE  Answered \subseteq Answered' /\ Finished \subseteq Finished'
<1>1. Answered \subseteq Answered'
  BY DEF Answered, Answers, Rule, Promise!Settled
<1> QED BY <1>1 DEF Finished

LEMMA VocabularyFixed ==
  ASSUME UNCHANGED <<walker, found>>
  PROVE  Answered' = Answered /\ Finished' = Finished
<1>1. Answered' = Answered
  BY DEF Answered, Answers, Rule, Promise!Settled
<1> QED BY <1>1 DEF Finished

LEMMA SettledBySelf ==
  ASSUME NEW p \in Bundles, NEW ref \in Refs, Answers(Rule, ref, p), p \in found
  PROVE  ref \in Answered
BY DEF Answered, Promise!Settled

-----------------------------------------------------------------------------
LEMMA InitEstablishes == Init => IInv
<1> SUFFICES ASSUME Init PROVE IInv
  OBVIOUS
<1>1. TypeOK
  BY WalksAssumption DEF Init, TypeOK, Verdicts
<1> QED BY <1>1 DEF Init, IInv, StartInv, LineInv, PassedInv, FinishedInv, MemoryInv, NamedInv

(* A call that returns changes nothing but the verdict. *)
LEMMA ReturnPreserves ==
  ASSUME IInv, NEW v \in Verdicts, Return(v)
  PROVE  IInv'
<1>1. UNCHANGED <<walker, root, store, writes, stack, shared, found>> /\ verdict' = v
  BY DEF Return
<1>2. Answered' = Answered /\ Finished' = Finished
  BY <1>1, VocabularyFixed
<1>3. TypeOK'
  BY <1>1 DEF IInv, TypeOK
<1> QED BY <1>1, <1>2, <1>3 DEF IInv, StartInv, LineInv, PassedInv, FinishedInv, MemoryInv, NamedInv, Rule

(* Entering a bundle that the last reference on the stack is answered by.   *)
LEMMA EnterPreserves ==
  ASSUME IInv, NEW p \in Bundles, Enter(p),
         stack = <<>> => p = root,
         stack # <<>> => HasRef /\ Answers(Rule, Ref, p),
         walker = "rc" => IdOf[p] # NoId
  PROVE  IInv'
<1> DEFINE n == Len(stack)
           f == [at |-> p, next |-> 1, seen |-> OnPath \cup ({IdOf[p]} \ {NoId})]
<1> USE DEF IInv
<1>1. /\ stack \in Seq(Frames) /\ n \in Nat
      /\ f \in Frames
  <2>1. stack \in Seq(Frames)
    BY DEF TypeOK, Frames
  <2>2. OnPath \in SUBSET Ids
    <3>1. CASE stack = <<>>
      BY <3>1 DEF OnPath
    <3>2. CASE stack # <<>>
      <4>1. Top \in Frames
        BY <2>1, <3>2 DEF Top
      <4> QED BY <4>1, <3>2 DEF OnPath, Frames
    <3> QED BY <3>1, <3>2
  <2> QED BY <2>1, <2>2, BundleType DEF Frames
<1>2. /\ stack' \in Seq(Frames) /\ Len(stack') = n + 1
      /\ \A k \in 1 .. n : stack'[k] = stack[k]
      /\ stack'[n + 1] = f
      /\ stack' # <<>>
  <2>1. stack' = Append(stack, f)
    BY DEF Enter
  <2> QED BY <1>1, <2>1
<1>3. UNCHANGED <<walker, root, store, writes, verdict>> /\ found' = found \cup {p}
  BY DEF Enter
<1>4. TypeOK'
  <2>1. shared' \in SUBSET Ids
    <3>1. stack # <<>> => Ref.id \in Ids
      BY RefType
    <3> QED BY <3>1 DEF Enter, TypeOK
  <2>2. \A k \in 1 .. n + 1 : stack'[k].next <= Len(RefsOf[stack'[k].at]) + 1
    <3> TAKE k \in 1 .. n + 1
    <3>1. CASE k = n + 1
      BY <3>1, <1>1, <1>2, BundleType
    <3>2. CASE k \in 1 .. n
      BY <3>2, <1>2 DEF TypeOK
    <3> QED BY <3>1, <3>2, <1>1
  <2>3. stack' \in Seq([at : Bundles, next : Nat \ {0}, seen : SUBSET Ids])
    BY <1>2 DEF Frames
  <2> QED BY <1>2, <1>3, <2>1, <2>2, <2>3 DEF TypeOK
<1>5. StartInv'
  BY <1>2 DEF StartInv
<1>6. LineInv'
  <2> SUFFICES ASSUME NEW k \in 1 .. n + 1
               PROVE  /\ stack'[k].at \in found'
                      /\ k < n + 1 =>
                           /\ stack'[k].next <= Len(RefsOf[stack'[k].at])
                           /\ Answers(Rule, RefsOf[stack'[k].at][stack'[k].next], stack'[k + 1].at)
    BY <1>2, <1>3 DEF LineInv, Rule
  <2>1. CASE k = n + 1
    BY <2>1, <1>2, <1>3
  <2>2. CASE k < n
    BY <2>2, <1>1, <1>2, <1>3 DEF LineInv
  <2>3. CASE k = n
    <3>1. stack # <<>> /\ Top = stack[n]
      BY <2>3, <1>1 DEF Top
    <3>2. Answers(Rule, RefsOf[stack[n].at][stack[n].next], p)
      BY <3>1 DEF Ref
    <3>3. stack[n].next <= Len(RefsOf[stack[n].at])
      BY <3>1 DEF HasRef
    <3> QED BY <2>3, <3>2, <3>3, <1>1, <1>2, <1>3 DEF LineInv
  <2> QED BY <2>1, <2>2, <2>3, <1>1
<1>7. Answered \subseteq Answered' /\ Finished \subseteq Finished'
  BY <1>3, AnsweredGrows
<1>8. PassedInv'
  <2> SUFFICES ASSUME NEW k \in 1 .. n + 1, NEW i \in 1 .. stack'[k].next - 1
               PROVE  RefsOf[stack'[k].at][i] \in Answered'
    BY <1>2 DEF PassedInv
  <2>1. CASE k = n + 1
    BY <2>1, <1>2
  <2>2. CASE k \in 1 .. n
    BY <2>2, <1>2, <1>7 DEF PassedInv
  <2> QED BY <2>1, <2>2, <1>1
<1>9. FinishedInv'
  <2> SUFFICES ASSUME NEW b \in found'
               PROVE  b \in Finished' \/ \E k \in 1 .. n + 1 : stack'[k].at = b
    BY <1>2 DEF FinishedInv
  <2>1. CASE b = p
    BY <2>1, <1>1, <1>2
  <2>2. CASE b \in found /\ stack # <<>>
    <3>1. CASE b \in Finished
      BY <3>1, <1>7
    <3>2. CASE \E k \in 1 .. n : stack[k].at = b
      BY <3>2, <1>1, <1>2
    <3> QED BY <2>2, <3>1, <3>2 DEF FinishedInv
  <2>3. CASE b \in found /\ stack = <<>>
    BY <2>1, <2>3 DEF StartInv
  <2> QED BY <2>1, <2>2, <2>3, <1>3
<1>10. MemoryInv'
  <2>1. walker = "rc" => shared' = shared
    BY DEF Enter
  <2> QED BY <2>1, <1>3 DEF MemoryInv
<1>11. NamedInv'
  BY <1>1, <1>2, <1>3 DEF NamedInv
<1> QED BY <1>4, <1>5, <1>6, <1>8, <1>9, <1>10, <1>11

(* A call goes on to its next reference when the one it was at is answered. *)
LEMMA AdvancePreserves ==
  ASSUME IInv, NEW m \in 1 .. Len(stack),
         stack[m].next <= Len(RefsOf[stack[m].at]),
         RefsOf[stack[m].at][stack[m].next] \in Answered,
         Len(stack') = m, stack' \in Seq(Frames),
         \A k \in 1 .. m - 1 : stack'[k] = stack[k],
         stack'[m].at = stack[m].at, stack'[m].next = stack[m].next + 1,
         \A k \in m + 1 .. Len(stack) : stack[k].at \in Finished,
         UNCHANGED <<walker, root, store, writes, found, verdict>>,
         shared' \in SUBSET Ids, MemoryInv'
  PROVE  IInv'
<1> USE DEF IInv
<1>1. /\ stack \in Seq(Frames) /\ Len(stack) \in Nat /\ m \in Nat \ {0}
      /\ stack[m] \in Frames
  <2>1. stack \in Seq(Frames)
    BY DEF TypeOK, Frames
  <2>2. Len(stack) \in Nat
    BY <2>1
  <2> QED BY <2>1, <2>2
<1>2. /\ stack'[m].at = stack[m].at
      /\ stack'[m].next = stack[m].next + 1
      /\ stack[m].next \in Nat
      /\ stack' # <<>>
  BY <1>1 DEF Frames
<1>3. Answered' = Answered /\ Finished' = Finished
  BY VocabularyFixed
<1>0. \A k \in 1 .. m : /\ (k = m) \/ (k \in 1 .. m - 1)
                        /\ k \in 1 .. Len(stack)
                        /\ k < m => k + 1 \in 1 .. m /\ k < Len(stack)
  BY <1>1
<1>4. \A k \in 1 .. m : stack'[k].at = stack[k].at
  <2> TAKE k \in 1 .. m
  <2>1. CASE k = m
    BY <2>1
  <2>2. CASE k \in 1 .. m - 1
    <3>1. stack'[k] = stack[k]
      BY <2>2
    <3> QED BY <3>1
  <2> QED BY <2>1, <2>2, <1>0
<1>5. TypeOK'
  <2>1. \A k \in 1 .. m : stack'[k].next <= Len(RefsOf[stack'[k].at]) + 1
    <3> TAKE k \in 1 .. m
    <3>1. CASE k = m
      <4>1. Len(RefsOf[stack[m].at]) \in Nat
        BY <1>1, BundleType DEF Frames
      <4> QED BY <3>1, <4>1, <1>2
    <3>2. CASE k \in 1 .. m - 1
      <4>1. stack'[k] = stack[k] /\ k \in 1 .. Len(stack)
        BY <3>2, <1>0
      <4> QED BY <4>1 DEF TypeOK
    <3> QED BY <3>1, <3>2, <1>0
  <2> QED BY <2>1 DEF TypeOK, Frames
<1>6. StartInv'
  BY <1>2 DEF StartInv
<1>7. LineInv'
  <2> SUFFICES ASSUME NEW k \in 1 .. m
               PROVE  /\ stack'[k].at \in found
                      /\ k < m =>
                           /\ stack'[k].next <= Len(RefsOf[stack'[k].at])
                           /\ Answers(Rule, RefsOf[stack'[k].at][stack'[k].next], stack'[k + 1].at)
    BY DEF LineInv, Rule
  <2>1. stack'[k].at \in found
    BY <1>1, <1>4 DEF LineInv
  <2>2. CASE k < m
    <3>1. stack'[k] = stack[k] /\ stack'[k + 1].at = stack[k + 1].at
      BY <2>2, <1>1, <1>4
    <3>2. k \in 1 .. Len(stack) /\ k < Len(stack)
      BY <2>2, <1>0
    <3> QED BY <2>1, <3>1, <3>2 DEF LineInv
  <2> QED BY <2>1, <2>2, <1>1
<1>8. PassedInv'
  <2> SUFFICES ASSUME NEW k \in 1 .. m, NEW i \in 1 .. stack'[k].next - 1
               PROVE  RefsOf[stack'[k].at][i] \in Answered
    BY <1>3 DEF PassedInv
  <2>1. CASE k \in 1 .. m - 1
    <3>1. stack'[k] = stack[k] /\ k \in 1 .. Len(stack)
      BY <2>1, <1>0
    <3> QED BY <3>1 DEF PassedInv
  <2>2. CASE k = m
    <3>0. m \in 1 .. Len(stack)
      OBVIOUS
    <3>1. i \in 1 .. stack[m].next
      <4>1. stack'[k].next - 1 = stack[m].next
        BY <2>2, <1>2
      <4> QED BY <4>1
    <3>2. CASE i = stack[m].next
      BY <2>2, <3>2, <1>2
    <3>3. CASE i \in 1 .. stack[m].next - 1
      BY <2>2, <3>0, <3>3, <1>2 DEF PassedInv
    <3> QED BY <3>1, <3>2, <3>3, <1>2
  <2> QED BY <2>1, <2>2, <1>0
<1>9. FinishedInv'
  <2> SUFFICES ASSUME NEW b \in found
               PROVE  b \in Finished \/ \E k \in 1 .. m : stack'[k].at = b
    BY <1>2, <1>3 DEF FinishedInv
  <2>1. CASE b \in Finished
    BY <2>1
  <2>2. ASSUME NEW k \in 1 .. Len(stack), stack[k].at = b
        PROVE  b \in Finished \/ \E j \in 1 .. m : stack'[j].at = b
    <3>1. CASE k \in 1 .. m
      BY <3>1, <2>2, <1>4
    <3>2. CASE k \in m + 1 .. Len(stack)
      BY <3>2, <2>2
    <3> QED BY <3>1, <3>2, <1>1
  <2>3. stack # <<>>
    BY <1>1
  <2> QED BY <2>1, <2>2, <2>3 DEF FinishedInv
<1>10. NamedInv'
  BY <1>1, <1>4 DEF NamedInv
<1> QED BY <1>5, <1>6, <1>7, <1>8, <1>9, <1>10

LEMMA SkipPreserves == ASSUME IInv, SkipParent PROVE IInv'
<1> USE DEF IInv
<1> DEFINE n == Len(stack)
<1>1. /\ n \in Nat \ {0} /\ Top = stack[n] /\ Top \in Frames
      /\ Top.next \in 1 .. Len(RefsOf[Top.at])
      /\ Ref \in Refs
  BY RefType DEF SkipParent
<1>2. PICK p \in Lookup(Ref) : ParentVerdict(Ref, p) = "skip"
  BY DEF SkipParent
<1>3. p \in Bundles
  BY <1>1, <1>2, LookupType
<1>4. Answers(Rule, Ref, p) /\ (RefsOf[p] = <<>> \/ (walker = "rc" /\ IdOf[p] \in shared))
  BY <1>2, <1>3, ParentVerdicts
<1>5. Ref \in Answered
  <2>1. Promise!Settled(p)
    BY <1>4 DEF MemoryInv, Promise!Settled, Rule
  <2> QED BY <1>1, <1>3, <1>4, <2>1 DEF Answered
<1>6. /\ stack \in Seq(Frames)
      /\ stack' = [stack EXCEPT ![n].next = @ + 1]
      /\ UNCHANGED <<walker, root, store, writes, shared, found, verdict>>
  BY DEF SkipParent, TypeOK, Frames
<1>7. [Top EXCEPT !.next = @ + 1] \in Frames
  BY <1>1 DEF Frames
<1>8. /\ stack' \in Seq(Frames) /\ Len(stack') = n
      /\ \A k \in 1 .. n - 1 : stack'[k] = stack[k]
      /\ stack'[n].at = stack[n].at /\ stack'[n].next = stack[n].next + 1
  <2>1. stack' = [stack EXCEPT ![n] = [Top EXCEPT !.next = @ + 1]]
    BY <1>1, <1>6
  <2>2. /\ stack' \in Seq(Frames) /\ Len(stack') = n
        /\ \A k \in 1 .. n - 1 : stack'[k] = stack[k]
        /\ stack'[n] = [Top EXCEPT !.next = @ + 1]
    BY <1>1, <1>6, <1>7, <2>1
  <2> QED BY <1>1, <2>2 DEF Frames
<1>9. MemoryInv' /\ shared' \in SUBSET Ids
  BY <1>6 DEF MemoryInv, TypeOK
<1>10. RefsOf[stack[n].at][stack[n].next] \in Answered
  BY <1>1, <1>5 DEF Ref
<1>11. n \in 1 .. Len(stack) /\ \A k \in n + 1 .. Len(stack) : stack[k].at \in Finished
  BY <1>1
<1> QED BY <1>1, <1>6, <1>8, <1>9, <1>10, <1>11, AdvancePreserves

(* A call that returns has finished its bundle. *)
LEMMA TopFinished ==
  ASSUME IInv, stack # <<>>, Top.next > Len(RefsOf[Top.at])
  PROVE  /\ Len(stack) \in Nat \ {0} /\ Top = stack[Len(stack)] /\ Top \in Frames
         /\ Top.at \in Finished /\ Top.at \in found
<1>1. /\ stack \in Seq(Frames) /\ Len(stack) \in Nat \ {0}
      /\ Top = stack[Len(stack)] /\ Top \in Frames
  <2>1. stack \in Seq(Frames)
    BY DEF IInv, TypeOK, Frames
  <2> QED BY <2>1 DEF Top
<1>2. \A i \in 1 .. Len(RefsOf[Top.at]) : RefsOf[Top.at][i] \in Answered
  BY <1>1, BundleType DEF IInv, PassedInv, Frames
<1>3. Top.at \in Finished
  BY <1>1, <1>2, BundleType DEF Finished, Frames
<1> QED BY <1>1, <1>3 DEF IInv, LineInv

LEMMA LeavePreserves == ASSUME IInv, Leave PROVE IInv'
<1> USE DEF IInv
<1> DEFINE n == Len(stack)
<1>1. /\ n \in Nat \ {0} /\ Top = stack[n] /\ Top \in Frames
      /\ Top.at \in Finished /\ Top.at \in found
      /\ stack \in Seq(Frames) /\ stack # <<>>
  BY TopFinished DEF Leave, TypeOK, Frames
<1>2. UNCHANGED <<walker, root, store, writes, found>>
  BY DEF Leave
<1>3. shared' \in SUBSET Ids /\ MemoryInv'
  <2>1. Top.at \in Bundles /\ (walker = "rc" => IdOf[Top.at] \in Ids)
    BY <1>1, BundleType DEF NamedInv, Frames
  <2>2. shared' = IF walker = "rc" THEN shared \cup {IdOf[Top.at]} ELSE shared
    BY DEF Leave
  <2> QED BY <1>1, <1>2, <2>1, <2>2 DEF MemoryInv, TypeOK
<1>4. CASE n = 1
  <2>1. stack' = stack /\ verdict' = "valid"
    BY <1>4 DEF Leave
  <2>2. Answered' = Answered /\ Finished' = Finished
    BY <1>2, VocabularyFixed
  <2>3. TypeOK'
    BY <1>2, <1>3, <2>1 DEF TypeOK, Verdicts
  <2>4. StartInv'
    BY <1>1, <2>1 DEF StartInv
  <2> QED BY <1>2, <1>3, <2>1, <2>2, <2>3, <2>4
          DEF LineInv, PassedInv, FinishedInv, NamedInv, Rule
<1>5. CASE n # 1
  <2> DEFINE m == n - 1
  <2>1. m \in 1 .. n /\ m \in Nat \ {0}
    BY <1>1, <1>5
  <2>2. /\ Caller \in Seq(Frames) /\ Len(Caller) = m
        /\ \A k \in 1 .. m : Caller[k] = stack[k]
    BY <1>1, <2>1, SubSeqProperties DEF Caller
  <2>3. stack' = [Caller EXCEPT ![m].next = @ + 1] /\ verdict' = verdict
    BY <1>5, <2>2 DEF Leave
  <2>4. stack[m] \in Frames /\ Caller[m] = stack[m]
    BY <1>1, <2>1, <2>2
  <2>5. [stack[m] EXCEPT !.next = @ + 1] \in Frames
    BY <2>4 DEF Frames
  <2>6. stack' = [Caller EXCEPT ![m] = [stack[m] EXCEPT !.next = @ + 1]]
    BY <2>3, <2>4
  <2>7. /\ stack' \in Seq(Frames) /\ Len(stack') = m
        /\ \A k \in 1 .. m - 1 : stack'[k] = stack[k]
        /\ stack'[m] = [stack[m] EXCEPT !.next = @ + 1]
    BY <2>1, <2>2, <2>5, <2>6
  <2>8. stack'[m].at = stack[m].at /\ stack'[m].next = stack[m].next + 1
    BY <2>4, <2>7 DEF Frames
  <2>9. /\ stack[m].next <= Len(RefsOf[stack[m].at])
        /\ Answers(Rule, RefsOf[stack[m].at][stack[m].next], Top.at)
    BY <1>1, <2>1 DEF LineInv
  <2>10. RefsOf[stack[m].at][stack[m].next] \in Answered
    <3>1. RefsOf[stack[m].at][stack[m].next] \in Refs /\ Top.at \in Bundles
      BY <1>1, <2>4, <2>9, BundleType DEF Frames
    <3> QED BY <1>1, <2>9, <3>1, SettledBySelf
  <2>11. \A k \in m + 1 .. Len(stack) : stack[k].at \in Finished
    <3>1. \A k \in m + 1 .. Len(stack) : k = n
      BY <1>1
    <3> QED BY <1>1, <3>1
  <2> QED BY <1>2, <1>3, <2>1, <2>3, <2>7, <2>8, <2>9, <2>10, <2>11, AdvancePreserves
<1> QED BY <1>4, <1>5

LEMMA PutPreserves == ASSUME IInv, Put PROVE IInv'
<1>1. UNCHANGED <<walker, root, stack, shared, found, verdict>>
  BY DEF Put
<1>2. Answered' = Answered /\ Finished' = Finished
  BY <1>1, VocabularyFixed
<1>3. TypeOK'
  <2>1. store' \in [Ids -> SUBSET Bundles]
    BY WalksAssumption DEF Put, IInv, TypeOK
  <2>2. writes' \in 0 .. MaxWrites
    BY WalksAssumption DEF Put, IInv, TypeOK
  <2> QED BY <1>1, <2>1, <2>2 DEF IInv, TypeOK
<1> QED BY <1>1, <1>2, <1>3
        DEF IInv, StartInv, LineInv, PassedInv, FinishedInv, MemoryInv, NamedInv, Rule

(* The verdicts that are given without a call. *)
LEMMA ReferenceVerdicts ==
  ASSUME NEW ref
  PROVE  BeforeLookup(ref) \in {"pass", "depth", "cycle"}
BY DEF BeforeLookup

LEMMA BeginPreserves == ASSUME IInv, Begin PROVE IInv'
<1>1. root \in Bundles /\ stack = <<>>
  BY DEF IInv, TypeOK, Begin
<1>2. RootEntry \in {"depth", "no-id", "cycle", "missing", "error", "skip", "enter"}
  BY <1>1, EntryVerdicts
<1>3. CASE RootEntry = "skip" /\ Return("valid")
  BY <1>3, ReturnPreserves DEF Verdicts
<1>4. CASE RootEntry = "enter" /\ Enter(root)
  <2>1. walker = "rc" => IdOf[root] # NoId
    BY <1>1, <1>4, EntryVerdicts DEF RootEntry
  <2> QED BY <1>1, <1>4, <2>1, EnterPreserves
<1>5. CASE RootEntry \notin {"skip", "enter"} /\ Return(RootEntry)
  BY <1>2, <1>5, ReturnPreserves DEF Verdicts
<1> QED BY <1>3, <1>4, <1>5 DEF Begin

LEMMA NextPreserves == IInv /\ [Next]_vars => IInv'
<1> SUFFICES ASSUME IInv, [Next]_vars PROVE IInv'
  OBVIOUS
<1>0. TypeOK
  BY DEF IInv
<1>1. CASE Begin
  BY <1>1, BeginPreserves
<1>2. CASE RefuseReference
  <2>1. BeforeLookup(Ref) \in Verdicts
    BY <1>2, ReferenceVerdicts DEF RefuseReference, Verdicts
  <2> QED BY <1>2, <2>1, ReturnPreserves DEF RefuseReference
<1>3. CASE ParentMissing
  BY <1>3, ReturnPreserves DEF ParentMissing, Verdicts
<1>4. CASE RefuseParent
  <2>1. PICK p \in Lookup(Ref) : /\ ParentVerdict(Ref, p) \notin {"skip", "enter"}
                                 /\ Return(ParentVerdict(Ref, p))
    BY <1>4 DEF RefuseParent
  <2>2. p \in Bundles
    BY <1>0, <1>4, <2>1, RefType, LookupType DEF RefuseParent
  <2>3. ParentVerdict(Ref, p) \in Verdicts
    BY <2>1, <2>2, ParentVerdicts
  <2> QED BY <2>1, <2>3, ReturnPreserves
<1>5. CASE SkipParent
  BY <1>5, SkipPreserves
<1>6. CASE EnterParent
  <2>1. PICK p \in Lookup(Ref) : ParentVerdict(Ref, p) = "enter" /\ Enter(p)
    BY <1>6 DEF EnterParent
  <2>2. p \in Bundles
    BY <1>0, <1>6, <2>1, RefType, LookupType DEF EnterParent
  <2>3. Answers(Rule, Ref, p) /\ (walker = "rc" => IdOf[p] # NoId)
    BY <2>1, <2>2, ParentVerdicts
  <2>4. HasRef /\ stack # <<>>
    BY <1>6 DEF EnterParent, HasRef
  <2> QED BY <2>1, <2>2, <2>3, <2>4, EnterPreserves
<1>7. CASE Leave
  BY <1>7, LeavePreserves
<1>8. CASE Put
  BY <1>8, PutPreserves
<1>9. CASE UNCHANGED vars
  <2>1. Answered' = Answered /\ Finished' = Finished
    BY <1>9, VocabularyFixed DEF vars
  <2> QED BY <1>9, <2>1
          DEF vars, IInv, TypeOK, StartInv, LineInv, PassedInv, FinishedInv, MemoryInv, NamedInv, Rule
<1> QED BY <1>1, <1>2, <1>3, <1>4, <1>5, <1>6, <1>7, <1>8, <1>9 DEF Next, Walk

LEMMA Inductive == Spec => []IInv
BY InitEstablishes, NextPreserves, PTL DEF Spec

(* The walks keep their types: frames point into the references of their    *)
(* bundle, and what is remembered are ids.                                   *)
THEOREM TypeCorrect == Spec => []TypeOK
<1>1. IInv => TypeOK
  BY DEF IInv
<1> QED BY <1>1, Inductive, PTL

-----------------------------------------------------------------------------
(* The refinement *)

(* The last call that returns leaves no bundle unfinished. *)
LEMMA LastIsComplete ==
  ASSUME IInv, Leave, Len(stack) = 1
  PROVE  Promise!Complete
<1>1. Top = stack[1] /\ Top.at \in Finished /\ stack # <<>>
  BY TopFinished DEF Leave
<1>2. \A b \in found : b \in Finished
  BY <1>1 DEF IInv, FinishedInv
<1>3. ASSUME NEW b \in found, NEW i \in DOMAIN RefsOf[b]
      PROVE  \E p \in Bundles : Answers(Rule, RefsOf[b][i], p) /\ Promise!Settled(p)
  <2>1. RefsOf[b][i] \in Answered
    BY <1>2 DEF Finished
  <2> QED BY <2>1 DEF Answered
<1> QED BY <1>3 DEF Promise!Complete, Promise!Answers, Answers, Promise!Value, Value

(* A bundle that is fine at once has no references. *)
LEMMA RootIsComplete ==
  ASSUME IInv, stack = <<>>, RootEntry = "skip"
  PROVE  Promise!Complete
<1>1. found = {root} /\ shared = {} /\ root \in Bundles
  BY DEF IInv, StartInv, TypeOK
<1>2. RefsOf[root] = <<>>
  BY <1>1, EntryVerdicts DEF RootEntry, PyEntry
<1> QED BY <1>1, <1>2 DEF Promise!Complete, Promise!Answers, Answers, Promise!Value, Value

LEMMA StepRefines ==
  ASSUME IInv, [Next]_vars
  PROVE  [Promise!Next]_(Promise!vars)
<1> DEFINE Stutter == UNCHANGED Promise!vars
<1>0. TypeOK
  BY DEF IInv
<1>a. ASSUME NEW v, v \notin {"none", "valid"}, verdict = "none", Return(v)
      PROVE  Promise!Refuse
  BY <1>a DEF Return, Promise!Refuse, Rule
<1>b. UNCHANGED walker => Rule' = Rule
  BY DEF Rule
<1>1. CASE Begin
  <2>1. RootEntry \in {"depth", "no-id", "cycle", "missing", "error", "skip", "enter"} /\ root \in found
    BY <1>0, <1>1, EntryVerdicts DEF TypeOK, IInv, StartInv, Begin
  <2>2. CASE RootEntry = "skip" /\ Return("valid")
    <3>1. Promise!Complete
      BY <1>1, <2>2, RootIsComplete DEF Begin
    <3> QED BY <1>1, <1>b, <2>2, <3>1 DEF Begin, Return, Promise!Next, Promise!Accept
  <2>3. CASE RootEntry = "enter" /\ Enter(root)
    BY <1>b, <2>1, <2>3 DEF Enter, Promise!vars
  <2>4. CASE RootEntry \notin {"skip", "enter"} /\ Return(RootEntry)
    BY <1>1, <1>a, <2>1, <2>4 DEF Begin, Promise!Next
  <2> QED BY <1>1, <2>2, <2>3, <2>4 DEF Begin
<1>2. CASE RefuseReference
  <2>1. BeforeLookup(Ref) \notin {"none", "valid"} /\ verdict = "none"
    BY <1>2, ReferenceVerdicts DEF RefuseReference, HasRef
  <2> QED BY <1>2, <1>a, <2>1 DEF RefuseReference, Promise!Next
<1>3. CASE ParentMissing
  BY <1>3, <1>a DEF ParentMissing, HasRef, Promise!Next
<1>4. CASE RefuseParent
  <2>1. PICK p \in Lookup(Ref) : /\ ParentVerdict(Ref, p) \notin {"skip", "enter"}
                                 /\ Return(ParentVerdict(Ref, p))
    BY <1>4 DEF RefuseParent
  <2>2. p \in Bundles
    BY <1>0, <1>4, <2>1, RefType, LookupType DEF RefuseParent
  <2>3. ParentVerdict(Ref, p) \notin {"none", "valid"} /\ verdict = "none"
    BY <1>4, <2>2, ParentVerdicts DEF RefuseParent, HasRef
  <2> QED BY <1>a, <2>1, <2>3 DEF Promise!Next
<1>5. CASE SkipParent
  BY <1>5, <1>b DEF SkipParent, Promise!vars
<1>6. CASE EnterParent
  <2>1. PICK p \in Lookup(Ref) : ParentVerdict(Ref, p) = "enter" /\ Enter(p)
    BY <1>6 DEF EnterParent
  <2>2. p \in Bundles
    BY <1>0, <1>6, <2>1, RefType, LookupType DEF EnterParent
  <2>3. Answers(Rule, Ref, p)
    BY <2>1, <2>2, ParentVerdicts
  <2>4. /\ Top.at \in found /\ Top.next \in DOMAIN RefsOf[Top.at]
        /\ verdict = "none"
    <3>1. Top \in Frames /\ Top = stack[Len(stack)] /\ Len(stack) \in 1 .. Len(stack)
          /\ Top.next \in 1 .. Len(RefsOf[Top.at])
      BY <1>0, <1>6, RefType DEF EnterParent
    <3>2. Top.at \in Bundles /\ Top.at \in found
      BY <3>1 DEF Frames, IInv, LineInv
    <3> QED BY <1>6, <3>1, <3>2, BundleType DEF EnterParent, HasRef
  <2>5. found' = found \cup {p} /\ UNCHANGED <<walker, root, verdict>>
    BY <2>1 DEF Enter
  <2>6. Answers(Rule, RefsOf[Top.at][Top.next], p)
    BY <2>3 DEF Ref
  <2>7. Promise!Look
    BY <1>b, <2>2, <2>4, <2>5, <2>6 DEF Promise!Look, Promise!Answers, Answers, Promise!Value, Value
  <2> QED BY <2>7 DEF Promise!Next
<1>7. CASE Leave
  <2>1. CASE Len(stack) = 1
    BY <1>7, <1>b, <2>1, LastIsComplete DEF Leave, Promise!Next, Promise!Accept
  <2>2. CASE Len(stack) # 1
    BY <1>7, <1>b, <2>2 DEF Leave, Promise!vars
  <2> QED BY <2>1, <2>2
<1>8. CASE Put
  BY <1>8, <1>b DEF Put, Promise!vars
<1>9. CASE UNCHANGED vars
  BY <1>9, <1>b DEF vars, Promise!vars
<1> QED BY <1>1, <1>2, <1>3, <1>4, <1>5, <1>6, <1>7, <1>8, <1>9 DEF Next, Walk

LEMMA InitRefines == Init => Promise!Init
BY DEF Init, Promise!Init, Rule

(* Every walk implements the abstract verification of an ancestry, however   *)
(* the store changes: the verdict "valid" leaves no parent open.             *)
THEOREM WalksImplementAncestry == Spec => ImplementsAncestry
<1>1. IInv /\ [Next]_vars => [Promise!Next]_(Promise!vars)
  BY StepRefines
<1> QED BY <1>1, InitRefines, Inductive, PTL DEF Spec, ImplementsAncestry, Promise!Spec

-----------------------------------------------------------------------------
(* The budget.  ts and py count the ids they have seen, so the proof counts *)
(* the calls that have one against the set every call is given: each of     *)
(* them has put a new id into it.                                           *)
Named(m) == {k \in 1 .. m : IdOf[stack[k].at] # NoId}

ByCalls == walker \in {"go", "rc"}

BudgetInv ==
  /\ ByCalls => Len(stack) <= Budget + 1
  /\ ~ByCalls => \A m \in 1 .. Len(stack) :
       /\ Cardinality(stack[m].seen) <= Budget
       /\ Cardinality(Named(m)) <= Cardinality(stack[m].seen)

LEMMA NamedFinite ==
  ASSUME NEW m \in Nat
  PROVE  /\ IsFiniteSet(Named(m)) /\ Cardinality(Named(m)) \in 0 .. m
         /\ Cardinality(1 .. m) = m
<1>1. IsFiniteSet(1 .. m) /\ Cardinality(1 .. m) = m
  BY FS_Interval
<1>2. Named(m) \in SUBSET (1 .. m)
  BY DEF Named
<1>3. IsFiniteSet(Named(m)) /\ Cardinality(Named(m)) <= m
  BY <1>1, <1>2, FS_Subset
<1> QED BY <1>1, <1>3, FS_CardinalityType

LEMMA NextFrame ==
  ASSUME NEW f \in Frames
  PROVE  LET g == [f EXCEPT !.next = @ + 1]
         IN  g \in Frames /\ g.at = f.at /\ g.seen = f.seen
BY DEF Frames

LEMMA SeenFinite ==
  ASSUME NEW S \in SUBSET Ids
  PROVE  IsFiniteSet(S) /\ Cardinality(S) \in Nat
BY ParentRefsAssumption, FS_Subset, FS_CardinalityType

(* A stack that is no deeper, and names the same bundles, keeps the budget. *)
LEMMA NoDeeper ==
  ASSUME BudgetInv, UNCHANGED walker, Len(stack) \in Nat, Len(stack') \in Nat,
         Len(stack') <= Len(stack),
         \A k \in 1 .. Len(stack') : stack'[k].at = stack[k].at /\ stack'[k].seen = stack[k].seen
  PROVE  BudgetInv'
<1>0. Budget' = Budget
  BY BudgetFixed
<1>1. ByCalls' = ByCalls
  BY DEF ByCalls
<1>2. CASE ByCalls
  BY <1>0, <1>1, <1>2, BudgetNat DEF BudgetInv
<1>3. CASE ~ByCalls
  <2> SUFFICES ASSUME NEW m \in 1 .. Len(stack')
               PROVE  /\ Cardinality(stack'[m].seen) <= Budget
                      /\ Cardinality(Named(m)') <= Cardinality(stack'[m].seen)
    BY <1>0, <1>1, <1>3 DEF BudgetInv
  <2>1. m \in 1 .. Len(stack)
    OBVIOUS
  <2>2. Named(m)' = Named(m)
    BY DEF Named
  <2> QED BY <1>3, <2>1, <2>2 DEF BudgetInv
<1> QED BY <1>2, <1>3

(* A call that is let in with budget left keeps it. *)
LEMMA OneDeeper ==
  ASSUME TypeOK, BudgetInv, NEW p \in Bundles, Enter(p),
         ByCalls => Len(stack) <= Budget,
         ~ByCalls => Cardinality(OnPath) < Budget /\ IdOf[p] \notin OnPath
  PROVE  BudgetInv'
<1> DEFINE seen == OnPath \cup ({IdOf[p]} \ {NoId})
           f == [at |-> p, next |-> 1, seen |-> seen]
<1>0. stack \in Seq(Frames)
  BY DEF TypeOK, Frames
<1>9. PICK n \in Nat : n = Len(stack)
  BY <1>0
<1>1. stack \in Seq(Frames) /\ n = Len(stack) /\ n \in Nat
  BY <1>0, <1>9
<1>2. OnPath \in SUBSET Ids /\ (n # 0 => OnPath = stack[n].seen) /\ (n = 0 => OnPath = {})
  <2>1. CASE stack = <<>>
    <3>1. n = 0
      BY <1>1, <2>1
    <3> QED BY <2>1, <3>1 DEF OnPath
  <2>2. CASE stack # <<>>
    <3>1. n # 0 /\ stack[n] \in Frames
      BY <1>1, <2>2
    <3> QED BY <1>1, <2>2, <3>1 DEF OnPath, Top, Frames
  <2> QED BY <2>1, <2>2
<1>3. seen \in SUBSET Ids /\ f \in Frames
  BY <1>2, BundleType DEF Frames
<1>4. stack' = Append(stack, f) /\ walker' = walker
  BY DEF Enter
<1>5. /\ Len(stack') = n + 1 /\ stack'[n + 1] = f
      /\ \A k \in 1 .. n : stack'[k] = stack[k]
  BY <1>1, <1>3, <1>4
<1>6. ByCalls' = ByCalls /\ Budget' = Budget
  BY <1>4, BudgetFixed DEF ByCalls
<1>7. CASE ByCalls
  BY <1>1, <1>5, <1>6, <1>7, BudgetNat DEF BudgetInv
<1>8. CASE ~ByCalls
  <2>1. Cardinality(Named(n)) <= Cardinality(OnPath)
    <3>1. CASE n = 0
      <4>1. Named(n) = {}
        BY <3>1 DEF Named
      <4>2. Cardinality(Named(n)) = 0 /\ Cardinality(OnPath) = 0
        BY <1>2, <3>1, <4>1, FS_EmptySet
      <4> QED BY <4>2
    <3>2. CASE n # 0
      BY <1>1, <1>2, <1>8, <3>2 DEF BudgetInv
    <3> QED BY <3>1, <3>2
  <2>2. /\ Cardinality(seen) <= Budget
        /\ Cardinality(Named(n + 1)') <= Cardinality(seen)
    <3>1. \A k \in 1 .. n + 1 : (k \in 1 .. n /\ stack'[k].at = stack[k].at)
                                \/ (k = n + 1 /\ stack'[k].at = p)
      <4> TAKE k \in 1 .. n + 1
      <4>1. CASE k = n + 1
        BY <1>5, <4>1
      <4>2. CASE k \in 1 .. n
        BY <1>5, <4>2
      <4> QED BY <1>1, <4>1, <4>2
    <3>2. /\ IsFiniteSet(Named(n)) /\ Cardinality(Named(n)) \in Nat
          /\ IsFiniteSet(OnPath) /\ Cardinality(OnPath) \in Nat
      BY <1>1, <1>2, NamedFinite, SeenFinite
    <3>3. CASE IdOf[p] = NoId
      <4>1. seen = OnPath
        BY <3>3
      <4>2. Named(n + 1)' = Named(n)
        BY <1>1, <3>1, <3>3 DEF Named
      <4>3. Cardinality(seen) = Cardinality(OnPath)
        BY <4>1
      <4>4. Cardinality(Named(n + 1)') = Cardinality(Named(n))
        BY <4>2
      <4> QED BY <1>8, <2>1, <3>2, <4>3, <4>4, WalksAssumption, BudgetNat
    <3>4. CASE IdOf[p] # NoId
      <4>1. seen = OnPath \cup {IdOf[p]}
        BY <3>4
      <4>2. Named(n + 1)' = Named(n) \cup {n + 1}
        BY <1>1, <3>1, <3>4 DEF Named
      <4>3. n + 1 \notin Named(n)
        BY <1>1 DEF Named
      <4>4. Cardinality(seen) = Cardinality(OnPath) + 1
        BY <1>8, <3>2, <4>1, FS_AddElement
      <4>5. Cardinality(Named(n + 1)') = Cardinality(Named(n)) + 1
        BY <3>2, <4>2, <4>3, FS_AddElement
      <4> QED BY <1>8, <2>1, <3>2, <4>4, <4>5, WalksAssumption, BudgetNat
    <3> QED BY <3>3, <3>4
  <2>3. \A m \in 1 .. n : Named(m)' = Named(m)
    BY <1>1, <1>5 DEF Named
  <2>4. ASSUME NEW m \in 1 .. n + 1
        PROVE  /\ Cardinality(stack'[m].seen) <= Budget
               /\ Cardinality(Named(m)') <= Cardinality(stack'[m].seen)
    <3>1. CASE m = n + 1
      <4>1. stack'[m].seen = seen /\ Named(m)' = Named(n + 1)'
        BY <1>5, <3>1
      <4> QED BY <2>2, <4>1
    <3>2. CASE m \in 1 .. n
      <4>1. stack'[m] = stack[m] /\ Named(m)' = Named(m) /\ m \in 1 .. Len(stack)
        BY <1>1, <1>5, <2>3, <3>2
      <4> QED BY <1>8, <4>1 DEF BudgetInv
    <3> QED BY <1>1, <3>1, <3>2
  <2> QED BY <1>5, <1>6, <1>8, <2>4 DEF BudgetInv
<1> QED BY <1>7, <1>8

(* A call that goes on or returns. *)
LEMMA LineShrinks ==
  ASSUME TypeOK, SkipParent \/ Leave
  PROVE  /\ Len(stack) \in Nat /\ Len(stack') \in Nat /\ Len(stack') <= Len(stack)
         /\ \A k \in 1 .. Len(stack') :
              stack'[k].at = stack[k].at /\ stack'[k].seen = stack[k].seen
<1> DEFINE goesOn(s, m) == [s EXCEPT ![m].next = @ + 1]
<1>0. stack \in Seq(Frames) /\ stack # <<>>
  BY DEF TypeOK, Frames, SkipParent, HasRef, Leave
<1>9. PICK n \in Nat \ {0} : n = Len(stack)
  BY <1>0
<1>1. stack \in Seq(Frames) /\ n = Len(stack) /\ n \in Nat \ {0}
  BY <1>0, <1>9
<1>2. ASSUME NEW s \in Seq(Frames), NEW m \in 1 .. Len(s), m = Len(s), m <= n,
             \A k \in 1 .. m : s[k] = stack[k], stack' = goesOn(s, m)
      PROVE  /\ Len(stack') = m
             /\ \A k \in 1 .. m : stack'[k].at = stack[k].at /\ stack'[k].seen = stack[k].seen
  <2>1. s[m] \in Frames
    BY <1>2
  <2>2. stack' = [s EXCEPT ![m] = [s[m] EXCEPT !.next = @ + 1]]
    BY <1>2
  <2>3. [s[m] EXCEPT !.next = @ + 1] \in Frames
    BY <2>1, NextFrame
  <2>4. /\ Len(stack') = m
        /\ stack'[m] = [s[m] EXCEPT !.next = @ + 1]
        /\ \A k \in 1 .. m : k # m => stack'[k] = s[k]
    BY <1>2, <2>2, <2>3
  <2>5. stack'[m].at = s[m].at /\ stack'[m].seen = s[m].seen
    BY <2>1, <2>4, NextFrame
  <2> QED BY <1>2, <2>4, <2>5
<1>3. CASE SkipParent
  <2>1. stack' = goesOn(stack, n)
    BY <1>1, <1>3 DEF SkipParent
  <2> QED BY <1>1, <1>2, <2>1
<1>4. CASE Leave /\ n = 1
  <2>1. stack' = stack
    BY <1>1, <1>4 DEF Leave
  <2> QED BY <1>1, <2>1
<1>5. CASE Leave /\ n # 1
  <2>0. n # 1
    BY <1>5
  <2>1. n - 1 \in 1 .. n /\ n - 1 \in Nat
    BY <1>1, <2>0
  <2>2. /\ Caller \in Seq(Frames) /\ Len(Caller) = n - 1
        /\ \A k \in 1 .. n - 1 : Caller[k] = stack[k]
    BY <1>1, <2>1, SubSeqProperties DEF Caller
  <2>3. stack' = goesOn(Caller, n - 1)
    BY <1>1, <1>5, <2>2 DEF Leave
  <2> QED BY <1>1, <1>2, <2>1, <2>2, <2>3
<1> QED BY <1>3, <1>4, <1>5

LEMMA BudgetStep == ASSUME IInv, BudgetInv, [Next]_vars PROVE BudgetInv'
<1>0. TypeOK
  BY DEF IInv
<1>1. Len(stack) \in Nat /\ walker \in {"ts", "py", "go", "rc"}
  BY <1>0, WalksAssumption, BudgetNat DEF TypeOK
<1>2. ASSUME UNCHANGED <<stack, walker>> PROVE BudgetInv'
  BY <1>1, <1>2, NoDeeper
<1>3. CASE Begin
  <2>1. stack = <<>> /\ root \in Bundles
    BY <1>0, <1>3 DEF Begin, TypeOK
  <2>2. CASE RootEntry = "enter" /\ Enter(root)
    <3>1. ByCalls => Len(stack) <= Budget
      BY <2>1, WalksAssumption, BudgetNat
    <3>2. ~ByCalls => Cardinality(OnPath) < Budget /\ IdOf[root] \notin OnPath
      <4>1. OnPath = {} /\ Cardinality(OnPath) = 0
        BY <2>1, FS_EmptySet DEF OnPath
      <4> QED BY <2>2, <4>1, WalksAssumption, BudgetNat DEF RootEntry, PyEntry, CopyingEntry, ByCalls
    <3> QED BY <1>0, <2>1, <2>2, <3>1, <3>2, OneDeeper
  <2> QED BY <1>2, <1>3, <2>2 DEF Begin, Return
<1>4. CASE RefuseReference \/ ParentMissing \/ RefuseParent
  BY <1>2, <1>4 DEF RefuseReference, ParentMissing, RefuseParent, Return
<1>5. CASE SkipParent \/ Leave
  <2>1. UNCHANGED walker
    BY <1>5 DEF SkipParent, Leave
  <2> QED BY <1>0, <1>5, <2>1, LineShrinks, NoDeeper
<1>6. CASE EnterParent
  <2>1. PICK p \in Lookup(Ref) : ParentVerdict(Ref, p) = "enter" /\ Enter(p)
    BY <1>6 DEF EnterParent
  <2>2. p \in Bundles
    BY <1>0, <1>6, <2>1, RefType, LookupType DEF EnterParent
  <2>3. OnPath \in SUBSET Ids
    BY <1>0, <1>6, RefType DEF EnterParent, HasRef, OnPath, Frames
  <2>4. ByCalls => Len(stack) <= Budget
    <3>1. CASE walker = "go"
      BY <1>1, <1>6, <3>1, WalksAssumption, BudgetNat DEF EnterParent, BeforeLookup
    <3>2. CASE walker = "rc"
      BY <1>1, <2>1, <3>2, WalksAssumption, BudgetNat DEF ParentVerdict, RcEntry
    <3> QED BY <3>1, <3>2 DEF ByCalls
  <2>5. ~ByCalls => CopyingEntry(p) = "enter"
    BY <1>1, <2>1 DEF ByCalls, ParentVerdict
  <2>6. ~ByCalls => Cardinality(OnPath) < Budget /\ IdOf[p] \notin OnPath
    BY <2>3, <2>5, SeenFinite, WalksAssumption, BudgetNat DEF CopyingEntry
  <2> QED BY <1>0, <2>1, <2>2, <2>4, <2>6, OneDeeper
<1>7. CASE Put
  BY <1>2, <1>7 DEF Put
<1>8. CASE UNCHANGED vars
  BY <1>2, <1>8 DEF vars
<1> QED BY <1>3, <1>4, <1>5, <1>6, <1>7, <1>8 DEF Next, Walk

LEMMA AlwaysBudget == Spec => []BudgetInv
<1>1. Init => BudgetInv
  <2> SUFFICES ASSUME Init PROVE BudgetInv
    OBVIOUS
  <2>1. stack = <<>> /\ Len(stack) = 0
    BY DEF Init
  <2> QED BY <2>1, WalksAssumption, BudgetNat DEF BudgetInv
<1>2. IInv /\ BudgetInv /\ [Next]_vars => BudgetInv'
  BY BudgetStep
<1> QED BY <1>1, <1>2, Inductive, PTL DEF Spec

(* The budget bounds the recursion of every library, whatever the store     *)
(* holds: calls in go and rc, calls for bundles with an id in ts and py.    *)
THEOREM BudgetKept == Spec => []DepthBudget
<1>1. IInv /\ BudgetInv => DepthBudget
  <2> SUFFICES ASSUME IInv, BudgetInv PROVE DepthBudget
    OBVIOUS
  <2> DEFINE counted == {k \in 1 .. Len(stack) : walker \in {"go", "rc"} \/ IdOf[stack[k].at] # NoId}
  <2>0. stack \in Seq(Frames)
    BY DEF IInv, TypeOK, Frames
  <2>1. PICK n \in Nat : n = Len(stack)
    BY <2>0
  <2>2. CASE ByCalls
    <3>1. counted = 1 .. n
      BY <2>1, <2>2 DEF ByCalls
    <3>2. Cardinality(1 .. n) = n
      BY <2>1, NamedFinite
    <3>3. n <= Budget + 1
      BY <2>1, <2>2 DEF BudgetInv
    <3> QED BY <2>2, <3>1, <3>2, <3>3 DEF DepthBudget, ByCalls
  <2>3. CASE ~ByCalls
    <3>1. counted = Named(n)
      BY <2>1, <2>3 DEF ByCalls, Named
    <3>2. Cardinality(Named(n)) <= Budget
      <4>1. Cardinality(Named(n)) \in 0 .. n
        BY <2>1, NamedFinite
      <4>2. CASE n = 0
        BY <4>1, <4>2, WalksAssumption, BudgetNat
      <4>3. CASE n # 0
        <5>1. stack[n] \in Frames /\ n \in 1 .. Len(stack)
          BY <2>0, <2>1, <4>3
        <5>2. Cardinality(stack[n].seen) \in Nat
          BY <5>1, SeenFinite DEF Frames
        <5>3. /\ Cardinality(Named(n)) <= Cardinality(stack[n].seen)
              /\ Cardinality(stack[n].seen) <= Budget
          BY <2>3, <5>1 DEF BudgetInv
        <5> QED BY <4>1, <5>2, <5>3, WalksAssumption, BudgetNat
      <4> QED BY <4>2, <4>3
    <3> QED BY <2>3, <3>1, <3>2 DEF DepthBudget, ByCalls
  <2> QED BY <2>2, <2>3
<1> QED BY <1>1, Inductive, AlwaysBudget, PTL

-----------------------------------------------------------------------------
(* The ancestors of a bundle.  Documents are older than those that name     *)
(* their digests, so the equation of Above has a solution.                  *)
AboveVia(b, f) == UNION {LET d == RefsOf[b][i].digest IN IF d = Junk THEN {} ELSE {d} \cup f[d] :
                       i \in DOMAIN RefsOf[b]}

LEMMA AboveDef ==
  /\ Above \in [Bundles -> SUBSET Bundles]
  /\ \A b \in Bundles : Above[b] = AboveVia(b, Above)
<1> DEFINE Y == SUBSET Bundles
           F == [f \in [Bundles -> Y] |-> [b \in Bundles |-> AboveVia(b, f)]]
<1>1. \A f \in [Bundles -> Y] : \A b \in Bundles : AboveVia(b, f) \in Y
  <2> SUFFICES ASSUME NEW f \in [Bundles -> Y], NEW b \in Bundles
               PROVE  AboveVia(b, f) \in Y
    OBVIOUS
  <2>1. \A i \in DOMAIN RefsOf[b] : RefsOf[b][i].digest \in Bundles \cup {Junk}
    BY BundleType DEF Refs
  <2>2. \A d \in Bundles : f[d] \in SUBSET Bundles
    OBVIOUS
  <2> QED BY <2>1, <2>2 DEF AboveVia
<1>2. F \in [[Bundles -> Y] -> [Bundles -> Y]]
  BY <1>1
<1>3. LooksDown(F, Bundles, Y, Age)
  <2> SUFFICES ASSUME NEW g \in [Bundles -> Y], NEW h \in [Bundles -> Y], NEW b \in Bundles,
                      \A y \in Bundles : Age[y] < Age[b] => g[y] = h[y]
               PROVE  F[g][b] = F[h][b]
    BY DEF LooksDown
  <2>1. \A i \in DOMAIN RefsOf[b] :
          LET d == RefsOf[b][i].digest IN d # Junk => d \in Bundles /\ g[d] = h[d]
    BY BundleType, ParentRefsAssumption DEF Refs
  <2>2. AboveVia(b, g) = AboveVia(b, h)
    BY <2>1 DEF AboveVia
  <2> QED BY <2>2
<1>4. Age \in [Bundles -> Nat] /\ {} \in Y
  BY ParentRefsAssumption
<1>5. \E f \in [Bundles -> Y] : FixedPoint(F, f)
  <2> HIDE DEF F, Y
  <2> QED BY <1>2, <1>3, <1>4, RankedRecursion
<1>6. PICK f \in [Bundles -> Y] : f = [b \in Bundles |-> AboveVia(b, f)]
  BY <1>5 DEF FixedPoint
<1>7. Above = [b \in Bundles |-> AboveVia(b, Above)]
  BY <1>6 DEF Above, AboveVia
<1> HIDE DEF F, Y
<1>8. \A b \in Bundles : Above[b] = AboveVia(b, Above)
  BY <1>7
<1> DEFINE S == {b \in Bundles : Above[b] \notin SUBSET Bundles}
<1>9. ASSUME NEW b \in S PROVE \E d \in S : Age[d] < Age[b]
  <2>1. PICK x \in Above[b] : x \notin Bundles
    OBVIOUS
  <2>2. PICK i \in DOMAIN RefsOf[b] : LET d == RefsOf[b][i].digest IN d # Junk /\ x \in {d} \cup Above[d]
    BY <1>8, <2>1 DEF AboveVia
  <2> DEFINE d == RefsOf[b][i].digest
  <2>3. d \in Bundles /\ Age[d] < Age[b]
    BY <2>2, BundleType, ParentRefsAssumption DEF Refs
  <2>4. x \in Above[d]
    BY <2>1, <2>2, <2>3
  <2> QED BY <2>1, <2>3, <2>4
<1>10. S = {}
  <2> HIDE DEF S
  <2>1. S \in SUBSET Bundles
    BY DEF S
  <2> QED BY <1>4, <1>9, <2>1, RankInduction
<1>11. \A b \in Bundles : Above[b] \in SUBSET Bundles
  BY <1>10
<1>12. Above = [b \in Bundles |-> Above[b]]
  BY <1>7, <1>8
<1> QED BY <1>8, <1>11, <1>12

Digest(b, i) == RefsOf[b][i].digest

(* The ancestors of a bundle are those it names, and theirs.                *)
LEMMA AboveSteps ==
  ASSUME NEW b \in Bundles
  PROVE  /\ Above[b] \in SUBSET Bundles
         /\ \A i \in DOMAIN RefsOf[b] : Digest(b, i) \in Bundles =>
              Digest(b, i) \in Above[b] /\ Above[Digest(b, i)] \subseteq Above[b]
         /\ \A x \in Above[b] : \E i \in DOMAIN RefsOf[b] :
              Digest(b, i) \in Bundles /\ (x = Digest(b, i) \/ x \in Above[Digest(b, i)])
         /\ \A i \in DOMAIN RefsOf[b] : Digest(b, i) \in Bundles => Age[Digest(b, i)] < Age[b]
<1>1. Above[b] \in SUBSET Bundles /\ Above[b] = AboveVia(b, Above)
  BY AboveDef
<1>2. \A i \in DOMAIN RefsOf[b] : Digest(b, i) \in Bundles => Digest(b, i) # Junk
  BY ParentRefsAssumption
<1>3. \A i \in DOMAIN RefsOf[b] : Digest(b, i) # Junk => Digest(b, i) \in Bundles
  BY BundleType DEF Refs, Digest
<1>4. ASSUME NEW i \in DOMAIN RefsOf[b], Digest(b, i) \in Bundles
      PROVE  Digest(b, i) \in Above[b] /\ Above[Digest(b, i)] \subseteq Above[b]
  BY <1>1, <1>2, <1>4 DEF AboveVia, Digest
<1>5. ASSUME NEW x \in Above[b]
      PROVE  \E i \in DOMAIN RefsOf[b] :
               Digest(b, i) \in Bundles /\ (x = Digest(b, i) \/ x \in Above[Digest(b, i)])
  <2>1. PICK i \in DOMAIN RefsOf[b] :
          LET d == RefsOf[b][i].digest IN d # Junk /\ x \in {d} \cup Above[d]
    BY <1>1 DEF AboveVia
  <2> QED BY <1>3, <2>1 DEF Digest
<1>6. \A i \in DOMAIN RefsOf[b] : Digest(b, i) \in Bundles => Age[Digest(b, i)] < Age[b]
  BY <1>2, ParentRefsAssumption DEF Digest
<1> QED BY <1>1, <1>4, <1>5, <1>6

(* A property that passes from a bundle to the bundles it names passes to   *)
(* all its ancestors.                                                       *)
LEMMA Handed ==
  ASSUME NEW P \in SUBSET Bundles,
         \A b \in P : \A i \in DOMAIN RefsOf[b] : Digest(b, i) \in Bundles => Digest(b, i) \in P
  PROVE  \A b \in P : Above[b] \subseteq P
<1> DEFINE S == {b \in P : ~(Above[b] \subseteq P)}
<1>1. ASSUME NEW b \in S PROVE \E d \in S : Age[d] < Age[b]
  <2>1. b \in P /\ b \in Bundles
    OBVIOUS
  <2>2. PICK x \in Above[b] : x \notin P
    OBVIOUS
  <2>3. PICK i \in DOMAIN RefsOf[b] :
          Digest(b, i) \in Bundles /\ (x = Digest(b, i) \/ x \in Above[Digest(b, i)])
    BY <2>1, AboveSteps
  <2>4. Digest(b, i) \in P /\ Age[Digest(b, i)] < Age[b]
    BY <2>1, <2>3, AboveSteps
  <2> QED BY <2>2, <2>3, <2>4
<1>2. S = {}
  <2> HIDE DEF S
  <2>1. S \in SUBSET Bundles
    BY DEF S
  <2>2. Age \in [Bundles -> Nat]
    BY ParentRefsAssumption
  <2> QED BY <1>1, <2>1, <2>2, RankInduction
<1> QED BY <1>2

LEMMA AboveTransitive ==
  ASSUME NEW b \in Bundles, NEW a \in Above[b]
  PROVE  Above[a] \subseteq Above[b]
<1> DEFINE S == {c \in Bundles : \E x \in Above[c] : ~(Above[x] \subseteq Above[c])}
<1>1. ASSUME NEW c \in S PROVE \E d \in S : Age[d] < Age[c]
  <2>1. PICK x \in Above[c] : ~(Above[x] \subseteq Above[c])
    OBVIOUS
  <2>2. c \in Bundles
    OBVIOUS
  <2>3. PICK i \in DOMAIN RefsOf[c] :
          Digest(c, i) \in Bundles /\ (x = Digest(c, i) \/ x \in Above[Digest(c, i)])
    BY <2>2, AboveSteps
  <2>4. Above[Digest(c, i)] \subseteq Above[c] /\ Age[Digest(c, i)] < Age[c]
    BY <2>2, <2>3, AboveSteps
  <2>5. x \in Above[Digest(c, i)] /\ ~(Above[x] \subseteq Above[Digest(c, i)])
    BY <2>1, <2>3, <2>4
  <2> QED BY <2>3, <2>4, <2>5
<1>2. S = {}
  <2> HIDE DEF S
  <2>1. S \in SUBSET Bundles
    BY DEF S
  <2>2. Age \in [Bundles -> Nat]
    BY ParentRefsAssumption
  <2> QED BY <1>1, <2>1, <2>2, RankInduction
<1> QED BY <1>2

-----------------------------------------------------------------------------
(* How the stack changes. *)
LEMMA Entered ==
  ASSUME TypeOK, NEW p \in Bundles, Enter(p)
  PROVE  /\ Len(stack) \in Nat /\ Len(stack') = Len(stack) + 1
         /\ \A k \in 1 .. Len(stack) : stack'[k] = stack[k] /\ stack[k] \in Frames
         /\ stack'[Len(stack) + 1].at = p
         /\ stack'[Len(stack) + 1].next = 1
         /\ stack'[Len(stack) + 1].seen = OnPath \cup ({IdOf[p]} \ {NoId})
         /\ OnPath \in SUBSET Ids
         /\ stack # <<>> => OnPath = stack[Len(stack)].seen
<1> DEFINE f == [at |-> p, next |-> 1, seen |-> OnPath \cup ({IdOf[p]} \ {NoId})]
<1>1. stack \in Seq(Frames)
  BY DEF TypeOK, Frames
<1>2. OnPath \in SUBSET Ids
  <2>1. CASE stack = <<>>
    BY <2>1 DEF OnPath
  <2>2. CASE stack # <<>>
    <3>1. Top \in Frames
      BY <1>1, <2>2 DEF Top
    <3> QED BY <2>2, <3>1 DEF OnPath, Frames
  <2> QED BY <2>1, <2>2
<1>3. f \in Frames
  BY <1>2, BundleType DEF Frames
<1>4. stack' = Append(stack, f)
  BY DEF Enter
<1>5. /\ Len(stack) \in Nat /\ Len(stack') = Len(stack) + 1 /\ stack'[Len(stack) + 1] = f
      /\ \A k \in 1 .. Len(stack) : stack'[k] = stack[k] /\ stack[k] \in Frames
  BY <1>1, <1>3, <1>4
<1> QED BY <1>2, <1>5 DEF OnPath, Top

(* The call that goes on. *)
Current == IF Top.next <= Len(RefsOf[Top.at]) THEN Len(stack) ELSE Len(stack) - 1

LEMMA GoesOn ==
  ASSUME TypeOK, SkipParent \/ (Leave /\ Len(stack) # 1)
  PROVE  /\ Current \in 1 .. Len(stack) /\ Len(stack') = Current
         /\ Len(stack) \in Nat
         /\ \A k \in 1 .. Current : /\ stack[k] \in Frames
                                    /\ stack'[k].at = stack[k].at
                                    /\ stack'[k].seen = stack[k].seen
         /\ \A k \in 1 .. Current - 1 : stack'[k] = stack[k]
         /\ stack'[Current].next = stack[Current].next + 1
         /\ SkipParent => Current = Len(stack)
         /\ Leave => Current = Len(stack) - 1
<1>0. stack \in Seq(Frames) /\ stack # <<>>
  BY DEF TypeOK, Frames, SkipParent, HasRef, Leave
<1>1. PICK n \in Nat \ {0} : n = Len(stack)
  BY <1>0
<1>2. /\ \A k \in 1 .. n : stack[k] \in Frames
      /\ Top = stack[n]
  BY <1>0, <1>1 DEF Top
<1>3. Len(RefsOf[Top.at]) \in Nat /\ Top.next \in Nat
  BY <1>1, <1>2, BundleType DEF Frames
<1>4. /\ SkipParent => Current = n
      /\ Leave => Current = n - 1
  BY <1>1, <1>3 DEF Current, SkipParent, Leave, HasRef
<1>5. PICK m : m = Current
  OBVIOUS
<1>6. m \in 1 .. n
  BY <1>1, <1>4, <1>5 DEF Leave
<1>7. ASSUME NEW s \in Seq(Frames), m = Len(s), \A k \in 1 .. m : s[k] = stack[k],
             stack' = [s EXCEPT ![m].next = @ + 1]
      PROVE  /\ Len(stack') = m /\ stack'[m].next = stack[m].next + 1
             /\ \A k \in 1 .. m - 1 : stack'[k] = stack[k]
  <2>1. s[m] \in Frames
    BY <1>6, <1>7
  <2>2. stack' = [s EXCEPT ![m] = [s[m] EXCEPT !.next = @ + 1]]
    BY <1>7
  <2>3. [s[m] EXCEPT !.next = @ + 1] \in Frames
    BY <2>1, NextFrame
  <2>4. /\ Len(stack') = m
        /\ stack'[m] = [s[m] EXCEPT !.next = @ + 1]
        /\ \A k \in 1 .. m - 1 : stack'[k] = s[k]
    BY <1>6, <1>7, <2>2, <2>3
  <2>5. stack'[m].next = s[m].next + 1
    BY <2>1, <2>4 DEF Frames
  <2> QED BY <1>6, <1>7, <2>4, <2>5
<1>8. /\ Len(stack') = m /\ stack'[m].next = stack[m].next + 1
      /\ \A k \in 1 .. m - 1 : stack'[k] = stack[k]
  <2>1. CASE SkipParent
    BY <1>0, <1>1, <1>4, <1>5, <1>7, <2>1 DEF SkipParent
  <2>2. CASE Leave /\ Len(stack) # 1
    <3>1. m = n - 1 /\ n - 1 \in 1 .. n
      BY <1>4, <1>5, <1>6, <2>2
    <3>2. /\ Caller \in Seq(Frames) /\ Len(Caller) = m
          /\ \A k \in 1 .. m : Caller[k] = stack[k]
      BY <1>0, <1>1, <3>1, SubSeqProperties DEF Caller
    <3>3. stack' = [Caller EXCEPT ![m].next = @ + 1]
      BY <2>2, <3>2 DEF Leave
    <3> QED BY <1>7, <3>2, <3>3
  <2> QED BY <2>1, <2>2
<1>9. \A k \in 1 .. m : stack'[k].at = stack[k].at /\ stack'[k].seen = stack[k].seen
  BY <1>8, LineShrinks
<1> QED BY <1>1, <1>2, <1>4, <1>5, <1>6, <1>8, <1>9

(* Who goes into a parent, and into which. *)
LEMMA Entering ==
  ASSUME TypeOK, EnterParent
  PROVE  /\ HasRef /\ BeforeLookup(Ref) = "pass" /\ Ref \in Refs
         /\ Len(stack) \in Nat \ {0} /\ Top \in Frames /\ Top = stack[Len(stack)]
         /\ Top.next \in DOMAIN RefsOf[Top.at]
         /\ \E p \in Bundles : /\ p \in Lookup(Ref) /\ Enter(p) /\ Answers(Rule, Ref, p)
                               /\ ParentVerdict(Ref, p) = "enter"
<1>1. HasRef /\ BeforeLookup(Ref) = "pass"
  BY DEF EnterParent
<1>2. /\ Ref \in Refs /\ Len(stack) \in Nat \ {0} /\ Top \in Frames /\ Top = stack[Len(stack)]
      /\ Top.next \in DOMAIN RefsOf[Top.at]
  BY <1>1, RefType, BundleType DEF Frames
<1>3. PICK p \in Lookup(Ref) : ParentVerdict(Ref, p) = "enter" /\ Enter(p)
  BY DEF EnterParent
<1>4. p \in Bundles
  BY <1>2, <1>3, LookupType
<1> QED BY <1>1, <1>2, <1>3, <1>4, ParentVerdicts

-----------------------------------------------------------------------------
(* Lines of descent.  Where a parent is taken by its content, or the claims *)
(* in the store are honest, the parent is the bundle the digest names.      *)
Exact == walker = "rc" => Honest

LEMMA ExactParent ==
  ASSUME TypeOK, Exact, NEW ref \in Refs, NEW p \in Lookup(ref), Answers(Rule, ref, p)
  PROVE  p = ref.digest
<1>1. CASE walker = "rc"
  <2>1. p \in store[ref.id] /\ ref.id \in Ids
    BY <1>1 DEF Lookup, Refs
  <2>2. Claimed[p] = Value(p, AlgOf[p])
    BY <1>1, <2>1 DEF Exact, Honest
  <2> QED BY <1>1, <2>2 DEF Answers, Rule, Value
<1>2. CASE walker # "rc"
  BY <1>2 DEF Answers, Rule
<1> QED BY <1>1, <1>2

(* Every call is for an ancestor of the callers' bundles, and the ids it     *)
(* was given are theirs and its own.                                        *)
Descent ==
  /\ \A k \in 1 .. Len(stack) :
       /\ stack[k].at \in Family
       /\ \A n \in stack[k].seen : \E j \in 1 .. k : IdOf[stack[j].at] = n
  /\ \A k \in 1 .. Len(stack) : \A j \in 1 .. k - 1 : stack[k].at \in Above[stack[j].at]

DescentInv == Exact => Descent

LEMMA FamilyClosed ==
  ASSUME root \in Bundles
  PROVE  /\ Family \subseteq Bundles
         /\ \A b \in Family : Above[b] \subseteq Family
BY AboveSteps, AboveTransitive DEF Family

LEMMA SameStack ==
  ASSUME DescentInv, UNCHANGED <<walker, root, stack>>,
         walker = "rc" => UNCHANGED store
  PROVE  DescentInv'
<1>1. Family' = Family
  BY DEF Family
<1>2. Exact' => Exact
  BY <1>1 DEF Exact, Honest
<1> QED BY <1>1, <1>2 DEF DescentInv, Descent

(* The parent under the cursor is below every bundle on the stack.          *)
LEMMA NextInLine ==
  ASSUME TypeOK, Descent, HasRef, Ref.digest \in Bundles
  PROVE  /\ Ref.digest \in Family /\ Ref.digest \in Above[Top.at]
         /\ \A k \in 1 .. Len(stack) : Ref.digest \in Above[stack[k].at]
<1>1. /\ Len(stack) \in Nat \ {0} /\ Top \in Frames /\ Top = stack[Len(stack)]
      /\ Top.at \in Bundles /\ Top.next \in DOMAIN RefsOf[Top.at]
  BY RefType, BundleType DEF Frames
<1>2. PICK d : d = Ref.digest
  OBVIOUS
<1>3. d \in Above[Top.at]
  BY <1>1, <1>2, AboveSteps DEF Ref, Digest
<1>4. Top.at \in Family
  BY <1>1 DEF Descent
<1>5. d \in Family
  BY <1>3, <1>4, FamilyClosed DEF TypeOK
<1>6. ASSUME NEW k \in 1 .. Len(stack) PROVE d \in Above[stack[k].at]
  <2>1. CASE k = Len(stack)
    BY <1>1, <1>3, <2>1
  <2>2. CASE k # Len(stack)
    <3>1. k \in 1 .. Len(stack) - 1 /\ Len(stack) \in 1 .. Len(stack)
      BY <1>1, <2>2
    <3>2. Top.at \in Above[stack[k].at]
      BY <1>1, <3>1 DEF Descent
    <3>3. stack[k].at \in Bundles
      BY FamilyClosed DEF Descent, TypeOK
    <3> QED BY <1>3, <3>2, <3>3, AboveTransitive
  <2> QED BY <2>1, <2>2
<1> QED BY <1>2, <1>3, <1>5, <1>6

(* Going into a bundle that stands below all on the stack. *)
LEMMA DescentEntered ==
  ASSUME TypeOK, Descent, NEW p \in Family, Enter(p),
         \A k \in 1 .. Len(stack) : p \in Above[stack[k].at]
  PROVE  Descent'
<1>1. p \in Bundles /\ UNCHANGED root
  BY FamilyClosed DEF TypeOK, Enter
<1>2. Family' = Family
  BY <1>1 DEF Family
<1>3. PICK n \in Nat : n = Len(stack)
  BY <1>1, Entered
<1>4. /\ Len(stack') = n + 1
      /\ \A k \in 1 .. n : stack'[k] = stack[k]
      /\ stack'[n + 1].at = p
      /\ stack'[n + 1].seen = OnPath \cup ({IdOf[p]} \ {NoId})
      /\ OnPath = IF n = 0 THEN {} ELSE stack[n].seen
  <2>1. stack = <<>> <=> n = 0
    BY <1>3 DEF TypeOK
  <2>2. stack = <<>> => OnPath = {}
    BY DEF OnPath
  <2> QED BY <1>1, <1>3, <2>1, <2>2, Entered
<1>5. ASSUME NEW k \in 1 .. n + 1
      PROVE  /\ stack'[k].at \in Family
             /\ \A i \in stack'[k].seen : \E j \in 1 .. k : IdOf[stack'[j].at] = i
  <2>1. CASE k \in 1 .. n
    <3>1. \A j \in 1 .. k : stack'[j] = stack[j]
      BY <1>4, <2>1
    <3> QED BY <1>3, <1>4, <2>1, <3>1 DEF Descent
  <2>2. CASE k = n + 1
    <3>1. ASSUME NEW i \in stack'[k].seen PROVE \E j \in 1 .. n + 1 : IdOf[stack'[j].at] = i
      <4>1. CASE i = IdOf[p]
        BY <1>4, <4>1
      <4>2. CASE i \in OnPath
        <5>1. n # 0 /\ i \in stack[n].seen /\ n \in 1 .. n
          BY <1>4, <4>2
        <5>2. PICK j \in 1 .. n : IdOf[stack[j].at] = i
          BY <1>3, <5>1 DEF Descent
        <5> QED BY <1>4, <5>2
      <4> QED BY <1>4, <2>2, <3>1, <4>1, <4>2
    <3> QED BY <1>4, <2>2, <3>1
  <2> QED BY <2>1, <2>2
<1>6. ASSUME NEW k \in 1 .. n + 1, NEW j \in 1 .. k - 1
      PROVE  stack'[k].at \in Above[stack'[j].at]
  <2>1. j \in 1 .. n /\ stack'[j] = stack[j]
    BY <1>4
  <2>2. CASE k \in 1 .. n
    BY <1>3, <1>4, <2>1, <2>2 DEF Descent
  <2>3. CASE k = n + 1
    BY <1>3, <1>4, <2>1, <2>3
  <2> QED BY <2>2, <2>3
<1> QED BY <1>2, <1>4, <1>5, <1>6 DEF Descent

LEMMA DescentStep == ASSUME IInv, DescentInv, [Next]_vars PROVE DescentInv'
<1>0. TypeOK
  BY DEF IInv
<1>1. CASE Begin
  <2>1. stack = <<>> /\ root \in Bundles
    BY <1>0, <1>1 DEF Begin, TypeOK
  <2>2. CASE RootEntry = "enter" /\ Enter(root)
    <3>1. Len(stack) = 0
      BY <2>1
    <3>2. Descent /\ root \in Family
      BY <3>1 DEF Descent, Family
    <3> QED BY <1>0, <2>2, <3>1, <3>2, DescentEntered DEF DescentInv
  <2> QED BY <1>1, <2>2, SameStack DEF Begin, Return
<1>2. CASE RefuseReference \/ ParentMissing \/ RefuseParent
  BY <1>2, SameStack DEF RefuseReference, ParentMissing, RefuseParent, Return
<1>3. CASE SkipParent \/ (Leave /\ Len(stack) # 1)
  <2>1. UNCHANGED <<walker, root, store>>
    BY <1>3 DEF SkipParent, Leave
  <2>2. Family' = Family
    BY <2>1 DEF Family
  <2>3. Exact' => Exact
    BY <2>1, <2>2 DEF Exact, Honest
  <2> SUFFICES ASSUME Descent PROVE Descent'
    BY <2>3 DEF DescentInv
  <2>4. PICK m : m = Current
    OBVIOUS
  <2>5. /\ m \in 1 .. Len(stack) /\ Len(stack') = m /\ Len(stack) \in Nat
        /\ \A k \in 1 .. m : stack'[k].at = stack[k].at /\ stack'[k].seen = stack[k].seen
    BY <1>0, <1>3, <2>4, GoesOn
  <2>6. \A k \in 1 .. m : k \in 1 .. Len(stack) /\ \A j \in 1 .. k : j \in 1 .. m
    BY <2>5
  <2>7. \A k \in 1 .. m : /\ stack'[k].at \in Family
                          /\ \A i \in stack'[k].seen : \E j \in 1 .. k : IdOf[stack'[j].at] = i
    BY <2>5, <2>6 DEF Descent
  <2>8. \A k \in 1 .. m : \A j \in 1 .. k - 1 : stack'[k].at \in Above[stack'[j].at]
    BY <2>5, <2>6 DEF Descent
  <2> QED BY <2>2, <2>5, <2>7, <2>8 DEF Descent
<1>4. CASE Leave /\ Len(stack) = 1
  BY <1>4, SameStack DEF Leave
<1>5. CASE EnterParent
  <2>1. PICK p \in Bundles : p \in Lookup(Ref) /\ Enter(p) /\ Answers(Rule, Ref, p)
    BY <1>0, <1>5, Entering
  <2>2. UNCHANGED <<walker, root, store>>
    BY <2>1 DEF Enter
  <2>3. Exact' => Exact
    BY <2>2 DEF Exact, Honest, Family
  <2> SUFFICES ASSUME Exact, Descent PROVE Descent'
    BY <2>3 DEF DescentInv
  <2>4. p = Ref.digest /\ HasRef
    BY <1>0, <1>5, <2>1, Entering, ExactParent
  <2> QED BY <1>0, <2>1, <2>4, NextInLine, DescentEntered
<1>6. CASE Put
  BY <1>6, SameStack DEF Put
<1>7. CASE UNCHANGED vars
  BY <1>7, SameStack DEF vars
<1> QED BY <1>1, <1>2, <1>3, <1>4, <1>5, <1>6, <1>7 DEF Next, Walk

LEMMA DescentStart == Init => DescentInv
<1> SUFFICES ASSUME Init PROVE DescentInv
  OBVIOUS
<1>1. Len(stack) = 0
  BY DEF Init
<1> QED BY <1>1 DEF DescentInv, Descent

(* An id of the line that comes back is one that an ancestor repeats.       *)
LEMMA ComesBack ==
  ASSUME TypeOK, Descent, HasRef, Ref.digest \in Bundles, IdOf[Ref.digest] \in OnPath
  PROVE  RepeatedId
<1>1. /\ Len(stack) \in 1 .. Len(stack) /\ OnPath = stack[Len(stack)].seen
      /\ OnPath \subseteq Ids
  BY RefType DEF OnPath, HasRef, Frames
<1>2. PICK k \in 1 .. Len(stack) : IdOf[stack[k].at] = IdOf[Ref.digest]
  BY <1>1 DEF Descent
<1>3. stack[k].at \in Family /\ Ref.digest \in Above[stack[k].at]
  BY NextInLine DEF Descent
<1>4. IdOf[Ref.digest] # NoId
  BY <1>1, ParentRefsAssumption
<1> QED BY <1>2, <1>3, <1>4 DEF RepeatedId

LEMMA CycleStep == ASSUME IInv, DescentInv, CycleIsReal, [Next]_vars PROVE CycleIsReal'
<1>0. TypeOK
  BY DEF IInv
<1>1. ASSUME UNCHANGED <<walker, root>>, walker = "rc" => UNCHANGED store,
             verdict' = "cycle" => verdict = "cycle"
      PROVE  CycleIsReal'
  <2>1. Family' = Family
    BY <1>1 DEF Family
  <2>2. RepeatedId' = RepeatedId /\ (walker = "rc" => Honest' = Honest)
    BY <1>1, <2>1 DEF RepeatedId, Honest
  <2> QED BY <1>1, <2>2 DEF CycleIsReal
<1>2. CASE Begin
  <2>1. stack = <<>> /\ OnPath = {} /\ verdict = "none"
    BY <1>2 DEF Begin, OnPath
  <2>2. RootEntry # "cycle"
    BY <2>1 DEF RootEntry, PyEntry, CopyingEntry, RcEntry
  <2> QED BY <1>1, <1>2, <2>1, <2>2 DEF Begin, Return, Enter
<1>3. CASE RefuseReference
  <2>1. walker = "go" /\ walker' = "go"
    BY <1>3 DEF RefuseReference, BeforeLookup, Return
  <2> QED BY <2>1 DEF CycleIsReal
<1>4. CASE RefuseParent
  <2>1. PICK p \in Lookup(Ref) : Return(ParentVerdict(Ref, p))
    BY <1>4 DEF RefuseParent
  <2>2. UNCHANGED <<walker, root, store>> /\ verdict' = ParentVerdict(Ref, p)
    BY <2>1 DEF Return
  <2>3. CASE ParentVerdict(Ref, p) # "cycle"
    BY <1>1, <2>2, <2>3
  <2>4. CASE ParentVerdict(Ref, p) = "cycle"
    <3> SUFFICES ASSUME walker \in {"ts", "py"} \/ (walker = "rc" /\ Honest) PROVE RepeatedId
      BY <2>2 DEF CycleIsReal, RepeatedId, Honest, Family
    <3>1. Exact /\ Descent
      BY DEF Exact, DescentInv
    <3>2. HasRef /\ Ref \in Refs
      BY <1>0, <1>4, RefType DEF RefuseParent
    <3>3. p \in Bundles
      BY <1>0, <2>1, <3>2, LookupType
    <3>4. Answers(Rule, Ref, p) /\ IdOf[p] \in OnPath
      BY <2>4 DEF ParentVerdict, Matches, CopyingEntry, RcEntry
    <3>5. p = Ref.digest
      BY <1>0, <2>1, <3>1, <3>2, <3>4, ExactParent
    <3> QED BY <1>0, <3>1, <3>2, <3>3, <3>4, <3>5, ComesBack
  <2> QED BY <2>3, <2>4
<1>5. CASE ParentMissing
  BY <1>1, <1>5 DEF ParentMissing, Return
<1>6. CASE SkipParent
  BY <1>1, <1>6 DEF SkipParent
<1>7. CASE EnterParent
  BY <1>0, <1>1, <1>7, Entering DEF Enter
<1>8. CASE Leave
  BY <1>1, <1>8 DEF Leave
<1>9. CASE Put
  BY <1>1, <1>9 DEF Put
<1>10. CASE UNCHANGED vars
  BY <1>1, <1>10 DEF vars
<1> QED BY <1>2, <1>3, <1>4, <1>5, <1>6, <1>7, <1>8, <1>9, <1>10 DEF Next, Walk

LEMMA AlwaysDescent == Spec => []DescentInv
BY Inductive, DescentStart, DescentStep, PTL DEF Spec

(* ts and py, and rc where claims are honest, say "cycle" only when an id   *)
(* comes back along one line of descent, whatever other branches visited.   *)
THEOREM CyclesAreReal == Spec => []CycleIsReal
<1>1. Init => CycleIsReal
  BY DEF Init, CycleIsReal
<1>2. IInv /\ DescentInv /\ CycleIsReal /\ [Next]_vars => CycleIsReal'
  BY CycleStep
<1> QED BY <1>1, <1>2, Inductive, AlwaysDescent, PTL DEF Spec

-----------------------------------------------------------------------------
(* The height of a bundle.                                                  *)
Below(b, f) ==
  {0} \cup {IF Digest(b, i) = Junk THEN 1 ELSE 1 + f[Digest(b, i)] : i \in DOMAIN RefsOf[b]}

Greatest(S) == CHOOSE h \in S : \A k \in S : k <= h

LEMMA BelowHasGreatest ==
  ASSUME NEW b \in Bundles, NEW f,
         \A i \in DOMAIN RefsOf[b] : Digest(b, i) \in Bundles => f[Digest(b, i)] \in Nat
  PROVE  /\ Below(b, f) \subseteq Nat
         /\ Greatest(Below(b, f)) \in Below(b, f)
         /\ \A k \in Below(b, f) : k <= Greatest(Below(b, f))
<1> DEFINE g == [i \in 1 .. Len(RefsOf[b]) |->
                   IF Digest(b, i) = Junk THEN 1 ELSE 1 + f[Digest(b, i)]]
<1>1. PICK n \in Nat : n = Len(RefsOf[b]) /\ DOMAIN RefsOf[b] = 1 .. n
  BY BundleType
<1>2. \A i \in 1 .. n : Digest(b, i) \in Bundles \cup {Junk}
  BY <1>1, BundleType DEF Digest, Refs
<1>3. g \in [1 .. n -> Nat]
  BY <1>1, <1>2
<1>4. Below(b, f) = {0} \cup {g[i] : i \in 1 .. n}
  BY <1>1 DEF Below
<1>5. PICK bound \in Nat : \A i \in 1 .. n : g[i] <= bound
  <2> HIDE DEF g
  <2> QED BY <1>3, SequenceBounded
<1>6. Below(b, f) \in SUBSET Nat /\ Below(b, f) # {}
  <2> HIDE DEF g
  <2> QED BY <1>3, <1>4
<1>7. \A k \in Below(b, f) : k <= bound
  <2> HIDE DEF g
  <2> QED BY <1>4, <1>5
<1>8. \E h \in Below(b, f) : \A k \in Below(b, f) : k <= h
  BY <1>6, <1>7, GreatestNatural
<1> QED BY <1>6, <1>8 DEF Greatest

LEMMA HeightDef ==
  \A b \in Bundles : Height[b] \in Nat /\ Height[b] = Greatest(Below(b, Height))
<1> DEFINE F == [f \in [Bundles -> Nat] |-> [b \in Bundles |-> Greatest(Below(b, f))]]
<1>1. ASSUME NEW f \in [Bundles -> Nat], NEW b \in Bundles PROVE Greatest(Below(b, f)) \in Nat
  BY BelowHasGreatest
<1>2. F \in [[Bundles -> Nat] -> [Bundles -> Nat]]
  BY <1>1
<1>3. LooksDown(F, Bundles, Nat, Age)
  <2> SUFFICES ASSUME NEW g \in [Bundles -> Nat], NEW h \in [Bundles -> Nat], NEW b \in Bundles,
                      \A y \in Bundles : Age[y] < Age[b] => g[y] = h[y]
               PROVE  F[g][b] = F[h][b]
    BY DEF LooksDown
  <2>1. \A i \in DOMAIN RefsOf[b] : Digest(b, i) # Junk => g[Digest(b, i)] = h[Digest(b, i)]
    BY BundleType, ParentRefsAssumption DEF Refs, Digest
  <2>2. Below(b, g) = Below(b, h)
    BY <2>1 DEF Below
  <2> QED BY <2>2
<1>4. Age \in [Bundles -> Nat] /\ 0 \in Nat
  BY ParentRefsAssumption
<1>5. \E f \in [Bundles -> Nat] : FixedPoint(F, f)
  <2> HIDE DEF F
  <2> QED BY <1>2, <1>3, <1>4, RankedRecursion
<1>6. PICK f \in [Bundles -> Nat] : f = [b \in Bundles |-> Greatest(Below(b, f))]
  BY <1>5 DEF FixedPoint
<1>7. Height = [b \in Bundles |-> Greatest(Below(b, Height))]
  BY <1>6 DEF Height, Below, Greatest, Digest
<1> HIDE DEF F
<1>8. \A b \in Bundles : Height[b] = Greatest(Below(b, Height))
  BY <1>7
<1> DEFINE S == {b \in Bundles : Height[b] \notin Nat}
<1>9. ASSUME NEW b \in S PROVE \E d \in S : Age[d] < Age[b]
  <2> SUFFICES ASSUME \A d \in S : ~(Age[d] < Age[b]) PROVE FALSE
    OBVIOUS
  <2>0. b \in Bundles
    OBVIOUS
  <2>1. \A i \in DOMAIN RefsOf[b] : Digest(b, i) \in Bundles => Height[Digest(b, i)] \in Nat
    BY <2>0, AboveSteps
  <2>2. Height[b] \in Nat
    BY <1>8, <2>0, <2>1, BelowHasGreatest
  <2> QED BY <2>2
<1>10. S = {}
  <2> HIDE DEF S
  <2>1. S \in SUBSET Bundles
    BY DEF S
  <2> QED BY <1>4, <1>9, <2>1, RankInduction
<1> QED BY <1>8, <1>10

LEMMA HeightSteps ==
  ASSUME NEW b \in Bundles
  PROVE  /\ Height[b] \in Nat
         /\ \A i \in DOMAIN RefsOf[b] : Digest(b, i) \in Bundles => 1 + Height[Digest(b, i)] <= Height[b]
         /\ RefsOf[b] # <<>> => 1 <= Height[b]
         /\ RefsOf[b] = <<>> => Height[b] = 0
         /\ \/ Height[b] = 0
            \/ \E i \in DOMAIN RefsOf[b] :
                 IF Digest(b, i) = Junk THEN Height[b] = 1 ELSE Height[b] = 1 + Height[Digest(b, i)]
<1>1. Height[b] \in Nat /\ Height[b] = Greatest(Below(b, Height))
  BY HeightDef
<1>2. /\ Height[b] \in Below(b, Height)
      /\ \A k \in Below(b, Height) : k <= Height[b]
  BY <1>1, HeightDef, BelowHasGreatest
<1>3. \A i \in DOMAIN RefsOf[b] : Digest(b, i) \in Bundles =>
        /\ Digest(b, i) # Junk /\ Height[Digest(b, i)] \in Nat
        /\ 1 + Height[Digest(b, i)] \in Below(b, Height)
  BY HeightDef, ParentRefsAssumption DEF Below
<1>4. ASSUME RefsOf[b] # <<>> PROVE 1 <= Height[b]
  <2>1. 1 \in DOMAIN RefsOf[b] /\ Digest(b, 1) \in Bundles \cup {Junk}
    BY <1>4, BundleType DEF Digest, Refs
  <2>2. CASE Digest(b, 1) = Junk
    BY <1>2, <2>1, <2>2 DEF Below
  <2>3. CASE Digest(b, 1) \in Bundles
    BY <1>1, <1>2, <1>3, <2>1, <2>3
  <2> QED BY <2>1, <2>2, <2>3
<1>5. RefsOf[b] = <<>> => Height[b] = 0
  BY <1>2, BundleType DEF Below
<1> QED BY <1>1, <1>2, <1>3, <1>4, <1>5 DEF Below

-----------------------------------------------------------------------------
(* A store that is honest and that nobody has written to.                   *)
Calm == writes = 0 /\ Honest

FiledInv == store \in Filings[walker]

LEMMA AlwaysFiled == Spec => []FiledInv
<1>1. Init => FiledInv
  BY DEF Init, FiledInv
<1>2. FiledInv /\ [Next]_vars => FiledInv'
  BY DEF FiledInv, Next, Walk, vars, Begin, RefuseReference, ParentMissing, RefuseParent, SkipParent,
         EnterParent, Leave, Put, Return, Enter
<1> QED BY <1>1, <1>2, PTL DEF Spec

LEMMA StillCalm ==
  ASSUME TypeOK, [Next]_vars, Calm'
  PROVE  Calm /\ UNCHANGED <<walker, root, store, writes>> /\ found \subseteq found'
         /\ (verdict # "none" => UNCHANGED verdict)
<1>1. writes' # writes + 1
  BY WalksAssumption DEF TypeOK, Calm
<1>2. UNCHANGED <<walker, root, store, writes>> /\ found \subseteq found'
  BY <1>1 DEF Next, Walk, vars, Begin, RefuseReference, ParentMissing, RefuseParent, SkipParent,
         EnterParent, Leave, Put, Return, Enter
<1>3. Calm
  BY <1>2 DEF Calm, Honest, Family
<1>4. verdict # "none" => UNCHANGED verdict
  BY DEF Next, Walk, vars, Begin, RefuseReference, ParentMissing, RefuseParent, SkipParent,
         EnterParent, Leave, Put, Return, Enter, HasRef
<1> QED BY <1>2, <1>3, <1>4

(* What holds of a reference when the walk has gone past it. *)
Vouched(ref) ==
  /\ Resolves(ref) /\ Suits(ref)
  /\ walker = "ts" => ref.trusted
  /\ ref.digest \in found \/ RefsOf[ref.digest] = <<>>

VouchInv ==
  /\ \A q \in found : q = root \/ q \in store[IdOf[q]]
  /\ \A k \in 1 .. Len(stack) - 1 : Vouched(RefsOf[stack[k].at][stack[k].next])
  /\ stack # <<>> =>
       \A b \in found : \A i \in DOMAIN RefsOf[b] :
         \/ Vouched(RefsOf[b][i])
         \/ \E k \in 1 .. Len(stack) : stack[k].at = b /\ stack[k].next <= i

LEMMA StillVouched ==
  ASSUME UNCHANGED <<walker, root, store>>, found \subseteq found', NEW ref, Vouched(ref)
  PROVE  Vouched(ref)'
BY DEF Vouched, Resolves, Suits

(* On a calm store the parent that is accepted is the one that is named.    *)
LEMMA CalmParent ==
  ASSUME TypeOK, Calm, NEW ref \in Refs, NEW p \in Lookup(ref), Answers(Rule, ref, p)
  PROVE  p = ref.digest /\ Resolves(ref) /\ p \in Bundles /\ IdOf[p] = ref.id
<1>1. p = ref.digest
  BY ExactParent DEF Exact, Calm
<1>2. ref.id \in Ids /\ p \in store[ref.id] /\ p \in Bundles
  BY LookupType DEF Lookup, Refs
<1> QED BY <1>1, <1>2 DEF Resolves, Calm, Honest

(* rc skips a bundle by its id: on a calm store it is the bundle it knows.  *)
LEMMA KnownById ==
  ASSUME IInv, Calm, Descent, FiledInv, VouchInv, walker = "rc",
         NEW p \in Family, p \in store[IdOf[p]], p \in Above[root], IdOf[p] \in shared
  PROVE  p \in found
<1>1. PICK q \in found : IdOf[q] = IdOf[p]
  BY DEF IInv, MemoryInv
<1>2. q # root
  BY <1>1 DEF Calm, Honest, Family
<1>3. q \in store[IdOf[p]]
  BY <1>1, <1>2 DEF VouchInv
<1>4. IdOf[p] \in Ids /\ walker \in Walkers \ {"py"}
  BY FamilyClosed, BundleType DEF IInv, TypeOK, Calm, Honest
<1>5. Single(store)
  BY <1>4, WalksAssumption DEF FiledInv
<1>6. q = p
  BY <1>3, <1>4, <1>5 DEF Single
<1> QED BY <1>6

(* The reference under the cursor is vouched for when the walk goes on.     *)
LEMMA Vouching ==
  ASSUME IInv, Calm, Descent, FiledInv, VouchInv, HasRef,
         NEW p \in Lookup(Ref), ParentVerdict(Ref, p) \in {"skip", "enter"}
  PROVE  /\ p = Ref.digest /\ p \in Family /\ Resolves(Ref) /\ Suits(Ref) /\ IdOf[p] = Ref.id
         /\ walker = "ts" => Ref.trusted
         /\ ParentVerdict(Ref, p) = "skip" => Vouched(Ref)
<1>0. TypeOK
  BY DEF IInv
<1>1. Ref \in Refs /\ p \in Bundles
  BY <1>0, RefType, LookupType
<1>2. p = Ref.digest /\ Resolves(Ref) /\ IdOf[p] = Ref.id
  BY <1>0, <1>1, ParentVerdicts, CalmParent
<1>3. walker = "ts" => Ref.trusted
  BY DEF ParentVerdict
<1>9. Suits(Ref)
  <2>1. Matches(Ref, p)
    BY DEF ParentVerdict
  <2>2. CASE walker = "rc"
    <3>1. Claimed[p] = Value(Ref.digest, Ref.made)
      BY <2>1, <2>2 DEF Matches, Answers, Rule
    <3>2. p \in store[Ref.id] /\ Ref.id \in Ids
      BY <1>1, <2>2 DEF Lookup, Refs
    <3>3. Claimed[p] = Value(p, AlgOf[p])
      BY <3>2 DEF Calm, Honest
    <3> QED BY <1>2, <2>2, <3>1, <3>3 DEF Suits, Value
  <2>3. CASE walker # "rc"
    <3>1. Used(Ref, Ref.digest) = Ref.made
      BY <1>2, <2>1, <2>3 DEF Matches
    <3>2. walker = "py" => Ref.made = AlgOf[root]
      BY DEF Lookup
    <3> QED BY <2>3, <3>1, <3>2 DEF Suits, Used
  <2> QED BY <2>2, <2>3
<1>4. Len(stack) \in Nat \ {0} /\ Top = stack[Len(stack)]
  BY <1>0, RefType
<1>5. p \in Family /\ p \in Above[stack[1].at]
  BY <1>0, <1>1, <1>2, <1>4, NextInLine
<1>6. stack[1].at \in Family
  BY <1>4 DEF Descent
<1>7. p \in Above[root]
  <2>1. root \in Bundles
    BY <1>0 DEF TypeOK
  <2> QED BY <1>5, <1>6, <2>1, AboveTransitive DEF Family
<1>8. ParentVerdict(Ref, p) = "skip" => RefsOf[p] = <<>> \/ p \in found
  <2>1. ParentVerdict(Ref, p) = "skip" => RefsOf[p] = <<>> \/ (walker = "rc" /\ IdOf[p] \in shared)
    BY <1>1, ParentVerdicts
  <2>2. p \in store[IdOf[p]]
    BY <1>2 DEF Resolves
  <2> QED BY <1>5, <1>7, <2>1, <2>2, KnownById
<1> QED BY <1>2, <1>3, <1>5, <1>8, <1>9 DEF Vouched

LEMMA VouchStep ==
  ASSUME IInv, Calm, Descent, FiledInv, VouchInv, [Next]_vars,
         UNCHANGED <<walker, root, store, writes>>
  PROVE  VouchInv'
<1>0. TypeOK /\ root \in Bundles
  BY DEF IInv, TypeOK
<1>b. \A ref : Resolves(ref)' = Resolves(ref) /\ Suits(ref)' = Suits(ref)
  BY DEF Resolves, Suits
<1>1. ASSUME UNCHANGED <<stack, found>> PROVE VouchInv'
  <2>1. \A ref : Vouched(ref)' = Vouched(ref)
    BY <1>1, <1>b DEF Vouched
  <2> QED BY <1>1, <2>1 DEF VouchInv
<1>2. CASE Begin
  <2>1. stack = <<>> /\ found = {root}
    BY <1>2 DEF Begin, IInv, StartInv
  <2>2. CASE RootEntry = "enter" /\ Enter(root)
    <3>1. Len(stack) = 0 /\ found' = {root}
      BY <2>1, <2>2 DEF Enter
    <3>2. Len(stack') = 1 /\ stack'[1].at = root /\ stack'[1].next = 1
      BY <1>0, <2>2, <3>1, Entered
    <3>3. \A i \in DOMAIN RefsOf[root] : 1 <= i
      BY <1>0, BundleType
    <3> QED BY <3>1, <3>2, <3>3 DEF VouchInv
  <2> QED BY <1>1, <1>2, <2>2 DEF Begin, Return
<1>3. CASE RefuseReference \/ ParentMissing \/ RefuseParent
  BY <1>1, <1>3 DEF RefuseReference, ParentMissing, RefuseParent, Return
<1>4. CASE SkipParent \/ (Leave /\ Len(stack) # 1)
  <2>1. PICK m : m = Current
    OBVIOUS
  <2>2. /\ m \in 1 .. Len(stack) /\ Len(stack') = m /\ Len(stack) \in Nat
        /\ \A k \in 1 .. m : stack'[k].at = stack[k].at /\ stack[k] \in Frames
        /\ \A k \in 1 .. m - 1 : stack'[k] = stack[k]
        /\ stack'[m].next = stack[m].next + 1
        /\ SkipParent => m = Len(stack)
        /\ Leave => m = Len(stack) - 1
    BY <1>0, <1>4, <2>1, GoesOn
  <2>3. found' = found /\ stack # <<>>
    BY <1>4 DEF SkipParent, HasRef, Leave
  <2>4. Vouched(RefsOf[stack[m].at][stack[m].next])
    <3>1. CASE SkipParent
      <4>1. HasRef /\ \E p \in Lookup(Ref) : ParentVerdict(Ref, p) = "skip"
        BY <3>1 DEF SkipParent
      <4>2. Vouched(Ref)
        BY <4>1, Vouching
      <4>3. Top = stack[m]
        BY <2>2, <3>1 DEF Top
      <4> QED BY <4>2, <4>3 DEF Ref
    <3>2. CASE Leave
      BY <2>2, <3>2 DEF VouchInv
    <3> QED BY <1>4, <3>1, <3>2
  <2>5. \A ref : Vouched(ref)' <=> Vouched(ref)
    BY <1>b, <2>3 DEF Vouched
  <2>6. \A k \in 1 .. m - 1 : Vouched(RefsOf[stack[k].at][stack[k].next])
    BY <2>2 DEF VouchInv
  <2>7. ASSUME NEW b \in found, NEW i \in DOMAIN RefsOf[b]
        PROVE  \/ Vouched(RefsOf[b][i])
               \/ \E k \in 1 .. m : stack'[k].at = b /\ stack'[k].next <= i
    <3> SUFFICES ASSUME NEW k \in 1 .. Len(stack), stack[k].at = b, stack[k].next <= i
                 PROVE  \/ Vouched(RefsOf[b][i])
                        \/ \E j \in 1 .. m : stack'[j].at = b /\ stack'[j].next <= i
      BY <2>3, <2>7 DEF VouchInv
    <3>1. i \in 1 .. Len(RefsOf[b])
      BY <1>0, BundleType DEF TypeOK
    <3>2. CASE k \in 1 .. m - 1
      BY <2>2, <3>2
    <3>3. CASE k = m
      <4>1. CASE i = stack[m].next
        BY <2>4, <3>3, <4>1
      <4>2. CASE i # stack[m].next
        <5>1. stack[m].next \in Nat /\ i \in Nat
          BY <2>2, <3>1 DEF Frames
        <5>2. stack'[m].next <= i
          BY <2>2, <3>3, <4>2, <5>1
        <5> QED BY <2>2, <3>3, <5>2
      <4> QED BY <4>1, <4>2
    <3>4. CASE k > m
      <4>1. Leave /\ k = Len(stack) /\ Top = stack[k]
        BY <1>4, <2>2, <3>4 DEF Top
      <4>2. Top.next > Len(RefsOf[b])
        BY <4>1 DEF Leave
      <4>3. Top.next \in Nat /\ i \in Nat /\ Len(RefsOf[b]) \in Nat
        <5>1. stack[k] \in Frames
          <6>1. stack \in Seq(Frames)
            BY <1>0 DEF TypeOK, Frames
          <6> QED BY <6>1
        <5> QED BY <3>1, <4>1, <5>1, <1>0, BundleType DEF Frames, TypeOK
      <4> QED BY <3>1, <4>1, <4>2, <4>3
    <3> QED BY <2>2, <3>2, <3>3, <3>4
  <2>8. \A k \in 1 .. m - 1 : Vouched(RefsOf[stack'[k].at][stack'[k].next])
    BY <2>2, <2>6
  <2> QED BY <2>2, <2>3, <2>5, <2>7, <2>8 DEF VouchInv
<1>5. CASE Leave /\ Len(stack) = 1
  BY <1>1, <1>5 DEF Leave
<1>6. CASE EnterParent
  <2>1. PICK p \in Bundles : p \in Lookup(Ref) /\ Enter(p) /\ ParentVerdict(Ref, p) = "enter"
    BY <1>0, <1>6, Entering
  <2>2. PICK n \in Nat \ {0} : n = Len(stack)
    BY <1>0, <1>6, Entering
  <2>3. HasRef /\ Top = stack[n]
    BY <1>0, <1>6, <2>2, Entering
  <2>4. /\ p = Ref.digest /\ Resolves(Ref) /\ Suits(Ref) /\ IdOf[p] = Ref.id
        /\ walker = "ts" => Ref.trusted
    BY <2>1, <2>3, Vouching
  <2>5. found' = found \cup {p}
    BY <2>1 DEF Enter
  <2>6. /\ Len(stack') = n + 1 /\ \A k \in 1 .. n : stack'[k] = stack[k]
        /\ stack'[n + 1].at = p /\ stack'[n + 1].next = 1
    BY <1>0, <2>1, <2>2, Entered
  <2>7. \A q \in found' : q = root \/ q \in store[IdOf[q]]
    BY <2>4, <2>5 DEF VouchInv, Resolves
  <2> DEFINE V(ref) == /\ Resolves(ref) /\ Suits(ref)
                       /\ walker = "ts" => ref.trusted
                       /\ ref.digest \in found' \/ RefsOf[ref.digest] = <<>>
  <2>8. \A ref : (Vouched(ref)' <=> V(ref)) /\ (Vouched(ref) => V(ref))
    BY <1>b, <2>5 DEF Vouched
  <2>9. ASSUME NEW k \in 1 .. n PROVE V(RefsOf[stack'[k].at][stack'[k].next])
    <3>1. CASE k = n
      <4>1. RefsOf[stack[k].at][stack[k].next] = Ref
        BY <2>3, <3>1 DEF Ref
      <4>2. V(Ref)
        BY <2>4, <2>5
      <4> QED BY <2>6, <4>1, <4>2
    <3>2. CASE k # n
      <4>1. k \in 1 .. Len(stack) - 1
        BY <2>2, <3>2
      <4>2. Vouched(RefsOf[stack[k].at][stack[k].next])
        BY <4>1 DEF VouchInv
      <4> QED BY <2>6, <2>8, <4>2
    <3> QED BY <3>1, <3>2
  <2>10. ASSUME NEW b \in found', NEW i \in DOMAIN RefsOf[b]
         PROVE  \/ V(RefsOf[b][i])
                \/ \E k \in 1 .. n + 1 : stack'[k].at = b /\ stack'[k].next <= i
    <3>1. CASE b = p
      <4>1. 1 <= i
        BY <3>1, BundleType
      <4> QED BY <2>6, <3>1, <4>1
    <3>2. CASE b \in found
      <4>1. stack # <<>>
        BY <2>3 DEF HasRef
      <4>2. CASE Vouched(RefsOf[b][i])
        BY <2>8, <4>2
      <4>3. CASE \E k \in 1 .. n : stack[k].at = b /\ stack[k].next <= i
        BY <2>6, <4>3
      <4> QED BY <2>2, <3>2, <4>1, <4>2, <4>3 DEF VouchInv
    <3> QED BY <2>5, <3>1, <3>2
  <2> HIDE DEF V
  <2> QED BY <2>2, <2>6, <2>7, <2>8, <2>9, <2>10 DEF VouchInv
<1>7. CASE Put
  BY <1>0, <1>7 DEF Put, TypeOK
<1>8. CASE UNCHANGED vars
  BY <1>1, <1>8 DEF vars
<1> QED BY <1>2, <1>3, <1>4, <1>5, <1>6, <1>7, <1>8 DEF Next, Walk

(* The walk starts with the bundle itself. *)
RootedInv == root \in found /\ (stack # <<>> => stack[1].at = root)

LEMMA RootedStep == ASSUME IInv, RootedInv, [Next]_vars PROVE RootedInv'
<1>0. TypeOK /\ root \in Bundles
  BY DEF IInv, TypeOK
<1>1. ASSUME UNCHANGED <<root, stack>>, found \subseteq found' PROVE RootedInv'
  BY <1>1 DEF RootedInv
<1>2. CASE Begin
  <2>1. stack = <<>> /\ Len(stack) = 0
    BY <1>2 DEF Begin
  <2>2. ASSUME Enter(root) PROVE RootedInv'
    <3>1. stack'[1].at = root /\ UNCHANGED root /\ found \subseteq found'
      BY <1>0, <2>1, <2>2, Entered DEF Enter
    <3> QED BY <3>1 DEF RootedInv
  <2> QED BY <1>1, <1>2, <2>2 DEF Begin, Return
<1>3. CASE RefuseReference \/ ParentMissing \/ RefuseParent
  BY <1>1, <1>3 DEF RefuseReference, ParentMissing, RefuseParent, Return
<1>4. CASE SkipParent \/ (Leave /\ Len(stack) # 1)
  <2>1. stack # <<>> /\ stack'[1].at = stack[1].at
    <3>1. Current \in 1 .. Len(stack) /\ \A k \in 1 .. Current : stack'[k].at = stack[k].at
      BY <1>0, <1>4, GoesOn
    <3>2. stack # <<>>
      BY <1>4 DEF SkipParent, HasRef, Leave
    <3> QED BY <3>1, <3>2
  <2>2. UNCHANGED <<root, found>>
    BY <1>4 DEF SkipParent, Leave
  <2> QED BY <2>1, <2>2 DEF RootedInv
<1>5. CASE Leave /\ Len(stack) = 1
  BY <1>1, <1>5 DEF Leave
<1>6. CASE EnterParent
  <2>1. PICK p \in Bundles : Enter(p)
    BY <1>0, <1>6, Entering
  <2>2. stack # <<>> /\ Len(stack) \in Nat \ {0}
    BY <1>0, <1>6, Entering DEF HasRef
  <2>3. stack'[1] = stack[1]
    BY <1>0, <2>1, <2>2, Entered
  <2> QED BY <2>1, <2>2, <2>3 DEF RootedInv, Enter
<1>7. CASE Put
  BY <1>1, <1>7 DEF Put
<1>8. CASE UNCHANGED vars
  BY <1>1, <1>8 DEF vars
<1> QED BY <1>2, <1>3, <1>4, <1>5, <1>6, <1>7, <1>8 DEF Next, Walk

(* The budget that the heights of the parents behind a call leave to it.    *)
HeightsInv ==
  \A k \in 1 .. Len(stack) : \A i \in 1 .. stack[k].next - 1 :
    /\ Digest(stack[k].at, i) \in Bundles
    /\ Height[Digest(stack[k].at, i)] + k <= Budget

(* On a calm store every call is counted. *)
LEMMA FrameBound ==
  ASSUME TypeOK, Calm, Descent, BudgetInv, walker # "rc"
  PROVE  /\ Len(stack) \in Nat /\ Len(stack) <= Budget + 1
         /\ walker # "go" => Len(stack) <= Budget
<1>1. PICK n \in Nat : n = Len(stack)
  BY DEF TypeOK
<1>2. CASE walker = "go"
  BY <1>1, <1>2 DEF BudgetInv, ByCalls
<1>3. CASE walker # "go"
  <2>1. CASE n = 0
    BY <1>1, <2>1, WalksAssumption, BudgetNat
  <2>2. CASE n # 0
    <3>1. n \in 1 .. Len(stack) /\ stack[n] \in Frames
      <4>1. stack \in Seq(Frames)
        BY DEF TypeOK, Frames
      <4> QED BY <1>1, <2>2, <4>1
    <3>2. Named(n) = 1 .. n
      BY <1>1 DEF Named, Descent, Calm, Honest
    <3>3. Cardinality(Named(n)) = n
      BY <1>1, <3>2, NamedFinite
    <3>4. /\ Cardinality(stack[n].seen) <= Budget
          /\ Cardinality(Named(n)) <= Cardinality(stack[n].seen)
      BY <1>3, <3>1 DEF BudgetInv, ByCalls
    <3>5. Cardinality(stack[n].seen) \in Nat
      BY <3>1, SeenFinite DEF Frames
    <3> QED BY <1>1, <3>3, <3>4, <3>5, WalksAssumption, BudgetNat
  <2> QED BY <2>1, <2>2
<1> QED BY <1>2, <1>3

(* A call that returns has a height within what was left to it. *)
LEMMA LeavesLow ==
  ASSUME IInv, Calm, Descent, BudgetInv, HeightsInv, walker # "rc",
         stack # <<>>, Top.next > Len(RefsOf[Top.at])
  PROVE  Height[Top.at] + Len(stack) <= Budget + 1
<1>0. TypeOK
  BY DEF IInv
<1>1. PICK n \in Nat \ {0} : n = Len(stack)
  BY TopFinished
<1>2. Top = stack[n] /\ Top \in Frames /\ Top.at \in Bundles /\ n <= Budget + 1
  BY <1>0, <1>1, TopFinished, FrameBound DEF Frames
<1>3. Height[Top.at] \in Nat
  BY <1>2, HeightSteps
<1>4. CASE Height[Top.at] = 0
  BY <1>1, <1>2, <1>4, WalksAssumption, BudgetNat
<1>5. CASE Height[Top.at] # 0
  <2>1. PICK i \in DOMAIN RefsOf[Top.at] :
          IF Digest(Top.at, i) = Junk THEN Height[Top.at] = 1
          ELSE Height[Top.at] = 1 + Height[Digest(Top.at, i)]
    BY <1>2, <1>5, HeightSteps
  <2>2. i \in 1 .. Top.next - 1
    BY <1>2, <2>1, BundleType DEF Frames
  <2>3. Digest(Top.at, i) \in Bundles /\ Height[Digest(Top.at, i)] + n <= Budget
    BY <1>1, <1>2, <2>2 DEF HeightsInv
  <2>4. Digest(Top.at, i) # Junk /\ Height[Digest(Top.at, i)] \in Nat
    BY <2>3, HeightSteps, ParentRefsAssumption
  <2>5. Height[Top.at] = 1 + Height[Digest(Top.at, i)]
    BY <2>1, <2>4
  <2> QED BY <1>1, <2>3, <2>4, <2>5, WalksAssumption, BudgetNat
<1> QED BY <1>4, <1>5

LEMMA HeightsStep ==
  ASSUME IInv, Calm, Descent, FiledInv, VouchInv, BudgetInv, HeightsInv, walker # "rc", [Next]_vars,
         UNCHANGED <<walker, root, store, writes>>
  PROVE  HeightsInv'
<1>0. TypeOK /\ root \in Bundles
  BY DEF IInv, TypeOK
<1>b. Budget' = Budget
  BY BudgetFixed
<1>1. ASSUME UNCHANGED stack PROVE HeightsInv'
  BY <1>1, <1>b DEF HeightsInv
<1>2. ASSUME NEW p \in Bundles, Enter(p) PROVE HeightsInv'
  <2>1. /\ Len(stack) \in Nat /\ Len(stack') = Len(stack) + 1
        /\ \A k \in 1 .. Len(stack) : stack'[k] = stack[k]
        /\ stack'[Len(stack) + 1].next = 1
    BY <1>0, <1>2, Entered
  <2>2. ASSUME NEW k \in 1 .. Len(stack'), NEW i \in 1 .. stack'[k].next - 1
        PROVE  k \in 1 .. Len(stack) /\ stack'[k] = stack[k]
    BY <2>1
  <2> QED BY <1>b, <2>2 DEF HeightsInv
<1>3. CASE Begin
  BY <1>0, <1>1, <1>2, <1>3 DEF Begin, Return
<1>4. CASE RefuseReference \/ ParentMissing \/ RefuseParent
  BY <1>1, <1>4 DEF RefuseReference, ParentMissing, RefuseParent, Return
<1>5. CASE SkipParent \/ (Leave /\ Len(stack) # 1)
  <2>1. PICK m : m = Current
    OBVIOUS
  <2>2. /\ m \in 1 .. Len(stack) /\ Len(stack') = m /\ Len(stack) \in Nat
        /\ \A k \in 1 .. m : stack'[k].at = stack[k].at /\ stack[k] \in Frames
        /\ \A k \in 1 .. m - 1 : stack'[k] = stack[k]
        /\ stack'[m].next = stack[m].next + 1
        /\ SkipParent => m = Len(stack)
        /\ Leave => m = Len(stack) - 1
    BY <1>0, <1>5, <2>1, GoesOn
  <2>3. PICK d : d = Digest(stack[m].at, stack[m].next)
    OBVIOUS
  <2>4. d \in Bundles /\ Height[d] + m <= Budget
    <3>1. CASE SkipParent
      <4>1. PICK p \in Lookup(Ref) : ParentVerdict(Ref, p) = "skip" /\ HasRef
        BY <3>1 DEF SkipParent
      <4>2. Top = stack[m] /\ p = Ref.digest /\ p \in Bundles
        BY <1>0, <2>2, <3>1, <4>1, Vouching, FamilyClosed DEF Top
      <4>3. p = d
        BY <2>3, <4>2 DEF Ref, Digest
      <4>4. walker # "go" /\ RefsOf[p] = <<>>
        BY <4>1, <4>2, ParentVerdicts DEF ParentVerdict
      <4>5. Height[p] = 0 /\ m <= Budget
        BY <1>0, <2>2, <3>1, <4>2, <4>4, HeightSteps, FrameBound
      <4> QED BY <2>2, <4>2, <4>3, <4>5, WalksAssumption, BudgetNat
    <3>2. CASE Leave /\ Len(stack) # 1
      <4>1. Height[Top.at] + Len(stack) <= Budget + 1
        BY <3>2, LeavesLow DEF Leave
      <4>2. /\ Top = stack[Len(stack)] /\ Top.at \in Bundles /\ Len(stack) = m + 1
            /\ Height[Top.at] \in Nat
        BY <2>2, <3>2, TopFinished, HeightSteps DEF Leave, Frames
      <4>3. Answers(Rule, RefsOf[stack[m].at][stack[m].next], Top.at)
        BY <2>2, <4>2 DEF IInv, LineInv
      <4>4. Top.at = d
        BY <2>3, <4>3 DEF Answers, Rule, Digest
      <4> QED BY <2>2, <4>1, <4>2, <4>4, WalksAssumption, BudgetNat
    <3> QED BY <1>5, <3>1, <3>2
  <2>5. ASSUME NEW k \in 1 .. m, NEW i \in 1 .. stack'[k].next - 1
        PROVE  Digest(stack'[k].at, i) \in Bundles /\ Height[Digest(stack'[k].at, i)] + k <= Budget
    <3>1. k \in 1 .. Len(stack) /\ stack'[k].at = stack[k].at
      BY <2>2
    <3>2. CASE i \in 1 .. stack[k].next - 1
      BY <3>1, <3>2 DEF HeightsInv
    <3>3. CASE i \notin 1 .. stack[k].next - 1
      <4>1. k = m /\ i = stack[m].next
        <5>1. k = m
          BY <2>2, <3>3
        <5>2. stack[m].next \in Nat
          BY <2>2 DEF Frames
        <5> QED BY <2>2, <3>3, <5>1, <5>2
      <4> QED BY <2>3, <2>4, <3>1, <4>1
    <3> QED BY <3>2, <3>3
  <2> QED BY <1>b, <2>2, <2>5 DEF HeightsInv
<1>6. CASE Leave /\ Len(stack) = 1
  BY <1>1, <1>6 DEF Leave
<1>7. CASE EnterParent
  BY <1>0, <1>2, <1>7, Entering
<1>8. CASE Put
  BY <1>1, <1>8 DEF Put
<1>9. CASE UNCHANGED vars
  BY <1>1, <1>9 DEF vars
<1> QED BY <1>3, <1>4, <1>5, <1>6, <1>7, <1>8, <1>9 DEF Next, Walk

-----------------------------------------------------------------------------
(* What "valid" says on a calm store. *)
Upheld ==
  /\ AllResolve /\ AllSuit
  /\ walker = "ts" => AllTrusted
  /\ walker # "rc" => Height[root] <= Budget

(* Every member of the family is one the walk went into, or has no parents. *)
LEMMA AllVouched ==
  ASSUME TypeOK, root \in found,
         \A b \in found : \A i \in DOMAIN RefsOf[b] : Vouched(RefsOf[b][i])
  PROVE  AllResolve /\ AllSuit /\ (walker = "ts" => AllTrusted)
<1> DEFINE P == {b \in Bundles : b \in found \/ RefsOf[b] = <<>>}
<1>1. ASSUME NEW b \in P, NEW i \in DOMAIN RefsOf[b], Digest(b, i) \in Bundles
      PROVE  Digest(b, i) \in P
  <2>1. b \in found
    BY BundleType
  <2>2. Vouched(RefsOf[b][i])
    BY <2>1
  <2> QED BY <1>1, <2>2 DEF Vouched, Digest
<1>2. \A b \in P : Above[b] \subseteq P
  <2> HIDE DEF P
  <2>1. P \in SUBSET Bundles
    BY DEF P
  <2> QED BY <1>1, <2>1, Handed
<1>3. root \in P
  BY DEF TypeOK
<1>4. Family \subseteq P
  BY <1>2, <1>3 DEF Family
<1>5. ASSUME NEW b \in Family, NEW i \in DOMAIN RefsOf[b] PROVE Vouched(RefsOf[b][i])
  <2>1. b \in found
    BY <1>4, <1>5, BundleType
  <2> QED BY <2>1
<1> QED BY <1>5 DEF AllResolve, AllSuit, AllTrusted, Vouched

LEMMA UpheldStep ==
  ASSUME IInv, Calm, Descent, FiledInv, VouchInv, BudgetInv, RootedInv,
         walker # "rc" => HeightsInv,
         verdict = "valid" => Upheld, [Next]_vars,
         UNCHANGED <<walker, root, store, writes>>, verdict' = "valid"
  PROVE  Upheld'
<1>0. TypeOK /\ root \in Bundles
  BY DEF IInv, TypeOK
<1>1. Upheld => Upheld'
  BY BudgetFixed DEF Upheld, AllResolve, AllSuit, AllTrusted, Family, Resolves, Suits
<1> SUFFICES ASSUME verdict # "valid" PROVE Upheld
  BY <1>1
<1>2. CASE Begin
  <2>1. RootEntry = "skip"
    <3>1. RootEntry # "valid"
      BY <1>0, EntryVerdicts
    <3> QED BY <1>2, <3>1 DEF Begin, Return, Enter
  <2>2. RefsOf[root] = <<>>
    BY <1>0, <1>2, <2>1, EntryVerdicts DEF RootEntry, PyEntry, Begin, IInv, StartInv
  <2>3. Height[root] = 0 /\ Above[root] = {}
    BY <1>0, <2>2, HeightSteps, AboveSteps
  <2>4. Family = {root}
    BY <2>3 DEF Family
  <2> QED BY <2>2, <2>3, <2>4, WalksAssumption, BudgetNat DEF Upheld, AllResolve, AllSuit, AllTrusted
<1>3. CASE RefuseReference
  <2>1. verdict' = BeforeLookup(Ref)
    BY <1>3 DEF RefuseReference, Return
  <2> QED BY <2>1, ReferenceVerdicts
<1>4. CASE RefuseParent
  <2>1. PICK p \in Lookup(Ref) : verdict' = ParentVerdict(Ref, p)
    BY <1>4 DEF RefuseParent, Return
  <2>2. p \in Bundles
    BY <1>0, <1>4, <2>1, RefType, LookupType DEF RefuseParent
  <2> QED BY <2>1, <2>2, ParentVerdicts
<1>5. CASE Leave
  <2>1. Len(stack) = 1 /\ stack # <<>> /\ Top.next > Len(RefsOf[Top.at])
    BY <1>5 DEF Leave
  <2>2. Top = stack[1] /\ Top.at \in Bundles /\ Top.next \in Nat
    BY <2>1, TopFinished DEF Frames
  <2>3. ASSUME NEW b \in found, NEW i \in DOMAIN RefsOf[b] PROVE Vouched(RefsOf[b][i])
    <3> SUFFICES ASSUME stack[1].at = b, stack[1].next <= i PROVE FALSE
      BY <2>1 DEF VouchInv
    <3> QED BY <2>1, <2>2, BundleType
  <2>4. root \in found /\ Top.at = root
    BY <2>1, <2>2 DEF RootedInv
  <2>5. ASSUME walker # "rc" PROVE Height[root] <= Budget
    <3>1. Height[root] + 1 <= Budget + 1
      BY <2>1, <2>4, <2>5, LeavesLow
    <3> QED BY <1>0, <3>1, HeightSteps, WalksAssumption, BudgetNat
  <2> QED BY <1>0, <2>3, <2>4, <2>5, AllVouched DEF Upheld
<1>6. CASE ParentMissing \/ SkipParent \/ EnterParent \/ Put \/ UNCHANGED vars
  BY <1>0, <1>6, Entering DEF ParentMissing, SkipParent, Enter, Put, vars, Return
<1> QED BY <1>2, <1>3, <1>4, <1>5, <1>6 DEF Next, Walk

-----------------------------------------------------------------------------
(* A calm store in which nothing stands against the bundle.                 *)
Sound ==
  /\ Calm
  /\ AllResolve /\ AllSuit /\ Height[root] <= Budget
  /\ walker = "ts" => AllTrusted
  /\ walker = "go" => Unshared

(* The calls do not go deeper than the bundle is high, and the ids they are *)
(* given are no more than they are.                                         *)
ShallowInv ==
  \A k \in 1 .. Len(stack) :
    /\ Height[stack[k].at] + k <= Height[root] + 1
    /\ Cardinality(stack[k].seen) <= k

(* go: the id of a reference is remembered when the walk takes it, and the  *)
(* walk comes by no reference twice.                                        *)
Spent(c, j) ==
  \A k \in 1 .. Len(stack) :
    stack[k].at = c => stack[k].next > j \/ (stack[k].next = j /\ k < Len(stack))

TakenOnce ==
  /\ \A k \in 1 .. Len(stack) : stack[k].at = root \/ IdOf[stack[k].at] \in shared
  /\ \A s \in shared : \E c \in Family : \E j \in DOMAIN RefsOf[c] :
       /\ s = RefsOf[c][j].id
       /\ c = root \/ IdOf[c] \in shared
       /\ Spent(c, j)

SoundInv == ShallowInv /\ (walker = "go" => TakenOnce)

(* The reference under the cursor leads to a bundle that is there, and that *)
(* the budget allows.                                                       *)
LEMMA NextIsThere ==
  ASSUME TypeOK, Descent, Sound, ShallowInv, HasRef
  PROVE  /\ Ref.digest \in store[Ref.id] /\ Ref.digest \in Family
         /\ IdOf[Ref.digest] = Ref.id /\ Ref.digest \notin Uncanonical
         /\ Claimed[Ref.digest] = Value(Ref.digest, AlgOf[Ref.digest]) /\ Suits(Ref)
         /\ Ref.id \in Ids
         /\ IdOf[Ref.digest] \notin OnPath
         /\ walker = "ts" => Ref.trusted
         /\ 1 + Height[Ref.digest] + Len(stack) <= Height[root] + 1
         /\ Height[Ref.digest] \in Nat
<1>1. /\ Len(stack) \in Nat \ {0} /\ Top \in Frames /\ Top = stack[Len(stack)]
      /\ Top.at \in Bundles /\ Top.next \in DOMAIN RefsOf[Top.at] /\ Ref.id \in Ids
  BY RefType, BundleType DEF Frames
<1>2. Top.at \in Family
  BY <1>1 DEF Descent
<1>3. Ref.digest \in store[Ref.id] /\ Suits(Ref) /\ (walker = "ts" => Ref.trusted)
  BY <1>1, <1>2 DEF Sound, AllResolve, AllSuit, AllTrusted, Resolves, Ref
<1>4. /\ Ref.digest \in Bundles /\ Ref.digest \notin Uncanonical
      /\ IdOf[Ref.digest] = Ref.id
      /\ Claimed[Ref.digest] = Value(Ref.digest, AlgOf[Ref.digest])
  BY <1>1, <1>3 DEF TypeOK, Sound, Calm, Honest
<1>5. Ref.digest \in Family /\ \A k \in 1 .. Len(stack) : Ref.digest \in Above[stack[k].at]
  BY <1>4, NextInLine
<1>6. IdOf[Ref.digest] \notin OnPath
  <2> SUFFICES ASSUME IdOf[Ref.digest] \in OnPath PROVE FALSE
    OBVIOUS
  <2>1. Len(stack) \in 1 .. Len(stack) /\ OnPath = stack[Len(stack)].seen
    BY <1>1 DEF OnPath, HasRef
  <2>2. PICK k \in 1 .. Len(stack) : IdOf[stack[k].at] = IdOf[Ref.digest]
    BY <2>1 DEF Descent
  <2>3. stack[k].at \in Family
    BY DEF Descent
  <2> QED BY <1>5, <2>2, <2>3 DEF Sound, Calm, Honest
<1>7. 1 + Height[Ref.digest] <= Height[Top.at]
  BY <1>1, <1>4, HeightSteps DEF Ref, Digest
<1>8. Height[Top.at] + Len(stack) <= Height[root] + 1
  BY <1>1 DEF ShallowInv
<1>9. Height[Ref.digest] \in Nat /\ Height[Top.at] \in Nat /\ Height[root] \in Nat
  BY <1>1, <1>4, HeightSteps DEF TypeOK
<1>10. 1 + Height[Ref.digest] + Len(stack) <= Height[root] + 1
  BY <1>1, <1>7, <1>8, <1>9
<1> QED BY <1>1, <1>3, <1>4, <1>5, <1>6, <1>9, <1>10

(* So no walk refuses anything. *)
LEMMA NothingRefused ==
  ASSUME IInv, FiledInv, Descent, Sound, SoundInv, HasRef
  PROVE  /\ BeforeLookup(Ref) = "pass"
         /\ Lookup(Ref) # {}
         /\ \A p \in Lookup(Ref) : ParentVerdict(Ref, p) \in {"skip", "enter"}
<1>0. TypeOK /\ root \in Bundles /\ walker \in {"ts", "py", "go", "rc"}
  BY WalksAssumption, BudgetNat DEF IInv, TypeOK
<1>1. PICK d : d = Ref.digest
  OBVIOUS
<1>2. /\ d \in store[Ref.id] /\ d \in Family /\ IdOf[d] = Ref.id /\ Suits(Ref)
      /\ d \notin Uncanonical /\ Claimed[d] = Value(d, AlgOf[d])
      /\ Ref.id \in Ids /\ IdOf[d] \notin OnPath /\ (walker = "ts" => Ref.trusted)
      /\ 1 + Height[d] + Len(stack) <= Height[root] + 1 /\ Height[d] \in Nat
  BY <1>0, <1>1, NextIsThere DEF SoundInv
<1>3. Len(stack) \in Nat \ {0} /\ Len(stack) + Height[d] <= Budget
  <2>1. Height[root] \in Nat /\ Height[root] <= Budget /\ Len(stack) \in Nat \ {0}
    BY <1>0, RefType, HeightSteps DEF Sound
  <2> QED BY <1>2, <2>1, WalksAssumption, BudgetNat
<1>4. d \in Lookup(Ref)
  BY <1>1, <1>2 DEF Lookup, Suits
<1>5. \A p \in Lookup(Ref) : p = d
  <2>1. CASE walker = "py"
    BY <1>1, <2>1 DEF Lookup
  <2>2. CASE walker # "py"
    <3>1. walker \in Walkers \ {"py"}
      BY <1>0, <2>2 DEF TypeOK
    <3>2. Single(store)
      BY <3>1, WalksAssumption, BudgetNat DEF FiledInv
    <3> QED BY <1>2, <2>2, <3>2 DEF Lookup, Single
  <2> QED BY <2>1, <2>2
<1>6. Digestible(Ref, d) /\ Matches(Ref, d)
  <2>1. Answers(Rule, Ref, d)
    BY <1>1, <1>2 DEF Answers, Rule, Suits
  <2>2. Ref.made \in Algs
    BY <1>0, RefType DEF Refs
  <2>3. walker # "rc" => Used(Ref, d) = Ref.made
    BY <1>0, <1>1, <1>2, <2>2, ParentRefsAssumption DEF Used, Suits
  <2> QED BY <1>2, <2>1, <2>2, <2>3 DEF Digestible, Matches
<1>7. ParentVerdict(Ref, d) \in {"skip", "enter"}
  <2>1. d \in Bundles /\ IdOf[d] # NoId
    BY <1>0, <1>2, FamilyClosed DEF Sound, Calm, Honest
  <2>2. CASE walker \in {"ts", "py"}
    <3>1. RefsOf[d] # <<>> => Cardinality(OnPath) < Budget
      <4> SUFFICES ASSUME RefsOf[d] # <<>> PROVE Cardinality(OnPath) < Budget
        OBVIOUS
      <4>1. 1 <= Height[d]
        BY <2>1, HeightSteps
      <4>2. Len(stack) \in 1 .. Len(stack) /\ OnPath = stack[Len(stack)].seen
        BY <1>3 DEF OnPath, Top, HasRef
      <4>3. Cardinality(OnPath) <= Len(stack)
        BY <4>2 DEF SoundInv, ShallowInv
      <4>4. Cardinality(OnPath) \in Nat
        <5>1. OnPath \in SUBSET Ids
          BY <1>0, RefType DEF OnPath, HasRef, Frames
        <5> QED BY <5>1, SeenFinite
      <4> QED BY <1>2, <1>3, <4>1, <4>3, <4>4, WalksAssumption, BudgetNat
    <3>2. CopyingEntry(d) \in {"skip", "enter"}
      <4>1. CASE RefsOf[d] = <<>>
        BY <4>1 DEF CopyingEntry
      <4>2. CASE RefsOf[d] # <<>>
        <5>1. Cardinality(OnPath) < Budget /\ Cardinality(OnPath) \in Nat
          <6>1. OnPath \in SUBSET Ids
            BY <1>0, RefType DEF OnPath, HasRef, Frames
          <6> QED BY <3>1, <4>2, <6>1, SeenFinite
        <5>2. ~(Cardinality(OnPath) >= Budget)
          BY <5>1, WalksAssumption, BudgetNat
        <5> QED BY <1>2, <4>2, <5>2 DEF CopyingEntry
      <4> QED BY <4>1, <4>2
    <3> QED BY <1>2, <1>6, <2>2, <3>2 DEF ParentVerdict
  <2>3. CASE walker = "rc"
    <3>1. ~(Len(stack) > Budget)
      BY <1>2, <1>3, WalksAssumption, BudgetNat
    <3>2. RcEntry(d) \in {"skip", "enter"}
      BY <1>2, <2>1, <3>1 DEF RcEntry
    <3> QED BY <1>6, <2>3, <3>2 DEF ParentVerdict
  <2>4. CASE walker = "go"
    BY <1>6, <2>4 DEF ParentVerdict
  <2> QED BY <1>0, <2>2, <2>3, <2>4
<1>8. BeforeLookup(Ref) = "pass"
  <2>1. ~(Len(stack) > Budget)
    BY <1>2, <1>3, WalksAssumption, BudgetNat
  <2>2. walker = "go" => Ref.id \notin shared
    <3> SUFFICES ASSUME walker = "go", Ref.id \in shared PROVE FALSE
      OBVIOUS
    <3>1. PICK c \in Family : \E j \in DOMAIN RefsOf[c] :
            Ref.id = RefsOf[c][j].id /\ Spent(c, j)
      BY DEF SoundInv, TakenOnce
    <3>2. PICK j \in DOMAIN RefsOf[c] : Ref.id = RefsOf[c][j].id /\ Spent(c, j)
      BY <3>1
    <3>3. /\ Len(stack) \in 1 .. Len(stack) /\ Top = stack[Len(stack)] /\ Top \in Frames
          /\ Top.next \in DOMAIN RefsOf[Top.at]
      BY <1>0, RefType, BundleType DEF Frames
    <3>4. Top.at \in Family
      BY <3>3 DEF Descent
    <3>5. Top.at = c /\ Top.next = j
      BY <3>2, <3>3, <3>4 DEF Sound, Unshared, Ref
    <3>6. Top.next > j \/ (Top.next = j /\ Len(stack) < Len(stack))
      BY <3>2, <3>3, <3>5 DEF Spent
    <3>7. Top.next \in Nat /\ Len(stack) \in Nat
      BY <1>3, <3>3 DEF Frames
    <3> QED BY <3>5, <3>6, <3>7
  <2> QED BY <2>1, <2>2 DEF BeforeLookup
<1> QED BY <1>4, <1>5, <1>7, <1>8

LEMMA ShallowStep ==
  ASSUME IInv, Descent, Sound, SoundInv, [Next]_vars,
         UNCHANGED <<walker, root, store, writes>>
  PROVE  ShallowInv'
<1>0. TypeOK /\ root \in Bundles /\ Height[root] \in Nat
  BY HeightSteps DEF IInv, TypeOK
<1>1. ASSUME UNCHANGED stack PROVE ShallowInv'
  BY <1>1 DEF SoundInv, ShallowInv
<1>2. ASSUME NEW p \in Bundles, Enter(p), Height[p] + Len(stack) + 1 <= Height[root] + 1,
             Cardinality(OnPath) <= Len(stack)
      PROVE  ShallowInv'
  <2>1. PICK n \in Nat : n = Len(stack)
    BY <1>0, <1>2, Entered
  <2>2. /\ Len(stack') = n + 1
        /\ \A k \in 1 .. n : stack'[k] = stack[k]
        /\ stack'[n + 1].at = p
        /\ stack'[n + 1].seen = OnPath \cup ({IdOf[p]} \ {NoId})
        /\ IsFiniteSet(OnPath) /\ Cardinality(OnPath) \in Nat
    BY <1>0, <1>2, <2>1, Entered, SeenFinite
  <2>3. Cardinality(OnPath \cup ({IdOf[p]} \ {NoId})) <= n + 1
    <3>1. CASE IdOf[p] = NoId
      <4>1. OnPath \cup ({IdOf[p]} \ {NoId}) = OnPath
        BY <3>1
      <4>2. Cardinality(OnPath) <= n + 1
        BY <1>2, <2>1, <2>2
      <4> QED BY <4>1, <4>2
    <3>2. CASE IdOf[p] # NoId
      <4>1. OnPath \cup ({IdOf[p]} \ {NoId}) = OnPath \cup {IdOf[p]}
        BY <3>2
      <4>2. Cardinality(OnPath \cup {IdOf[p]}) = IF IdOf[p] \in OnPath THEN Cardinality(OnPath)
                                                 ELSE Cardinality(OnPath) + 1
        BY <2>2, FS_AddElement
      <4>3. Cardinality(OnPath \cup {IdOf[p]}) <= n + 1
        BY <1>2, <2>1, <2>2, <4>2
      <4> QED BY <4>1, <4>3
    <3> QED BY <3>1, <3>2
  <2>4. ASSUME NEW k \in 1 .. n + 1
        PROVE  /\ Height[stack'[k].at] + k <= Height[root] + 1
               /\ Cardinality(stack'[k].seen) <= k
    <3>1. CASE k \in 1 .. n
      BY <2>1, <2>2, <3>1 DEF SoundInv, ShallowInv
    <3>2. CASE k = n + 1
      <4>1. Height[p] + (n + 1) <= Height[root] + 1
        BY <1>0, <1>2, <2>1, HeightSteps
      <4> QED BY <2>2, <2>3, <3>2, <4>1
    <3> QED BY <3>1, <3>2
  <2> QED BY <2>2, <2>4 DEF ShallowInv
<1>3. CASE Begin
  <2>1. stack = <<>> /\ Len(stack) = 0 /\ OnPath = {} /\ Cardinality(OnPath) = 0
    BY <1>3, FS_EmptySet DEF Begin, OnPath
  <2>2. Height[root] + Len(stack) + 1 <= Height[root] + 1 /\ Cardinality(OnPath) <= Len(stack)
    BY <1>0, <2>1
  <2> QED BY <1>0, <1>1, <1>2, <1>3, <2>2 DEF Begin, Return
<1>4. CASE RefuseReference \/ ParentMissing \/ RefuseParent
  BY <1>1, <1>4 DEF RefuseReference, ParentMissing, RefuseParent, Return
<1>5. CASE SkipParent \/ (Leave /\ Len(stack) # 1)
  <2>1. PICK m : m = Current
    OBVIOUS
  <2>2. /\ m \in 1 .. Len(stack) /\ Len(stack') = m /\ Len(stack) \in Nat
        /\ \A k \in 1 .. m : stack'[k].at = stack[k].at /\ stack'[k].seen = stack[k].seen
    BY <1>0, <1>5, <2>1, GoesOn
  <2>3. \A k \in 1 .. m : k \in 1 .. Len(stack)
    BY <2>2
  <2> QED BY <2>2, <2>3 DEF SoundInv, ShallowInv
<1>6. CASE Leave /\ Len(stack) = 1
  BY <1>1, <1>6 DEF Leave
<1>7. CASE EnterParent
  <2>1. PICK p \in Bundles : p \in Lookup(Ref) /\ Enter(p) /\ Answers(Rule, Ref, p)
    BY <1>0, <1>7, Entering
  <2>2. HasRef /\ Ref \in Refs /\ Len(stack) \in Nat \ {0} /\ Top = stack[Len(stack)]
    BY <1>0, <1>7, Entering
  <2>3. p = Ref.digest
    BY <1>0, <2>1, <2>2, CalmParent DEF Sound
  <2>4. 1 + Height[p] + Len(stack) <= Height[root] + 1 /\ Height[p] \in Nat
    BY <1>0, <2>2, <2>3, NextIsThere DEF SoundInv
  <2>5. Cardinality(OnPath) <= Len(stack)
    BY <2>2 DEF SoundInv, ShallowInv, OnPath, HasRef
  <2>6. Height[p] + Len(stack) + 1 <= Height[root] + 1
    BY <1>0, <2>2, <2>4
  <2> QED BY <1>2, <2>1, <2>5, <2>6
<1>8. CASE Put
  BY <1>1, <1>8 DEF Put
<1>9. CASE UNCHANGED vars
  BY <1>1, <1>9 DEF vars
<1> QED BY <1>3, <1>4, <1>5, <1>6, <1>7, <1>8, <1>9 DEF Next, Walk

LEMMA TakenStep ==
  ASSUME IInv, Descent, Sound, SoundInv, walker = "go", RootedInv, [Next]_vars,
         UNCHANGED <<walker, root, store, writes>>
  PROVE  TakenOnce'
<1>0. TypeOK /\ root \in Bundles /\ Family' = Family
  BY DEF IInv, TypeOK, Family
<1>1. ASSUME UNCHANGED <<stack, shared>> PROVE TakenOnce'
  BY <1>0, <1>1 DEF SoundInv, TakenOnce, Spent
<1>2. CASE Begin
  <2>1. stack = <<>> /\ shared = {} /\ Len(stack) = 0
    BY <1>2 DEF Begin, IInv, StartInv
  <2>2. CASE RootEntry = "enter" /\ Enter(root)
    <3>1. Len(stack') = 1 /\ stack'[1].at = root
      BY <1>0, <2>1, <2>2, Entered
    <3>2. shared' = {}
      BY <2>1, <2>2 DEF Enter
    <3> QED BY <3>1, <3>2 DEF TakenOnce
  <2> QED BY <1>1, <1>2, <2>2 DEF Begin, Return
<1>3. CASE RefuseReference \/ ParentMissing \/ RefuseParent
  BY <1>1, <1>3 DEF RefuseReference, ParentMissing, RefuseParent, Return
<1>4. CASE SkipParent \/ (Leave /\ Len(stack) # 1)
  <2>1. PICK m : m = Current
    OBVIOUS
  <2>2. /\ m \in 1 .. Len(stack) /\ Len(stack') = m /\ Len(stack) \in Nat
        /\ \A k \in 1 .. m : stack'[k].at = stack[k].at /\ stack[k] \in Frames
        /\ \A k \in 1 .. m - 1 : stack'[k] = stack[k]
        /\ stack'[m].next = stack[m].next + 1
    BY <1>0, <1>4, <2>1, GoesOn
  <2>3. shared' = shared
    BY <1>4 DEF SkipParent, Leave
  <2>4. ASSUME NEW c \in Family, NEW j \in DOMAIN RefsOf[c], Spent(c, j) PROVE Spent(c, j)'
    <3> SUFFICES ASSUME NEW k \in 1 .. m, stack'[k].at = c
                 PROVE  stack'[k].next > j \/ (stack'[k].next = j /\ k < m)
      BY <2>2 DEF Spent
    <3>1. k \in 1 .. Len(stack) /\ stack[k].at = c /\ stack[k].next \in Nat
      BY <2>2 DEF Frames
    <3>2. stack[k].next > j \/ (stack[k].next = j /\ k < Len(stack))
      BY <2>4, <3>1 DEF Spent
    <3>3. j \in Nat
      BY <1>0, FamilyClosed, BundleType
    <3>4. CASE k = m
      BY <2>2, <3>1, <3>2, <3>3, <3>4
    <3>5. CASE k # m
      BY <2>2, <3>2, <3>5
    <3> QED BY <3>4, <3>5
  <2>5. \A k \in 1 .. m : stack'[k].at = root \/ IdOf[stack'[k].at] \in shared
    BY <2>2 DEF SoundInv, TakenOnce
  <2>6. ASSUME NEW s \in shared
        PROVE  \E c \in Family : \E j \in DOMAIN RefsOf[c] :
                 s = RefsOf[c][j].id /\ (c = root \/ IdOf[c] \in shared) /\ Spent(c, j)'
    <3>1. PICK c \in Family : \E j \in DOMAIN RefsOf[c] :
                 s = RefsOf[c][j].id /\ (c = root \/ IdOf[c] \in shared) /\ Spent(c, j)
      BY DEF SoundInv, TakenOnce
    <3> QED BY <2>4, <3>1
  <2> QED BY <1>0, <2>2, <2>3, <2>5, <2>6 DEF TakenOnce
<1>5. CASE Leave /\ Len(stack) = 1
  BY <1>1, <1>5 DEF Leave
<1>6. CASE EnterParent
  <2>1. PICK p \in Bundles : p \in Lookup(Ref) /\ Enter(p) /\ Answers(Rule, Ref, p)
    BY <1>0, <1>6, Entering
  <2>2. PICK n \in Nat \ {0} : n = Len(stack)
    BY <1>0, <1>6, Entering
  <2>3. /\ HasRef /\ Ref \in Refs /\ Top = stack[n] /\ Top \in Frames
        /\ Top.next \in DOMAIN RefsOf[Top.at] /\ BeforeLookup(Ref) = "pass"
    BY <1>0, <1>6, <2>2, Entering
  <2>4. p = Ref.digest /\ IdOf[p] = Ref.id
    BY <1>0, <2>1, <2>3, CalmParent DEF Sound
  <2>5. Ref.id \notin shared
    BY <2>3 DEF BeforeLookup
  <2>6. shared' = shared \cup {Ref.id}
    BY <2>1, <2>3 DEF Enter, HasRef
  <2>7. /\ Len(stack') = n + 1 /\ \A k \in 1 .. n : stack'[k] = stack[k]
        /\ stack'[n + 1].at = p
    BY <1>0, <2>1, <2>2, Entered
  <2>8. \A k \in 1 .. n : p \in Above[stack[k].at] /\ stack[k].at \in Family
    BY <1>0, <2>1, <2>2, <2>3, <2>4, NextInLine DEF Descent
  <2>9. p # root /\ p # Top.at /\ IdOf[p] # IdOf[root]
    <3>1. 1 \in 1 .. n /\ n \in 1 .. n /\ stack # <<>>
      BY <2>3 DEF HasRef
    <3>2. p \in Above[root] /\ p \in Above[Top.at] /\ Top.at \in Family /\ root \in Family
      BY <2>3, <2>8, <3>1 DEF RootedInv, Family
    <3> QED BY <3>2 DEF Sound, Calm, Honest
  <2>10. \A k \in 1 .. n + 1 : stack'[k].at = root \/ IdOf[stack'[k].at] \in shared'
    <3> TAKE k \in 1 .. n + 1
    <3>1. CASE k \in 1 .. n
      BY <2>2, <2>6, <2>7, <3>1 DEF SoundInv, TakenOnce
    <3>2. CASE k = n + 1
      BY <2>4, <2>6, <2>7, <3>2
    <3> QED BY <3>1, <3>2
  <2>11. ASSUME NEW c \in Family, NEW j \in DOMAIN RefsOf[c], c = root \/ IdOf[c] \in shared, Spent(c, j)
         PROVE  Spent(c, j)'
    <3>1. c # p
      BY <2>4, <2>5, <2>9, <2>11
    <3> SUFFICES ASSUME NEW k \in 1 .. n + 1, stack'[k].at = c
                 PROVE  stack'[k].next > j \/ (stack'[k].next = j /\ k < n + 1)
      BY <2>7 DEF Spent
    <3>2. k \in 1 .. n /\ stack'[k] = stack[k]
      BY <2>7, <3>1
    <3> QED BY <2>2, <2>11, <3>2 DEF Spent
  <2>12. PICK c \in Family : c = Top.at
    BY <2>2, <2>3, <2>8
  <2>13. PICK j \in DOMAIN RefsOf[c] : j = Top.next
    BY <2>3, <2>12
  <2>14. Spent(c, j)'
    <3> SUFFICES ASSUME NEW k \in 1 .. n + 1, stack'[k].at = c
                 PROVE  stack'[k].next > j \/ (stack'[k].next = j /\ k < n + 1)
      BY <2>7 DEF Spent
    <3>1. k \in 1 .. n /\ stack'[k] = stack[k]
      BY <2>7, <2>9, <2>12
    <3>2. CASE k = n
      BY <2>3, <2>13, <3>1, <3>2
    <3>3. CASE k # n
      <4>1. k \in 1 .. n - 1 /\ n \in 1 .. n
        BY <3>1, <3>3
      <4>2. Top.at \in Above[stack[k].at] /\ stack[k].at \in Family
        BY <2>2, <2>3, <4>1 DEF Descent
      <4>3. IdOf[Top.at] # IdOf[stack[k].at]
        BY <4>2 DEF Sound, Calm, Honest
      <4> QED BY <2>12, <3>1, <4>3
    <3> QED BY <3>2, <3>3
  <2>15. c = root \/ IdOf[c] \in shared'
    <3>1. n \in 1 .. Len(stack)
      BY <2>2
    <3> QED BY <2>3, <2>6, <2>12, <3>1 DEF SoundInv, TakenOnce
  <2>16. ASSUME NEW s \in shared'
         PROVE  \E e \in Family : \E i \in DOMAIN RefsOf[e] :
                  s = RefsOf[e][i].id /\ (e = root \/ IdOf[e] \in shared') /\ Spent(e, i)'
    <3>1. CASE s = Ref.id
      <4>1. s = RefsOf[c][j].id
        BY <2>12, <2>13, <3>1 DEF Ref
      <4> QED BY <2>14, <2>15, <4>1
    <3>2. CASE s \in shared
      <4>1. PICK e \in Family : \E i \in DOMAIN RefsOf[e] :
                  s = RefsOf[e][i].id /\ (e = root \/ IdOf[e] \in shared) /\ Spent(e, i)
        BY <3>2 DEF SoundInv, TakenOnce
      <4> QED BY <2>6, <2>11, <4>1
    <3> QED BY <2>6, <3>1, <3>2
  <2> QED BY <1>0, <2>7, <2>10, <2>16 DEF TakenOnce
<1>7. CASE Put
  BY <1>1, <1>7 DEF Put
<1>8. CASE UNCHANGED vars
  BY <1>1, <1>8 DEF vars
<1> QED BY <1>2, <1>3, <1>4, <1>5, <1>6, <1>7, <1>8 DEF Next, Walk

LEMMA SoundVerdict ==
  ASSUME IInv, FiledInv, Descent, Sound, SoundInv, verdict \in {"none", "valid"}, [Next]_vars
  PROVE  verdict' \in {"none", "valid"}
<1>0. TypeOK /\ root \in Bundles /\ walker \in {"ts", "py", "go", "rc"}
  BY WalksAssumption, BudgetNat DEF IInv, TypeOK
<1>1. CASE Begin
  <2>1. stack = <<>> /\ OnPath = {} /\ Len(stack) = 0
    BY <1>1 DEF Begin, OnPath
  <2>2. CASE walker = "go"
    BY <1>1, <2>2 DEF Begin, RootEntry, Return, Enter
  <2>3. CASE walker = "rc"
    <3>1. IdOf[root] # NoId /\ ~(Len(stack) > Budget)
      BY <2>1, WalksAssumption, BudgetNat DEF Sound, Calm, Honest, Family
    <3>2. RootEntry \in {"skip", "enter"}
      BY <2>1, <2>3, <3>1 DEF RootEntry, RcEntry
    <3> QED BY <1>1, <3>2 DEF Begin, Return, Enter
  <2>4. CASE walker \in {"ts", "py"}
    <3>1. RefsOf[root] # <<>> => 1 <= Height[root] /\ Height[root] <= Budget /\ Height[root] \in Nat
      BY <1>0, HeightSteps DEF Sound
    <3>2. RefsOf[root] # <<>> => ~(Cardinality(OnPath) >= Budget)
      BY <2>1, <3>1, FS_EmptySet, WalksAssumption, BudgetNat
    <3>4. (RefsOf[root] # <<>> /\ walker = "py") =>
            Parents # {} /\ AlgOf[root] # Unknown /\ Parents \cap Uncanonical = {}
      <4> SUFFICES ASSUME RefsOf[root] # <<>>, walker = "py"
                   PROVE  Parents # {} /\ AlgOf[root] # Unknown /\ Parents \cap Uncanonical = {}
        OBVIOUS
      <4>1. 1 \in DOMAIN RefsOf[root] /\ RefsOf[root][1] \in Refs /\ root \in Family
        BY <1>0, BundleType DEF Family
      <4>2. /\ RefsOf[root][1].digest \in store[RefsOf[root][1].id]
            /\ RefsOf[root][1].made = AlgOf[root]
        BY <4>1 DEF Sound, AllResolve, AllSuit, Resolves, Suits
      <4>3. RefsOf[root][1].id \in Ids /\ RefsOf[root][1].made \in Algs
        BY <4>1 DEF Refs
      <4>4. Parents \cap Uncanonical = {}
        BY DEF Parents, Sound, Calm, Honest
      <4> QED BY <4>2, <4>3, <4>4, ParentRefsAssumption DEF Parents
    <3>3. RootEntry \in {"skip", "enter"}
      BY <2>1, <2>4, <3>2, <3>4 DEF RootEntry, PyEntry, CopyingEntry
    <3> QED BY <1>1, <3>3 DEF Begin, Return, Enter
  <2> QED BY <1>0, <2>2, <2>3, <2>4
<1>2. CASE RefuseReference
  BY <1>2, NothingRefused DEF RefuseReference
<1>3. CASE ParentMissing
  BY <1>3, NothingRefused DEF ParentMissing
<1>4. CASE RefuseParent
  BY <1>4, NothingRefused DEF RefuseParent
<1>5. CASE SkipParent
  BY <1>5 DEF SkipParent
<1>6. CASE EnterParent
  BY <1>6 DEF EnterParent, Enter
<1>7. CASE Leave
  BY <1>7 DEF Leave
<1>8. CASE Put
  BY <1>8 DEF Put
<1>9. CASE UNCHANGED vars
  BY <1>9 DEF vars
<1> QED BY <1>1, <1>2, <1>3, <1>4, <1>5, <1>6, <1>7, <1>8, <1>9 DEF Next, Walk

AgreedInv ==
  Calm =>
    /\ VouchInv
    /\ walker # "rc" => HeightsInv
    /\ verdict = "valid" => Upheld
    /\ Sound => SoundInv /\ verdict \in {"none", "valid"}

LEMMA AgreedStart == Init => AgreedInv
<1> SUFFICES ASSUME Init PROVE AgreedInv
  OBVIOUS
<1>1. /\ stack = <<>> /\ Len(stack) = 0 /\ found = {root} /\ shared = {}
      /\ verdict = "none"
  BY DEF Init
<1>2. VouchInv /\ HeightsInv /\ SoundInv
  BY <1>1 DEF VouchInv, HeightsInv, SoundInv, ShallowInv, TakenOnce
<1> QED BY <1>1, <1>2 DEF AgreedInv

LEMMA AgreedStep ==
  ASSUME IInv, DescentInv, FiledInv, BudgetInv, RootedInv, AgreedInv, [Next]_vars
  PROVE  AgreedInv'
<1> SUFFICES ASSUME Calm'
             PROVE  /\ VouchInv'
                    /\ walker' # "rc" => HeightsInv'
                    /\ verdict' = "valid" => Upheld'
                    /\ Sound' => SoundInv' /\ verdict' \in {"none", "valid"}
  BY DEF AgreedInv
<1>0. TypeOK
  BY DEF IInv
<1>1. Calm /\ UNCHANGED <<walker, root, store, writes>>
  BY <1>0, StillCalm
<1>2. Descent
  BY <1>1 DEF DescentInv, Exact, Calm
<1>3. VouchInv /\ (walker # "rc" => HeightsInv) /\ (verdict = "valid" => Upheld)
  BY <1>1 DEF AgreedInv
<1>4. Sound' => Sound
  BY <1>1, BudgetFixed DEF Sound, AllResolve, AllSuit, AllTrusted, Unshared, Family, Resolves, Suits
<1>5. VouchInv'
  BY <1>1, <1>2, <1>3, VouchStep
<1>6. walker' # "rc" => HeightsInv'
  BY <1>1, <1>2, <1>3, HeightsStep
<1>7. verdict' = "valid" => Upheld'
  BY <1>1, <1>2, <1>3, UpheldStep
<1>8. ASSUME Sound' PROVE SoundInv' /\ verdict' \in {"none", "valid"}
  <2>1. Sound /\ SoundInv /\ verdict \in {"none", "valid"}
    BY <1>1, <1>4, <1>8 DEF AgreedInv
  <2>2. ShallowInv'
    BY <1>1, <1>2, <2>1, ShallowStep
  <2>3. walker = "go" => TakenOnce'
    BY <1>1, <1>2, <2>1, TakenStep
  <2>4. verdict' \in {"none", "valid"}
    BY <1>2, <2>1, SoundVerdict
  <2> QED BY <1>1, <2>2, <2>3, <2>4 DEF SoundInv
<1> QED BY <1>5, <1>6, <1>7, <1>8

LEMMA AlwaysRooted == Spec => []RootedInv
<1>1. Init => RootedInv
  BY DEF Init, RootedInv
<1>2. IInv /\ RootedInv /\ [Next]_vars => RootedInv'
  BY RootedStep
<1> QED BY <1>1, <1>2, Inductive, PTL DEF Spec

(* One algorithm throughout suits every library. *)
LEMMA OneSuits ==
  ASSUME TypeOK, AllResolve, OneAlgorithm
  PROVE  AllSuit
<1> SUFFICES ASSUME NEW b \in Family, NEW i \in DOMAIN RefsOf[b] PROVE Suits(RefsOf[b][i])
  BY DEF AllSuit
<1>1. root \in Bundles /\ b \in Bundles
  BY FamilyClosed DEF TypeOK
<1>2. RefsOf[b][i] \in Refs
  BY <1>1, BundleType
<1>3. RefsOf[b][i].digest \in Bundles
  BY <1>2 DEF AllResolve, Resolves, TypeOK, Refs
<1>4. RefsOf[b][i].digest \in Family
  BY <1>1, <1>3, FamilyClosed, AboveSteps DEF Digest
<1> QED BY <1>4 DEF OneAlgorithm, Suits

(* On an honest store that nobody writes to the four libraries agree: the   *)
(* lineage is valid exactly when every ancestor is there with the digest it *)
(* is named by and no path is longer than the budget, but for the trust ts  *)
(* asks for, the tree go asks for, the long paths rc may overlook and what  *)
(* each makes of digests in different algorithms.                           *)
THEOREM LibrariesAgree == Spec => []AgreedVerdict
<1>1. IInv /\ DescentInv /\ FiledInv /\ BudgetInv /\ RootedInv /\ AgreedInv /\ [Next]_vars => AgreedInv'
  BY AgreedStep
<1>2. IInv /\ AgreedInv => AgreedVerdict
  <2>1. IInv /\ AllResolve /\ (AllSuit \/ OneAlgorithm) => AllSuit
    BY OneSuits DEF IInv
  <2> QED BY <2>1 DEF AgreedInv, AgreedVerdict, Calm, Upheld, Sound
<1> QED BY <1>1, <1>2, AgreedStart, Inductive, AlwaysDescent, AlwaysFiled, AlwaysBudget, AlwaysRooted,
           PTL DEF Spec
=============================================================================
