-------------------------- MODULE SealVerify_proofs --------------------------
(***************************************************************************)
(* Theorems about SealVerify, for all options, edits, keys and contexts    *)
(* and every number of edits.                                              *)
(***************************************************************************)
EXTENDS SealVerify, SealAndCheck_proofs

(* The document has its members, whatever is done to it: the edits of other *)
(* members leave the signature alone.                                       *)
Shaped ==
  bundle # None => /\ DOMAIN bundle = Fields
                   /\ bundle = [f \in Fields |-> bundle[f]]

(* The signature in the file is one somebody made, or none at all.          *)
SignatureKnown ==
  bundle # None => bundle.signature \in issued \cup {NoSig, JunkSig, EmptySig}

(* Where the pipeline stands, and what it has established about the         *)
(* signature when it is past the third and the seventh check.               *)
Progress ==
  /\ stage \in 0 .. Done
  /\ (outcome # "pending") <=> (stage = Done)
  /\ stage > 0 => bundle # None
  /\ stage > 3 /\ outcome \in {"pending", "verified"} => bundle.signature # NoSig
  /\ cfg.key # None /\ stage > 7 /\ outcome \in {"pending", "verified"}
       => VerifySignature(bundle.sigAlg, cfg.key, Body(bundle), bundle.signature)

Inv == Shaped /\ SignatureKnown /\ Progress

-----------------------------------------------------------------------------
(* A member other than the signature is set.                                *)
LEMMA OtherMember ==
  ASSUME NEW f \in Fields \ {"signature"}, NEW v, Shaped, bundle # None
  PROVE  LET new == [bundle EXCEPT ![f] = v] IN
         /\ DOMAIN new = Fields /\ new = [x \in Fields |-> new[x]]
         /\ new.signature = bundle.signature
  BY DEF Shaped, Fields

(* The signature is set. *)
LEMMA NewSignature ==
  ASSUME NEW sig, NEW b, DOMAIN b = Fields, b = [x \in Fields |-> b[x]]
  PROVE  LET new == [b EXCEPT !.signature = sig] IN
         /\ DOMAIN new = Fields /\ new = [x \in Fields |-> new[x]]
         /\ new.signature = sig
  BY DEF Fields

LEMMA UnsignedShape ==
  ASSUME NEW o
  PROVE  /\ DOMAIN Unsigned(o) = Fields
         /\ Unsigned(o) = [x \in Fields |-> Unsigned(o)[x]]
  BY DEF Unsigned, Fields

-----------------------------------------------------------------------------
(* The invariant is preserved: the bundle changes only before verify has    *)
(* begun, and the pipeline goes past a check only when it passes.           *)
THEOREM Invariance == Spec => []Inv
<1> USE EditsAssumption DEF Done, Stages
<1>1. Init => Inv
  BY DEF Init, Inv, Shaped, SignatureKnown, Progress
<1>2. Inv /\ [Next]_vars => Inv'
  <2> SUFFICES ASSUME Inv, [Next]_vars PROVE Inv'
    OBVIOUS
  <2> USE DEF Inv
  <2>1. ASSUME NEW o \in SealOptions, Seal(o) PROVE Inv'
    <3> DEFINE sig == Sign(o.sigAlg, o.key, Unsigned(o))
    <3>1. bundle' = [Unsigned(o) EXCEPT !.signature = sig] /\ issued' = issued \cup {sig}
      BY <2>1 DEF Seal
    <3>2. Shaped' /\ bundle'.signature = sig
      BY <3>1, UnsignedShape, NewSignature DEF Shaped
    <3> QED
      BY <2>1, <3>1, <3>2 DEF Seal, SignatureKnown, Progress
  <2>2. ASSUME NEW k \in Keys, NEW a \in SigAlgs, ReSign(k, a) PROVE Inv'
    <3> DEFINE sig == Sign(a, k, Body(bundle))
    <3>1. bundle # None /\ stage = 0 /\ UNCHANGED <<stage, cfg, outcome>>
      BY <2>2 DEF ReSign
    <3>2. DOMAIN Body(bundle) = Fields /\ Body(bundle) = [x \in Fields |-> Body(bundle)[x]]
          /\ Body(bundle).signature = NoSig
      BY <3>1, NewSignature DEF Shaped, Body
    <3>3. CASE bundle' = Body(bundle) /\ issued' = issued
      BY <3>1, <3>2, <3>3 DEF Shaped, SignatureKnown, Progress
    <3>4. CASE bundle' = [Body(bundle) EXCEPT !.signature = sig] /\ issued' = issued \cup {sig}
      <4>1. Shaped' /\ bundle'.signature = sig
        BY <3>2, <3>4, NewSignature DEF Shaped
      <4> QED
        BY <3>1, <3>4, <4>1 DEF SignatureKnown, Progress
    <3> QED
      BY <2>2, <3>3, <3>4 DEF ReSign
  <2>3. ASSUME NEW e \in Edits, EditMember(e) PROVE Inv'
    <3>1. bundle # None /\ stage = 0 /\ UNCHANGED <<issued, stage, cfg, outcome>>
          /\ bundle' = [bundle EXCEPT ![e.field] = e.value]
      BY <2>3 DEF EditMember, Edit
    <3>2. Shaped' /\ bundle'.signature = bundle.signature
      BY <3>1, OtherMember DEF Shaped
    <3> QED
      BY <3>1, <3>2 DEF SignatureKnown, Progress
  <2>4. ASSUME NEW e \in SectionEdits, EditSection(e) PROVE Inv'
    <3> DEFINE section == [bundle[e.field] EXCEPT ![e.member] = e.value]
    <3>1. bundle # None /\ stage = 0 /\ UNCHANGED <<issued, stage, cfg, outcome>>
          /\ bundle' = [bundle EXCEPT ![e.field] = section]
      BY <2>4 DEF EditSection, Edit
    <3>2. e.field \in Fields \ {"signature"}
      BY DEF Fields
    <3> HIDE DEF section
    <3>3. Shaped' /\ bundle'.signature = bundle.signature
      BY <3>1, <3>2, OtherMember DEF Shaped
    <3> QED
      BY <3>1, <3>3 DEF SignatureKnown, Progress
  <2>5. ASSUME NEW sig \in issued \cup {NoSig, JunkSig, EmptySig}, EditSignature(sig)
        PROVE  Inv'
    <3>1. bundle # None /\ stage = 0 /\ UNCHANGED <<issued, stage, cfg, outcome>>
          /\ bundle' = [bundle EXCEPT !.signature = sig]
      BY <2>5 DEF EditSignature, Edit
    <3>2. Shaped' /\ bundle'.signature = sig
      BY <3>1, NewSignature DEF Shaped
    <3> QED
      BY <3>1, <3>2 DEF SignatureKnown, Progress
  <2>6. CASE Tick
    BY <2>6 DEF Tick, Shaped, SignatureKnown, Progress
  <2>7. ASSUME NEW c \in Configs, Begin(c) PROVE Inv'
    BY <2>7 DEF Begin, Shaped, SignatureKnown, Progress
  <2>8. ASSUME NEW v \in Readings, Pass(v) PROVE Inv'
    <3>1. stage \in 1 .. Stages /\ stage' = stage + 1 /\ UNCHANGED <<bundle, issued, cfg>>
          /\ outcome = "pending" /\ outcome' = (IF stage = 13 THEN "verified" ELSE "pending")
      BY <2>8 DEF Pass, Progress
    <3>2. cfg.key # None /\ stage' > 7
            => VerifySignature(bundle.sigAlg, cfg.key, Body(bundle), bundle.signature)
      <4>1. CASE stage = 7
        BY <2>8, <4>1, SignatureStage DEF Pass
      <4>2. CASE stage # 7
        BY <3>1, <4>2 DEF Progress
      <4> QED
        BY <4>1, <4>2
    <3>3. Body(bundle)' = Body(bundle)
      BY <3>1 DEF Body
    <3>4. stage' > 3 => bundle.signature # NoSig
      <4>1. CASE stage = 3
        BY <2>8, <4>1, RequiredStage DEF Pass
      <4>2. CASE stage # 3
        BY <3>1, <4>2 DEF Progress
      <4> QED
        BY <4>1, <4>2
    <3> QED
      BY <3>1, <3>2, <3>3, <3>4 DEF Shaped, SignatureKnown, Progress
  <2>9. ASSUME NEW v \in Readings, Fail(v) PROVE Inv'
    <3>1. stage \in 1 .. Stages /\ stage' = 14 /\ outcome' \notin {"pending", "verified"}
          /\ UNCHANGED <<bundle, issued>>
      BY <2>9, CheckOutcomes DEF Fail
    <3> QED
      BY <3>1 DEF Shaped, SignatureKnown, Progress
  <2>10. CASE UNCHANGED vars
    BY <2>10 DEF vars, Shaped, SignatureKnown, Progress, Body, VerifySignature
  <2> QED
    BY <2>1, <2>2, <2>3, <2>4, <2>5, <2>6, <2>7, <2>8, <2>9, <2>10 DEF Next
<1> QED
  BY <1>1, <1>2, PTL DEF Spec

(* Whatever is done to a bundle file with any number of edits, re-signings  *)
(* and signatures taken from other bundles: what verify_bundle accepts with *)
(* a public key is a document the owner of that key signed, and what it     *)
(* accepts without one carries a signature at least.                        *)
THEOREM Unforgeable == Spec => []VerifiedIsIssued
<1>1. Inv => VerifiedIsIssued
  <2>0. ASSUME Inv, outcome = "verified" PROVE bundle.signature # NoSig
    BY <2>0 DEF Inv, Progress, Done, Stages
  <2> SUFFICES ASSUME Inv, outcome = "verified", cfg.key # None
               PROVE  \E s \in issued : s.key = cfg.key /\ s.body = Body(bundle)
    BY <2>0 DEF VerifiedIsIssued
  <2> DEFINE sig == Sign(bundle.sigAlg, cfg.key, Body(bundle))
  <2>1. stage = 14 /\ bundle # None /\ bundle.signature = sig
    BY DEF Inv, Progress, Done, Stages, VerifySignature
  <2>2. sig \in issued
    BY <2>1 DEF Inv, SignatureKnown, Sign, NoSig, JunkSig, EmptySig
  <2>3. sig.key = cfg.key /\ sig.body = Body(bundle)
    BY DEF Sign
  <2> QED
    BY <2>2, <2>3
<1> QED
  BY <1>1, Invariance, PTL

-----------------------------------------------------------------------------
(* The type invariant, with the sets the history variables range over: the  *)
(* pipeline ends exactly when there is an outcome, and never has one the    *)
(* code does not return.                                                    *)
THEOREM TypeCorrect == Spec => []TypeOK
<1> USE EditsAssumption, FormatAssumption DEF Done, Stages
<1>1. Init => TypeOK
  BY DEF Init, TypeOK, Outcomes
<1>2. Inv /\ Inv' /\ TypeOK /\ [Next]_vars => TypeOK'
  <2> SUFFICES ASSUME Inv, Inv', TypeOK, [Next]_vars PROVE TypeOK'
    OBVIOUS
  <2>1. (bundle = None \/ bundle.signature \in issued \cup {NoSig, JunkSig, EmptySig})'
    BY DEF Inv, SignatureKnown
  <2>2. (stage \in 0 .. Done /\ ((outcome # "pending") <=> (stage = Done)))'
    BY DEF Inv, Progress
  <2>3. (\A s \in issued : s.key \in Keys /\ s.alg \in AlgsOf[s.key])'
    <3>1. ASSUME NEW o \in SealOptions, Seal(o)
          PROVE  \A s \in issued' : s.key \in Keys /\ s.alg \in AlgsOf[s.key]
      BY <3>1 DEF Seal, Sealable, CanSign, Sign, TypeOK
    <3>2. ASSUME NEW k \in Keys, NEW a \in SigAlgs, ReSign(k, a)
          PROVE  \A s \in issued' : s.key \in Keys /\ s.alg \in AlgsOf[s.key]
      BY <3>2 DEF ReSign, CanSign, Sign, TypeOK
    <3>3. CASE issued' = issued
      BY <3>3 DEF TypeOK
    <3> QED
      BY <3>1, <3>2, <3>3 DEF Next, vars, EditMember, EditSection, EditSignature, Edit,
         Tick, Begin, Pass, Fail
  <2>4. (/\ origin \in SealOptions \cup {None}
         /\ edits \in 0 .. MaxEdits
         /\ cfg \in Configs \cup {None})'
    <3>1. CASE Tick \/ (\E v \in Readings : Pass(v) \/ Fail(v)) \/ UNCHANGED vars
      BY <3>1 DEF vars, TypeOK, Tick, Pass, Fail
    <3>2. ASSUME NEW o \in SealOptions, Seal(o) PROVE 
      (/\ origin \in SealOptions \cup {None} /\ edits \in 0 .. MaxEdits
       /\ cfg \in Configs \cup {None})'
      BY <3>2 DEF TypeOK, Seal
    <3>3. CASE origin' = None /\ edits' = edits + 1 /\ edits < MaxEdits /\ UNCHANGED cfg
      BY <3>3 DEF TypeOK
    <3>4. ASSUME NEW c \in Configs, Begin(c) PROVE 
      (/\ origin \in SealOptions \cup {None} /\ edits \in 0 .. MaxEdits
       /\ cfg \in Configs \cup {None})'
      BY <3>4 DEF TypeOK, Begin
    <3> QED
      BY <3>1, <3>2, <3>3, <3>4 DEF Next, ReSign, EditMember, EditSection, EditSignature, Edit
  <2>5. (/\ clock \in Times /\ started \in Times /\ since \in Times
         /\ started <= since /\ since <= clock)'
    <3>1. CASE Tick
      <4>1. clock \in Nat /\ since \in Nat /\ started \in Nat
        BY DEF TypeOK
      <4> QED BY <3>1, <4>1 DEF TypeOK, Tick
    <3>2. CASE clock' = clock /\ <<started', since'>> \in {<<started, since>>, <<started, clock>>, <<clock, clock>>}
      <4>1. clock \in Nat /\ since \in Nat /\ started \in Nat
        BY DEF TypeOK
      <4> QED BY <3>2, <4>1 DEF TypeOK
    <3> QED
      BY <3>1, <3>2 DEF Next, vars, Seal, ReSign, EditMember, EditSection, EditSignature, Edit,
         Begin, Pass, Fail
  <2>6. outcome' \in Outcomes
    <3>1. ASSUME NEW v \in Readings, Fail(v) PROVE outcome' \in Outcomes
      BY <3>1, CheckOutcomes DEF Fail
    <3>2. ASSUME NEW v \in Readings, Pass(v) PROVE outcome' \in Outcomes
      BY <3>2 DEF Pass, TypeOK, Outcomes
    <3>3. CASE outcome' = outcome
      BY <3>3 DEF TypeOK
    <3> QED
      BY <3>1, <3>2, <3>3 DEF Next, vars, Seal, ReSign, EditMember, EditSection, EditSignature,
         Edit, Tick, Begin
  <2>7. value' \in {"true", "false", "error", "none"}
    <3>1. ASSUME NEW v \in Readings, Pass(v) \/ Fail(v) PROVE value' \in {"true", "false", "error", "none"}
      <4>1. value' = v
        BY <3>1 DEF Pass, Fail
      <4>2. CASE v = value
        BY <4>1, <4>2 DEF TypeOK
      <4>3. CASE v \in Values(bundle, cfg, since, clock)
        BY <4>1, <4>3, ValuesTyped DEF TypeOK
      <4> QED BY <4>2, <4>3 DEF Readings
    <3>2. CASE value' = value
      BY <3>2 DEF TypeOK
    <3> QED
      BY <3>1, <3>2 DEF Next, vars, Seal, ReSign, EditMember, EditSection, EditSignature, Edit,
         Tick, Begin
  <2> QED
    BY <2>1, <2>2, <2>3, <2>4, <2>5, <2>6, <2>7 DEF TypeOK
<1> QED
  BY <1>1, <1>2, Invariance, PTL DEF Spec

-----------------------------------------------------------------------------
(* The verdict is that of one moment.  Of the checks only the boundary (9)  *)
(* depends on what its evaluation returned, and only the expiration (12) on *)
(* the clock; the moment is that of the value the boundary had, unless the  *)
(* expiration alone came later.                                             *)
LEMMA Timeless ==
  ASSUME NEW i \in 1 .. Stages, i \notin {9, 12}, NEW b, NEW c, NEW v, NEW w, NEW t, NEW u
  PROVE  Check(i, b, c, v, t) = Check(i, b, c, w, u)
  BY DEF Check, Stages

LEMMA NinthAndTwelfth ==
  ASSUME NEW b, NEW c, NEW v, NEW t
  PROVE  /\ Check(9, b, c, v, t) = BoundaryCheck(b, v)
         /\ Check(12, b, c, v, t) = ExpirationCheck(b, t)
  BY DEF Check

(* What has expired stays expired. *)
LEMMA ExpirationStays ==
  ASSUME NEW b, NEW t \in Nat, NEW u \in Nat, t <= u,
         b.expiration.kind = "time" => b.expiration.at \in Nat
  PROVE  /\ ExpirationCheck(b, u) = "pass" => ExpirationCheck(b, t) = "pass"
         /\ ExpirationCheck(b, t) # "pass" => ExpirationCheck(b, u) = ExpirationCheck(b, t)
         /\ ExpirationCheck(b, t) = "pass" => ExpirationCheck(b, u) \in {"pass", "policy-denied"}
<1>1. CASE b.expiration.kind = "time"
  BY <1>1 DEF ExpirationCheck
<1>2. CASE b.expiration.kind = "unknown"
  BY <1>2 DEF ExpirationCheck
<1>3. CASE b.expiration.kind \notin {"time", "unknown"}
  BY <1>3 DEF ExpirationCheck
<1> QED
  BY <1>1, <1>2, <1>3

(* A boundary that passed with one value can only fail with another by it.  *)
LEMMA BoundaryLater ==
  ASSUME NEW b, NEW v, NEW w, BoundaryCheck(b, v) = "pass"
  PROVE  BoundaryCheck(b, w) \in {"pass", "policy-denied"}
  BY DEF BoundaryCheck

PassedBefore(k, b, c, v, t) == \A j \in 1 .. Stages : j < k => Check(j, b, c, v, t) = "pass"

LEMMA FirstDecides ==
  ASSUME NEW i \in 1 .. Stages, NEW b, NEW c, NEW v, NEW t,
         PassedBefore(i, b, c, v, t), Check(i, b, c, v, t) # "pass"
  PROVE  Verdict(b, c, v, t) = Check(i, b, c, v, t)
<1> DEFINE failing == Failing(b, c, v, t)
<1> DEFINE first == CHOOSE k \in failing : \A j \in failing : k <= j
<1>1. i \in failing /\ \A j \in failing : i <= j
  BY DEF Failing, PassedBefore, Stages
<1>2. first \in failing /\ \A j \in failing : first <= j
  BY <1>1
<1>3. first = i
  BY <1>1, <1>2 DEF Failing, Stages
<1> QED
  BY <1>1, <1>3 DEF Verdict

LEMMA NoneDecides ==
  ASSUME NEW b, NEW c, NEW v, NEW t, PassedBefore(Done, b, c, v, t)
  PROVE  Verdict(b, c, v, t) = "verified"
  BY DEF Verdict, Failing, PassedBefore, Done, Stages

(* An evaluation between two moments may return v, and if such values are   *)
(* those of single moments, v is that of t.                                 *)
Settled(b, c, from, to, v, t) ==
  /\ v \in Values(b, c, from, to)
  /\ Momentary(b, c) => v \in Values(b, c, t, t)

LEMMA SettledLater ==
  ASSUME NEW b, NEW c, NEW from \in Times, NEW to \in Times, NEW later \in Times,
         from <= to, to <= later, NEW v, NEW t, Settled(b, c, from, to, v, t)
  PROVE  Settled(b, c, from, later, v, t)
<1>1. from \in Nat /\ to \in Nat /\ later \in Nat
  BY FormatAssumption
<1>2. from <= later /\ from \in from .. later /\ to \in from .. later
  BY <1>1
<1>3. Values(b, c, from, to) \subseteq Values(b, c, from, later)
  BY <1>2, ValuesWiden
<1> QED BY <1>3 DEF Settled

(* At every moment some value is that of the moment. *)
LEMMA SettledNow ==
  ASSUME NEW b, NEW c, NEW from \in Times, NEW to \in Times, NEW t \in from .. to
  PROVE  \E v : Settled(b, c, from, to, v, t)
<1>1. from \in Nat /\ to \in Nat /\ from .. to \subseteq Times
  BY FormatAssumption
<1>2. t \in Times /\ t <= t /\ from <= to /\ t \in t .. to
  BY <1>1
<1>3. PICK v : v \in Values(b, c, t, t)
  BY <1>2, ValuesWiden
<1>4. Values(b, c, t, t) \subseteq Values(b, c, from, to)
  BY <1>2, ValuesWiden
<1> QED BY <1>3, <1>4 DEF Settled

(* Up to the check the pipeline stands at, all pass at one moment since it  *)
(* began; and an expiration is a time the clock can be compared with.       *)
Dated == (bundle # None /\ bundle.expiration.kind = "time") => bundle.expiration.at \in Nat

OneMoment ==
  stage \in 1 .. Stages =>
    \E t \in started .. clock :
      /\ PassedBefore(stage, bundle, cfg, value, t)
      /\ stage > 9 => Settled(bundle, cfg, started, clock, value, t)

AtomicInv == Dated /\ OneMoment /\ VerdictIsAtomic

LEMMA DatedKept == Inv /\ Dated /\ [Next]_vars => Dated'
<1> USE EditsAssumption
<1> SUFFICES ASSUME Inv, Dated, [Next]_vars PROVE Dated'
  OBVIOUS
<1>1. ASSUME NEW o \in SealOptions, Seal(o) PROVE Dated'
  BY <1>1 DEF Seal, Unsigned, Dated
<1>2. ASSUME NEW k \in Keys, NEW a \in SigAlgs, ReSign(k, a) PROVE Dated'
  <2>1. bundle # None /\ Body(bundle).expiration = bundle.expiration
    BY <1>2 DEF ReSign, Body, Inv, Shaped, Fields
  <2>2. bundle'.expiration = bundle.expiration
    BY <1>2, <2>1 DEF ReSign, Body, Inv, Shaped, Fields
  <2> QED BY <2>1, <2>2 DEF Dated
<1>3. ASSUME NEW e \in Edits, EditMember(e) PROVE Dated'
  <2>1. /\ bundle # None /\ bundle' = [bundle EXCEPT ![e.field] = e.value]
        /\ e.field \in Fields
    BY <1>3 DEF EditMember, Edit
  <2>2. "expiration" \in DOMAIN bundle
    BY <2>1 DEF Inv, Shaped, Fields
  <2>3. bundle'.expiration = IF e.field = "expiration" THEN e.value ELSE bundle.expiration
    BY <2>1, <2>2
  <2> QED BY <2>1, <2>3 DEF Dated
<1>4. ASSUME NEW e \in SectionEdits, EditSection(e) PROVE Dated'
  <2>1. /\ bundle # None /\ e.field # "expiration"
        /\ bundle'.expiration = bundle.expiration
    BY <1>4 DEF EditSection, Edit, Inv, Shaped, Fields
  <2> QED BY <2>1 DEF Dated
<1>5. ASSUME NEW sig, EditSignature(sig) PROVE Dated'
  BY <1>5 DEF EditSignature, Edit, Dated, Inv, Shaped, Fields
<1>6. CASE bundle' = bundle
  BY <1>6 DEF Dated
<1> QED
  BY <1>1, <1>2, <1>3, <1>4, <1>5, <1>6 DEF Next, vars, Tick, Begin, Pass, Fail

(* The evaluation of the boundary has returned v: at a moment of its own,   *)
(* if there is one.                                                         *)
LEMMA MomentOfValue ==
  ASSUME TypeOK, stage = 9, NEW v \in Readings
  PROVE  \E t \in started .. clock : Settled(bundle, cfg, started, clock, v, t)
<1>1. /\ started \in Nat /\ since \in Nat /\ clock \in Nat /\ started <= since /\ since <= clock
      /\ started \in Times /\ since \in Times /\ clock \in Times
  BY FormatAssumption DEF TypeOK
<1>2. v \in Values(bundle, cfg, since, clock)
  BY DEF Readings, BoundaryStage
<1>3. \E t \in since .. clock : Momentary(bundle, cfg) => v \in Values(bundle, cfg, t, t)
  <2>1. CASE Momentary(bundle, cfg)
    BY <1>1, <1>2, <2>1 DEF Momentary
  <2>2. CASE ~Momentary(bundle, cfg)
    <3>1. clock \in since .. clock
      BY <1>1
    <3> QED BY <2>2, <3>1
  <2> QED BY <2>1, <2>2
<1>4. v \in Values(bundle, cfg, started, clock)
  <2>1. started <= clock /\ since \in started .. clock /\ clock \in since .. clock
    BY <1>1
  <2> QED BY <1>1, <1>2, <2>1, ValuesWiden
<1>5. \A t \in since .. clock : t \in started .. clock
  BY <1>1
<1> QED BY <1>3, <1>4, <1>5 DEF Settled

(* The pipeline goes on: the same moment serves, or that of the value the   *)
(* boundary has just been found to have.                                    *)
LEMMA MomentOfPass ==
  ASSUME TypeOK, Dated, bundle # None, NEW v \in Readings, Pass(v), OneMoment
  PROVE  \E t \in started .. clock :
           /\ PassedBefore(stage + 1, bundle, cfg, v, t)
           /\ stage + 1 > 9 => Settled(bundle, cfg, started, clock, v, t)
<1> USE FormatAssumption DEF Stages
<1>1. stage \in 1 .. 13 /\ Check(stage, bundle, cfg, v, clock) = "pass"
      /\ started \in Nat /\ clock \in Nat /\ started <= clock
  BY DEF Pass, TypeOK
<1>2. PICK t \in started .. clock :
        /\ PassedBefore(stage, bundle, cfg, value, t)
        /\ stage > 9 => Settled(bundle, cfg, started, clock, value, t)
  BY <1>1 DEF OneMoment
<1>3. CASE stage = 9
  <2>1. PICK u \in started .. clock : Settled(bundle, cfg, started, clock, v, u)
    BY <1>3, MomentOfValue
  <2>2. \A j \in 1 .. 13 : j < 9 => Check(j, bundle, cfg, v, u) = "pass"
    BY <1>2, <1>3, Timeless DEF PassedBefore
  <2>3. Check(9, bundle, cfg, v, u) = "pass"
    BY <1>1, <1>3, NinthAndTwelfth
  <2>4. PassedBefore(10, bundle, cfg, v, u)
    BY <2>2, <2>3 DEF PassedBefore
  <2> QED BY <1>3, <2>1, <2>4
<1>4. CASE stage # 9
  <2>1. v = value
    BY <1>4 DEF Readings, BoundaryStage
  <2>2. Check(stage, bundle, cfg, v, t) = "pass"
    <3>1. CASE stage = 12
      BY <1>1, <1>2, <3>1, ExpirationStays, NinthAndTwelfth DEF Dated
    <3>2. CASE stage # 12
      BY <1>1, <1>4, <3>2, Timeless
    <3> QED BY <3>1, <3>2
  <2>3. PassedBefore(stage + 1, bundle, cfg, v, t)
    BY <1>1, <1>2, <2>1, <2>2 DEF PassedBefore
  <2>4. stage + 1 > 9 => stage > 9
    BY <1>1, <1>4
  <2> QED BY <1>2, <2>1, <2>3, <2>4
<1> QED BY <1>3, <1>4

(* The pipeline ends: the check that fails decides at the moment at which   *)
(* the others passed, or now.                                               *)
LEMMA MomentOfFail ==
  ASSUME TypeOK, Dated, bundle # None, NEW v \in Readings, Fail(v), OneMoment
  PROVE  \E t \in started .. clock : \E w :
           /\ Settled(bundle, cfg, started, clock, w, t)
           /\ Check(stage, bundle, cfg, v, clock) = Verdict(bundle, cfg, w, t)
<1> USE FormatAssumption DEF Stages
<1>1. stage \in 1 .. 13 /\ Check(stage, bundle, cfg, v, clock) # "pass"
      /\ started \in Nat /\ clock \in Nat /\ started <= clock
      /\ started \in Times /\ clock \in Times /\ clock \in started .. clock
  BY DEF Fail, TypeOK
<1>2. PICK t \in started .. clock :
        /\ PassedBefore(stage, bundle, cfg, value, t)
        /\ stage > 9 => Settled(bundle, cfg, started, clock, value, t)
  BY <1>1 DEF OneMoment
<1>3. CASE stage < 9
  <2>1. PICK w : Settled(bundle, cfg, started, clock, w, t)
    BY <1>1, SettledNow
  <2>2. PassedBefore(stage, bundle, cfg, w, t)
    BY <1>1, <1>2, <1>3, Timeless DEF PassedBefore
  <2>3. Check(stage, bundle, cfg, w, t) = Check(stage, bundle, cfg, v, clock)
    BY <1>1, <1>3, Timeless
  <2>4. Check(stage, bundle, cfg, w, t) = Verdict(bundle, cfg, w, t)
    BY <1>1, <2>2, <2>3, FirstDecides
  <2> QED BY <2>1, <2>3, <2>4
<1>4. CASE stage = 9
  <2>1. PICK u \in started .. clock : Settled(bundle, cfg, started, clock, v, u)
    BY <1>4, MomentOfValue
  <2>2. PassedBefore(9, bundle, cfg, v, u)
    BY <1>2, <1>4, Timeless DEF PassedBefore
  <2>3. Check(9, bundle, cfg, v, u) = Check(9, bundle, cfg, v, clock)
    BY NinthAndTwelfth
  <2>4. Check(9, bundle, cfg, v, u) = Verdict(bundle, cfg, v, u)
    BY <1>1, <1>4, <2>2, <2>3, FirstDecides
  <2> QED BY <1>4, <2>1, <2>3, <2>4
<1>5. CASE stage > 9 /\ Check(stage, bundle, cfg, value, t) # "pass"
  <2>1. v = value
    BY <1>5 DEF Readings, BoundaryStage
  <2>2. Check(stage, bundle, cfg, v, t) = Check(stage, bundle, cfg, v, clock)
    <3>1. CASE stage = 12
      BY <1>1, <1>5, <2>1, <3>1, ExpirationStays, NinthAndTwelfth DEF Dated
    <3>2. CASE stage # 12
      BY <1>1, <1>5, <3>2, Timeless
    <3> QED BY <3>1, <3>2
  <2>3. Check(stage, bundle, cfg, value, t) = Verdict(bundle, cfg, value, t)
    BY <1>1, <1>2, <1>5, FirstDecides
  <2> QED BY <1>2, <1>5, <2>1, <2>2, <2>3
<1>6. CASE stage > 9 /\ Check(stage, bundle, cfg, value, t) = "pass"
  <2>0. v = value
    BY <1>6 DEF Readings, BoundaryStage
  <2>1. stage = 12
    BY <1>1, <1>6, Timeless
  <2>2. ExpirationCheck(bundle, t) = "pass" /\ Check(12, bundle, cfg, v, clock) # "pass"
    BY <1>1, <1>6, <2>1, NinthAndTwelfth
  <2>3. ExpirationCheck(bundle, clock) = "policy-denied"
    BY <1>1, <2>2, ExpirationStays, NinthAndTwelfth DEF Dated
  <2>4. Check(12, bundle, cfg, v, clock) = "policy-denied"
    BY <2>3, NinthAndTwelfth
  <2>5. PICK w : Settled(bundle, cfg, started, clock, w, clock)
    BY <1>1, SettledNow
  <2>6. PassedBefore(9, bundle, cfg, w, clock)
    BY <1>2, <2>1, Timeless DEF PassedBefore
  <2>7. BoundaryCheck(bundle, w) \in {"pass", "policy-denied"}
    <3>1. BoundaryCheck(bundle, value) = "pass"
      BY <1>2, <2>1, NinthAndTwelfth DEF PassedBefore
    <3> QED BY <3>1, BoundaryLater
  <2>8. CASE BoundaryCheck(bundle, w) = "policy-denied"
    <3>1. Check(9, bundle, cfg, w, clock) = "policy-denied"
      BY <2>8, NinthAndTwelfth
    <3>2. Verdict(bundle, cfg, w, clock) = "policy-denied"
      BY <2>6, <3>1, FirstDecides
    <3> QED BY <1>1, <2>1, <2>4, <2>5, <3>2
  <2>9. CASE BoundaryCheck(bundle, w) = "pass"
    <3>1. Check(9, bundle, cfg, w, clock) = "pass"
      BY <2>9, NinthAndTwelfth
    <3>2. PassedBefore(12, bundle, cfg, w, clock)
      BY <1>2, <2>1, <3>1, Timeless DEF PassedBefore
    <3>3. Check(12, bundle, cfg, w, clock) = "policy-denied"
      BY <2>3, NinthAndTwelfth
    <3>4. Verdict(bundle, cfg, w, clock) = "policy-denied"
      BY <3>2, <3>3, FirstDecides
    <3> QED BY <1>1, <2>1, <2>4, <2>5, <3>4
  <2> QED BY <2>7, <2>8, <2>9
<1> QED BY <1>1, <1>3, <1>4, <1>5, <1>6

(* However the clock runs between the checks and within the evaluation of   *)
(* the boundary, the outcome is that of the checks with one reading of the  *)
(* clock and a value of the boundary in that time: of one moment for both,  *)
(* where every evaluation of the boundary has the value of a moment.        *)
THEOREM AtomicVerdict == Spec => []VerdictIsAtomic
<1> USE DEF Done, Stages
<1>1. Init => AtomicInv
  BY DEF Init, AtomicInv, Dated, OneMoment, VerdictIsAtomic
<1>2. Inv /\ TypeOK /\ AtomicInv /\ [Next]_vars => AtomicInv'
  <2> SUFFICES ASSUME Inv, TypeOK, AtomicInv, [Next]_vars PROVE AtomicInv'
    OBVIOUS
  <2>0. started \in Times /\ clock \in Times /\ started \in Nat /\ clock \in Nat /\ started <= clock
    BY FormatAssumption DEF TypeOK
  <2>1. Dated'
    BY DatedKept DEF AtomicInv
  <2>2. ASSUME NEW v \in Readings, Pass(v) PROVE AtomicInv'
    <3>1. bundle # None /\ stage \in 1 .. 13
          /\ UNCHANGED <<bundle, cfg, started, clock>> /\ stage' = stage + 1 /\ value' = v
          /\ outcome' = IF stage = 13 THEN "verified" ELSE outcome
      BY <2>2 DEF Pass, Inv, Progress
    <3>2. PICK t \in started .. clock :
            /\ PassedBefore(stage + 1, bundle, cfg, v, t)
            /\ stage + 1 > 9 => Settled(bundle, cfg, started, clock, v, t)
      BY <2>2, <3>1, MomentOfPass DEF AtomicInv
    <3>3. OneMoment'
      <4>1. PassedBefore(stage', bundle', cfg', value', t)
        BY <3>1, <3>2
      <4>2. stage' > 9 => Settled(bundle', cfg', started', clock', value', t)
        BY <3>1, <3>2
      <4>3. t \in started' .. clock'
        BY <3>1
      <4> QED BY <4>1, <4>2, <4>3 DEF OneMoment
    <3>4. CASE stage = 13
      <4>1. Verdict(bundle, cfg, v, t) = "verified" /\ Settled(bundle, cfg, started, clock, v, t)
        BY <3>2, <3>4, NoneDecides
      <4>2. outcome' = Verdict(bundle', cfg', v, t)
        BY <3>1, <3>4, <4>1
      <4>3. v \in Values(bundle', cfg', started', clock')
            /\ (Momentary(bundle', cfg') => v \in Values(bundle', cfg', t, t))
        BY <3>1, <4>1 DEF Settled
      <4>4. VerdictIsAtomic'
        BY <3>1, <4>2, <4>3 DEF VerdictIsAtomic
      <4> QED BY <2>1, <3>3, <4>4 DEF AtomicInv
    <3>5. CASE stage # 13
      BY <2>1, <3>1, <3>3, <3>5 DEF AtomicInv, VerdictIsAtomic
    <3> QED BY <3>4, <3>5
  <2>3. ASSUME NEW v \in Readings, Fail(v) PROVE AtomicInv'
    <3>1. bundle # None /\ UNCHANGED <<bundle, cfg, started, clock>> /\ stage' = 14
          /\ outcome' = Check(stage, bundle, cfg, v, clock)
      BY <2>3 DEF Fail, Inv, Progress
    <3>10. PICK t \in started .. clock : \E w :
            /\ Settled(bundle, cfg, started, clock, w, t)
            /\ Check(stage, bundle, cfg, v, clock) = Verdict(bundle, cfg, w, t)
      BY <2>3, <3>1, MomentOfFail DEF AtomicInv
    <3>2. PICK w :
            /\ Settled(bundle, cfg, started, clock, w, t)
            /\ Check(stage, bundle, cfg, v, clock) = Verdict(bundle, cfg, w, t)
      BY <3>10
    <3>3. outcome' = Verdict(bundle', cfg', w, t)
      BY <3>1, <3>2
    <3>4. w \in Values(bundle', cfg', started', clock')
          /\ (Momentary(bundle', cfg') => w \in Values(bundle', cfg', t, t))
      BY <3>1, <3>2 DEF Settled
    <3>5. VerdictIsAtomic'
      BY <3>1, <3>3, <3>4 DEF VerdictIsAtomic
    <3> QED BY <2>1, <3>1, <3>5 DEF AtomicInv, OneMoment
  <2>4. ASSUME NEW c \in Configs, Begin(c) PROVE AtomicInv'
    <3>1. stage' = 1 /\ started' = clock /\ clock' = clock
      BY <2>4 DEF Begin
    <3>2. PassedBefore(1, bundle', cfg', value', clock)
      BY DEF PassedBefore
    <3> QED BY <2>0, <2>1, <3>1, <3>2 DEF AtomicInv, OneMoment, VerdictIsAtomic
  <2>5. CASE Tick
    <3>1. clock' = clock + 1 /\ clock' \in Times
          /\ UNCHANGED <<bundle, cfg, started, stage, value, outcome>>
      BY <2>5 DEF Tick
    <3>2. \A t \in started .. clock : t \in started .. clock'
      BY <2>0, <3>1
    <3>3. ASSUME NEW v, NEW t, Settled(bundle, cfg, started, clock, v, t)
          PROVE  Settled(bundle, cfg, started, clock', v, t)
      <4>1. clock <= clock'
        BY <2>0, <3>1
      <4>2. \A later \in Times : clock <= later => Settled(bundle, cfg, started, later, v, t)
        BY <2>0, <3>3, SettledLater
      <4> QED BY <3>1, <4>1, <4>2
    <3>4. OneMoment'
      <4>1. CASE stage \in 1 .. 13
        <5>1. PICK t \in started .. clock :
                /\ PassedBefore(stage, bundle, cfg, value, t)
                /\ stage > 9 => Settled(bundle, cfg, started, clock, value, t)
          BY <4>1 DEF AtomicInv, OneMoment
        <5>2. /\ PassedBefore(stage', bundle', cfg', value', t) /\ t \in started' .. clock'
              /\ stage' > 9 => Settled(bundle', cfg', started', clock', value', t)
          BY <3>1, <3>2, <3>3, <5>1
        <5> QED BY <5>2 DEF OneMoment
      <4>2. CASE stage \notin 1 .. 13
        BY <3>1, <4>2 DEF OneMoment
      <4> QED BY <4>1, <4>2
    <3>5. VerdictIsAtomic'
      <4>1. CASE stage = 14
        <5>0. PICK t \in started .. clock : \E v :
                Settled(bundle, cfg, started, clock, v, t) /\ outcome = Verdict(bundle, cfg, v, t)
          BY <4>1 DEF AtomicInv, VerdictIsAtomic, Settled
        <5>1. PICK v :
                Settled(bundle, cfg, started, clock, v, t) /\ outcome = Verdict(bundle, cfg, v, t)
          BY <5>0
        <5>2. Settled(bundle, cfg, started, clock', v, t)
          BY <3>3, <5>1
        <5>3. outcome' = Verdict(bundle', cfg', v, t) /\ t \in started' .. clock'
          BY <3>1, <3>2, <5>1
        <5>4. v \in Values(bundle', cfg', started', clock')
              /\ (Momentary(bundle', cfg') => v \in Values(bundle', cfg', t, t))
          BY <3>1, <5>2 DEF Settled
        <5> QED BY <5>3, <5>4 DEF VerdictIsAtomic
      <4>2. CASE stage # 14
        BY <3>1, <4>2 DEF VerdictIsAtomic
      <4> QED BY <4>1, <4>2
    <3> QED BY <2>1, <3>4, <3>5 DEF AtomicInv
  <2>6. CASE stage = 0 /\ stage' = 0
    BY <2>1, <2>6 DEF AtomicInv, OneMoment, VerdictIsAtomic
  <2>7. CASE UNCHANGED vars
    BY <2>1, <2>7 DEF vars, AtomicInv, OneMoment, VerdictIsAtomic
  <2> QED
    BY <2>2, <2>3, <2>4, <2>5, <2>6, <2>7
       DEF Next, Seal, ReSign, EditMember, EditSection, EditSignature, Edit
<1>3. AtomicInv => VerdictIsAtomic
  BY DEF AtomicInv
<1> QED
  BY <1>1, <1>2, <1>3, Invariance, TypeCorrect, PTL DEF Spec

-----------------------------------------------------------------------------
(* Where the pipeline has looked into the document, it is authentic; and    *)
(* where it is not, the outcome is that of one of the first seven checks.   *)
Trusting ==
  /\ stage = 0 => value = "none"
  /\ value # "none" => Authentic /\ SpecMatches(bundle)

Refusing ==
  (stage = Done /\ ~Authentic) => \E i \in 1 .. 7 : /\ outcome = Check(i, bundle, cfg, "none", 0)
                                                   /\ outcome # "pass"

LEMMA EarlyRefusals ==
  ASSUME NEW i \in 1 .. 7, NEW b, NEW c, Check(i, b, c, "none", 0) # "pass"
  PROVE  LET o == Check(i, b, c, "none", 0) IN
         /\ o \in {"resource-exhausted", "malformed", "unknown-version", "policy-denied",
                   "missing-side-info", "out-of-bounds", "invalid-signature"}
         /\ o = "policy-denied" => "policy-denied" \in {ExpectedProfileCheck(b, c), NestingCheck(b)}
         /\ o = "missing-side-info" => NestingCheck(b) = "missing-side-info"
<1>1. CASE i \in {1, 2, 3}
  BY <1>1 DEF Check, SizeCheck, VersionCheck, RequiredCheck
<1>2. CASE i = 4
  BY <1>2 DEF Check, ExpectedProfileCheck
<1>3. CASE i = 5
  <2>1. Check(i, b, c, "none", 0) = NestingCheck(b)
    BY <1>3 DEF Check
  <2>2. NestingCheck(b) \in {"pass", "policy-denied", "missing-side-info", "unknown-version"}
    BY DEF NestingCheck
  <2> QED BY <2>1, <2>2
<1>4. CASE i \in {6, 7}
  BY <1>4 DEF Check, DepthCheck, SignatureCheck
<1> QED BY <1>1, <1>2, <1>3, <1>4

(* With a key, nothing in a document is acted upon before its signature has *)
(* been found right, whatever was done to the file.                         *)
THEOREM AuthenticityFirst == Spec => []AuthenticFirst
<1> USE DEF Done, Stages
<1>1. Init => Trusting /\ Refusing
  BY DEF Init, Trusting, Refusing
<1>2. Inv /\ TypeOK /\ Trusting /\ Refusing /\ [Next]_vars => Trusting' /\ Refusing'
  <2> SUFFICES ASSUME Inv, TypeOK, Trusting, Refusing, [Next]_vars PROVE Trusting' /\ Refusing'
    OBVIOUS
  <2>1. ASSUME NEW v \in Readings, Pass(v) \/ Fail(v) PROVE Trusting' /\ Refusing'
    <3>1. /\ UNCHANGED <<bundle, cfg>> /\ value' = v /\ stage \in 1 .. 13 /\ stage' \in 1 .. 14
          /\ outcome = "pending"
      BY <2>1 DEF Pass, Fail, Inv, Progress
    <3>2. stage > 7 => Authentic
      BY <3>1 DEF Inv, Progress, Authentic
    <3>3. UNCHANGED <<Authentic, SpecMatches(bundle)>>
      BY <3>1 DEF Authentic, SpecMatches, VerifySignature, Body
    <3>4. v # "none" => Authentic /\ SpecMatches(bundle)
      <4>1. CASE stage = 9
        <5>1. v \in Values(bundle, cfg, since, clock) /\ since \in Times /\ clock \in Times
          BY <4>1 DEF Readings, BoundaryStage, TypeOK
        <5>2. v # "none" => Evaluates(bundle, cfg)
          BY <5>1, ValuesTyped
        <5> QED BY <3>2, <4>1, <5>2 DEF Evaluates
      <4>2. CASE stage # 9
        BY <4>2 DEF Readings, BoundaryStage, Trusting
      <4> QED BY <4>1, <4>2
    <3>5. Trusting'
      BY <3>1, <3>3, <3>4 DEF Trusting
    <3>6. CASE Pass(v)
      <4>1. stage = 13 => Authentic
        BY <3>2
      <4>2. stage' = stage + 1
        BY <3>6 DEF Pass
      <4>3. stage' = 14 => Authentic'
        BY <3>1, <3>3, <4>1, <4>2
      <4> QED BY <3>5, <4>3 DEF Refusing
    <3>7. CASE Fail(v)
      <4>1. outcome' = Check(stage, bundle, cfg, v, clock) /\ outcome' # "pass"
        BY <3>7 DEF Fail
      <4>2. CASE stage > 7
        BY <3>2, <3>3, <3>5, <4>2 DEF Refusing
      <4>3. CASE stage <= 7
        <5>1. stage \in 1 .. 7 /\ stage \notin {9, 12}
          BY <3>1, <4>3
        <5>2. outcome' = Check(stage, bundle, cfg, "none", 0)
          BY <3>1, <4>1, <5>1, Timeless
        <5>3. \E i \in 1 .. 7 : outcome' = Check(i, bundle', cfg', "none", 0) /\ outcome' # "pass"
          BY <3>1, <4>1, <5>1, <5>2
        <5> QED BY <3>5, <5>3 DEF Refusing
      <4> QED BY <3>1, <4>2, <4>3
    <3> QED BY <2>1, <3>6, <3>7
  <2>2. CASE stage = 0 /\ stage' \in {0, 1} /\ value' = value
    BY <2>2 DEF Trusting, Refusing
  <2>3. CASE UNCHANGED <<bundle, cfg, stage, value, outcome>>
    <3>1. UNCHANGED <<Authentic, SpecMatches(bundle)>>
      BY <2>3 DEF Authentic, SpecMatches, VerifySignature, Body
    <3>2. \A i : Check(i, bundle', cfg', "none", 0) = Check(i, bundle, cfg, "none", 0)
      BY <2>3
    <3> QED BY <2>3, <3>1, <3>2 DEF Trusting, Refusing
  <2> QED
    BY <2>1, <2>2, <2>3
       DEF Next, vars, Seal, ReSign, EditMember, EditSection, EditSignature, Edit, Tick, Begin
<1>3. Trusting /\ Refusing => AuthenticFirst
  BY EarlyRefusals DEF Trusting, Refusing, AuthenticFirst
<1> QED
  BY <1>1, <1>2, <1>3, Invariance, TypeCorrect, PTL DEF Spec

-----------------------------------------------------------------------------
(* A bundle nobody touched is the one its options describe; and the clock   *)
(* has shown every time from 0 on.                                          *)
Sealed(o) == [Unsigned(o) EXCEPT !.signature = Sign(o.sigAlg, o.key, Unsigned(o))]

OriginKept == origin # None => Sealable(origin) /\ bundle = Sealed(origin)

ClockRuns == 0 .. clock \subseteq Times

LEMMA SealedMembers ==
  ASSUME NEW o
  PROVE  /\ \A f \in Fields \ {"signature"} : Sealed(o)[f] = Unsigned(o)[f]
         /\ Sealed(o).signature = Sign(o.sigAlg, o.key, Unsigned(o))
         /\ Body(Sealed(o)) = Unsigned(o)
<1>1. /\ \A f \in Fields \ {"signature"} : Sealed(o)[f] = Unsigned(o)[f]
      /\ Sealed(o).signature = Sign(o.sigAlg, o.key, Unsigned(o))
      /\ DOMAIN Sealed(o) = Fields /\ Sealed(o) = [f \in Fields |-> Sealed(o)[f]]
  BY UnsignedShape DEF Sealed, Fields
<1>2. Unsigned(o).signature = NoSig
  BY DEF Unsigned
<1>3. DOMAIN Body(Sealed(o)) = Fields /\ Body(Sealed(o)) = [f \in Fields |-> Body(Sealed(o))[f]]
      /\ \A f \in Fields : Body(Sealed(o))[f] = Unsigned(o)[f]
  BY <1>1, <1>2 DEF Body
<1> QED BY <1>1, <1>3, UnsignedShape

(* Where nothing in the options speaks against it, no check fails before    *)
(* the bundle expires.                                                      *)
LEMMA NothingFails ==
  ASSUME NEW o \in SealOptions, NEW c, NEW t \in Times, NEW v, Sealable(o),
         (o.spec # NoSpec /\ c.context # None) => v # "error",
         (o.spec = NoSpec \/ c.context = None) => v = "none",
         FitsProfile(o), o.side # "untyped", Matching(c, o),
         o.expiration.kind = Missing \/ (o.expiration.kind = "time" /\ t <= o.expiration.at),
         o.commit = None \/ DigestCommitted(c, o)
  PROVE  Verdict(Sealed(o), c, v, t) = "verified"
<1> DEFINE b == Sealed(o)
<1> USE EditsAssumption, FormatAssumption
<1>1. /\ b.version = "1.0.0" /\ b.profile = o.profile
      /\ b.digestAlg = o.digestAlg /\ b.sigAlg = o.sigAlg
      /\ b.payload = [kind |-> "object", text |-> o.text, digest |-> Digest(o.digestAlg, o.text)]
      /\ b.boundary = IF o.spec = NoSpec THEN BoundaryOf(Missing)
                      ELSE [kind |-> "object", spec |-> o.spec, digest |-> Digest(o.digestAlg, o.spec)]
      /\ b.commitment = IF o.commit = None THEN [kind |-> Missing, hexOf |-> None]
                        ELSE [kind |-> "string", hexOf |-> o.commit]
      /\ b.parents = o.parents /\ b.side = o.side /\ b.expiration = o.expiration
  <2>1. \A f \in Fields \ {"signature"} : b[f] = Unsigned(o)[f]
    BY SealedMembers
  <2>2. /\ b.version = Unsigned(o).version /\ b.profile = Unsigned(o).profile
        /\ b.digestAlg = Unsigned(o).digestAlg /\ b.sigAlg = Unsigned(o).sigAlg
        /\ b.payload = Unsigned(o).payload /\ b.boundary = Unsigned(o).boundary
        /\ b.commitment = Unsigned(o).commitment /\ b.parents = Unsigned(o).parents
        /\ b.side = Unsigned(o).side /\ b.expiration = Unsigned(o).expiration
    BY ONLY <2>1 DEF Fields
  <2> HIDE DEF b
  <2> QED BY ONLY <2>2 DEF Unsigned
<1>2. b.signature = Sign(o.sigAlg, o.key, Unsigned(o)) /\ Body(b) = Unsigned(o)
  BY SealedMembers
<1>3. DigestAlgOf(b) = o.digestAlg /\ KnownDigest(o.digestAlg) /\ o.digestAlg # Missing
  BY <1>1 DEF DigestAlgOf, Sealable, KnownDigest
<1>4. o.sigAlg # Missing /\ CanSign(o.sigAlg, o.key)
  BY DEF Sealable, CanSign
<1> HIDE DEF b
<1>5. SizeCheck(b, c) = "pass" /\ VersionCheck(b) = "pass" /\ DepthCheck(b, c) = "pass"
  BY <1>1 DEF SizeCheck, VersionCheck, DepthCheck, Matching
<1>6. RequiredCheck(b) = "pass"
  BY <1>1, <1>2, <1>3, <1>4 DEF RequiredCheck, Sign, NoSig, Missing
<1>7. ExpectedProfileCheck(b, c) = "pass"
  BY <1>1 DEF ExpectedProfileCheck, Matching
<1>8. NestingCheck(b) = "pass"
  BY <1>1 DEF NestingCheck, FitsProfile, BoundaryOf, Missing
<1>9. SignatureCheck(b, c) = "pass"
  <2>1. HasCanonicalForm(b)
    BY <1>1 DEF HasCanonicalForm, Sealable, BoundaryOf, Missing
  <2>2. b.signature # JunkSig
    BY <1>2 DEF Sign, JunkSig
  <2>3. c.key = None \/ VerifySignature(b.sigAlg, c.key, Body(b), b.signature)
    BY <1>1, <1>2, <1>4 DEF Matching, VerifySignature
  <2> QED BY <2>1, <2>2, <2>3 DEF SignatureCheck
<1>10. PayloadCheck(b) = "pass"
  BY <1>1, <1>3 DEF PayloadCheck
<1>11. BoundaryCheck(b, v) = "pass"
  BY <1>1, <1>3 DEF BoundaryCheck, SpecMatches, BoundaryOf, Missing, Sealable
<1>12. ContextCheck(b, c) = "pass"
  BY <1>1, <1>3 DEF ContextCheck, DigestCommitted, Missing
<1>13. SideCheck(b) = "pass" /\ ExpirationCheck(b, t) = "pass" /\ LineageCheck(b) = "pass"
  BY <1>1 DEF SideCheck, ExpirationCheck, LineageCheck, Missing
<1>14. PassedBefore(Done, b, c, v, t)
  BY <1>5, <1>6, <1>7, <1>8, <1>9, <1>10, <1>11, <1>12, <1>13
     DEF PassedBefore, Check, Done, Stages
<1> QED BY <1>14, NoneDecides DEF b

(* Whatever seal accepts, for options that fit the profile, verifies with   *)
(* the matching key or none, the committed context and before it expires,   *)
(* if the evaluation of its boundary cannot but be true however its atoms   *)
(* read the clock during the run: the two programs agree on the format.     *)
THEOREM RoundTrip == Spec => []SealedVerifies
<1>1. Init => OriginKept /\ ClockRuns
  BY FormatAssumption DEF Init, OriginKept, ClockRuns
<1>2. TypeOK /\ OriginKept /\ ClockRuns /\ [Next]_vars => OriginKept' /\ ClockRuns'
  <2> SUFFICES ASSUME TypeOK, OriginKept, ClockRuns, [Next]_vars PROVE OriginKept' /\ ClockRuns'
    OBVIOUS
  <2>1. OriginKept'
    <3>1. ASSUME NEW o \in SealOptions, Seal(o) PROVE OriginKept'
      BY <3>1 DEF Seal, OriginKept, Sealed
    <3>2. CASE origin' = None
      BY <3>2 DEF OriginKept
    <3>3. CASE UNCHANGED <<bundle, origin>>
      BY <3>3 DEF OriginKept
    <3> QED
      BY <3>1, <3>2, <3>3 DEF Next, vars, ReSign, EditMember, EditSection, EditSignature, Edit,
         Tick, Begin, Pass, Fail
  <2>2. ClockRuns'
    <3>1. CASE Tick
      <4>1. clock \in Nat /\ clock' = clock + 1 /\ clock' \in Times
        BY <3>1, FormatAssumption DEF Tick, TypeOK
      <4> QED BY <4>1 DEF ClockRuns
    <3>2. CASE clock' = clock
      BY <3>2 DEF ClockRuns
    <3> QED
      BY <3>1, <3>2 DEF Next, vars, Seal, ReSign, EditMember, EditSection, EditSignature, Edit,
         Begin, Pass, Fail
  <2> QED BY <2>1, <2>2
<1>3. TypeOK /\ OriginKept /\ ClockRuns /\ VerdictIsAtomic => SealedVerifies
  <2> SUFFICES ASSUME TypeOK, OriginKept, ClockRuns, VerdictIsAtomic, Untouched,
                      origin.commit = None \/ DigestCommitted(cfg, origin)
               PROVE  outcome = "verified"
    BY DEF SealedVerifies
  <2>1. PICK t \in started .. clock, v \in Values(bundle, cfg, started, clock) :
          outcome = Verdict(bundle, cfg, v, t)
    BY DEF Untouched, VerdictIsAtomic
  <2>2. clock \in Nat /\ t \in Nat /\ t <= clock /\ t \in Times
    BY FormatAssumption DEF TypeOK, ClockRuns
  <2>3. origin \in SealOptions /\ Sealable(origin) /\ bundle = Sealed(origin)
    BY DEF Untouched, TypeOK, OriginKept
  <2>4. \/ origin.expiration.kind = Missing
        \/ origin.expiration.kind = "time" /\ t <= origin.expiration.at
    BY <2>2, <2>3, EditsAssumption DEF Untouched, Unexpired, Missing
  <2>5. bundle.boundary = Unsigned(origin).boundary
    BY <2>3, SealedMembers DEF Fields
  <2>6. bundle.boundary = IF origin.spec = NoSpec THEN BoundaryOf(Missing)
          ELSE [kind |-> "object", spec |-> origin.spec, digest |-> Digest(origin.digestAlg, origin.spec)]
    BY <2>5 DEF Unsigned
  <2>7. (origin.spec = NoSpec \/ cfg.context = None) => v = "none"
    <3>1. (origin.spec = NoSpec \/ cfg.context = None) => ~Evaluates(bundle, cfg)
      BY <2>6, EditsAssumption, FormatAssumption DEF Evaluates, BoundaryOf, Missing
    <3> QED BY <3>1 DEF Values
  <2>8. (origin.spec # NoSpec /\ cfg.context # None) => v # "error"
    <3>1. CASE Evaluates(bundle, cfg) /\ origin.spec # NoSpec /\ cfg.context # None
      <4>1. Values(bundle, cfg, started, clock) = Evaluate[origin.spec][cfg.context][started][clock]
        BY <2>6, <3>1 DEF Values
      <4> QED BY <3>1, <4>1 DEF Untouched, Matching
    <3>2. CASE ~Evaluates(bundle, cfg)
      BY <3>2 DEF Values
    <3> QED BY <3>1, <3>2
  <2>9. Verdict(Sealed(origin), cfg, v, t) = "verified"
    BY <2>2, <2>3, <2>4, <2>7, <2>8, NothingFails DEF Untouched
  <2> QED BY <2>1, <2>3, <2>9
<1> QED
  BY <1>1, <1>2, <1>3, TypeCorrect, AtomicVerdict, PTL DEF Spec

-----------------------------------------------------------------------------
(* Before the first edit the sections of the file are signed ones with the  *)
(* digests of their contents; after it a content nobody signed has a digest *)
(* of something else.                                                       *)
TextSigned == \E s \in issued : s.body.payload.text = bundle.payload.text
SpecSigned == \E s \in issued : s.body.boundary.spec = bundle.boundary.spec

TextDigested == \E a : bundle.payload.digest = Digest(a, bundle.payload.text)
SpecDigested == \E a : bundle.boundary.digest = Digest(a, bundle.boundary.spec)

Pristine ==
  /\ TextSigned /\ TextDigested
  /\ \/ bundle.boundary.spec = NoSpec /\ bundle.boundary.kind # "object"
     \/ bundle.boundary.kind = "object" /\ SpecSigned /\ SpecDigested

Betrayed ==
  /\ bundle.payload.text \in Texts => TextSigned \/ ~TextDigested
  /\ bundle.boundary.spec \in Specs =>
       bundle.boundary.kind = "object" /\ (SpecSigned \/ ~SpecDigested)

OneEditInv ==
  bundle # None => /\ edits = 0 => Pristine
                   /\ edits <= 1 => Betrayed

LEMMA PristineIsBetrayed == Pristine => Betrayed
  BY FormatAssumption DEF Pristine, Betrayed

(* What is signed stays signed. *)
LEMMA SectionsKept ==
  ASSUME OneEditInv, issued \subseteq issued', edits' = edits, bundle # None, bundle' # None,
         bundle'.payload = bundle.payload, bundle'.boundary = bundle.boundary
  PROVE  OneEditInv'
  BY DEF OneEditInv, Pristine, Betrayed, TextSigned, SpecSigned, TextDigested, SpecDigested

(* The first edit leaves the sections alone. *)
LEMMA FirstElsewhere ==
  ASSUME TypeOK, OneEditInv, issued \subseteq issued', edits' = edits + 1,
         bundle # None, bundle' # None,
         bundle'.payload = bundle.payload, bundle'.boundary = bundle.boundary
  PROVE  OneEditInv'
<1>1. edits \in Nat
  BY EditsAssumption DEF TypeOK
<1>2. CASE edits = 0
  <2>1. Pristine
    BY <1>2 DEF OneEditInv
  <2>2. Pristine'
    BY <2>1 DEF Pristine, TextSigned, SpecSigned, TextDigested, SpecDigested
  <2>3. Pristine' => Betrayed'
    BY FormatAssumption DEF Pristine, Betrayed
  <2> QED BY <1>2, <2>2, <2>3 DEF OneEditInv
<1>3. CASE edits # 0
  BY <1>1, <1>3 DEF OneEditInv
<1> QED BY <1>2, <1>3

(* The first edit changes the payload section.                              *)
LEMMA FirstInPayload ==
  ASSUME Pristine, issued' = issued, bundle'.boundary = bundle.boundary,
         \/ bundle'.payload.text \notin Texts
         \/ bundle'.payload.text = bundle.payload.text
         \/ bundle'.payload.digest = bundle.payload.digest
  PROVE  Betrayed'
<1>1. /\ bundle'.boundary.spec \in Specs => bundle'.boundary.kind = "object" /\ SpecSigned'
  BY FormatAssumption DEF Pristine, SpecSigned
<1>2. CASE bundle'.payload.text \notin Texts
  BY <1>1, <1>2 DEF Betrayed
<1>3. CASE bundle'.payload.text = bundle.payload.text
  BY <1>1, <1>3 DEF Betrayed, Pristine, TextSigned
<1>4. CASE bundle'.payload.digest = bundle.payload.digest /\ bundle'.payload.text # bundle.payload.text
  <2>1. PICK a : bundle.payload.digest = Digest(a, bundle.payload.text)
    BY DEF Pristine, TextDigested
  <2>2. ~TextDigested'
    BY <1>4, <2>1 DEF TextDigested, Digest
  <2> QED BY <1>1, <2>2 DEF Betrayed
<1> QED BY <1>2, <1>3, <1>4

(* The first edit changes the boundary section.                             *)
LEMMA FirstInBoundary ==
  ASSUME Pristine, issued' = issued, bundle'.payload = bundle.payload,
         \/ bundle'.boundary.spec \notin Specs
         \/ /\ bundle.boundary.kind = "object" /\ bundle'.boundary.kind = "object"
            /\ \/ bundle'.boundary.spec = bundle.boundary.spec
               \/ bundle'.boundary.digest = bundle.boundary.digest
  PROVE  Betrayed'
<1>1. TextSigned'
  BY DEF Pristine, TextSigned
<1>2. CASE bundle'.boundary.spec \notin Specs
  BY <1>1, <1>2 DEF Betrayed
<1>3. CASE bundle.boundary.kind = "object" /\ bundle'.boundary.kind = "object"
  <2>1. SpecSigned /\ SpecDigested
    BY <1>3 DEF Pristine
  <2>2. CASE bundle'.boundary.spec = bundle.boundary.spec
    BY <1>1, <1>3, <2>1, <2>2 DEF Betrayed, SpecSigned
  <2>3. CASE bundle'.boundary.digest = bundle.boundary.digest
             /\ bundle'.boundary.spec # bundle.boundary.spec
    <3>1. PICK a : bundle.boundary.digest = Digest(a, bundle.boundary.spec)
      BY <2>1 DEF SpecDigested
    <3>2. ~SpecDigested'
      BY <2>3, <3>1 DEF SpecDigested, Digest
    <3> QED BY <1>1, <1>3, <3>2 DEF Betrayed
  <2>4. CASE bundle'.boundary.spec \notin Specs
    BY <1>2, <2>4
  <2> QED BY <1>3, <2>2, <2>3, <2>4
<1> QED BY <1>2, <1>3

(* One edit of any member, or one re-signing, before verify.                *)
LEMMA OneEditKept ==
  Inv /\ TypeOK /\ OneEditInv /\ [Next]_vars => OneEditInv'
<1> USE EditsAssumption
<1> SUFFICES ASSUME Inv, TypeOK, OneEditInv, [Next]_vars PROVE OneEditInv'
  OBVIOUS
<1>0. edits \in Nat
  BY DEF TypeOK
<1>1. ASSUME NEW o \in SealOptions, Seal(o) PROVE OneEditInv'
  <2> DEFINE sig == Sign(o.sigAlg, o.key, Unsigned(o))
  <2>1. /\ bundle' = Sealed(o) /\ sig \in issued' /\ sig.body = Unsigned(o)
    BY <1>1 DEF Seal, Sealed, Sign
  <2>2. bundle'.payload = Unsigned(o).payload /\ bundle'.boundary = Unsigned(o).boundary
    BY <2>1, SealedMembers DEF Fields
  <2>3. /\ bundle'.payload = [kind |-> "object", text |-> o.text, digest |-> Digest(o.digestAlg, o.text)]
        /\ bundle'.boundary = IF o.spec = NoSpec THEN BoundaryOf(Missing)
              ELSE [kind |-> "object", spec |-> o.spec, digest |-> Digest(o.digestAlg, o.spec)]
    BY <2>2 DEF Unsigned
  <2>4. TextSigned' /\ SpecSigned'
    BY <2>1, <2>2 DEF TextSigned, SpecSigned
  <2>5. Pristine'
    BY <2>3, <2>4 DEF Pristine, TextDigested, SpecDigested, BoundaryOf, Missing
  <2>6. Pristine' => Betrayed'
    BY FormatAssumption DEF Pristine, Betrayed
  <2> QED BY <2>5, <2>6 DEF OneEditInv
<1>2. ASSUME NEW k \in Keys, NEW a \in SigAlgs, ReSign(k, a) PROVE OneEditInv'
  <2>1. /\ bundle # None /\ DOMAIN Body(bundle) = Fields
        /\ Body(bundle).payload = bundle.payload /\ Body(bundle).boundary = bundle.boundary
        /\ issued \subseteq issued' /\ edits' = edits + 1
    BY <1>2 DEF ReSign, Body, Inv, Shaped, Fields
  <2>2. bundle'.payload = bundle.payload /\ bundle'.boundary = bundle.boundary
    BY <1>2, <2>1 DEF ReSign, Fields
  <2>3. CASE bundle' # None
    BY <2>1, <2>2, <2>3, FirstElsewhere
  <2> QED BY <2>3 DEF OneEditInv
<1>3. ASSUME NEW e \in Edits, EditMember(e) PROVE OneEditInv'
  <2>1. /\ bundle # None /\ bundle' = [bundle EXCEPT ![e.field] = e.value]
        /\ e.field \in Fields \ {"signature"} /\ DOMAIN bundle = Fields
        /\ issued' = issued /\ edits' = edits + 1
    BY <1>3 DEF EditMember, Edit, Inv, Shaped
  <2>2. \A f \in Fields : bundle'[f] = IF f = e.field THEN e.value ELSE bundle[f]
    BY <2>1
  <2>3. /\ bundle'.payload = (IF e.field = "payload" THEN e.value ELSE bundle.payload)
        /\ bundle'.boundary = (IF e.field = "boundary" THEN e.value ELSE bundle.boundary)
    BY <2>2 DEF Fields
  <2>4. CASE e.field \notin {"payload", "boundary"}
    BY <2>1, <2>3, <2>4, FirstElsewhere DEF OneEditInv
  <2>5. CASE edits = 0 /\ e.field = "payload"
    <3>1. PICK k : bundle'.payload = PayloadOf(k)
      BY <2>3, <2>5
    <3>2. bundle'.payload.text \notin Texts
      BY <3>1, FormatAssumption DEF PayloadOf
    <3> QED BY <2>1, <2>3, <2>5, <3>2, FirstInPayload DEF OneEditInv
  <2>6. CASE edits = 0 /\ e.field = "boundary"
    <3>1. PICK k : bundle'.boundary = BoundaryOf(k)
      BY <2>3, <2>6
    <3>2. bundle'.boundary.spec \notin Specs
      BY <3>1, FormatAssumption DEF BoundaryOf
    <3> QED BY <2>1, <2>3, <2>6, <3>2, FirstInBoundary DEF OneEditInv
  <2>7. CASE edits # 0
    BY <1>0, <2>1, <2>7 DEF OneEditInv
  <2> QED BY <2>4, <2>5, <2>6, <2>7
<1>4. ASSUME NEW e \in SectionEdits, EditSection(e) PROVE OneEditInv'
  <2> DEFINE section == [bundle[e.field] EXCEPT ![e.member] = e.value]
  <2>1. /\ bundle # None /\ bundle' = [bundle EXCEPT ![e.field] = section]
        /\ bundle[e.field].kind = "object"
        /\ DOMAIN bundle = Fields /\ issued' = issued /\ edits' = edits + 1
    BY <1>4 DEF EditSection, Edit, Inv, Shaped
  <2>2. CASE edits = 0 /\ e.field = "payload"
    <3>1. /\ bundle'.boundary = bundle.boundary
          /\ bundle'.payload = [bundle.payload EXCEPT ![e.member] = e.value]
      BY <2>1, <2>2 DEF Fields
    <3>2. \/ bundle'.payload.text = bundle.payload.text
          \/ bundle'.payload.digest = bundle.payload.digest
      BY <2>2, <3>1
    <3> QED BY <2>1, <2>2, <3>1, <3>2, FirstInPayload DEF OneEditInv
  <2>3. CASE edits = 0 /\ e.field = "boundary"
    <3>1. /\ bundle'.payload = bundle.payload
          /\ bundle'.boundary = [bundle.boundary EXCEPT ![e.member] = e.value]
      BY <2>1, <2>3 DEF Fields
    <3>2. /\ bundle'.boundary.kind = "object" /\ bundle.boundary.kind = "object"
          /\ \/ bundle'.boundary.spec = bundle.boundary.spec
             \/ bundle'.boundary.digest = bundle.boundary.digest
      BY <2>1, <2>3, <3>1
    <3> QED BY <2>1, <2>3, <3>1, <3>2, FirstInBoundary DEF OneEditInv
  <2>4. CASE edits # 0
    BY <1>0, <2>1, <2>4 DEF OneEditInv
  <2> QED BY <2>2, <2>3, <2>4
<1>5. ASSUME NEW sig, EditSignature(sig) PROVE OneEditInv'
  <2>1. /\ bundle # None /\ issued' = issued /\ edits' = edits + 1
        /\ bundle'.payload = bundle.payload /\ bundle'.boundary = bundle.boundary
    BY <1>5 DEF EditSignature, Edit, Inv, Shaped, Fields
  <2> QED BY <2>1, FirstElsewhere DEF OneEditInv
<1>6. CASE UNCHANGED <<bundle, issued, edits>>
  BY <1>6 DEF OneEditInv, Pristine, Betrayed, TextSigned, SpecSigned, TextDigested, SpecDigested
<1> QED
  BY <1>1, <1>2, <1>3, <1>4, <1>5, <1>6 DEF Next, vars, Tick, Begin, Pass, Fail

(* Even without a key, a payload or a boundary nobody signed does not get   *)
(* past verify_bundle by one edit, whichever member it changes.             *)
THEOREM OneEditIsSeen == Spec => []OneEditShows
<1>1. Init => OneEditInv
  BY DEF Init, OneEditInv
<1>2. Inv /\ TypeOK /\ OneEditInv /\ VerdictIsAtomic => OneEditShows
  <2> SUFFICES ASSUME Inv, OneEditInv, VerdictIsAtomic, outcome = "verified", edits <= 1
               PROVE  /\ bundle.payload.text \in Texts => TextSigned
                      /\ bundle.boundary.spec \in Specs => SpecSigned
    BY DEF OneEditShows, TextSigned, SpecSigned
  <2>1. stage = Done /\ bundle # None
    BY DEF Inv, Progress, Done, Stages
  <2>2. PICK t \in started .. clock, v \in Values(bundle, cfg, started, clock) :
          Verdict(bundle, cfg, v, t) = "verified"
    BY <2>1 DEF VerdictIsAtomic
  <2>3. Check(8, bundle, cfg, v, t) = "pass" /\ Check(9, bundle, cfg, v, t) = "pass"
    BY <2>2, VerdictOutcomes DEF Failing, Stages
  <2>4. bundle.payload.text \in Texts => TextDigested
    BY <2>3, FormatAssumption DEF Check, PayloadCheck, TextDigested
  <2>5. Betrayed
    BY <2>1 DEF OneEditInv
  <2>6. bundle.boundary.spec \in Specs => SpecDigested
    BY <2>3, <2>5, FormatAssumption DEF Check, BoundaryCheck, SpecMatches, SpecDigested, Betrayed
  <2> QED BY <2>4, <2>5, <2>6 DEF Betrayed
<1> QED
  BY <1>1, <1>2, OneEditKept, Invariance, TypeCorrect, AtomicVerdict, PTL DEF Spec
=============================================================================
