------------------------- MODULE SealAndCheck_proofs -------------------------
(***************************************************************************)
(* What verify_bundle can answer, check by check and as a whole: lemmas    *)
(* for the modules that call it.                                           *)
(***************************************************************************)
EXTENDS SealAndCheck, TLAPS

(* What the checks can say: never "pending", and "verified" only after the  *)
(* last of them.                                                            *)
LEMMA CheckOutcomes ==
  ASSUME NEW i \in 1 .. Stages, NEW b, NEW c, NEW value, NEW now
  PROVE  Check(i, b, c, value, now) \in {"pass"} \cup (Outcomes \ {"pending", "verified"})
  BY DEF Check, Stages, Outcomes, SizeCheck, VersionCheck, RequiredCheck,
         ExpectedProfileCheck, NestingCheck, DepthCheck, SignatureCheck, PayloadCheck,
         BoundaryCheck, ContextCheck, SideCheck, ExpirationCheck, LineageCheck

(* A key given and the seventh check passed: the signature is the key's.    *)
LEMMA SignatureStage ==
  ASSUME NEW b, NEW c, NEW value, NEW now, c.key # None, Check(7, b, c, value, now) = "pass"
  PROVE  VerifySignature(b.sigAlg, c.key, Body(b), b.signature)
  BY DEF Check, SignatureCheck

(* The third check passed: there is a signature, of whatever kind.          *)
LEMMA RequiredStage ==
  ASSUME NEW b, NEW c, NEW value, NEW now, Check(3, b, c, value, now) = "pass"
  PROVE  b.signature # NoSig
  BY DEF Check, RequiredCheck

(* What an evaluation of the boundary can return.                           *)
LEMMA ValuesTyped ==
  ASSUME NEW b, NEW c, NEW from \in Times, NEW to \in Times
  PROVE  /\ Values(b, c, from, to) \subseteq {"true", "false", "error", "none"}
         /\ \A v \in Values(b, c, from, to) : v # "none" => Evaluates(b, c)
  BY FormatAssumption DEF Values, Evaluates

(* More time, more that an evaluation can return; and it returns something. *)
LEMMA ValuesWiden ==
  ASSUME NEW b, NEW c, NEW from \in Times, NEW to \in Times, from <= to
  PROVE  /\ Values(b, c, from, to) # {}
         /\ \A t \in from .. to : \A u \in t .. to : Values(b, c, t, u) \subseteq Values(b, c, from, to)
<1>1. CASE Evaluates(b, c)
  BY <1>1, FormatAssumption DEF Values, Evaluates
<1>2. CASE ~Evaluates(b, c)
  BY <1>2 DEF Values
<1> QED BY <1>1, <1>2

(* Of the checks that fail there is a first.                                *)
LEMMA FirstExists ==
  ASSUME NEW S \in SUBSET (1 .. Stages), S # {}
  PROVE  \E i \in S : \A j \in S : i <= j
<1> SUFFICES ASSUME \A i \in S : \E j \in S : ~(i <= j) PROVE FALSE
  OBVIOUS
<1>1. S \subseteq 1 .. 13
  BY DEF Stages
<1>2. 1 \notin S /\ 2 \notin S /\ 3 \notin S /\ 4 \notin S
  BY <1>1
<1>3. 5 \notin S /\ 6 \notin S /\ 7 \notin S /\ 8 \notin S
  BY <1>1, <1>2
<1>4. 9 \notin S /\ 10 \notin S /\ 11 \notin S /\ 12 \notin S /\ 13 \notin S
  BY <1>1, <1>2, <1>3
<1>5. PICK i \in S : TRUE
  OBVIOUS
<1>6. i \in Nat /\ 1 <= i /\ i <= 13
  BY <1>1
<1> QED BY <1>2, <1>3, <1>4, <1>5, <1>6

(* The verdict is the outcome of some check, or "verified".                 *)
LEMMA VerdictOutcomes ==
  ASSUME NEW b, NEW c, NEW value, NEW now
  PROVE  /\ Verdict(b, c, value, now) \in Outcomes \ {"pending"}
         /\ Verdict(b, c, value, now) = "verified" => Failing(b, c, value, now) = {}
<1>1. CASE Failing(b, c, value, now) = {}
  BY <1>1 DEF Verdict, Outcomes
<1>2. CASE Failing(b, c, value, now) # {}
  <2> DEFINE first == CHOOSE i \in Failing(b, c, value, now) : \A j \in Failing(b, c, value, now) : i <= j
  <2>1. Failing(b, c, value, now) \in SUBSET (1 .. Stages)
    BY DEF Failing
  <2>2. first \in Failing(b, c, value, now)
    BY <1>2, <2>1, FirstExists
  <2>3. Check(first, b, c, value, now) \in Outcomes \ {"pending", "verified"}
    BY <2>2, CheckOutcomes DEF Failing
  <2>4. Verdict(b, c, value, now) = Check(first, b, c, value, now)
    BY <1>2 DEF Verdict
  <2> QED BY <2>3, <2>4, <1>2
<1> QED BY <1>1, <1>2

(* A verdict is one of some verification. *)
LEMMA VerificationIsVerdict ==
  ASSUME NEW b, NEW c, NEW x \in Verifications(b, c)
  PROVE  \E from \in Times : \E to \in Times : \E value \in Values(b, c, from, to) :
           \E t \in from .. to : x = Verdict(b, c, value, t)
  BY DEF Verifications, Verdicts

(* What is verified with a key carries the signature of the key.            *)
LEMMA VerifiedIsSigned ==
  ASSUME NEW b, NEW c, NEW value, NEW now, c.key # None, Verdict(b, c, value, now) = "verified"
  PROVE  VerifySignature(b.sigAlg, c.key, Body(b), b.signature)
<1>1. 7 \in 1 .. Stages /\ 7 \notin Failing(b, c, value, now)
  BY VerdictOutcomes DEF Stages
<1>2. Check(7, b, c, value, now) = "pass"
  BY <1>1 DEF Failing
<1> QED BY <1>2, SignatureStage

(* The same of a whole verification, however many moments it takes.         *)
LEMMA VerificationOutcomes ==
  ASSUME NEW b, NEW c, NEW x \in Verifications(b, c)
  PROVE  /\ x \in Outcomes \ {"pending"}
         /\ (x = "verified" /\ c.key # None) => VerifySignature(b.sigAlg, c.key, Body(b), b.signature)
<1>1. \E value : \E t : x = Verdict(b, c, value, t)
  BY VerificationIsVerdict
<1> QED BY <1>1, VerdictOutcomes, VerifiedIsSigned
=============================================================================
