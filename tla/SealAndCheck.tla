---------------------------- MODULE SealAndCheck ----------------------------
(***************************************************************************)
(* The two library functions behind `proofbundle seal` and `proofbundle    *)
(* verify` as functions of their input: the document seal_bundle builds,   *)
(* and the checks of verify_bundle in the order of the code.  What runs    *)
(* between two checks is in SealVerify, who calls them on which file in    *)
(* CommandLine.                                                            *)
(***************************************************************************)
EXTENDS BundleFormat

CONSTANT None    \* no bundle, no option

-----------------------------------------------------------------------------
(* seal_bundle rejects what it cannot encode, digest or sign.              *)
Sealable(o) ==
  /\ o.text \in Texts
  /\ KnownDigest(o.digestAlg)
  /\ o.spec \notin Uncanonical /\ o.side # "uncanonical"
  /\ CanSign(o.sigAlg, o.key)

(* Bytes that are themselves hexadecimal text.                             *)
HexText(bytes) == <<"hexadecimal", bytes>>

(* The document seal_bundle builds before it signs it: no member is set    *)
(* for an absent option, an empty list of parents or of attestations; the  *)
(* commitment is written in hexadecimal.                                   *)
Unsigned(o) ==
  [version   |-> "1.0.0",
   profile   |-> o.profile,
   digestAlg |-> o.digestAlg,
   sigAlg    |-> o.sigAlg,
   payload   |-> [kind |-> "object", text |-> o.text, digest |-> Digest(o.digestAlg, o.text)],
   boundary  |-> IF o.spec = NoSpec
                 THEN BoundaryOf(Missing)
                 ELSE [kind |-> "object", spec |-> o.spec, digest |-> Digest(o.digestAlg, o.spec)],
   commitment |-> IF o.commit = None THEN [kind |-> Missing, hexOf |-> None]
                  ELSE [kind |-> "string", hexOf |-> o.commit],
   parents   |-> o.parents,
   side      |-> o.side,
   expiration |-> o.expiration,
   signature |-> NoSig]

-----------------------------------------------------------------------------
(* The checks of verify_bundle: "pass" or the outcome it returns.  A check *)
(* named for a fault is a variant no specification uses.                   *)

Stages == 13

SizeCheck(b, c) == IF c.tooLarge THEN "resource-exhausted" ELSE "pass"

VersionCheck(b) ==
  IF b.version = "1.0.0" THEN "pass"
  ELSE IF b.version = Missing THEN "malformed"
  ELSE "unknown-version"

RequiredCheck(b) ==
  IF \/ b.payload.kind = Missing \/ b.digestAlg = Missing
     \/ b.sigAlg = Missing \/ b.signature = NoSig
  THEN "malformed" ELSE "pass"

ExpectedProfileCheck(b, c) ==
  IF c.profile \in {Missing, b.profile} THEN "pass"
  ELSE IF b.profile = Missing THEN "malformed"
  ELSE "policy-denied"

(* What a profile forbids or demands; a bundle without a profile is free.  *)
NestingCheck(b) ==
  LET has(section) == section # Missing IN
  CASE b.profile = "core" ->
         IF has(b.boundary.kind) \/ has(b.parents) \/ has(b.side)
         THEN "policy-denied" ELSE "pass"
    [] b.profile = "sealed" ->
         IF ~has(b.boundary.kind) \/ has(b.parents) THEN "policy-denied" ELSE "pass"
    [] b.profile = "chained" -> IF ~has(b.parents) THEN "policy-denied" ELSE "pass"
    [] b.profile = "full" ->
         IF b.side = "hitlRequiredButAbsent" THEN "missing-side-info" ELSE "pass"
    [] b.profile = Missing -> "pass"
    [] OTHER -> "unknown-version"

DepthCheck(b, c) == IF c.tooDeep THEN "out-of-bounds" ELSE "pass"

SignatureOptional(b, c) ==
  IF c.key = None \/ b.signature = EmptySig THEN "pass"
  ELSE IF ~HasCanonicalForm(b) \/ b.signature = JunkSig THEN "malformed"
  ELSE IF VerifySignature(b.sigAlg, c.key, Body(b), b.signature) THEN "pass"
  ELSE "invalid-signature"

SignatureCheck(b, c) ==
  IF c.key = None THEN "pass"
  ELSE IF ~HasCanonicalForm(b) \/ b.signature = JunkSig THEN "malformed"
  ELSE IF VerifySignature(b.sigAlg, c.key, Body(b), b.signature) THEN "pass"
  ELSE "invalid-signature"

PayloadUncompared(b) ==
  IF b.payload.kind # "object" THEN "malformed"
  ELSE IF b.payload.text # NoText /\ ~KnownDigest(DigestAlgOf(b)) THEN "malformed"
  ELSE "pass"

PayloadCheck(b) ==
  IF b.payload.kind # "object" THEN "malformed"
  ELSE IF b.payload.text = NoText THEN "pass"
  ELSE IF ~KnownDigest(DigestAlgOf(b)) THEN "malformed"
  ELSE IF b.payload.digest # Digest(DigestAlgOf(b), b.payload.text) THEN "invalid-signature"
  ELSE "pass"

(* The ninth check evaluates a specification whose digest is right, when    *)
(* there is a context.  Values are what the evaluation between two moments  *)
(* may return, "none" where nothing is evaluated.                           *)
BoundaryStage == 9

SpecMatches(b) ==
  /\ KnownDigest(DigestAlgOf(b))
  /\ b.boundary.digest = Digest(DigestAlgOf(b), b.boundary.spec)

Evaluates(b, c) ==
  /\ b.boundary.kind = "object" /\ b.boundary.spec \in Specs \ Uncanonical
  /\ SpecMatches(b)
  /\ c.context \in Contexts

Values(b, c, from, to) ==
  IF Evaluates(b, c) THEN Evaluate[b.boundary.spec][c.context][from][to] ELSE {"none"}

(* Of the value only an error counts: its boolean is not looked at.        *)
BoundaryCheck(b, value) ==
  IF b.boundary.kind # "object" \/ b.boundary.spec = NoSpec THEN "pass"
  ELSE IF b.boundary.spec \in Uncanonical \/ ~KnownDigest(DigestAlgOf(b)) THEN "malformed"
  ELSE IF ~SpecMatches(b) THEN "invalid-signature"
  ELSE IF value = "error" THEN "policy-denied"
  ELSE "pass"

(* The commitment is compared with the hexadecimal digest of the context.  *)
ContextCheck(b, c) ==
  IF b.commitment.kind # "string" THEN "pass"
  ELSE IF c.context = None THEN "missing-side-info"
  ELSE IF c.context \in Uncanonical \/ ~KnownDigest(DigestAlgOf(b)) THEN "malformed"
  ELSE IF b.commitment.hexOf = Digest(DigestAlgOf(b), c.context) THEN "pass"
  ELSE "invalid-signature"

SideCheck(b) == IF b.side = "untyped" THEN "malformed" ELSE "pass"

ExpirationCheck(b, now) ==
  IF b.expiration.kind = "unknown" THEN "malformed"
  ELSE IF b.expiration.kind = "time" /\ now > b.expiration.at THEN "policy-denied"
  ELSE "pass"

(* The parents themselves are not looked at. *)
LineageCheck(b) ==
  IF b.profile \in {"chained", "full"} /\ b.parents = "empty"
  THEN "lineage-invalid" ELSE "pass"

(* Fault: the expiration is looked at before the signature. *)
CheckExpirationFirst(i, b, c, value, now) ==
  CASE i = 1 -> SizeCheck(b, c)
    [] i = 2 -> VersionCheck(b)
    [] i = 3 -> RequiredCheck(b)
    [] i = 4 -> ExpectedProfileCheck(b, c)
    [] i = 5 -> NestingCheck(b)
    [] i = 6 -> DepthCheck(b, c)
    [] i = 7 -> ExpirationCheck(b, now)
    [] i = 8 -> PayloadCheck(b)
    [] i = 9 -> BoundaryCheck(b, value)
    [] i = 10 -> ContextCheck(b, c)
    [] i = 11 -> SideCheck(b)
    [] i = 12 -> SignatureCheck(b, c)
    [] i = 13 -> LineageCheck(b)

Check(i, b, c, value, now) ==
  CASE i = 1 -> SizeCheck(b, c)
    [] i = 2 -> VersionCheck(b)
    [] i = 3 -> RequiredCheck(b)
    [] i = 4 -> ExpectedProfileCheck(b, c)
    [] i = 5 -> NestingCheck(b)
    [] i = 6 -> DepthCheck(b, c)
    [] i = 7 -> SignatureCheck(b, c)
    [] i = 8 -> PayloadCheck(b)
    [] i = 9 -> BoundaryCheck(b, value)
    [] i = 10 -> ContextCheck(b, c)
    [] i = 11 -> SideCheck(b)
    [] i = 12 -> ExpirationCheck(b, now)
    [] i = 13 -> LineageCheck(b)

(* The whole verification with one value of the boundary and one reading of *)
(* the clock for the expiration: the outcome of the first check that fails. *)
Failing(b, c, value, now) == {i \in 1 .. Stages : Check(i, b, c, value, now) # "pass"}
Verdict(b, c, value, now) ==
  LET failing == Failing(b, c, value, now) IN
  IF failing = {} THEN "verified"
  ELSE Check(CHOOSE i \in failing : \A j \in failing : i <= j, b, c, value, now)

(* What a verification between two moments, or at any time, may answer.     *)
Verdicts(b, c, from, to) ==
  {Verdict(b, c, value, t) : value \in Values(b, c, from, to), t \in from .. to}
Verifications(b, c) ==
  UNION {Verdicts(b, c, from, to) : from \in Times, to \in Times}

(* A boundary whose evaluation, however long it takes, returns what it would *)
(* have returned at one of the moments: with one atom about the time it does *)
(* (BoundaryEval's OneReadingIsAtomic).                                      *)
Momentary(b, c) ==
  \A from \in Times : \A to \in Times : \A value \in Values(b, c, from, to) :
    from <= to => \E t \in from .. to : value \in Values(b, c, t, t)

Outcomes == {"pending", "verified", "malformed", "invalid-signature", "out-of-bounds",
             "unknown-version", "missing-side-info", "lineage-invalid",
             "resource-exhausted", "policy-denied"}
=============================================================================
