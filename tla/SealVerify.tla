----------------------------- MODULE SealVerify -----------------------------
(***************************************************************************)
(* `proofbundle seal`, the library's re_sign_bundle, edits of the bundle   *)
(* file by other programs, and `proofbundle verify`: the pipeline of       *)
(* verify_bundle, one step per check of SealAndCheck, in the order of the  *)
(* code, while the clock runs.                                             *)
(***************************************************************************)
EXTENDS SealAndCheck

CONSTANTS
  SealOptions,   \* the options bundles are sealed with
  Edits,         \* [field, value]: what other programs do to a member
  SectionEdits,  \* [field, member, value]: the same inside "payload" and "boundary"
  Configs,       \* the options of verify
  MaxEdits       \* bound of the model: edits and re-signings before verify

(* The members of the document.  Edits of the signature are an action of   *)
(* their own: a new one takes a key.                                       *)
Fields == {"version", "profile", "digestAlg", "sigAlg", "payload", "boundary",
           "commitment", "parents", "side", "expiration", "signature"}

(* seal writes a list of side attestations, and none of parents when it is  *)
(* empty.  An edit of a whole section takes it away or puts in something    *)
(* that is no object; what is inside an object is edited member by member.  *)
ASSUME EditsAssumption ==
  /\ None \notin Keys \cup SealOptions \cup Contexts
  /\ \A c \in Configs : c.key \in Keys \cup {None} /\ c.context \in Contexts \cup {None}
  /\ \A o \in SealOptions :
       /\ o.key \in Keys
       /\ o.parents \in {Missing, "some"} /\ o.side \in {Missing, "typed", "untyped", "uncanonical"}
       /\ o.expiration.kind = "time" => o.expiration.at \in Nat
  /\ \A e \in Edits :
       /\ e.field \in Fields \ {"signature"}
       /\ e.field = "payload" => e.value = PayloadOf(e.value.kind)
       /\ e.field = "boundary" => e.value = BoundaryOf(e.value.kind)
       /\ (e.field = "expiration" /\ e.value.kind = "time") => e.value.at \in Nat
  /\ \A e \in SectionEdits :
       \/ e.field = "payload" /\ e.member \in {"text", "digest"}
       \/ e.field = "boundary" /\ e.member \in {"spec", "digest"}
  /\ MaxEdits \in Nat

VARIABLES
  bundle,    \* the bundle file, None before sealing
  origin,    \* history: the options of a bundle nobody touched, or None
  issued,    \* history: every signature ever made
  edits,     \* how often the file was changed since
  clock,     \* the system clock, Utc::now()
  stage,     \* 0: not verifying; 1 .. Stages: the next check; Stages + 1: done
  cfg,       \* the options of the verification
  started,   \* history: the clock when it began
  since,     \* history: the clock when the check at hand began
  value,     \* history: what boundary::evaluate returned, "none" before
  outcome    \* the exit code's name, "pending" until the pipeline ends

vars == <<bundle, origin, issued, edits, clock, stage, cfg, started, since, value, outcome>>

Done == Stages + 1

-----------------------------------------------------------------------------
(* seal_bundle, before anybody has changed the file.                       *)
Seal(o) ==
  /\ stage = 0 /\ bundle = None
  /\ Sealable(o)
  /\ LET sig == Sign(o.sigAlg, o.key, Unsigned(o)) IN
       /\ bundle' = [Unsigned(o) EXCEPT !.signature = sig]
       /\ issued' = issued \cup {sig}
  /\ origin' = o
  /\ UNCHANGED <<edits, clock, stage, cfg, started, since, value, outcome>>

(* re_sign_bundle: the old signature is gone before anything can fail; the *)
(* algorithm is not written into the document.                             *)
ReSign(key, alg) ==
  /\ stage = 0 /\ bundle # None /\ edits < MaxEdits
  /\ LET body == Body(bundle) IN
       IF HasCanonicalForm(body) /\ CanSign(alg, key)
       THEN /\ bundle' = [body EXCEPT !.signature = Sign(alg, key, body)]
            /\ issued' = issued \cup {Sign(alg, key, body)}
       ELSE bundle' = body /\ UNCHANGED issued
  /\ edits' = edits + 1
  /\ origin' = None
  /\ UNCHANGED <<clock, stage, cfg, started, since, value, outcome>>

(* Another program changes one member of the document, one member of a     *)
(* section, or puts in a signature that was made for another document.     *)
Edit(new) ==
  /\ stage = 0 /\ edits < MaxEdits
  /\ new # bundle
  /\ bundle' = new
  /\ edits' = edits + 1
  /\ origin' = None
  /\ UNCHANGED <<issued, clock, stage, cfg, started, since, value, outcome>>

EditMember(e) ==
  bundle # None /\ Edit([bundle EXCEPT ![e.field] = e.value])

EditSection(e) ==
  /\ bundle # None /\ bundle[e.field].kind = "object"
  /\ Edit([bundle EXCEPT ![e.field] = [@ EXCEPT ![e.member] = e.value]])

EditSignature(sig) ==
  bundle # None /\ Edit([bundle EXCEPT !.signature = sig])

Tick ==
  /\ clock + 1 \in Times
  /\ clock' = clock + 1
  /\ UNCHANGED <<bundle, origin, issued, edits, stage, cfg, started, since, value, outcome>>

-----------------------------------------------------------------------------
(* run: the bundle, the key and the context are read, then checked.        *)
Begin(c) ==
  /\ stage = 0 /\ bundle # None
  /\ stage' = 1
  /\ cfg' = c
  /\ started' = clock /\ since' = clock
  /\ UNCHANGED <<bundle, origin, issued, edits, clock, value, outcome>>

(* The value the check at hand has of the boundary: the ninth evaluates it,  *)
(* and may take any time for it.                                             *)
Readings ==
  IF stage = BoundaryStage THEN Values(bundle, cfg, since, clock) ELSE {value}

(* Fault: a core bundle has neither side attestations nor lineage, so the   *)
(* pipeline ends for it with the context commitment.                        *)
PassCoreEarly(v) ==
  /\ stage \in 1 .. Stages
  /\ Check(stage, bundle, cfg, v, clock) = "pass"
  /\ LET last == stage = Stages \/ (stage = 10 /\ bundle.profile = "core") IN
       /\ stage' = IF last THEN Done ELSE stage + 1
       /\ outcome' = IF last THEN "verified" ELSE outcome
  /\ since' = clock /\ value' = v
  /\ UNCHANGED <<bundle, origin, issued, edits, clock, cfg, started>>

Pass(v) ==
  /\ stage \in 1 .. Stages
  /\ Check(stage, bundle, cfg, v, clock) = "pass"
  /\ stage' = stage + 1
  /\ outcome' = IF stage = Stages THEN "verified" ELSE outcome
  /\ since' = clock /\ value' = v
  /\ UNCHANGED <<bundle, origin, issued, edits, clock, cfg, started>>

(* Fault: the outcome is noted and the next check is made all the same.     *)
FailAndGoOn(v) ==
  /\ stage \in 1 .. Stages
  /\ Check(stage, bundle, cfg, v, clock) # "pass"
  /\ stage' = stage + 1
  /\ outcome' = Check(stage, bundle, cfg, v, clock)
  /\ since' = clock /\ value' = v
  /\ UNCHANGED <<bundle, origin, issued, edits, clock, cfg, started>>

Fail(v) ==
  /\ stage \in 1 .. Stages
  /\ Check(stage, bundle, cfg, v, clock) # "pass"
  /\ stage' = Done
  /\ outcome' = Check(stage, bundle, cfg, v, clock)
  /\ value' = v
  /\ UNCHANGED <<bundle, origin, issued, edits, clock, cfg, started, since>>

Init ==
  /\ bundle = None /\ origin = None /\ issued = {} /\ edits = 0
  /\ clock = 0
  /\ stage = 0 /\ cfg = None /\ started = 0 /\ since = 0
  /\ value = "none" /\ outcome = "pending"

Next ==
  \/ \E o \in SealOptions : Seal(o)
  \/ \E k \in Keys : \E a \in SigAlgs : ReSign(k, a)
  \/ \E e \in Edits : EditMember(e)
  \/ \E e \in SectionEdits : EditSection(e)
  \/ \E sig \in issued \cup {NoSig, JunkSig, EmptySig} : EditSignature(sig)
  \/ Tick
  \/ \E c \in Configs : Begin(c)
  \/ \E v \in Readings : Pass(v) \/ Fail(v)

Spec == Init /\ [][Next]_vars

-----------------------------------------------------------------------------
(* Properties *)

TypeOK ==
  /\ bundle = None \/ bundle.signature \in issued \cup {NoSig, JunkSig, EmptySig}
  /\ \A s \in issued : s.key \in Keys /\ s.alg \in AlgsOf[s.key]
  /\ origin \in SealOptions \cup {None}
  /\ edits \in 0 .. MaxEdits
  /\ clock \in Times
  /\ stage \in 0 .. Done
  /\ cfg \in Configs \cup {None}
  /\ started \in Times /\ since \in Times /\ started <= since /\ since <= clock
  /\ value \in {"true", "false", "error", "none"}
  /\ outcome \in Outcomes
  /\ (outcome # "pending") <=> (stage = Done)

(* A bundle verified with a public key is, to the last member, a body its   *)
(* owner signed: no sequence of edits, re-signings and pasted signatures    *)
(* gets another one past the pipeline.  Without a key too, what an attempt  *)
(* to sign again leaves behind when it fails is never verified.             *)
VerifiedIsIssued ==
  outcome = "verified" =>
    /\ bundle.signature # NoSig
    /\ cfg.key # None => \E s \in issued : s.key = cfg.key /\ s.body = Body(bundle)

Authentic ==
  cfg.key # None => VerifySignature(bundle.sigAlg, cfg.key, Body(bundle), bundle.signature)

(* With a public key nothing of the document is acted upon before its       *)
(* signature has been found right: its boundary is not evaluated, and the   *)
(* outcome comes from its format, size and profile alone, never from its    *)
(* expiration, context or lineage.  With or without a key, the              *)
(* specification evaluated is the one the digest in the document is of.     *)
AuthenticFirst ==
  /\ value # "none" => Authentic /\ SpecMatches(bundle)
  /\ (stage = Done /\ ~Authentic) =>
       /\ outcome \in {"resource-exhausted", "malformed", "unknown-version", "policy-denied",
                       "missing-side-info", "out-of-bounds", "invalid-signature"}
       /\ outcome = "policy-denied" =>
            "policy-denied" \in {ExpectedProfileCheck(bundle, cfg), NestingCheck(bundle)}
       /\ outcome = "missing-side-info" => NestingCheck(bundle) = "missing-side-info"

(* Although the clock runs between the checks, and within the evaluation of *)
(* the boundary, the outcome is that of all the checks with one reading of  *)
(* the clock for the expiration and a value an evaluation during the run    *)
(* may have; where that value is always the one of a moment, both are those *)
(* of one and the same moment.  In particular a bundle that had expired     *)
(* when verify was started is never accepted.                               *)
VerdictIsAtomic ==
  stage = Done =>
    \E t \in started .. clock : \E v \in Values(bundle, cfg, started, clock) :
      /\ outcome = Verdict(bundle, cfg, v, t)
      /\ Momentary(bundle, cfg) => v \in Values(bundle, cfg, t, t)

(* What the profiles of verify_bundle demand of the options of seal.        *)
FitsProfile(o) ==
  CASE o.profile = "core" -> o.spec = NoSpec /\ o.parents = Missing /\ o.side = Missing
    [] o.profile = "sealed" -> o.spec # NoSpec /\ o.parents = Missing
    [] o.profile = "chained" -> o.parents # Missing
    [] o.profile = "full" -> TRUE
    [] OTHER -> FALSE

(* Verify options that go with a bundle sealed with options o: whichever     *)
(* moments of the run an evaluation of the boundary takes, it is true.       *)
Matching(c, o) ==
  /\ ~c.tooLarge /\ ~c.tooDeep
  /\ c.profile \in {Missing, o.profile}
  /\ c.key \in {None, o.key}
  /\ (o.spec # NoSpec /\ c.context # None) =>
       Evaluate[o.spec][c.context][started][clock] = {"true"}

(* The committed bytes are the digest of the context verify is given.       *)
DigestCommitted(c, o) ==
  c.context \in Contexts \ Uncanonical /\ o.commit = Digest(o.digestAlg, c.context)

Unexpired(o) ==
  CASE o.expiration.kind = Missing -> TRUE
    [] o.expiration.kind = "time" -> clock <= o.expiration.at
    [] OTHER -> FALSE

(* The bundle is as it was sealed, and nothing in its options or in those   *)
(* of verify speaks against it, but for the context.                        *)
Untouched ==
  /\ stage = Done /\ origin # None
  /\ FitsProfile(origin) /\ origin.side # "untyped"
  /\ Unexpired(origin)
  /\ Matching(cfg, origin)

(* Whatever seal accepts, for options that fit the profile, verifies: with  *)
(* the matching key or none, the committed context, and before it expires.  *)
(* Two programs that share only the file format agree on it.                *)
SealedVerifies ==
  (Untouched /\ (origin.commit = None \/ DigestCommitted(cfg, origin)))
    => outcome = "verified"

(* The conformance program commits to a context by the hexadecimal text of  *)
(* its digest (commands/conformance.rs:515-550) and expects it to verify.   *)
CommittedContextVerifies ==
  (/\ Untouched
   /\ cfg.context \in Contexts \ Uncanonical
   /\ origin.commit = HexText(Digest(origin.digestAlg, cfg.context)))
    => outcome = "verified"

(* Even without a key one edit does not get a foreign payload or boundary   *)
(* past the digests (two consistent edits do).                              *)
OneEditShows ==
  (outcome = "verified" /\ edits <= 1) =>
    /\ bundle.payload.text \in Texts =>
         (\E s \in issued : s.body.payload.text = bundle.payload.text)
    /\ bundle.boundary.spec \in Specs =>
         (\E s \in issued : s.body.boundary.spec = bundle.boundary.spec)

(* SPEC.md 11.10: a boundary that evaluates to false is out of bounds.      *)
OutOfBoundsRejected ==
  (outcome = "verified" /\ Evaluates(bundle, cfg)) => value = "true"
=============================================================================
