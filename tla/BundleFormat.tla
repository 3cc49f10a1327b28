---------------------------- MODULE BundleFormat ----------------------------
(***************************************************************************)
(* The bundle document of the Rust command line, as verify_bundle tells    *)
(* its contents apart, and the primitives both seal_bundle and             *)
(* verify_bundle use.  Digests and signatures are ideal: a digest is the   *)
(* pair of its algorithm and its input, a signature names the key, the     *)
(* algorithm and the signed body.                                          *)
(***************************************************************************)
EXTENDS Naturals

CONSTANTS
  Texts,         \* canonical JSON texts of payloads
  NoText,        \* a payload without one: not encodable, or not in the bundle
  Specs,         \* boundary specifications
  NoSpec,        \* a boundary section without "spec"
  Contexts,      \* context objects a caller may supply
  Uncanonical,   \* specifications and contexts encode_canonical refuses
  Times,         \* what the clock can show, and expiration times
  Evaluate,      \* Evaluate[s][c][t][u]: what boundary::evaluate may return
                 \* when it is called at t and returns at u
  Keys,          \* key pairs
  SigAlgs,       \* the supported signature algorithms
  AlgsOf,        \* AlgsOf[k]: those a key pair can be used with
  DigestAlgs,    \* the supported digest algorithms, "sha256" among them
  NoDigest       \* a section without the string "digest"

(* A member that is absent.  A member of another JSON type than expected   *)
(* is "otherType", a string nobody defined is "unknown".                   *)
Missing == "missing"

(* Every atom about the time reads the clock for itself, so that a call is *)
(* known by the moments it lies between (BoundaryEval has the walk).  It   *)
(* returns something, and all it could have returned in less time.         *)
ASSUME FormatAssumption ==
  /\ Times \subseteq Nat /\ 0 \in Times
  /\ \A t \in Times : \A u \in Times : t .. u \subseteq Times
  /\ Evaluate \in [Specs -> [Contexts -> [Times -> [Times -> SUBSET {"true", "false", "error"}]]]]
  /\ \A s \in Specs : \A c \in Contexts : \A t \in Times : \A u \in Times :
       t <= u => /\ Evaluate[s][c][t][u] # {}
                 /\ \A v \in t .. u : \A w \in v .. u :
                      Evaluate[s][c][v][w] \subseteq Evaluate[s][c][t][u]
  /\ AlgsOf \in [Keys -> SUBSET SigAlgs]
  /\ "sha256" \in DigestAlgs
  /\ DigestAlgs \cap {Missing, "otherType"} = {} /\ Missing \notin SigAlgs
  /\ NoText \notin Texts /\ NoSpec \notin Specs

(* The "signature" member: absent, not hexadecimal, not a string (read as  *)
(* the empty signature), or the hexadecimal form of a signature.           *)
NoSig    == [kind |-> "none"]
JunkSig  == [kind |-> "junk"]
EmptySig == [kind |-> "empty"]
Sign(alg, key, body) == [kind |-> "signed", alg |-> alg, key |-> key, body |-> body]

CanSign(alg, key) == alg \in AlgsOf[key]

VerifySignature(alg, key, body, sig) ==
  CanSign(alg, key) /\ sig = Sign(alg, key, body)

Digest(alg, x) == <<alg, x>>

(* digest_hex knows the algorithm. *)
KnownDigest(alg) == alg \in DigestAlgs

(* "digest_algorithm" as verify_bundle reads it: "sha256" by default.      *)
Sha256Always(b) == "sha256"
DigestAlgOf(b) == IF b.digestAlg = "otherType" THEN "sha256" ELSE b.digestAlg

Body(b) == [b EXCEPT !.signature = NoSig]

(* A bundle has a canonical form unless its specification or one of its    *)
(* side attestations, any JSON value, has none.                            *)
HasCanonicalForm(b) ==
  /\ ~(b.boundary.kind = "object" /\ b.boundary.spec \in Uncanonical)
  /\ b.side # "uncanonical"

(* A section that is absent or no object has no members. *)
PayloadOf(kind)  == [kind |-> kind, text |-> NoText, digest |-> NoDigest]
BoundaryOf(kind) == [kind |-> kind, spec |-> NoSpec, digest |-> NoDigest]
=============================================================================
