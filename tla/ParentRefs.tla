----------------------------- MODULE ParentRefs -----------------------------
(***************************************************************************)
(* What the lineage walks of the libraries read of a bundle: its id, its   *)
(* references to parents, the algorithm it names, the digest its own seal  *)
(* claims.  The digest of the sealed content (header, payload, meta and    *)
(* references) is ideal: a value names the bundle it is the digest of and  *)
(* the algorithm it was made with.                                         *)
(***************************************************************************)
EXTENDS Integers, Sequences, FiniteSets

CONSTANTS
  Bundles,     \* documents
  Uncanonical, \* those whose content has no canonical form, hence no digest
  Ids,         \* bundle ids
  NoId,        \* the id of a bundle that has none
  Junk,        \* a digest that is no document's
  Algs,        \* names of digest algorithms, "SHA-256" among them
  Unknown,     \* a name no library knows
  NoAlg,       \* a reference without digest_alg
  IdOf,        \* hdr.bundle_id
  AlgOf,       \* meta.digest_alg, the algorithm of the bundle's own seal
  RefsOf,      \* refs: a sequence of Refs
  Claimed,     \* the digest the bundle's seal claims: a value like that of a reference
  Age          \* when the document was made

(* parent_digest is the digest of a document, made with some algorithm;    *)
(* digest_alg says which, and need not be right.                           *)
Refs == [id : Ids, digest : Bundles \cup {Junk}, made : Algs,
         alg : Algs \cup {Unknown, NoAlg}, trusted : BOOLEAN]

Value(digest, made) == [digest |-> digest, made |-> made]

(* The digest covers the references, so a bundle can only name the digest  *)
(* of documents made before it.                                            *)
ASSUME ParentRefsAssumption ==
  /\ IsFiniteSet(Ids)
  /\ NoId \notin Ids /\ Junk \notin Bundles /\ Uncanonical \subseteq Bundles
  /\ "SHA-256" \in Algs /\ Unknown \notin Algs /\ NoAlg \notin Algs
  /\ IdOf \in [Bundles -> Ids \cup {NoId}]
  /\ AlgOf \in [Bundles -> Algs \cup {Unknown}]
  /\ RefsOf \in [Bundles -> Seq(Refs)]
  /\ Claimed \in [Bundles -> [digest : Bundles \cup {Junk}, made : Algs]]
  /\ Age \in [Bundles -> Nat]
  /\ \A b \in Bundles : \A i \in DOMAIN RefsOf[b] :
       LET d == RefsOf[b][i].digest
       IN  d # Junk => Age[d] < Age[b] /\ d \notin Uncanonical

(* "content": the reference has the digest of the parent; "claim": it has   *)
(* the one in the parent's seal.                                            *)
Answers(rule, ref, p) ==
  IF rule = "content" THEN p = ref.digest ELSE Claimed[p] = Value(ref.digest, ref.made)
=============================================================================
