---------------------------- MODULE LineageData ----------------------------
(***************************************************************************)
(* The part of a ProofBundle document that the lineage code of the Rust    *)
(* command line looks at: the optional string "id" and the value of        *)
(* "parents".  Everything else of a bundle is irrelevant to a trace.       *)
(***************************************************************************)
EXTENDS Naturals, Sequences

CONSTANTS
  Names,        \* strings used as bundle ids and as parent references
  NoId,         \* stands for a bundle whose "id" is missing or not a string
  NotAString,   \* an entry of "parents" that is not a JSON string
  Bundles       \* the bundle documents that exist

(* What get("parents") can be: absent, something that is no array, or an   *)
(* array of references.                                                    *)
Parents == [kind: {"absent", "other", "array"}, refs: Seq(Names \cup {NotAString})]

ASSUME BundlesAssumption ==
  /\ NoId \notin Names
  /\ NotAString \notin Names \cup {NoId}
  /\ Bundles \subseteq [id: Names \cup {NoId}, parents: Parents]

HasId(b) == b.id \in Names

(* A root: no "parents" member, or an empty array. *)
IsRoot(b) == \/ b.parents.kind = "absent"
             \/ b.parents.kind = "array" /\ b.parents.refs = <<>>

(* Only the first parent of a bundle is ever followed. *)
HasFirst(b) == b.parents.kind = "array" /\ b.parents.refs # <<>>
FirstParent(b) == Head(b.parents.refs)

(* validate_lineage: every bundle names the id of the next one among its   *)
(* parents (all of them, not only the first).                              *)
References(child, parent) ==
  /\ child.parents.kind = "array"
  /\ HasId(parent)
  /\ \E i \in DOMAIN child.parents.refs : child.parents.refs[i] = parent.id

ValidateLineage(chain) ==
  /\ chain # <<>>
  /\ \A i \in 1 .. Len(chain) - 1 : References(chain[i], chain[i + 1])
=============================================================================
