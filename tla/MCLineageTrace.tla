--------------------------- MODULE MCLineageTrace ---------------------------
(* Instances of LineageTrace for TLC. *)
EXTENDS LineageTrace, TLC

CONSTANTS na, nb, nc, ja, jb, jc

Absent == [kind |-> "absent", refs |-> <<>>]
Other == [kind |-> "other", refs |-> <<>>]
Refs(s) == [kind |-> "array", refs |-> s]

MCNames == {na, nb, nc}
MCPaths == {na, nb, nc, ja, jb, jc}
MCJsonOf == (na :> ja) @@ (nb :> jb) @@ (nc :> jc)

(* Honest naming: file n holds bundles with id n; two parents, cycles of     *)
(* every length, both kinds of root and both kinds of malformed "parents".   *)
Honest(n) ==
  {[id |-> n, parents |-> Refs(<<m>>)] : m \in MCNames}
    \cup (IF n = na THEN {[id |-> n, parents |-> Other], [id |-> n, parents |-> Absent]} ELSE {})
    \cup (IF n = nb THEN {[id |-> n, parents |-> Refs(<<>>)]} ELSE {})
    \cup (IF n = nc THEN {[id |-> n, parents |-> Refs(<<nb, na>>)],
                         [id |-> n, parents |-> Refs(<<NotAString>>)]} ELSE {})

HonestBundles == Honest(na) \cup Honest(nb) \cup Honest(nc)
HonestStorable ==
  (na :> Honest(na)) @@ (nb :> Honest(nb)) @@ (nc :> Honest(nc))
    @@ (ja :> {x \in Honest(na) : IsRoot(x)}) @@ (jb :> {}) @@ (jc :> {})

(* Files that hold bundles with another id or none, and the reference       *)
(* "b.json" beside "b": one file under two names.                           *)
MixedNames == {na, nb, jb}
MixedPaths == {na, nb, ja, jb, jc}
MixedJsonOf == (na :> ja) @@ (nb :> jb) @@ (jb :> jc)
MixedBundles ==
  {[id |-> n, parents |-> p] : n \in {na, nb, NoId}, p \in {Absent, Refs(<<na>>), Refs(<<jb>>)}}
    \cup {[id |-> na, parents |-> Refs(<<nb>>)]}
MixedStorable ==
  (na :> {x \in MixedBundles : x.id # na}) @@ (nb :> {x \in MixedBundles : IsRoot(x)})
    @@ (jb :> {x \in MixedBundles : x.id # nb}) @@ (ja :> {}) @@ (jc :> {})

(* Bundles as seal_bundle makes them: it never writes an "id". *)
SealedBundles ==
  {[id |-> NoId, parents |-> p] : p \in {Absent} \cup {Refs(<<m>>) : m \in MCNames}}
SealedStorable ==
  [p \in MCPaths |-> IF p \in MCNames THEN SealedBundles ELSE {}]
=============================================================================
