--------------------------- MODULE MCLineageWalks ---------------------------
(* An instance of LineageWalks for TLC: three ids that are referred to, a   *)
(* fourth for a descendant of all; leaves, chains, diamonds, two documents  *)
(* under one id, ids that come back, bundles without ids, wrong digests,    *)
(* two digest algorithms, references that name none or a wrong one, and a   *)
(* document that has no digest.                                             *)
EXTENDS LineageWalks, TLC

Old == "SHA-256"
New == "SHA-512"

R(id, digest) == [id |-> id, digest |-> digest, made |-> Old, alg |-> Old, trusted |-> TRUE]
In(made, alg, ref) == [ref EXCEPT !.made = made, !.alg = alg]

Doc(id, age, refs) == [id |-> id, age |-> age, refs |-> refs, alg |-> Old]
With(alg, doc) == [doc EXCEPT !.alg = alg]

Documents ==
  ("a0" :> Doc("a", 0, <<>>)) @@
  ("a1" :> Doc("a", 0, <<>>)) @@
  ("a2" :> With(New, Doc("a", 0, <<>>))) @@
  ("b0" :> Doc("b", 1, <<R("a", "a0")>>)) @@
  ("b1" :> Doc("b", 1, <<R("a", "a1")>>)) @@
  ("c0" :> Doc("c", 2, <<R("a", "a0"), R("b", "b0")>>)) @@
  ("c1" :> Doc("c", 2, <<R("b", "b0"), R("b", "b0")>>)) @@
  ("c2" :> Doc("c", 2, <<R("b", "b0"), R("a", "a1")>>)) @@
  ("d0" :> Doc("d", 3, <<R("c", "c0")>>)) @@
  ("d1" :> Doc("d", 3, <<R("b", "b0"), R("c", "c0")>>)) @@
  ("r0" :> Doc("a", 2, <<R("b", "b0")>>)) @@
  ("r1" :> Doc("b", 3, <<R("a", "r0")>>)) @@
  ("n0" :> Doc("none", 2, <<R("b", "b0")>>)) @@
  ("n1" :> Doc("none", 3, <<R("a", "n0")>>)) @@
  ("x0" :> Doc("a", 0, <<R("b", "junk")>>)) @@
  ("x1" :> Doc("b", 0, <<R("a", "junk"), R("c", "junk")>>)) @@
  ("u0" :> Doc("c", 2, <<R("a", "a0"), [R("b", "b0") EXCEPT !.trusted = FALSE]>>)) @@
  (* a parent of another algorithm than the bundle's *)
  ("m0" :> With(New, Doc("c", 2, <<R("b", "b0")>>))) @@
  ("m1" :> With(New, Doc("c", 2, <<In(New, New, R("b", "b0"))>>))) @@
  ("m2" :> Doc("b", 1, <<In(New, NoAlg, R("a", "a2"))>>)) @@
  ("m3" :> With(New, Doc("d", 1, <<In(New, New, R("a", "a2"))>>))) @@
  ("m4" :> With(New, Doc("d", 1, <<In(New, NoAlg, R("a", "a2"))>>))) @@
  ("m5" :> Doc("d", 2, <<In(Old, NoAlg, R("b", "b0"))>>)) @@
  (* an algorithm that is wrong or unknown *)
  ("w0" :> Doc("d", 2, <<In(Old, New, R("b", "b0"))>>)) @@
  ("w1" :> Doc("d", 2, <<In(Old, Unknown, R("b", "b0"))>>)) @@
  ("w2" :> With(Unknown, Doc("d", 2, <<R("b", "b0")>>))) @@
  ("q0" :> Doc("a", 0, <<>>))

MCBundles == DOMAIN Documents
MCIds == {"a", "b", "c", "d"}
MCIdOf == [b \in MCBundles |-> Documents[b].id]
MCRefsOf == [b \in MCBundles |-> Documents[b].refs]
MCAlgOf == [b \in MCBundles |-> Documents[b].alg]
MCClaimed == [b \in MCBundles |->
  CASE b = "a1" -> Value("a0", Old)                    \* the claim of another
    [] b \in {"x0", "x1", "q0", "w2"} -> Value(Junk, Old)
    [] OTHER -> Value(b, Documents[b].alg)]
MCAge == [b \in MCBundles |-> Documents[b].age]

Stores(as, bs, cs) ==
  {("a" :> a) @@ ("b" :> b) @@ ("c" :> c) @@ ("d" :> {}) : a \in as, b \in bs, c \in cs}

(* ts may be given anything by its resolver; the map of py holds several     *)
(* bundles for one id; go files bundles under their ids; the record of rc    *)
(* has keys of its own.                                                      *)
MCFilings ==
  ("ts" :> Stores({{}, {"a0"}, {"a1"}, {"r0"}, {"n0"}, {"q0"}, {"a2"}},
                  {{}, {"b0"}, {"b1"}, {"m2"}}, {{}, {"c0"}, {"b0"}})) @@
  ("py" :> Stores(SUBSET {"a0", "a1", "r0"} \cup {{"a0", "q0"}, {"a2"}, {"a0", "a2"}},
                  SUBSET {"b0", "b1"}, SUBSET {"c0"})) @@
  ("go" :> Stores({{}, {"a0"}, {"a1"}, {"r0"}, {"q0"}, {"a2"}}, {{}, {"b0"}, {"b1"}, {"m2"}},
                  {{}, {"c0"}})) @@
  ("rc" :> Stores({{}, {"a0"}, {"a1"}, {"r0"}, {"x0"}, {"n0"}, {"q0"}, {"a2"}},
                  {{}, {"b0"}, {"x1"}, {"m2"}}, {{}, {"c0"}, {"a1"}, {"x0"}}))
=============================================================================
