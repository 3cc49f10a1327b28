---------------------------- MODULE MCSealVerify ----------------------------
(* Instances of SealVerify for TLC. *)
EXTENDS SealVerify, TLC

CONSTANTS t1, t2, inC1, brokenAt1, either, float, c1, c2, k1, k2

(* inC1 holds in c1 only; brokenAt1 is any[not_expired(..), malformed]: it  *)
(* holds at time 0 and is an error once the first operand has expired;      *)
(* either is any[expired(..), not_expired(..), malformed] with the same     *)
(* timestamp: true at each moment, an error when it passes between the      *)
(* first operand and the second.                                            *)
Always(v) == [t \in Times |-> [u \in Times |-> {v}]]
MCEvaluate ==
  (inC1 :> ((c1 :> Always("true")) @@ (c2 :> Always("false"))))
    @@ (brokenAt1 :> [c \in {c1, c2} |-> [t \in Times |-> [u \in Times |->
          (IF t = 0 THEN {"true"} ELSE {}) \cup (IF u > 0 THEN {"error"} ELSE {})]]])
    @@ (either :> [c \in {c1, c2} |-> [t \in Times |-> [u \in Times |->
          {"true"} \cup (IF t = 0 /\ u > 0 THEN {"error"} ELSE {})]]])
    @@ (float :> [c \in {c1, c2} |-> Always("true")])
MCAlgsOf == (k1 :> {"ed25519"}) @@ (k2 :> {"rsa-pss-sha256", "rsa-pss-sha512"})

Never == [kind |-> Missing, at |-> 0]
At(t) == [kind |-> "time", at |-> t]

Plain == [profile |-> "core", text |-> t1, spec |-> NoSpec, commit |-> None,
          parents |-> Missing, side |-> Missing, expiration |-> Never,
          digestAlg |-> "sha256", sigAlg |-> "ed25519", key |-> k1]

MCSealOptions ==
  {Plain,
   [Plain EXCEPT !.commit = Digest("sha512", c1), !.digestAlg = "sha512", !.expiration = At(0)],
   [Plain EXCEPT !.commit = HexText(Digest("sha256", c1))],
   [Plain EXCEPT !.profile = "sealed", !.spec = inC1],
   [Plain EXCEPT !.profile = "sealed", !.spec = brokenAt1, !.side = "typed",
                 !.expiration = At(0)],
   [Plain EXCEPT !.profile = "sealed", !.spec = either],
   [Plain EXCEPT !.profile = "sealed"],
   [Plain EXCEPT !.profile = "chained", !.parents = "some", !.sigAlg = "rsa-pss-sha256",
                 !.key = k2],
   [Plain EXCEPT !.profile = "full", !.parents = "some", !.side = "typed", !.spec = inC1,
                 !.commit = Digest("sha256", c2), !.expiration = At(0)],
   [Plain EXCEPT !.profile = "full", !.side = "untyped"],
   \* refused by seal
   [Plain EXCEPT !.text = NoText],
   [Plain EXCEPT !.spec = float],
   [Plain EXCEPT !.profile = "full", !.side = "uncanonical"],
   [Plain EXCEPT !.digestAlg = "unknown"],
   [Plain EXCEPT !.sigAlg = "rsa-pss-sha256"]}

To(f, values) == {[field |-> f, value |-> v] : v \in values}
MCEdits ==
  To("version", {Missing, "unknown"})
    \cup To("profile", {"core", "full", Missing, "unknown"})
    \cup To("digestAlg", {"sha512", "unknown", "otherType", Missing})
    \cup To("sigAlg", {"rsa-pss-sha512", Missing})
    \cup To("payload", {PayloadOf(Missing), PayloadOf("otherType")})
    \cup To("boundary", {BoundaryOf(Missing), BoundaryOf("otherType")})
    \cup To("commitment", {[kind |-> Missing, hexOf |-> None], [kind |-> "otherType", hexOf |-> None]})
    \cup To("parents", {Missing, "otherType", "empty"})
    \cup To("side", {Missing, "hitlRequiredButAbsent", "uncanonical"})
    \cup To("expiration", {Never, At(1), [kind |-> "unknown", at |-> 0], [kind |-> "otherType", at |-> 0]})

Inside(f, m, values) == {[field |-> f, member |-> m, value |-> v] : v \in values}
MCSectionEdits ==
  Inside("payload", "text", {t2, NoText})
    \cup Inside("payload", "digest", {NoDigest, Digest("sha256", t2)})
    \cup Inside("boundary", "spec", {NoSpec, float, brokenAt1})
    \cup Inside("boundary", "digest", {Digest("sha256", brokenAt1)})

BaseConfig == [key |-> None, context |-> None, profile |-> Missing, parents |-> FALSE,
               tooLarge |-> FALSE, tooDeep |-> FALSE]
MCConfigs ==
  {[BaseConfig EXCEPT !.key = k, !.context = c] : k \in {None, k1, k2}, c \in {None, c1, c2}}
    \cup {[BaseConfig EXCEPT !.key = k1, !.profile = "core"],
          [BaseConfig EXCEPT !.key = k2, !.profile = "chained", !.parents = TRUE],
          [BaseConfig EXCEPT !.tooLarge = TRUE], [BaseConfig EXCEPT !.tooDeep = TRUE]}
=============================================================================
