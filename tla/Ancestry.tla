------------------------------ MODULE Ancestry ------------------------------
(***************************************************************************)
(* What a lineage verification promises: it looks at ancestors of the      *)
(* bundle and at nothing else, in any order, and finds the lineage valid   *)
(* only when no parent of a bundle it looked at is left open.              *)
(***************************************************************************)
EXTENDS ParentRefs

VARIABLES rule, root, checked, verdict

vars == <<rule, root, checked, verdict>>

Init ==
  /\ rule \in {"content", "claim"}
  /\ root \in Bundles
  /\ checked = {root}
  /\ verdict = "none"

(* A parent needs no look when it has no parents of its own; where digests *)
(* are only claims, a bundle is moreover taken for any other with its id.  *)
Settled(p) ==
  \/ RefsOf[p] = <<>>
  \/ p \in checked
  \/ rule = "claim" /\ \E q \in checked : IdOf[q] = IdOf[p]

Complete ==
  \A b \in checked : \A i \in DOMAIN RefsOf[b] :
    \E p \in Bundles : Answers(rule, RefsOf[b][i], p) /\ Settled(p)

Look ==
  /\ verdict = "none"
  /\ \E b \in checked : \E i \in DOMAIN RefsOf[b] : \E p \in Bundles :
       Answers(rule, RefsOf[b][i], p) /\ checked' = checked \cup {p}
  /\ UNCHANGED <<rule, root, verdict>>

Accept ==
  /\ verdict = "none"
  /\ Complete
  /\ verdict' = "valid"
  /\ UNCHANGED <<rule, root, checked>>

Refuse ==
  /\ verdict = "none"
  /\ verdict' \notin {"none", "valid"}
  /\ UNCHANGED <<rule, root, checked>>

Next == Look \/ Accept \/ Refuse

Spec == Init /\ [][Next]_vars
=============================================================================
