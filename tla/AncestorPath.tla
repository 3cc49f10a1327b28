---------------------------- MODULE AncestorPath ----------------------------
(***************************************************************************)
(* What a lineage trace promises, without saying how parents are found: a  *)
(* path of bundles that starts at some leaf, grows by one bundle at a time *)
(* towards the root, never contains one id twice, stays below a limit, and *)
(* ends in one final verdict.  "ok" is only given to a path that reached a *)
(* root; "depth" only to a path that used up the limit.                    *)
(***************************************************************************)
EXTENDS LineageData

CONSTANT Limit          \* a natural number: the length at which a path is given up

VARIABLES
  path,     \* the bundles from the leaf to the last one found
  verdict   \* "none" while the path is growing

vars == <<path, verdict>>

Verdicts == {"ok", "depth", "invalid", "cycle", "notfound", "unreadable"}

Init == path = <<>> /\ verdict = "none"

Start ==
  /\ path = <<>> /\ verdict = "none"
  /\ \E b \in Bundles : path' = <<b>>
  /\ UNCHANGED verdict

(* A new bundle is one whose id is not that of any bundle on the path. *)
Fresh(b) == HasId(b) => \A i \in 1 .. Len(path) : path[i].id # b.id

Extend ==
  /\ path # <<>> /\ verdict = "none"
  /\ Len(path) < Limit
  /\ HasFirst(path[Len(path)])
  /\ \E b \in Bundles : Fresh(b) /\ path' = Append(path, b)
  /\ UNCHANGED verdict

Conclude ==
  /\ verdict = "none"
  /\ verdict' \in Verdicts
  /\ verdict' # "unreadable" => path # <<>>
  /\ verdict' = "ok" => Len(path) < Limit /\ IsRoot(path[Len(path)])
  /\ verdict' = "depth" => Len(path) >= Limit
  /\ verdict' \in {"cycle", "notfound"} => HasFirst(path[Len(path)])
  /\ UNCHANGED path

Next == Start \/ Extend \/ Conclude

Spec == Init /\ [][Next]_vars
=============================================================================
