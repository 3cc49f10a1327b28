---------------------------- MODULE LineageTrace ----------------------------
(***************************************************************************)
(* `proofbundle lineage trace`: resolve_lineage with the resolver of       *)
(* run_trace.  The trace follows first parents through a directory of      *)
(* files that other processes (sealing, copying, removing) may change      *)
(* while it runs; every file is read at most once per link, the plain path *)
(* first and the path with ".json" appended second.                        *)
(***************************************************************************)
EXTENDS LineageData

CONSTANTS
  Paths,      \* files of the parent directory; a reference is a path itself
  JsonOf,     \* JsonOf[n] is the path n ++ ".json"
  Storable,   \* Storable[p]: the bundles other processes may put in file p
  NoBundle,   \* a file that is missing or is not JSON
  MaxDepth,   \* the depth budget (100 in run_trace)
  MaxWrites   \* bound of the model: changes of the directory during a trace

ASSUME TraceAssumption ==
  /\ Names \subseteq Paths
  /\ JsonOf \in [Names -> Paths]
  /\ Storable \in [Paths -> SUBSET Bundles]
  /\ NoBundle \notin Bundles
  /\ MaxDepth \in Nat
  /\ MaxWrites \in Nat

VARIABLES
  files,     \* the directory: what each file holds
  writes,    \* how often it changed since the trace started
  pc,        \* where the trace is
  ref,       \* the parent reference being resolved
  chain,     \* LineageChain.chain
  visited,   \* LineageChain.visited
  result     \* how resolve_lineage returned

vars == <<files, writes, pc, ref, chain, visited, result>>
traceVars == <<pc, ref, chain, visited, result>>

Results == {"ok", "depth", "invalid", "cycle", "notfound", "unreadable"}

TypeOK ==
  /\ files \in [Paths -> Bundles \cup {NoBundle}]
  /\ writes \in 0 .. MaxWrites
  /\ pc \in {"start", "loop", "bare", "json", "done"}
  /\ ref \in Names \cup {NotAString}
  /\ chain \in Seq(Bundles)
  /\ visited \in SUBSET Names
  /\ result \in Results \cup {"none"}

IdOf(b) == {b.id} \ {NoId}

Init ==
  /\ files = [p \in Paths |-> NoBundle]
  /\ writes = 0
  /\ pc = "start"
  /\ ref = NotAString
  /\ chain = <<>>
  /\ visited = {}
  /\ result = "none"

Return(r) ==
  /\ pc' = "done"
  /\ result' = r
  /\ UNCHANGED <<files, writes, ref, chain, visited>>

(* run_trace reads the leaf, LineageChain::new starts the chain with it.   *)
ReadLeaf ==
  /\ pc = "start"
  /\ \/ Return("unreadable")
     \/ \E b \in Bundles :
          /\ chain' = <<b>>
          /\ visited' = IdOf(b)
          /\ pc' = "loop"
          /\ UNCHANGED <<files, writes, ref, result>>

Current == chain[Len(chain)]

(* The head of the loop: the checks on the last bundle, in their order. *)
BudgetOneMore == Len(chain) <= MaxDepth    \* faulty: one bundle too many
BudgetLeft == Len(chain) < MaxDepth

DepthExceeded == pc = "loop" /\ ~BudgetLeft /\ Return("depth")

ParentsNotArray ==
  /\ pc = "loop" /\ BudgetLeft
  /\ Current.parents.kind = "other"
  /\ Return("invalid")

(* faulty: a root is recognised before the budget is looked at *)
RootBeforeBudget == pc = "loop" /\ IsRoot(Current) /\ Return("ok")

ReachRoot == pc = "loop" /\ BudgetLeft /\ IsRoot(Current) /\ Return("ok")

ParentNotString ==
  /\ pc = "loop" /\ BudgetLeft
  /\ HasFirst(Current) /\ FirstParent(Current) \notin Names
  /\ Return("invalid")

ReferenceSeen ==
  /\ pc = "loop" /\ BudgetLeft
  /\ HasFirst(Current) /\ FirstParent(Current) \in visited
  /\ Return("cycle")

FollowParent ==
  /\ pc = "loop" /\ BudgetLeft
  /\ HasFirst(Current) /\ FirstParent(Current) \in Names \ visited
  /\ ref' = FirstParent(Current)
  /\ pc' = "bare"
  /\ UNCHANGED <<files, writes, chain, visited, result>>

(* faulty: only references are checked for cycles, not the ids found *)
LinkUnchecked(b) ==
  /\ chain' = Append(chain, b)
  /\ visited' = visited \cup IdOf(b)
  /\ pc' = "loop"
  /\ UNCHANGED <<files, writes, ref, result>>

(* faulty: a bundle without an id is entered into "visited" as well *)
LinkNoId(b) ==
  \/ b.id \in visited /\ Return("cycle")
  \/ /\ b.id \notin visited
     /\ chain' = Append(chain, b)
     /\ visited' = visited \cup {b.id}
     /\ pc' = "loop"
     /\ UNCHANGED <<files, writes, ref, result>>

(* faulty: the chain is kept from root to leaf *)
LinkInFront(b) ==
  \/ b.id \in visited /\ Return("cycle")
  \/ /\ b.id \notin visited
     /\ chain' = <<b>> \o chain
     /\ visited' = visited \cup IdOf(b)
     /\ pc' = "loop"
     /\ UNCHANGED <<files, writes, ref, result>>

(* What the loop does with the bundle the resolver returned. *)
Link(b) ==
  \/ b.id \in visited /\ Return("cycle")
  \/ /\ b.id \notin visited
     /\ chain' = Append(chain, b)
     /\ visited' = visited \cup IdOf(b)
     /\ pc' = "loop"
     /\ UNCHANGED <<files, writes, ref, result>>

(* The resolver: the plain path, then the path with ".json". *)
ReadBare ==
  /\ pc = "bare"
  /\ \/ files[ref] # NoBundle /\ Link(files[ref])
     \/ /\ files[ref] = NoBundle
        /\ pc' = "json"
        /\ UNCHANGED <<files, writes, ref, chain, visited, result>>

(* faulty: a parent that is not there is looked for again *)
ReadJsonRetry ==
  /\ pc = "json"
  /\ \/ files[JsonOf[ref]] # NoBundle /\ Link(files[JsonOf[ref]])
     \/ /\ files[JsonOf[ref]] = NoBundle
        /\ pc' = "bare"
        /\ UNCHANGED <<files, writes, ref, chain, visited, result>>

ReadJson ==
  /\ pc = "json"
  /\ \/ files[JsonOf[ref]] # NoBundle /\ Link(files[JsonOf[ref]])
     \/ files[JsonOf[ref]] = NoBundle /\ Return("notfound")

Trace == \/ ReadLeaf
         \/ DepthExceeded \/ ParentsNotArray \/ ReachRoot
         \/ ParentNotString \/ ReferenceSeen \/ FollowParent
         \/ ReadBare \/ ReadJson

(* Another process replaces or removes a file, or is half-way through       *)
(* writing it (then it is not JSON).  Any number of files are put in place  *)
(* before the trace starts, at most MaxWrites are changed while it runs.    *)
Put(p, c) ==
  /\ \/ pc = "start" /\ UNCHANGED writes
     \/ pc \in {"loop", "bare", "json"} /\ writes < MaxWrites /\ writes' = writes + 1
  /\ files' = [files EXCEPT ![p] = c]
  /\ UNCHANGED traceVars

Next == Trace \/ \E p \in Paths : \E c \in Storable[p] \cup {NoBundle} : Put(p, c)

Spec == Init /\ [][Next]_vars

(* The trace is one sequential program: it runs on as long as it can.      *)
FairSpec == Spec /\ WF_vars(Trace)

-----------------------------------------------------------------------------
(* Properties *)

(* The chain never holds one id twice and "visited" is exactly the ids on   *)
(* the chain, whatever other processes do to the directory: the cycle       *)
(* check of resolve_lineage looks at "visited" only, so an id missing from  *)
(* it would let a trace run round a cycle, an extra one would report a      *)
(* cycle that is not there.                                                 *)
IdsDistinct ==
  /\ visited = {chain[i].id : i \in 1 .. Len(chain)} \cap Names
  /\ \A i, j \in 1 .. Len(chain) :
       HasId(chain[i]) /\ chain[i].id = chain[j].id => i = j

(* The budget: the chain never gets longer than max_depth (a leaf alone is  *)
(* always kept), a chain that is returned is strictly shorter than it and   *)
(* ends in a root.                                                          *)
BudgetKept ==
  /\ Len(chain) <= 1 \/ Len(chain) <= MaxDepth
  /\ result = "ok" => Len(chain) < MaxDepth /\ IsRoot(Current)

(* Files named after the id of the bundle they hold, which is what the      *)
(* resolver of run_trace presumes.                                          *)
HonestNaming ==
  \A n \in Names : \A b \in Storable[n] \cup Storable[JsonOf[n]] : b.id = n

(* With honest naming the chain satisfies validate_lineage at every moment, *)
(* although the trace never calls it and files are replaced under it.       *)
HonestChainValidates ==
  HonestNaming => (chain # <<>> => ValidateLineage(chain))

(* The walk along first parents in a directory nobody writes to: the        *)
(* reference the loop is compared with.                                     *)
Resolved(n) == IF files[n] # NoBundle THEN files[n] ELSE files[JsonOf[n]]

Walk[k \in Nat] ==
  IF k = 0 THEN chain[1]
  ELSE LET b == Walk[k - 1] IN
       IF b # NoBundle /\ HasFirst(b) /\ FirstParent(b) \in Names
       THEN Resolved(FirstParent(b)) ELSE NoBundle

WalkIds(k) == {Walk[i].id : i \in 0 .. k}

SimplePath(k) ==
  /\ \A i \in 0 .. k : Walk[i] # NoBundle
  /\ \A i, j \in 0 .. k : HasId(Walk[i]) /\ Walk[i].id = Walk[j].id => i = j

(* In an honest directory that did not change, a trace succeeds exactly     *)
(* when the walk reaches a root within the budget, and reports a cycle      *)
(* exactly when the walk returns to a bundle within the budget: no order of *)
(* the checks in the loop makes one verdict hide another.                   *)
VerdictMatchesWalk ==
  pc = "done" /\ chain # <<>> /\ writes = 0 /\ HonestNaming =>
    /\ result = "ok" <=>
         \E k \in 0 .. MaxDepth : k + 1 < MaxDepth /\ SimplePath(k) /\ IsRoot(Walk[k])
    /\ result = "cycle" <=>
         \E k \in 0 .. MaxDepth :
           /\ k + 1 < MaxDepth /\ SimplePath(k)
           /\ HasFirst(Walk[k]) /\ FirstParent(Walk[k]) \in WalkIds(k)

(* The trace returns, however the directory looks and changes: a chain of   *)
(* bundles without ids is cut by the budget, a missing parent ends it.      *)
TraceReturns == <>(pc = "done")

(* How many steps a trace can still take: a turn of the loop, the plain     *)
(* path and the path with ".json" for every bundle the budget has room for, *)
(* one last turn, and the leaf before all that.                             *)
Room == IF Len(chain) < MaxDepth THEN MaxDepth - Len(chain) ELSE 0

StepsLeft ==
  CASE pc = "start" -> 3 * MaxDepth + 2
    [] pc = "loop"  -> 3 * Room + 1
    [] pc = "bare"  -> 3 * Room
    [] pc = "json"  -> 3 * Room - 1
    [] pc = "done"  -> 0

(* Every step of resolve_lineage uses up one of them, and nothing that      *)
(* happens to the directory meanwhile gives one back: the number of steps,  *)
(* file reads among them, is bounded by max_depth alone, although the loop  *)
(* has no counter and bundles without ids never fill "visited".             *)
TraceAdvances ==
  [][ \/ StepsLeft' \in 0 .. StepsLeft - 1
      \/ StepsLeft' = StepsLeft /\ UNCHANGED traceVars ]_vars

(* A trace is an AncestorPath. *)
Abstract == INSTANCE AncestorPath WITH path <- chain, verdict <- result, Limit <- MaxDepth
ImplementsAncestorPath == Abstract!Spec

(* "with cycle detection" (lineage.rs): a trace that followed one reference *)
(* twice, in a directory nobody wrote to, says so; it does not report the   *)
(* depth budget instead.                                                    *)
CycleIsReported ==
  result = "depth" /\ writes = 0 =>
    \A i, j \in 1 .. Len(chain) - 1 :
      FirstParent(chain[i]) = FirstParent(chain[j]) => i = j
=============================================================================
