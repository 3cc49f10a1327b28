---------------------------- MODULE LineageWalks ----------------------------
(***************************************************************************)
(* The recursive lineage verification of four libraries, side by side:     *)
(*   "ts"  core/src/lineage.ts            "py"  python/proofbundle         *)
(*   "go"  go/lineage.go                  "rc"  the TypeScript release     *)
(*                                              candidate of 2026-05-16    *)
(* Each is a depth-first walk over all parents; the call stack is the      *)
(* variable "stack".  They differ in what they compare, what they count    *)
(* and what they remember.  Only the store of "ts" can change under the    *)
(* walk: it awaits a fetch for every parent, the others are given a map.   *)
(***************************************************************************)
EXTENDS ParentRefs

CONSTANTS
  Walkers,    \* the libraries that are run
  Filings,    \* Filings[w]: the stores w may be given, [Ids -> SUBSET Bundles]
  MaxDepth,   \* the depth budget asked for (ts and rc 16, py 256, go 0)
  MaxWrites   \* bound of the model: changes of the store during a walk

Single(f) == \A n \in Ids : \A p, q \in f[n] : p = q

(* The map of py has a bundle for every pair of id and digest, the others   *)
(* at most one for an id.                                                   *)
ASSUME WalksAssumption ==
  /\ Walkers \subseteq {"ts", "py", "go", "rc"}
  /\ \A w \in Walkers : Filings[w] \subseteq [Ids -> SUBSET Bundles]
  /\ \A w \in Walkers \ {"py"} : \A f \in Filings[w] : Single(f)
  /\ MaxDepth \in Nat /\ MaxWrites \in Nat

VARIABLES
  walker,    \* which library is running
  root,      \* the bundle whose lineage it verifies
  store,     \* what a parent id resolves to
  writes,    \* how often the store changed
  stack,     \* the active calls: [at, next, seen]
  shared,    \* the ids that are remembered across branches (go, rc)
  found,     \* history: the root and every parent the walk went into
  verdict    \* "none" until the walk returns

vars == <<walker, root, store, writes, stack, shared, found, verdict>>

Init ==
  /\ walker \in Walkers
  /\ root \in Bundles
  /\ store \in Filings[walker]
  /\ writes = 0
  /\ stack = <<>> /\ shared = {}
  /\ found = {root}
  /\ verdict = "none"

Top == stack[Len(stack)]
Ref == RefsOf[Top.at][Top.next]
HasRef == stack # <<>> /\ verdict = "none" /\ Top.next <= Len(RefsOf[Top.at])

(* No budget is a budget of 100 to go. *)
Budget == IF walker = "go" /\ MaxDepth = 0 THEN 100 ELSE MaxDepth

(* "visited" of ts and py, which every branch has a copy of, "visiting" of rc *)
OnPath == IF stack = <<>> THEN {} ELSE Top.seen

-----------------------------------------------------------------------------
(* What a call does with the bundle it is given, before its references.     *)

(* faulty: the budget allows one more *)
CopyingEntryOneMore(p) ==
  IF RefsOf[p] = <<>> THEN "skip"
  ELSE IF Cardinality(OnPath) > Budget THEN "depth"
  ELSE IF IdOf[p] \in OnPath THEN "cycle"
  ELSE "enter"

(* ts and py: a bundle without references is fine before anything is asked; *)
(* the budget is the number of different ids on the path.                   *)
CopyingEntry(p) ==
  IF RefsOf[p] = <<>> THEN "skip"
  ELSE IF Cardinality(OnPath) >= Budget THEN "depth"
  ELSE IF IdOf[p] \in OnPath THEN "cycle"
  ELSE "enter"

RcEntryNoIds(p) ==         \* faulty: bundles without an id are let in
  IF Len(stack) > Budget THEN "depth"
  ELSE IF IdOf[p] \in OnPath THEN "cycle"
  ELSE IF IdOf[p] \in shared THEN "skip"
  ELSE "enter"

(* rc: a bundle that was verified before is not verified again. *)
RcEntry(p) ==
  IF Len(stack) > Budget THEN "depth"
  ELSE IF IdOf[p] = NoId THEN "no-id"
  ELSE IF IdOf[p] \in OnPath THEN "cycle"
  ELSE IF IdOf[p] \in shared THEN "skip"
  ELSE "enter"

(* py makes a map of the parents before the walk, under the digests its own *)
(* algorithm gives them: one parent that has none is an exception.          *)
Parents == UNION {store[n] : n \in Ids}

PyEntry ==
  IF RefsOf[root] = <<>> THEN "skip"
  ELSE IF Parents = {} THEN "missing"
  ELSE IF AlgOf[root] = Unknown \/ Parents \cap Uncanonical # {} THEN "error"
  ELSE CopyingEntry(root)

RootEntry ==
  IF walker = "go" THEN IF RefsOf[root] = <<>> THEN "skip" ELSE "enter"
  ELSE IF walker = "rc" THEN RcEntry(root)
  ELSE IF walker = "py" THEN PyEntry
  ELSE CopyingEntry(root)

(* What the resolver returns: a set of at most one bundle. *)
Lookup(ref) ==
  IF walker = "py"
  THEN {p \in store[ref.id] : p = ref.digest /\ IdOf[p] = ref.id /\ AlgOf[root] = ref.made}
  ELSE store[ref.id]

(* The algorithm the digest of a parent is computed with: what the          *)
(* reference says; if it says nothing, py and go have each their own idea.  *)
UsedByDefault(ref, p) ==   \* faulty: go takes the default of py
  IF ref.alg # NoAlg THEN ref.alg
  ELSE IF walker \in {"py", "go"} THEN "SHA-256"
  ELSE NoAlg

Used(ref, p) ==
  IF ref.alg # NoAlg THEN ref.alg
  ELSE IF walker = "py" THEN "SHA-256"
  ELSE IF walker = "go" THEN AlgOf[p]
  ELSE NoAlg

(* rc computes no digest of a parent. *)
Digestible(ref, p) ==
  walker = "rc" \/ (Used(ref, p) \in Algs /\ p \notin Uncanonical)

Rule == IF walker = "rc" THEN "claim" ELSE "content"

Matches(ref, p) ==
  Answers(Rule, ref, p) /\ (walker = "rc" \/ Used(ref, p) = ref.made)

(* What happens with the parent that was found. *)
ParentVerdict(ref, p) ==
  IF ~Digestible(ref, p) THEN "error"
  ELSE IF ~Matches(ref, p) THEN "mismatch"
  ELSE IF walker = "ts" /\ ~ref.trusted THEN "untrusted"
  ELSE IF walker \in {"ts", "py"} THEN CopyingEntry(p)
  ELSE IF walker = "rc" THEN RcEntry(p)
  ELSE "enter"

(* go tests budget and cycle on the reference, before it looks for a parent, *)
(* and one map of references serves all branches.                           *)
BeforeLookup(ref) ==
  IF walker # "go" THEN "pass"
  ELSE IF Len(stack) > Budget THEN "depth"
  ELSE IF ref.id \in shared THEN "cycle"
  ELSE "pass"

-----------------------------------------------------------------------------
Return(v) ==
  /\ verdict' = v
  /\ UNCHANGED <<walker, root, store, writes, stack, shared, found>>

Enter(p) ==
  /\ stack' = Append(stack, [at |-> p, next |-> 1,
                             seen |-> OnPath \cup ({IdOf[p]} \ {NoId})])
  /\ shared' = IF walker = "go" /\ stack # <<>> THEN shared \cup {Ref.id} ELSE shared
  /\ found' = found \cup {p}
  /\ UNCHANGED <<walker, root, store, writes, verdict>>

(* The call with the bundle itself. *)
Begin ==
  /\ stack = <<>> /\ verdict = "none"
  /\ \/ RootEntry = "skip" /\ Return("valid")
     \/ RootEntry = "enter" /\ Enter(root)
     \/ RootEntry \notin {"skip", "enter"} /\ Return(RootEntry)

RefuseReference ==
  /\ HasRef
  /\ BeforeLookup(Ref) # "pass"
  /\ Return(BeforeLookup(Ref))

ParentMissing ==
  /\ HasRef
  /\ BeforeLookup(Ref) = "pass"
  /\ Lookup(Ref) = {}
  /\ Return("missing")

RefuseParent ==
  /\ HasRef
  /\ BeforeLookup(Ref) = "pass"
  /\ \E p \in Lookup(Ref) :
       /\ ParentVerdict(Ref, p) \notin {"skip", "enter"}
       /\ Return(ParentVerdict(Ref, p))

(* The call for the parent returns at once. *)
SkipParent ==
  /\ HasRef
  /\ BeforeLookup(Ref) = "pass"
  /\ \E p \in Lookup(Ref) : ParentVerdict(Ref, p) = "skip"
  /\ stack' = [stack EXCEPT ![Len(stack)].next = @ + 1]
  /\ UNCHANGED <<walker, root, store, writes, shared, found, verdict>>

EnterParent ==
  /\ HasRef
  /\ BeforeLookup(Ref) = "pass"
  /\ \E p \in Lookup(Ref) : ParentVerdict(Ref, p) = "enter" /\ Enter(p)

Caller == SubSeq(stack, 1, Len(stack) - 1)

(* faulty: the caller looks at the same reference again *)
LeaveAndRepeat ==
  /\ stack # <<>> /\ verdict = "none" /\ Top.next > Len(RefsOf[Top.at])
  /\ shared' = IF walker = "rc" THEN shared \cup {IdOf[Top.at]} ELSE shared
  /\ IF Len(stack) = 1
     THEN verdict' = "valid" /\ UNCHANGED stack
     ELSE stack' = Caller /\ UNCHANGED verdict
  /\ UNCHANGED <<walker, root, store, writes, found>>

(* faulty: the answer of the first parent is the answer *)
LeaveAfterFirst ==
  /\ stack # <<>> /\ verdict = "none" /\ Top.next > Len(RefsOf[Top.at])
  /\ verdict' = "valid"
  /\ UNCHANGED <<walker, root, store, writes, stack, shared, found>>

(* faulty: the ids of a finished branch stay in the set the next one gets *)
LeaveSharing ==
  /\ stack # <<>> /\ verdict = "none" /\ Top.next > Len(RefsOf[Top.at])
  /\ shared' = IF walker = "rc" THEN shared \cup {IdOf[Top.at]} ELSE shared
  /\ IF Len(stack) = 1
     THEN verdict' = "valid" /\ UNCHANGED stack
     ELSE /\ stack' = [Caller EXCEPT ![Len(Caller)].next = @ + 1,
                                     ![Len(Caller)].seen = @ \cup Top.seen]
          /\ UNCHANGED verdict
  /\ UNCHANGED <<walker, root, store, writes, found>>

(* All references of a bundle have been followed; its call returns.         *)
Leave ==
  /\ stack # <<>> /\ verdict = "none" /\ Top.next > Len(RefsOf[Top.at])
  /\ shared' = IF walker = "rc" THEN shared \cup {IdOf[Top.at]} ELSE shared
  /\ IF Len(stack) = 1
     THEN verdict' = "valid" /\ UNCHANGED stack
     ELSE stack' = [Caller EXCEPT ![Len(Caller)].next = @ + 1] /\ UNCHANGED verdict
  /\ UNCHANGED <<walker, root, store, writes, found>>

Walk == \/ Begin
        \/ RefuseReference \/ ParentMissing \/ RefuseParent
        \/ SkipParent \/ EnterParent
        \/ Leave

(* Another program changes what one id resolves to, between two fetches.    *)
Put ==
  /\ walker = "ts" /\ verdict = "none"
  /\ writes < MaxWrites
  /\ writes' = writes + 1
  /\ \E n \in Ids : \E f \in Filings[walker] :
       /\ f # store /\ f = [store EXCEPT ![n] = f[n]]
       /\ store' = f
  /\ UNCHANGED <<walker, root, stack, shared, found, verdict>>

Next == Walk \/ Put

Spec == Init /\ [][Next]_vars

(* One sequential walk; every fetch is answered. *)
FairSpec == Spec /\ WF_vars(Walk)

-----------------------------------------------------------------------------
(* Properties *)

Verdicts == {"none", "valid", "depth", "cycle", "no-id", "missing", "error",
             "mismatch", "untrusted"}

TypeOK ==
  /\ walker \in Walkers /\ root \in Bundles
  /\ store \in [Ids -> SUBSET Bundles]
  /\ writes \in 0 .. MaxWrites
  /\ stack \in Seq([at : Bundles, next : Nat \ {0}, seen : SUBSET Ids])
  /\ \A k \in 1 .. Len(stack) : stack[k].next <= Len(RefsOf[stack[k].at]) + 1
  /\ shared \in SUBSET Ids
  /\ found \in SUBSET Bundles
  /\ verdict \in Verdicts

(* The walk implements Ancestry: it goes only into ancestors, and when it    *)
(* says "valid" every reference of every bundle it went into is answered by  *)
(* a bundle it settled, although branches are cut short, bundles are skipped *)
(* and the store changes between two fetches.                               *)
Promise == INSTANCE Ancestry WITH rule <- Rule, checked <- found
ImplementsAncestry == Promise!Spec

(* The budget bounds the recursion: in go and rc the active calls, in ts and *)
(* py those for bundles with an id; those without one are not counted.       *)
DepthBudget ==
  LET counted == {k \in 1 .. Len(stack) : walker \in {"go", "rc"} \/ IdOf[stack[k].at] # NoId}
  IN  Cardinality(counted) <= IF walker \in {"go", "rc"} THEN Budget + 1 ELSE Budget

(* All ancestors named by digest.                                           *)
Above[b \in Bundles] ==
  UNION {LET d == RefsOf[b][i].digest IN IF d = Junk THEN {} ELSE {d} \cup Above[d] :
           i \in DOMAIN RefsOf[b]}

Family == {root} \cup Above[root]

(* Length of the longest path of references.                                *)
Height[b \in Bundles] ==
  LET below == {0} \cup {LET d == RefsOf[b][i].digest IN IF d = Junk THEN 1 ELSE 1 + Height[d] :
                          i \in DOMAIN RefsOf[b]}
  IN  CHOOSE h \in below : \A k \in below : k <= h

(* Every ancestor is in the store under the id it is referred to by.        *)
Resolves(ref) == ref.digest \in store[ref.id]
AllResolve == \A b \in Family : \A i \in DOMAIN RefsOf[b] : Resolves(RefsOf[b][i])
AllTrusted == \A b \in Family : \A i \in DOMAIN RefsOf[b] : RefsOf[b][i].trusted

(* The digest a reference gives was made with the algorithm the library     *)
(* expects: the one the reference names in ts, py and go, the parent's own  *)
(* in rc, in go where the reference names none; in py moreover the          *)
(* algorithm of the bundle that is verified.                                *)
Suits(ref) ==
  /\ walker = "ts" => ref.made = ref.alg
  /\ walker = "py" =>
       /\ ref.made = AlgOf[root]
       /\ ref.made = ref.alg \/ (ref.alg = NoAlg /\ ref.made = "SHA-256")
  /\ walker = "go" => ref.made = ref.alg \/ (ref.alg = NoAlg /\ ref.made = AlgOf[ref.digest])
  /\ walker = "rc" => ref.made = AlgOf[ref.digest]
AllSuit == \A b \in Family : \A i \in DOMAIN RefsOf[b] : Suits(RefsOf[b][i])

(* One algorithm throughout: then every digest suits every library.         *)
OneAlgorithm ==
  \A b \in Family :
    /\ AlgOf[b] = AlgOf[root]
    /\ \A i \in DOMAIN RefsOf[b] :
         RefsOf[b][i].made = AlgOf[root] /\ RefsOf[b][i].alg = AlgOf[root]

(* A store every library can be given: bundles that have a digest, under    *)
(* their own ids, with seals that claim it; ids that no descendant has.     *)
Honest ==
  /\ \A n \in Ids : \A p \in store[n] :
       IdOf[p] = n /\ p \notin Uncanonical /\ Claimed[p] = Value(p, AlgOf[p])
  /\ \A b \in Family : IdOf[b] # NoId /\ \A a \in Above[b] : IdOf[a] # IdOf[b]

(* No ancestor is reached along two references.                             *)
Unshared ==
  \A b, c \in Family : \A i \in DOMAIN RefsOf[b] : \A j \in DOMAIN RefsOf[c] :
    RefsOf[b][i].id = RefsOf[c][j].id => b = c /\ i = j

(* On such a store that nobody writes to, the four libraries agree: the      *)
(* lineage is valid exactly when every ancestor is there with the digest it  *)
(* is named by and no path is longer than the budget.  ts moreover asks for  *)
(* trusted keys, go for a tree, and rc may overlook a long path to a bundle  *)
(* it has verified along a short one.  Where algorithms are mixed, each asks *)
(* for another one; where one is used throughout, that is no difference.     *)
AgreedVerdict ==
  (verdict # "none" /\ writes = 0 /\ Honest) =>
    /\ verdict = "valid" =>
         /\ AllResolve /\ AllSuit
         /\ walker = "ts" => AllTrusted
         /\ walker # "rc" => Height[root] <= Budget
    /\ (/\ AllResolve /\ (AllSuit \/ OneAlgorithm) /\ Height[root] <= Budget
        /\ walker = "ts" => AllTrusted
        /\ walker = "go" => Unshared) => verdict = "valid"

RepeatedId ==
  \E b \in Family : IdOf[b] # NoId /\ \E a \in Above[b] : IdOf[a] = IdOf[b]

(* "cycle" is said only when an id comes back along one line of descent:     *)
(* what one branch visited is no cycle for another.                          *)
CycleIsReal ==
  (verdict = "cycle" /\ (walker \in {"ts", "py"} \/ (walker = "rc" /\ Honest))) => RepeatedId

(* The walk returns, whatever the store holds and however it changes: along  *)
(* digests that are computed there is no way back, along claimed ones the    *)
(* ids and the budget end it.                                               *)
WalkReturns == <>(verdict # "none")

(* SPEC.md 16.3, of go: what is reported as a cycle in the lineage chain is  *)
(* one.                                                                      *)
GoCycleIsReal == (verdict = "cycle" /\ walker = "go") => RepeatedId
=============================================================================
