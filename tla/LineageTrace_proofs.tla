------------------------ MODULE LineageTrace_proofs ------------------------
(***************************************************************************)
(* Proofs about the lineage trace of the Rust command line, for every set  *)
(* of names, files and bundles, every depth budget and any number of       *)
(* concurrent changes of the directory.                                    *)
(***************************************************************************)
EXTENDS LineageTrace, RecursionTheorems, TLAPS

(* Where the trace is determines what it has: no bundle before it starts,  *)
(* a leaf afterwards, and, while a parent is being resolved, a reference   *)
(* that is the first parent of the last bundle, with budget left for it.   *)
ControlInv ==
  /\ pc = "start" => chain = <<>> /\ visited = {}
  /\ pc \in {"loop", "bare", "json"} => chain # <<>>
  /\ pc # "done" => result = "none"
  /\ result # "none" /\ result # "unreadable" => chain # <<>>
  /\ pc \in {"bare", "json"} =>
       /\ BudgetLeft
       /\ HasFirst(Current) /\ ref = FirstParent(Current) /\ ref \in Names

(* A file only ever holds what may be put in it. *)
FilesInv == \A p \in Paths : files[p] \in Storable[p] \cup {NoBundle}

IInv == TypeOK /\ ControlInv /\ FilesInv /\ IdsDistinct /\ BudgetKept

LEMMA BundleType ==
  ASSUME NEW x \in Bundles
  PROVE  /\ x.id \in Names \cup {NoId}
         /\ x.parents \in Parents
         /\ IdOf(x) \in SUBSET Names
         /\ IdOf(x) = {x.id} \cap Names
BY BundlesAssumption DEF IdOf

(* What Link does to a well-formed trace whose budget is not used up.      *)
LEMMA LinkPreserves ==
  ASSUME IInv, pc \in {"bare", "json"}, NEW x \in Bundles, Link(x)
  PROVE  IInv'
<1>0. /\ x.id \in Names \cup {NoId} /\ IdOf(x) \in SUBSET Names
      /\ IdOf(x) = {x.id} \cap Names
  BY BundleType
<1> USE DEF IInv
<1>1. CASE x.id \in visited /\ Return("cycle")
  BY <1>1 DEF Return, TypeOK, Results, ControlInv, FilesInv, IdsDistinct, BudgetKept,
              Current, BudgetLeft
<1>2. CASE /\ x.id \notin visited
           /\ chain' = Append(chain, x)
           /\ visited' = visited \cup IdOf(x)
           /\ pc' = "loop"
           /\ UNCHANGED <<files, writes, ref, result>>
  <2>1. /\ Len(chain) \in Nat /\ chain \in Seq(Bundles) /\ chain' \in Seq(Bundles)
        /\ Len(chain') = Len(chain) + 1
        /\ \A i \in 1 .. Len(chain) : chain'[i] = chain[i]
        /\ chain'[Len(chain) + 1] = x
    BY <1>2 DEF TypeOK
  <2>2. TypeOK'
    BY <1>0, <1>2, <2>1 DEF TypeOK
  <2>3. ControlInv'
    BY <1>2, <2>1 DEF ControlInv
  <2>4. FilesInv'
    BY <1>2 DEF FilesInv
  <2>5. IdsDistinct'
    <3>1. visited' = {chain'[i].id : i \in 1 .. Len(chain')} \cap Names
      BY <1>0, <1>2, <2>1 DEF IdsDistinct
    <3>2. ASSUME NEW i \in 1 .. Len(chain'), NEW j \in 1 .. Len(chain'),
                 chain'[i].id \in Names, chain'[i].id = chain'[j].id
          PROVE  i = j
      <4>1. CASE i \in 1 .. Len(chain) /\ j \in 1 .. Len(chain)
        BY <3>2, <2>1, <4>1 DEF IdsDistinct, HasId
      <4>2. CASE i = Len(chain) + 1 /\ j \in 1 .. Len(chain)
        BY <3>2, <2>1, <4>2, <1>2 DEF IdsDistinct
      <4>3. CASE j = Len(chain) + 1 /\ i \in 1 .. Len(chain)
        BY <3>2, <2>1, <4>3, <1>2 DEF IdsDistinct
      <4>4. CASE i = Len(chain) + 1 /\ j = Len(chain) + 1
        BY <4>4
      <4>5. QED
        BY <2>1, <3>2, <4>1, <4>2, <4>3, <4>4
    <3>3. QED
      BY <3>1, <3>2 DEF IdsDistinct, HasId
  <2>6. BudgetKept'
    <3>1. result' = "none"
      BY <1>2 DEF ControlInv
    <3>2. Len(chain) < MaxDepth
      BY DEF ControlInv, BudgetLeft
    <3>3. QED
      BY <3>1, <3>2, <2>1, TraceAssumption DEF BudgetKept
  <2>7. QED
    BY <2>2, <2>3, <2>4, <2>5, <2>6
<1>3. QED
  BY <1>1, <1>2 DEF Link

(* A return leaves the chain alone: only the claims about the result move. *)
LEMMA ReturnPreserves ==
  ASSUME IInv, NEW r \in Results, Return(r),
         r # "unreadable" => chain # <<>>,
         r = "ok" => BudgetLeft /\ IsRoot(Current)
  PROVE  IInv'
BY DEF IInv, Return, TypeOK, Results, ControlInv, FilesInv, IdsDistinct, BudgetKept,
       Current, BudgetLeft

(* The initial state satisfies the invariant. *)
LEMMA InitIInv == Init => IInv
BY TraceAssumption, BundlesAssumption
   DEF Init, IInv, TypeOK, ControlInv, FilesInv, IdsDistinct, BudgetKept

LEMMA LeafPreserves == IInv /\ ReadLeaf => IInv'
<1> SUFFICES ASSUME IInv, ReadLeaf PROVE IInv'
  OBVIOUS
<1>1. CASE Return("unreadable")
  BY <1>1, ReturnPreserves DEF Results
<1>2. ASSUME NEW x \in Bundles, chain' = <<x>>, visited' = IdOf(x), pc' = "loop",
             UNCHANGED <<files, writes, ref, result>>
      PROVE  IInv'
  <2>1. IdOf(x) \in SUBSET Names /\ IdOf(x) = {x.id} \cap Names
    BY BundleType
  <2>2. Len(chain') = 1 /\ chain'[1] = x /\ chain' \in Seq(Bundles)
    BY <1>2
  <2>3. result' = "none"
    BY <1>2 DEF IInv, ControlInv, ReadLeaf
  <2>4. QED
    BY <1>2, <2>1, <2>2, <2>3
       DEF IInv, TypeOK, ControlInv, FilesInv, IdsDistinct, BudgetKept, HasId
<1>3. QED
  BY <1>1, <1>2 DEF ReadLeaf

LEMMA PutPreserves ==
  ASSUME IInv, NEW p \in Paths, NEW y \in Storable[p] \cup {NoBundle}, Put(p, y)
  PROVE  IInv'
<1>1. y \in Bundles \cup {NoBundle}
  BY TraceAssumption
<1>2. /\ files' \in [Paths -> Bundles \cup {NoBundle}]
      /\ writes' \in 0 .. MaxWrites
      /\ FilesInv'
  BY <1>1, TraceAssumption DEF IInv, TypeOK, FilesInv, Put
<1>3. UNCHANGED <<pc, ref, chain, visited, result>>
  BY DEF Put, traceVars
<1>4. QED
  BY <1>2, <1>3 DEF IInv, TypeOK, ControlInv, IdsDistinct, BudgetKept, Current, BudgetLeft

LEMMA NextIInv == IInv /\ [Next]_vars => IInv'
<1> SUFFICES ASSUME IInv, [Next]_vars PROVE IInv'
  OBVIOUS
<1>1. CASE ReadLeaf
  BY <1>1, LeafPreserves
<1>2. CASE DepthExceeded
  BY <1>2, ReturnPreserves DEF DepthExceeded, Results, IInv, ControlInv
<1>3. CASE ParentsNotArray
  BY <1>3, ReturnPreserves DEF ParentsNotArray, Results, IInv, ControlInv
<1>4. CASE ReachRoot
  BY <1>4, ReturnPreserves DEF ReachRoot, Results, IInv, ControlInv
<1>5. CASE ParentNotString
  BY <1>5, ReturnPreserves DEF ParentNotString, Results, IInv, ControlInv
<1>6. CASE ReferenceSeen
  BY <1>6, ReturnPreserves DEF ReferenceSeen, Results, IInv, ControlInv
<1>7. CASE FollowParent
  BY <1>7 DEF FollowParent, IInv, TypeOK, ControlInv, FilesInv, IdsDistinct, BudgetKept,
              Current, BudgetLeft
<1>8. CASE ReadBare
  <2>1. ref \in Paths /\ files[ref] \in Bundles \cup {NoBundle}
    BY <1>8, TraceAssumption DEF ReadBare, IInv, TypeOK, ControlInv
  <2>2. CASE files[ref] # NoBundle /\ Link(files[ref])
    BY <2>1, <2>2, <1>8, LinkPreserves DEF ReadBare
  <2>3. CASE pc' = "json" /\ UNCHANGED <<files, writes, ref, chain, visited, result>>
    BY <2>3, <1>8 DEF ReadBare, IInv, TypeOK, ControlInv, FilesInv, IdsDistinct,
                      BudgetKept, Current, BudgetLeft
  <2>4. QED
    BY <1>8, <2>2, <2>3 DEF ReadBare
<1>9. CASE ReadJson
  <2>1. JsonOf[ref] \in Paths /\ files[JsonOf[ref]] \in Bundles \cup {NoBundle}
    BY <1>9, TraceAssumption DEF ReadJson, IInv, TypeOK, ControlInv
  <2>2. CASE files[JsonOf[ref]] # NoBundle /\ Link(files[JsonOf[ref]])
    BY <2>1, <2>2, <1>9, LinkPreserves DEF ReadJson
  <2>3. CASE Return("notfound")
    BY <2>3, <1>9, ReturnPreserves DEF ReadJson, Results, IInv, ControlInv
  <2>4. QED
    BY <1>9, <2>2, <2>3 DEF ReadJson
<1>10. ASSUME NEW p \in Paths, NEW y \in Storable[p] \cup {NoBundle}, Put(p, y)
       PROVE  IInv'
  BY <1>10, PutPreserves
<1>11. CASE UNCHANGED vars
  BY <1>11 DEF vars, IInv, TypeOK, ControlInv, FilesInv, IdsDistinct, BudgetKept,
               Current, BudgetLeft
<1>12. QED
  BY <1>1, <1>2, <1>3, <1>4, <1>5, <1>6, <1>7, <1>8, <1>9, <1>10, <1>11 DEF Next, Trace

(* The inductive invariant holds throughout. *)
THEOREM Invariance == Spec => []IInv
BY InitIInv, NextIInv, PTL DEF Spec

(* Every state of a trace is well-typed. *)
THEOREM TypeCorrect == Spec => []TypeOK
BY Invariance, PTL DEF IInv

(* No id occurs twice on a chain and "visited" is exact, for any directory  *)
(* and any concurrent changes of it.                                        *)
THEOREM NoIdTwice == Spec => []IdsDistinct
BY Invariance, PTL DEF IInv

(* The depth budget bounds every chain. *)
THEOREM DepthBudget == Spec => []BudgetKept
BY Invariance, PTL DEF IInv

-----------------------------------------------------------------------------
(* The chain validates when files are named after the bundles they hold. *)

Linked == \A i \in 1 .. Len(chain) - 1 : References(chain[i], chain[i + 1])

(* The bundle that Link appends carries the id it was looked up by. *)
LEMMA LinkKeepsLinked ==
  ASSUME IInv, Linked, pc \in {"bare", "json"}, NEW x \in Bundles, x.id = ref, Link(x)
  PROVE  Linked'
<1>1. CASE Return("cycle")
  BY <1>1 DEF Return, Linked
<1>2. CASE chain' = Append(chain, x)
  <2>1. /\ Len(chain) \in Nat /\ chain # <<>> /\ Len(chain') = Len(chain) + 1
        /\ \A i \in 1 .. Len(chain) : chain'[i] = chain[i]
        /\ chain'[Len(chain) + 1] = x
    BY <1>2 DEF IInv, TypeOK, ControlInv
  <2>2. References(Current, x)
    <3>1. /\ Current \in Bundles /\ HasFirst(Current) /\ ref \in Names
          /\ ref = Head(Current.parents.refs)
      BY <2>1 DEF IInv, TypeOK, ControlInv, Current, FirstParent
    <3>2. Current.parents.refs \in Seq(Names \cup {NotAString})
      BY <3>1, BundleType DEF Parents
    <3>3. /\ 1 \in DOMAIN Current.parents.refs
          /\ Current.parents.refs[1] = Head(Current.parents.refs)
      BY <3>1, <3>2 DEF HasFirst
    <3>4. QED
      BY <3>1, <3>3 DEF References, HasFirst, HasId
  <2>3. ASSUME NEW i \in 1 .. Len(chain') - 1
        PROVE  References(chain'[i], chain'[i + 1])
    <3>1. CASE i < Len(chain)
      BY <2>1, <3>1 DEF Linked
    <3>2. CASE i = Len(chain)
      BY <2>1, <2>2, <3>2 DEF Current
    <3>3. QED
      BY <2>1, <3>1, <3>2
  <2>4. QED
    BY <2>3 DEF Linked
<1>3. QED
  BY <1>1, <1>2 DEF Link

LEMMA NextLinked == HonestNaming /\ IInv /\ Linked /\ [Next]_vars => Linked'
<1> SUFFICES ASSUME HonestNaming, IInv, Linked, [Next]_vars PROVE Linked'
  OBVIOUS
<1>1. CASE ReadLeaf
  <2>1. CASE Return("unreadable")
    BY <2>1 DEF Return, Linked
  <2>2. ASSUME NEW x \in Bundles, chain' = <<x>>
        PROVE  Linked'
    BY <2>2 DEF Linked
  <2>3. QED
    BY <1>1, <2>1, <2>2 DEF ReadLeaf
<1>2. CASE ReadBare
  <2>1. CASE files[ref] # NoBundle /\ Link(files[ref])
    <3>1. files[ref] \in Bundles /\ files[ref].id = ref
      BY <2>1, <1>2, TraceAssumption
         DEF HonestNaming, ReadBare, IInv, TypeOK, ControlInv, FilesInv
    <3>2. QED
      BY <3>1, <2>1, <1>2, LinkKeepsLinked DEF ReadBare
  <2>2. CASE UNCHANGED chain
    BY <2>2 DEF Linked
  <2>3. QED
    BY <1>2, <2>1, <2>2 DEF ReadBare
<1>3. CASE ReadJson
  <2>1. CASE files[JsonOf[ref]] # NoBundle /\ Link(files[JsonOf[ref]])
    <3>1. files[JsonOf[ref]] \in Bundles /\ files[JsonOf[ref]].id = ref
      BY <2>1, <1>3, TraceAssumption
         DEF HonestNaming, ReadJson, IInv, TypeOK, ControlInv, FilesInv
    <3>2. QED
      BY <3>1, <2>1, <1>3, LinkKeepsLinked DEF ReadJson
  <2>2. CASE UNCHANGED chain
    BY <2>2 DEF Linked
  <2>3. QED
    BY <1>3, <2>1, <2>2 DEF ReadJson, Return
<1>4. CASE UNCHANGED chain
  BY <1>4 DEF Linked
<1>5. QED
  BY <1>1, <1>2, <1>3, <1>4
     DEF Next, Trace, DepthExceeded, ParentsNotArray, ReachRoot, ParentNotString,
         ReferenceSeen, FollowParent, Return, Put, traceVars, vars

(* With honest naming every chain satisfies validate_lineage, at every     *)
(* moment and under concurrent changes of the directory.                   *)
THEOREM HonestChains == Spec => []HonestChainValidates
<1>1. Init => Linked
  BY DEF Init, Linked
<1>2. CASE HonestNaming
  <2>1. Spec => []Linked
    BY <1>1, <1>2, NextLinked, Invariance, PTL DEF Spec
  <2>2. IInv /\ Linked => HonestChainValidates
    BY DEF HonestChainValidates, ValidateLineage, Linked
  <2>3. QED
    BY <2>1, <2>2, Invariance, PTL
<1>3. CASE ~HonestNaming
  <2>1. HonestChainValidates
    BY <1>3 DEF HonestChainValidates
  <2>2. QED
    BY <2>1, PTL
<1>4. QED
  BY <1>2, <1>3

-----------------------------------------------------------------------------
(* A trace is an AncestorPath. *)

(* The abstract module reads bundles as this one does. *)
LEMMA SameReading ==
  \A b : /\ Abstract!HasId(b) <=> HasId(b)
         /\ Abstract!HasFirst(b) <=> HasFirst(b)
         /\ Abstract!IsRoot(b) <=> IsRoot(b)
BY DEF Abstract!HasId, HasId, Abstract!HasFirst, HasFirst, Abstract!IsRoot, IsRoot

LEMMA InitRefines == Init => Abstract!Init
BY DEF Init, Abstract!Init

(* A return is the abstract conclusion, if the abstract conditions hold.    *)
LEMMA ReturnConcludes ==
  ASSUME IInv, pc # "done", NEW r \in Results, Return(r),
         r # "unreadable" => chain # <<>>,
         r = "ok" => BudgetLeft /\ IsRoot(Current),
         r = "depth" => ~BudgetLeft,
         r \in {"cycle", "notfound"} => HasFirst(Current)
  PROVE  Abstract!Conclude
<1>1. Len(chain) \in Nat /\ MaxDepth \in Nat
  BY TraceAssumption DEF IInv, TypeOK
<1>2. QED
  BY <1>1, SameReading DEF Return, Results, Abstract!Conclude, Abstract!Verdicts, IInv, ControlInv,
              Current, BudgetLeft

LEMMA LinkRefines ==
  ASSUME IInv, pc \in {"bare", "json"}, NEW x \in Bundles, Link(x)
  PROVE  Abstract!Next
<1>1. CASE Return("cycle")
  BY <1>1, ReturnConcludes DEF Results, IInv, ControlInv, Abstract!Next
<1>2. CASE /\ x.id \notin visited
           /\ chain' = Append(chain, x)
           /\ UNCHANGED result
  <2>1. Abstract!Fresh(x)
    BY <1>2, SameReading DEF Abstract!Fresh, IInv, IdsDistinct, HasId
  <2>2. Abstract!Extend
    BY <1>2, <2>1, SameReading DEF Abstract!Extend, IInv, ControlInv, Current, BudgetLeft
  <2>3. QED
    BY <2>2 DEF Abstract!Next
<1>3. QED
  BY <1>1, <1>2 DEF Link

LEMMA NextRefines == IInv /\ [Next]_vars => [Abstract!Next]_(Abstract!vars)
<1> SUFFICES ASSUME IInv, [Next]_vars PROVE [Abstract!Next]_(Abstract!vars)
  OBVIOUS
<1> USE DEF Abstract!vars
<1>1. CASE ReadLeaf
  <2>1. CASE Return("unreadable")
    BY <1>1, <2>1, ReturnConcludes DEF ReadLeaf, Results, Abstract!Next
  <2>2. ASSUME NEW x \in Bundles, chain' = <<x>>, UNCHANGED result
        PROVE  Abstract!Start
    BY <1>1, <2>2 DEF ReadLeaf, Abstract!Start, IInv, ControlInv
  <2>3. QED
    BY <1>1, <2>1, <2>2 DEF ReadLeaf, Abstract!Next
<1>2. CASE DepthExceeded
  BY <1>2, ReturnConcludes DEF DepthExceeded, Results, IInv, ControlInv, Abstract!Next
<1>3. CASE ParentsNotArray
  BY <1>3, ReturnConcludes DEF ParentsNotArray, Results, IInv, ControlInv, Abstract!Next
<1>4. CASE ReachRoot
  BY <1>4, ReturnConcludes DEF ReachRoot, Results, IInv, ControlInv, Abstract!Next
<1>5. CASE ParentNotString
  BY <1>5, ReturnConcludes DEF ParentNotString, Results, IInv, ControlInv, Abstract!Next
<1>6. CASE ReferenceSeen
  BY <1>6, ReturnConcludes DEF ReferenceSeen, Results, IInv, ControlInv, Abstract!Next
<1>7. CASE ReadBare
  <2>1. CASE files[ref] # NoBundle /\ Link(files[ref])
    <3>1. files[ref] \in Bundles
      BY <1>7, <2>1, TraceAssumption DEF ReadBare, IInv, TypeOK, ControlInv
    <3>2. QED
      BY <1>7, <2>1, <3>1, LinkRefines DEF ReadBare
  <2>2. CASE UNCHANGED <<chain, result>>
    BY <2>2
  <2>3. QED
    BY <1>7, <2>1, <2>2 DEF ReadBare
<1>8. CASE ReadJson
  <2>1. CASE files[JsonOf[ref]] # NoBundle /\ Link(files[JsonOf[ref]])
    <3>1. files[JsonOf[ref]] \in Bundles
      BY <1>8, <2>1, TraceAssumption DEF ReadJson, IInv, TypeOK, ControlInv
    <3>2. QED
      BY <1>8, <2>1, <3>1, LinkRefines DEF ReadJson
  <2>2. CASE Return("notfound")
    BY <1>8, <2>2, ReturnConcludes DEF ReadJson, Results, IInv, ControlInv, Abstract!Next
  <2>3. QED
    BY <1>8, <2>1, <2>2 DEF ReadJson
<1>9. CASE UNCHANGED <<chain, result>>
  BY <1>9
<1>10. QED
  BY <1>1, <1>2, <1>3, <1>4, <1>5, <1>6, <1>7, <1>8, <1>9
     DEF Next, Trace, FollowParent, Put, traceVars, vars

(* resolve_lineage over a changing directory implements AncestorPath.       *)
THEOREM Implementation == Spec => ImplementsAncestorPath
BY InitRefines, NextRefines, Invariance, PTL DEF Spec, Abstract!Spec, ImplementsAncestorPath
-----------------------------------------------------------------------------
(* A trace of a directory nobody writes to is compared with the walk.       *)

(* Every bundle of the chain is what its predecessor's reference resolves   *)
(* to, and every verdict has its reason in the last bundle.                 *)
Followed ==
  \A i \in 1 .. Len(chain) - 1 :
    /\ HasFirst(chain[i]) /\ FirstParent(chain[i]) \in Names
    /\ chain[i + 1] = Resolved(FirstParent(chain[i]))

Reasons ==
  /\ pc = "json" => files[ref] = NoBundle
  /\ pc \in {"bare", "json"} => ref \notin visited
  /\ pc = "done" => result # "none"
  /\ result = "unreadable" => chain = <<>>
  /\ result = "depth" => ~BudgetLeft
  /\ result = "invalid" =>
       \/ Current.parents.kind = "other"
       \/ HasFirst(Current) /\ FirstParent(Current) \notin Names
  /\ result = "cycle" => BudgetLeft /\ HasFirst(Current) /\ FirstParent(Current) \in visited
  /\ result = "notfound" =>
       /\ HasFirst(Current) /\ FirstParent(Current) \in Names \ visited
       /\ Resolved(FirstParent(Current)) = NoBundle

StillInv == HonestNaming /\ writes = 0 => Followed /\ Reasons

(* An honest directory resolves a reference to a bundle of that name.       *)
LEMMA ResolvedType ==
  ASSUME IInv, NEW n \in Names
  PROVE  /\ Resolved(n) \in Bundles \cup {NoBundle}
         /\ HonestNaming /\ Resolved(n) # NoBundle => Resolved(n).id = n
<1>1. n \in Paths /\ JsonOf[n] \in Paths
  BY TraceAssumption
<1>2. /\ files[n] \in Bundles \cup {NoBundle} /\ files[JsonOf[n]] \in Bundles \cup {NoBundle}
      /\ files[n] \in Storable[n] \cup {NoBundle}
      /\ files[JsonOf[n]] \in Storable[JsonOf[n]] \cup {NoBundle}
  BY <1>1 DEF IInv, TypeOK, FilesInv
<1> QED BY <1>2 DEF Resolved, HonestNaming

LEMMA ReturnStill ==
  ASSUME Followed, NEW r \in Results, Return(r),
         r = "unreadable" => chain = <<>>,
         r = "depth" => ~BudgetLeft,
         r = "invalid" => \/ Current.parents.kind = "other"
                          \/ HasFirst(Current) /\ FirstParent(Current) \notin Names,
         r = "cycle" => BudgetLeft /\ HasFirst(Current) /\ FirstParent(Current) \in visited,
         r = "notfound" => /\ HasFirst(Current) /\ FirstParent(Current) \in Names \ visited
                           /\ Resolved(FirstParent(Current)) = NoBundle
  PROVE  Followed' /\ Reasons'
<1>1. UNCHANGED <<files, ref, chain, visited>> /\ pc' = "done" /\ result' = r
  BY DEF Return
<1>2. Followed'
  BY <1>1 DEF Followed, Resolved
<1>3. Reasons'
  BY <1>1 DEF Reasons, Results, Resolved, BudgetLeft, Current
<1> QED BY <1>2, <1>3

(* The bundle found under a reference has its name, which is not on the     *)
(* chain yet: only references close cycles.                                 *)
LEMMA LinkStill ==
  ASSUME HonestNaming, IInv, Followed, Reasons, pc \in {"bare", "json"},
         Resolved(ref) # NoBundle, Link(Resolved(ref))
  PROVE  Followed' /\ Reasons'
<1> DEFINE x == Resolved(ref)
<1>1. /\ ref \in Names /\ ref \notin visited /\ HasFirst(Current) /\ ref = FirstParent(Current)
      /\ chain # <<>> /\ result = "none" /\ chain \in Seq(Bundles)
  BY DEF IInv, TypeOK, ControlInv, Reasons
<1>2. x \in Bundles /\ x.id = ref
  BY <1>1, ResolvedType
<1> HIDE DEF x
<1>3. /\ chain' = Append(chain, x) /\ pc' = "loop"
      /\ UNCHANGED <<files, writes, ref, result>>
  BY <1>1, <1>2 DEF Link, x
<1>4. PICK n \in Nat \ {0} : n = Len(chain)
  BY <1>1
<1>5. /\ Len(chain') = n + 1 /\ chain'[n + 1] = x /\ \A i \in 1 .. n : chain'[i] = chain[i]
  BY <1>1, <1>2, <1>3, <1>4
<1>6. Followed'
  <2> SUFFICES ASSUME NEW i \in 1 .. n
               PROVE  /\ HasFirst(chain'[i]) /\ FirstParent(chain'[i]) \in Names
                      /\ chain'[i + 1] = Resolved(FirstParent(chain'[i]))
    BY <1>3, <1>5 DEF Followed, Resolved
  <2>1. CASE i = n
    BY <1>1, <1>4, <1>5, <2>1 DEF Current, x
  <2>2. CASE i \in 1 .. n - 1
    <3>1. i \in 1 .. Len(chain) - 1 /\ i + 1 \in 1 .. n
      BY <1>4, <2>2
    <3> QED BY <1>5, <3>1 DEF Followed
  <2> QED BY <2>1, <2>2
<1>7. Reasons'
  BY <1>1, <1>3 DEF Reasons
<1> QED BY <1>6, <1>7

LEMMA StillKept == IInv /\ StillInv /\ [Next]_vars => StillInv'
<1> SUFFICES ASSUME IInv, StillInv, [Next]_vars, HonestNaming, writes' = 0
             PROVE  Followed' /\ Reasons'
  BY DEF StillInv, HonestNaming
<1>1. /\ writes = 0
      /\ \A p \in Paths : \A c \in Storable[p] \cup {NoBundle} : Put(p, c) => pc = "start"
  <2>1. writes \in Nat
    BY DEF IInv, TypeOK
  <2> QED BY <2>1 DEF Next, Trace, ReadLeaf, DepthExceeded, ParentsNotArray, ReachRoot,
        ParentNotString, ReferenceSeen, FollowParent, ReadBare, ReadJson, Return, Link, Put, vars
<1>2. Followed /\ Reasons
  BY <1>1 DEF StillInv
<1>3. /\ pc \in {"start", "loop", "bare", "json"} => result = "none"
      /\ pc = "start" => chain = <<>>
  BY DEF IInv, ControlInv
<1>4. CASE ReadLeaf
  <2>1. CASE Return("unreadable")
    BY <1>2, <1>3, <1>4, <2>1, ReturnStill DEF Results, ReadLeaf
  <2>2. ASSUME NEW x \in Bundles, chain' = <<x>>, pc' = "loop", UNCHANGED <<files, ref, result>>
        PROVE  Followed' /\ Reasons'
    <3>1. Len(chain') = 1
      BY <2>2
    <3>2. Followed'
      BY <3>1 DEF Followed
    <3> QED BY <1>3, <1>4, <2>2, <3>2 DEF Reasons, ReadLeaf
  <2> QED BY <1>4, <2>1, <2>2 DEF ReadLeaf
<1>5. CASE DepthExceeded
  BY <1>2, <1>5, ReturnStill DEF DepthExceeded, Results
<1>6. CASE ParentsNotArray
  BY <1>2, <1>6, ReturnStill DEF ParentsNotArray, Results
<1>7. CASE ReachRoot
  BY <1>2, <1>7, ReturnStill DEF ReachRoot, Results
<1>8. CASE ParentNotString
  BY <1>2, <1>8, ReturnStill DEF ParentNotString, Results
<1>9. CASE ReferenceSeen
  BY <1>2, <1>9, ReturnStill DEF ReferenceSeen, Results
<1>10. CASE FollowParent
  BY <1>2, <1>3, <1>10 DEF FollowParent, Followed, Reasons, Resolved
<1>11. CASE ReadBare
  <2>1. CASE files[ref] # NoBundle /\ Link(files[ref])
    <3>1. Resolved(ref) = files[ref]
      BY <2>1 DEF Resolved
    <3> QED BY <1>2, <1>11, <2>1, <3>1, LinkStill DEF ReadBare
  <2>2. CASE files[ref] = NoBundle /\ pc' = "json" /\ UNCHANGED <<files, ref, chain, visited, result>>
    BY <1>2, <1>3, <1>11, <2>2 DEF ReadBare, Followed, Reasons, Resolved
  <2> QED BY <1>11, <2>1, <2>2 DEF ReadBare
<1>12. CASE ReadJson
  <2>1. Resolved(ref) = files[JsonOf[ref]]
    BY <1>2, <1>12 DEF ReadJson, Reasons, Resolved
  <2>2. CASE files[JsonOf[ref]] # NoBundle /\ Link(files[JsonOf[ref]])
    BY <1>2, <1>12, <2>1, <2>2, LinkStill DEF ReadJson
  <2>3. CASE files[JsonOf[ref]] = NoBundle /\ Return("notfound")
    <3>1. HasFirst(Current) /\ ref = FirstParent(Current) /\ ref \in Names \ visited
      BY <1>2, <1>12 DEF ReadJson, IInv, ControlInv, Reasons
    <3> QED BY <1>2, <2>1, <2>3, <3>1, ReturnStill DEF Results
  <2> QED BY <1>12, <2>2, <2>3 DEF ReadJson
<1>13. ASSUME NEW p \in Paths, NEW c \in Storable[p] \cup {NoBundle}, Put(p, c)
       PROVE  Followed' /\ Reasons'
  <2>1. pc' = "start" /\ result' = "none" /\ chain' = <<>>
    BY <1>1, <1>3, <1>13 DEF Put, traceVars
  <2> QED BY <2>1 DEF Followed, Reasons
<1>14. CASE UNCHANGED vars
  BY <1>2, <1>14 DEF vars, Followed, Reasons, Resolved, BudgetLeft, Current
<1> QED BY <1>4, <1>5, <1>6, <1>7, <1>8, <1>9, <1>10, <1>11, <1>12, <1>13, <1>14 DEF Next, Trace

(* The walk exists: it repeats one step from the leaf. *)
Parent(b) ==
  IF b # NoBundle /\ HasFirst(b) /\ FirstParent(b) \in Names
  THEN Resolved(FirstParent(b)) ELSE NoBundle

LEMMA WalkSteps ==
  ASSUME IInv, chain # <<>>
  PROVE  Walk[0] = chain[1] /\ \A k \in Nat : Walk[k + 1] = Parent(Walk[k])
<1> DEFINE X == Bundles \cup {NoBundle}
           F == [b \in X |-> Parent(b)]
           IsWalk(W) == W = [k \in Nat |-> IF k = 0 THEN chain[1]
                               ELSE LET b == W[k - 1] IN
                                    IF b # NoBundle /\ HasFirst(b) /\ FirstParent(b) \in Names
                                    THEN Resolved(FirstParent(b)) ELSE NoBundle]
<1>1. F \in [X -> X]
  BY ResolvedType DEF Parent
<1>2. chain[1] \in X
  BY DEF IInv, TypeOK
<1>3. \E W \in [Nat -> X] : Repeats(W, chain[1], F)
  <2> HIDE DEF X, F
  <2> QED BY <1>1, <1>2, Repetition
<1>4. PICK W \in [Nat -> X] : Repeats(W, chain[1], F)
  BY <1>3
<1>5. W[0] = chain[1] /\ \A k \in Nat : W[k + 1] = Parent(W[k])
  <2>1. W[0] = chain[1] /\ \A k \in Nat : W[k + 1] = F[W[k]] /\ W[k] \in X
    BY <1>4 DEF Repeats
  <2> QED BY <2>1
<1>6. IsWalk(W)
  <2>1. \A k \in Nat : W[k] = IF k = 0 THEN chain[1] ELSE Parent(W[k - 1])
    <3> TAKE k \in Nat
    <3>1. CASE k = 0
      BY <1>5, <3>1
    <3>2. CASE k # 0
      <4>1. k - 1 \in Nat /\ (k - 1) + 1 = k
        BY <3>2
      <4> QED BY <1>5, <3>2, <4>1
    <3> QED BY <3>1, <3>2
  <2>2. W = [k \in Nat |-> W[k]]
    BY <1>4
  <2> QED BY <2>1, <2>2 DEF Parent
<1>7. IsWalk(Walk)
  <2>1. Walk = CHOOSE V : IsWalk(V)
    BY DEF Walk
  <2> HIDE DEF IsWalk
  <2> QED BY <1>6, <2>1
<1>8. Walk[0] = chain[1]
  BY <1>7
<1>9. ASSUME NEW k \in Nat PROVE Walk[k + 1] = Parent(Walk[k])
  <2>1. k + 1 \in Nat /\ k + 1 # 0 /\ (k + 1) - 1 = k
    OBVIOUS
  <2>2. Walk[k + 1] = IF k + 1 = 0 THEN chain[1]
                      ELSE LET b == Walk[(k + 1) - 1] IN
                           IF b # NoBundle /\ HasFirst(b) /\ FirstParent(b) \in Names
                           THEN Resolved(FirstParent(b)) ELSE NoBundle
    BY <1>7, <2>1
  <2> QED BY <2>1, <2>2 DEF Parent
<1> QED BY <1>8, <1>9

(* The chain is the beginning of the walk. *)
LEMMA ChainIsWalk ==
  ASSUME IInv, Followed, chain # <<>>
  PROVE  \A k \in 0 .. Len(chain) - 1 : Walk[k] = chain[k + 1]
<1> DEFINE S == {k \in Nat : k <= Len(chain) - 1 => Walk[k] = chain[k + 1]}
<1>1. chain \in Seq(Bundles) /\ Len(chain) \in Nat \ {0}
  BY DEF IInv, TypeOK
<1>2. 0 \in S
  BY WalkSteps
<1>3. ASSUME NEW k \in S PROVE k + 1 \in S
  <2> SUFFICES ASSUME k + 1 <= Len(chain) - 1 PROVE Walk[k + 1] = chain[(k + 1) + 1]
    OBVIOUS
  <2>1. k \in Nat /\ k + 1 \in 1 .. Len(chain) - 1 /\ Walk[k] = chain[k + 1]
    BY <1>1
  <2>2. /\ HasFirst(chain[k + 1]) /\ FirstParent(chain[k + 1]) \in Names
        /\ chain[(k + 1) + 1] = Resolved(FirstParent(chain[k + 1]))
    BY <2>1 DEF Followed
  <2>3. chain[k + 1] # NoBundle
    BY <1>1, <2>1, TraceAssumption
  <2> QED BY <2>1, <2>2, <2>3, WalkSteps DEF Parent
<1>4. S = Nat
  <2> HIDE DEF S
  <2>1. S \in SUBSET Nat
    BY DEF S
  <2> QED BY <1>2, <1>3, <2>1, SetInduction
<1>5. \A k \in 0 .. Len(chain) - 1 : k \in S
  BY <1>4
<1> QED BY <1>1, <1>5

LEMMA ChainSimple ==
  ASSUME IInv, Followed, chain # <<>>
  PROVE  \A k \in 0 .. Len(chain) - 1 : SimplePath(k)
<1>1. chain \in Seq(Bundles) /\ Len(chain) \in Nat \ {0}
  BY DEF IInv, TypeOK
<1> SUFFICES ASSUME NEW k \in 0 .. Len(chain) - 1 PROVE SimplePath(k)
  OBVIOUS
<1>2. \A i \in 0 .. k : i + 1 \in 1 .. Len(chain) /\ Walk[i] = chain[i + 1] /\ chain[i + 1] # NoBundle
  BY <1>1, ChainIsWalk, TraceAssumption
<1>3. ASSUME NEW i \in 0 .. k, NEW j \in 0 .. k, HasId(Walk[i]), Walk[i].id = Walk[j].id
      PROVE  i = j
  <2>1. i + 1 = j + 1
    BY <1>2, <1>3 DEF IInv, IdsDistinct
  <2> QED BY <2>1
<1> QED BY <1>2, <1>3 DEF SimplePath

-----------------------------------------------------------------------------
(* The directory as the trace left it, and what the trace said of it.       *)
Settled == pc = "done" /\ chain # <<>> /\ writes = 0 /\ HonestNaming

(* What the first parent of a bundle can be. *)
LEMMA FirstParentType ==
  ASSUME NEW b \in Bundles, HasFirst(b)
  PROVE  FirstParent(b) \in Names \cup {NotAString} /\ ~IsRoot(b) /\ b.parents.kind # "other"
<1>1. b.parents.refs \in Seq(Names \cup {NotAString}) /\ b.parents.refs # <<>>
  BY BundleType DEF Parents, HasFirst
<1>2. Head(b.parents.refs) \in Names \cup {NotAString}
  BY <1>1
<1> QED BY <1>1, <1>2 DEF HasFirst, FirstParent, IsRoot

(* Every id on the chain is one of the walk's. *)
LEMMA VisitedIsWalk ==
  ASSUME IInv, Followed, chain # <<>>
  PROVE  visited = WalkIds(Len(chain) - 1) \cap Names
<1>1. Len(chain) \in Nat \ {0}
  BY DEF IInv, TypeOK
<1>2. WalkIds(Len(chain) - 1) = {chain[i].id : i \in 1 .. Len(chain)}
  <2>1. ASSUME NEW i \in 0 .. Len(chain) - 1
        PROVE  i + 1 \in 1 .. Len(chain) /\ Walk[i].id = chain[i + 1].id
    BY <1>1, ChainIsWalk
  <2>2. ASSUME NEW i \in 1 .. Len(chain)
        PROVE  i - 1 \in 0 .. Len(chain) - 1 /\ Walk[i - 1].id = chain[i].id
    <3>1. i - 1 \in 0 .. Len(chain) - 1 /\ (i - 1) + 1 = i
      BY <1>1
    <3> QED BY <3>1, ChainIsWalk
  <2>3. WalkIds(Len(chain) - 1) \subseteq {chain[i].id : i \in 1 .. Len(chain)}
    BY <2>1 DEF WalkIds
  <2>4. {chain[i].id : i \in 1 .. Len(chain)} \subseteq WalkIds(Len(chain) - 1)
    BY <2>2 DEF WalkIds
  <2> QED BY <2>3, <2>4
<1> QED BY <1>2 DEF IInv, IdsDistinct

(* A path the trace stopped short of does not go on. *)
LEMMA NoPathBeyond ==
  ASSUME IInv, Followed, Reasons, Settled, NEW k \in Nat, k + 1 < MaxDepth,
         SimplePath(k), k >= Len(chain)
  PROVE  FALSE
<1> DEFINE n == Len(chain)
<1>1. chain \in Seq(Bundles) /\ n \in Nat \ {0} /\ Current \in Bundles /\ Current = chain[n]
  BY DEF IInv, TypeOK, Settled, Current
<1>2. Walk[n - 1] = Current
  <2>1. n - 1 \in 0 .. n - 1 /\ (n - 1) + 1 = n
    BY <1>1
  <2> QED BY <1>1, <2>1, ChainIsWalk DEF Settled
<1>3. Walk[n] = Parent(Current) /\ Walk[n] # NoBundle
  <2>1. n - 1 \in Nat /\ (n - 1) + 1 = n /\ n \in 0 .. k
    BY <1>1
  <2> QED BY <1>2, <2>1, WalkSteps DEF Settled, SimplePath
<1>4. HasFirst(Current) /\ FirstParent(Current) \in Names /\ Walk[n] = Resolved(FirstParent(Current))
  BY <1>3 DEF Parent
<1>5. Walk[n].id = FirstParent(Current)
  BY <1>3, <1>4, ResolvedType DEF Settled
<1>6. FirstParent(Current) \notin visited
  <2> SUFFICES ASSUME FirstParent(Current) \in visited PROVE FALSE
    OBVIOUS
  <2>1. PICK i \in 0 .. n - 1 : Walk[i].id = FirstParent(Current)
    BY VisitedIsWalk DEF Settled, WalkIds
  <2>2. i \in 0 .. k /\ n \in 0 .. k /\ i # n
    BY <1>1
  <2> QED BY <1>4, <1>5, <2>1, <2>2 DEF SimplePath, HasId
<1>7. BudgetLeft
  <2>1. MaxDepth \in Nat
    BY TraceAssumption
  <2> QED BY <1>1, <2>1 DEF BudgetLeft
<1>8. ~IsRoot(Current) /\ Current.parents.kind # "other"
  BY <1>1, <1>4, FirstParentType
<1>9. result \in Results
  BY DEF IInv, TypeOK, Settled, Reasons
<1> QED BY <1>3, <1>4, <1>6, <1>7, <1>8, <1>9
        DEF Results, Reasons, Settled, IInv, BudgetKept, Current

(* A path within the chain has a parent on the chain. *)
LEMMA NoStopWithin ==
  ASSUME IInv, Followed, Settled, NEW k \in Nat, k + 1 < Len(chain)
  PROVE  /\ Walk[k] \in Bundles /\ HasFirst(Walk[k]) /\ FirstParent(Walk[k]) \notin WalkIds(k)
<1>1. chain \in Seq(Bundles) /\ Len(chain) \in Nat \ {0}
  BY DEF IInv, TypeOK, Settled
<1>2. /\ k + 1 \in 1 .. Len(chain) - 1 /\ k \in 0 .. Len(chain) - 1
      /\ k + 1 \in 0 .. Len(chain) - 1 /\ (k + 1) + 1 \in 1 .. Len(chain)
  BY <1>1
<1>3. Walk[k] = chain[k + 1] /\ Walk[k + 1] = chain[(k + 1) + 1]
  BY <1>2, ChainIsWalk DEF Settled
<1>4. HasFirst(Walk[k]) /\ FirstParent(Walk[k]) \in Names
      /\ Walk[k + 1] = Resolved(FirstParent(Walk[k]))
  BY <1>2, <1>3 DEF Followed
<1>5. Walk[k] \in Bundles /\ Walk[k + 1] \in Bundles
  BY <1>1, <1>2, <1>3
<1>6. Walk[k + 1].id = FirstParent(Walk[k])
  BY <1>4, <1>5, ResolvedType, TraceAssumption DEF Settled
<1>7. FirstParent(Walk[k]) \notin WalkIds(k)
  <2> SUFFICES ASSUME NEW i \in 0 .. k, Walk[i].id = FirstParent(Walk[k]) PROVE FALSE
    BY DEF WalkIds
  <2>1. i \in 0 .. k + 1 /\ k + 1 \in 0 .. k + 1 /\ i # k + 1
    OBVIOUS
  <2>2. SimplePath(k + 1)
    BY <1>2, ChainSimple DEF Settled
  <2> QED BY <1>4, <1>6, <2>1, <2>2 DEF SimplePath, HasId
<1> QED BY <1>4, <1>5, <1>7

LEMMA Verdicts == IInv /\ StillInv => VerdictMatchesWalk
<1> SUFFICES ASSUME IInv, StillInv, Settled
             PROVE  /\ result = "ok" <=>
                         \E k \in 0 .. MaxDepth :
                           k + 1 < MaxDepth /\ SimplePath(k) /\ IsRoot(Walk[k])
                    /\ result = "cycle" <=>
                         \E k \in 0 .. MaxDepth :
                           /\ k + 1 < MaxDepth /\ SimplePath(k)
                           /\ HasFirst(Walk[k]) /\ FirstParent(Walk[k]) \in WalkIds(k)
  BY DEF VerdictMatchesWalk, Settled
<1>1. Followed /\ Reasons /\ chain # <<>>
  BY DEF StillInv, Settled
<1>2. PICK n \in Nat \ {0} : n = Len(chain)
  BY <1>1 DEF IInv, TypeOK
<1>3. /\ Current \in Bundles /\ Walk[n - 1] = Current /\ SimplePath(n - 1)
      /\ n - 1 \in Nat /\ (n - 1) + 1 = n
  <2>1. n - 1 \in 0 .. n - 1 /\ (n - 1) + 1 = n
    BY <1>2
  <2> QED BY <1>1, <1>2, <2>1, ChainIsWalk, ChainSimple DEF IInv, TypeOK, Current
<1>4. visited = WalkIds(n - 1) \cap Names
  BY <1>1, <1>2, VisitedIsWalk
<1>5. MaxDepth \in Nat /\ result \in Results
  BY <1>1, TraceAssumption DEF IInv, TypeOK, Reasons, Settled
<1>6. n < MaxDepth => n - 1 \in 0 .. MaxDepth /\ (n - 1) + 1 < MaxDepth
  BY <1>2, <1>5
<1>7. ASSUME NEW k \in 0 .. MaxDepth, k + 1 < MaxDepth, SimplePath(k), k # n - 1
      PROVE  k + 1 < n
  <2>1. k < n
    BY <1>1, <1>2, <1>7, NoPathBeyond
  <2> QED BY <1>2, <1>7, <2>1
<1>8. result = "ok" => n < MaxDepth /\ IsRoot(Current)
  BY <1>2 DEF IInv, BudgetKept
<1>9. result = "cycle" => n < MaxDepth /\ HasFirst(Current) /\ FirstParent(Current) \in WalkIds(n - 1)
  BY <1>1, <1>2, <1>4 DEF Reasons, BudgetLeft
<1>10. ASSUME n < MaxDepth, IsRoot(Current) PROVE result = "ok"
  <2>1. ~HasFirst(Current) /\ Current.parents.kind # "other"
    BY <1>3, <1>10, FirstParentType DEF IsRoot
  <2> QED BY <1>1, <1>2, <1>5, <1>10, <2>1 DEF Reasons, Results, BudgetLeft
<1>11. ASSUME n < MaxDepth, HasFirst(Current), FirstParent(Current) \in WalkIds(n - 1)
       PROVE  result = "cycle"
  <2>1. FirstParent(Current) \in Names
    <3>1. \A i \in 0 .. n - 1 : Walk[i].id \in Names \cup {NoId}
      <4> TAKE i \in 0 .. n - 1
      <4>1. i + 1 \in 1 .. n /\ Walk[i] = chain[i + 1]
        BY <1>1, <1>2, ChainIsWalk
      <4>2. chain[i + 1] \in Bundles
        BY <1>2, <4>1 DEF IInv, TypeOK
      <4> QED BY <4>1, <4>2, BundleType
    <3>2. FirstParent(Current) \in Names \cup {NoId}
      BY <1>11, <3>1 DEF WalkIds
    <3> QED BY <1>3, <1>11, <3>2, FirstParentType, BundlesAssumption
  <2>2. FirstParent(Current) \in visited
    BY <1>4, <1>11, <2>1
  <2>3. ~IsRoot(Current) /\ Current.parents.kind # "other"
    BY <1>3, <1>11, FirstParentType
  <2> QED BY <1>1, <1>2, <1>5, <1>8, <1>11, <2>1, <2>2, <2>3 DEF Reasons, Results, BudgetLeft
<1>12. ASSUME NEW k \in Nat, k + 1 < n
       PROVE  ~IsRoot(Walk[k]) /\ FirstParent(Walk[k]) \notin WalkIds(k)
  BY <1>1, <1>2, <1>12, NoStopWithin, FirstParentType
<1>13. result = "ok" <=>
         \E k \in 0 .. MaxDepth : k + 1 < MaxDepth /\ SimplePath(k) /\ IsRoot(Walk[k])
  <2>1. ASSUME NEW k \in 0 .. MaxDepth, k + 1 < MaxDepth, SimplePath(k), IsRoot(Walk[k])
        PROVE  result = "ok"
    <3>1. k = n - 1
      BY <1>7, <1>12, <2>1
    <3> QED BY <1>3, <1>10, <2>1, <3>1
  <2> QED BY <1>3, <1>6, <1>8, <2>1
<1>14. result = "cycle" <=>
         \E k \in 0 .. MaxDepth :
           /\ k + 1 < MaxDepth /\ SimplePath(k)
           /\ HasFirst(Walk[k]) /\ FirstParent(Walk[k]) \in WalkIds(k)
  <2>1. ASSUME NEW k \in 0 .. MaxDepth, k + 1 < MaxDepth, SimplePath(k),
               HasFirst(Walk[k]), FirstParent(Walk[k]) \in WalkIds(k)
        PROVE  result = "cycle"
    <3>1. k = n - 1
      BY <1>7, <1>12, <2>1
    <3> QED BY <1>3, <1>11, <2>1, <3>1
  <2> QED BY <1>3, <1>6, <1>9, <2>1
<1> QED BY <1>13, <1>14

(* In an honest directory nobody writes to, for every directory and every   *)
(* budget: success exactly where the walk reaches a root in time, a cycle   *)
(* exactly where it comes back to one of its bundles in time.               *)
THEOREM VerdictsMatch == Spec => []VerdictMatchesWalk
<1>1. Init => StillInv
  BY DEF Init, StillInv, Followed, Reasons
<1>2. Spec => []StillInv
  BY <1>1, StillKept, Invariance, PTL DEF Spec
<1> QED BY <1>2, Verdicts, Invariance, PTL

-----------------------------------------------------------------------------
(* Every step of a trace brings it nearer to its end. *)

LEMMA RoomType ==
  ASSUME IInv
  PROVE  /\ Len(chain) \in Nat /\ MaxDepth \in Nat /\ Room \in Nat
         /\ pc \in {"bare", "json"} => Room >= 1
         /\ pc # "done" => StepsLeft \in Nat /\ StepsLeft >= 1
<1>1. /\ Len(chain) \in Nat /\ MaxDepth \in Nat
      /\ pc \in {"start", "loop", "bare", "json", "done"}
  BY TraceAssumption DEF IInv, TypeOK
<1>2. Room \in Nat /\ (pc \in {"bare", "json"} => Room >= 1)
  BY <1>1 DEF Room, IInv, ControlInv, BudgetLeft
<1>3. pc # "done" => StepsLeft \in Nat /\ StepsLeft >= 1
  BY <1>1, <1>2 DEF StepsLeft
<1> QED BY <1>1, <1>2, <1>3

(* A return is the last step. *)
LEMMA ReturnAdvances ==
  ASSUME IInv, pc # "done", NEW r, Return(r)
  PROVE  StepsLeft' \in 0 .. StepsLeft - 1
<1>1. StepsLeft' = 0
  BY DEF Return, StepsLeft
<1> QED BY <1>1, RoomType

(* A link takes one bundle of the room there is. *)
LEMMA LinkAdvances ==
  ASSUME IInv, pc \in {"bare", "json"}, NEW x \in Bundles, Link(x)
  PROVE  StepsLeft' \in 0 .. StepsLeft - 1
<1>1. CASE Return("cycle")
  BY <1>1, ReturnAdvances
<1>2. CASE chain' = Append(chain, x) /\ pc' = "loop"
  <2>1. Len(chain') = Len(chain) + 1
    BY <1>2 DEF IInv, TypeOK
  <2>2. Len(chain) \in Nat /\ MaxDepth \in Nat /\ Room \in Nat /\ Room >= 1
    BY RoomType
  <2>3. Room' = Room - 1
    BY <2>1, <2>2 DEF Room
  <2>4. StepsLeft' = 3 * (Room - 1) + 1
    BY <1>2, <2>3 DEF StepsLeft
  <2>5. StepsLeft \in Nat /\ StepsLeft >= 3 * Room - 1
    BY <2>2 DEF StepsLeft
  <2> QED BY <2>2, <2>4, <2>5
<1> QED BY <1>1, <1>2 DEF Link

(* From one position to another with the chain as it is. *)
LEMMA MoveAdvances ==
  ASSUME IInv, UNCHANGED chain,
         (pc = "loop" /\ BudgetLeft /\ pc' = "bare") \/ (pc = "bare" /\ pc' = "json")
  PROVE  StepsLeft' \in 0 .. StepsLeft - 1
<1>1. /\ Room' = Room /\ Room \in Nat /\ Room >= 1
  BY RoomType DEF Room, BudgetLeft
<1> QED BY <1>1 DEF StepsLeft

(* Nothing a trace does, and nothing done to the directory, gives a step   *)
(* back: a trace of any directory, changed any number of times, takes at   *)
(* most 3 * MaxDepth + 2 steps.                                            *)
THEOREM TraceBounded == Spec => TraceAdvances
<1>1. ASSUME IInv, Next
      PROVE  \/ StepsLeft' \in 0 .. StepsLeft - 1
             \/ StepsLeft' = StepsLeft /\ UNCHANGED traceVars
  <2>1. CASE ReadLeaf
    <3>1. CASE Return("unreadable")
      BY <1>1, <2>1, <3>1, ReturnAdvances DEF ReadLeaf
    <3>2. ASSUME NEW x \in Bundles, chain' = <<x>>, pc' = "loop"
          PROVE  StepsLeft' \in 0 .. StepsLeft - 1
      <4>1. Len(chain') = 1 /\ MaxDepth \in Nat
        BY <3>2, TraceAssumption
      <4>2. PICK r \in 0 .. MaxDepth : Room' = r
        BY <4>1 DEF Room
      <4>3. StepsLeft' = 3 * r + 1
        BY <3>2, <4>2 DEF StepsLeft
      <4>4. StepsLeft = 3 * MaxDepth + 2
        BY <2>1 DEF StepsLeft, ReadLeaf
      <4>5. 3 * r + 1 \in 0 .. (3 * MaxDepth + 2) - 1
        BY <4>1
      <4> QED BY <4>3, <4>4, <4>5
    <3> QED BY <2>1, <3>1, <3>2 DEF ReadLeaf
  <2>2. CASE \/ DepthExceeded \/ ParentsNotArray \/ ReachRoot
             \/ ParentNotString \/ ReferenceSeen
    BY <1>1, <2>2, ReturnAdvances
       DEF DepthExceeded, ParentsNotArray, ReachRoot, ParentNotString, ReferenceSeen
  <2>3. CASE FollowParent
    BY <1>1, <2>3, MoveAdvances DEF FollowParent
  <2>4. CASE ReadBare
    <3>1. files[ref] \in Bundles \cup {NoBundle}
      BY <1>1, <2>4, TraceAssumption DEF ReadBare, IInv, TypeOK, ControlInv
    <3>2. CASE files[ref] # NoBundle /\ Link(files[ref])
      BY <1>1, <2>4, <3>1, <3>2, LinkAdvances DEF ReadBare
    <3>3. CASE pc' = "json" /\ UNCHANGED chain
      BY <1>1, <2>4, <3>3, MoveAdvances DEF ReadBare
    <3> QED BY <2>4, <3>2, <3>3 DEF ReadBare
  <2>5. CASE ReadJson
    <3>1. files[JsonOf[ref]] \in Bundles \cup {NoBundle}
      BY <1>1, <2>5, TraceAssumption DEF ReadJson, IInv, TypeOK, ControlInv
    <3>2. CASE files[JsonOf[ref]] # NoBundle /\ Link(files[JsonOf[ref]])
      BY <1>1, <2>5, <3>1, <3>2, LinkAdvances DEF ReadJson
    <3>3. CASE Return("notfound")
      BY <1>1, <2>5, <3>3, ReturnAdvances DEF ReadJson
    <3> QED BY <2>5, <3>2, <3>3 DEF ReadJson
  <2>6. ASSUME NEW p \in Paths, NEW y \in Storable[p] \cup {NoBundle}, Put(p, y)
        PROVE  StepsLeft' = StepsLeft /\ UNCHANGED traceVars
    BY <2>6 DEF Put, traceVars, StepsLeft, Room
  <2> QED BY <1>1, <2>1, <2>2, <2>3, <2>4, <2>5, <2>6 DEF Next, Trace
<1> QED BY <1>1, Invariance, PTL DEF Spec, TraceAdvances
=============================================================================
