--------------------------- MODULE ManifestPublish ---------------------------
(***************************************************************************)
(* tools/build_repo_merkle_manifest_20260516.mjs: a run hashes the files   *)
(* of the repository one by one, then publishes a manifest and a root      *)
(* under the second it was made, copies both to LATEST and appends to a    *)
(* log.  Several runs may overlap, files change meanwhile, a run may die   *)
(* anywhere.  Digests are ideal: a digest stands for what it was made of.  *)
(***************************************************************************)
EXTENDS Naturals, Sequences

CONSTANTS
  Tools,       \* runs of the tool, each of them made once
  Files,       \* files of the repository that are not outputs of the tool
  Contents,
  None,        \* no file, or nothing computed yet
  Partial,     \* a file that was opened for writing and not written yet
  Garbled,     \* a file two runs have written into at once
  MaxTime,     \* bound of the model: seconds the clock runs
  MaxEdits     \* bound of the model: changes of the repository

Seconds == 0 .. MaxTime
LogFile == "manifest/repo_merkle_log.jsonl"

ASSUME ManifestAssumption ==
  /\ MaxTime \in Nat /\ MaxEdits \in Nat
  /\ None \notin Seconds /\ None \notin Contents
  /\ LogFile \notin Files

VARIABLES
  tree,      \* the working tree
  index,     \* the git index
  edits,     \* how often tree or index changed
  clock,     \* seconds
  pc, tracked, todo, leaves, stamp, sha,   \* the local state of each run
  manifests, \* manifest/repo_merkle_manifest_<stamp>.json
  roots,     \* manifest/repo_merkle_root_<stamp>.txt
  latestManifest, latestRoot,
  log,       \* manifest/repo_merkle_log.jsonl
  began,     \* history: edits when the run listed the tracked files
  quiet,     \* history: the repository did not change while the run read it
  last,      \* history: the run that was the last to begin to publish
  alone      \* history: no other run was publishing then

repo == <<tree, index, edits>>
locals == <<tracked, todo, leaves, stamp, sha>>
outputs == <<manifests, roots, latestManifest, latestRoot, log>>
history == <<began, quiet, last, alone>>
vars == <<repo, clock, pc, locals, outputs, history>>

Go(p, from, to) == pc[p] = from /\ pc' = [pc EXCEPT ![p] = to]

-----------------------------------------------------------------------------
(* Reading the repository *)

ListTracked(p) ==
  /\ Go(p, "start", "walk")
  /\ tracked' = [tracked EXCEPT ![p] = {f \in Files : index[f] # None}]
  /\ began' = [began EXCEPT ![p] = edits]
  /\ UNCHANGED <<repo, clock, todo, leaves, stamp, sha, outputs, quiet, last, alone>>

(* walk skips the outputs of the tool itself.  Fault: all but the log.      *)
WalkedWithLog == {f \in Files : tree[f] # None} \cup {LogFile}
Walked == {f \in Files : tree[f] # None}

Walk(p) ==
  /\ Go(p, "walk", "read")
  /\ todo' = [todo EXCEPT ![p] = Walked]
  /\ UNCHANGED <<repo, clock, tracked, leaves, stamp, sha, outputs, history>>

(* A tracked file is read from the index, another one from the tree; either *)
(* must still be there, and in the tree for its time of change.             *)
Bytes(p, f) == CASE f = LogFile -> log
                 [] f \in tracked[p] -> index[f]
                 [] OTHER -> tree[f]

(* The files come in a fixed order. *)
NextFile(p) == CHOOSE f \in todo[p] : TRUE

ReadFile(p) ==
  /\ todo[p] # {} /\ Go(p, "read", "read")
  /\ LET f == NextFile(p) IN
       /\ Bytes(p, f) # None /\ (f # LogFile => tree[f] # None)
       /\ leaves' = [leaves EXCEPT ![p] = @ \cup {<<f, Bytes(p, f)>>}]
       /\ todo' = [todo EXCEPT ![p] = @ \ {f}]
  /\ UNCHANGED <<repo, clock, tracked, stamp, sha, outputs, history>>

ReadFails(p) ==
  /\ todo[p] # {} /\ Go(p, "read", "dead")
  /\ Bytes(p, NextFile(p)) = None \/ (NextFile(p) # LogFile /\ tree[NextFile(p)] = None)
  /\ UNCHANGED <<repo, clock, locals, outputs, history>>

(* generatedAtUtc; the file names carry it to the second.                   *)
Stamp(p) ==
  /\ todo[p] = {} /\ Go(p, "read", "manifest")
  /\ stamp' = [stamp EXCEPT ![p] = clock]
  /\ quiet' = [quiet EXCEPT ![p] = edits = began[p]]
  /\ UNCHANGED <<repo, clock, tracked, todo, leaves, sha, outputs, began, last, alone>>

-----------------------------------------------------------------------------
(* Publishing.  A file is opened, which empties it, and then written; what  *)
(* another run has put in since it was opened may be left in part.          *)

(* Fault AppendedTo: what is written goes behind what is there.             *)

AppendedTo(file, x) == IF file = Partial THEN {x} ELSE {[before |-> file, behind |-> x]}
Written(file, x) == IF file = Partial THEN {x} ELSE {x, Garbled}

(* generated_at_utc makes the manifests of two runs different documents.    *)
Manifest(p) == [by |-> p, leaves |-> leaves[p]]
Summary(p) == [by |-> p, merkleRoot |-> leaves[p], manifest |-> stamp[p], sha |-> sha[p]]

Publishing == {"manifest open", "read back", "root", "root open",
               "latest manifest", "latest manifest open", "latest root", "latest root open",
               "log"}

(* Fault: the run does not wait for the manifest to be written.             *)
ManifestUnawaited(p) ==
  /\ Go(p, "manifest", "read back")
  /\ manifests' = [manifests EXCEPT ![stamp[p]] = Partial]
  /\ last' = p
  /\ alone' = (\A q \in Tools \ {p} : pc[q] \notin Publishing)
  /\ UNCHANGED <<repo, clock, locals, roots, latestManifest, latestRoot, log, began, quiet>>

OpenManifest(p) ==
  /\ Go(p, "manifest", "manifest open")
  /\ manifests' = [manifests EXCEPT ![stamp[p]] = Partial]
  /\ last' = p
  /\ alone' = (\A q \in Tools \ {p} : pc[q] \notin Publishing)
  /\ UNCHANGED <<repo, clock, locals, roots, latestManifest, latestRoot, log, began, quiet>>

WriteManifest(p) ==
  /\ Go(p, "manifest open", "read back")
  /\ \E x \in Written(manifests[stamp[p]], Manifest(p)) :
       manifests' = [manifests EXCEPT ![stamp[p]] = x]
  /\ UNCHANGED <<repo, clock, locals, roots, latestManifest, latestRoot, log, history>>

(* manifest_sha256 is that of the file as it is read back.                  *)
ReadBack(p) ==
  /\ Go(p, "read back", "root")
  /\ sha' = [sha EXCEPT ![p] = manifests[stamp[p]]]
  /\ UNCHANGED <<repo, clock, tracked, todo, leaves, stamp, outputs, history>>

(* Fault: the run does not wait for the root to be written. *)
RootUnawaited(p) ==
  /\ Go(p, "root", "latest manifest")
  /\ roots' = [roots EXCEPT ![stamp[p]] = Partial]
  /\ UNCHANGED <<repo, clock, locals, manifests, latestManifest, latestRoot, log, history>>

OpenRoot(p) ==
  /\ Go(p, "root", "root open")
  /\ roots' = [roots EXCEPT ![stamp[p]] = Partial]
  /\ UNCHANGED <<repo, clock, locals, manifests, latestManifest, latestRoot, log, history>>

WriteRoot(p) ==
  /\ Go(p, "root open", "latest manifest")
  /\ \E x \in Written(roots[stamp[p]], Summary(p)) : roots' = [roots EXCEPT ![stamp[p]] = x]
  /\ UNCHANGED <<repo, clock, locals, manifests, latestManifest, latestRoot, log, history>>

(* Fault: the copy does not replace a LATEST that is there already. *)
CopyOnce(p) ==
  /\ Go(p, "latest manifest",
           IF latestManifest = None THEN "latest manifest open" ELSE "latest root")
  /\ latestManifest' = IF latestManifest = None THEN Partial ELSE latestManifest
  /\ UNCHANGED <<repo, clock, locals, manifests, roots, latestRoot, log, history>>

OpenLatestManifest(p) ==
  /\ Go(p, "latest manifest", "latest manifest open")
  /\ latestManifest' = Partial
  /\ UNCHANGED <<repo, clock, locals, manifests, roots, latestRoot, log, history>>

CopyManifest(p) ==
  /\ Go(p, "latest manifest open", "latest root")
  /\ latestManifest' \in Written(latestManifest, manifests[stamp[p]])
  /\ UNCHANGED <<repo, clock, locals, manifests, roots, latestRoot, log, history>>

OpenLatestRoot(p) ==
  /\ Go(p, "latest root", "latest root open")
  /\ latestRoot' = Partial
  /\ UNCHANGED <<repo, clock, locals, manifests, roots, latestManifest, log, history>>

CopyRoot(p) ==
  /\ Go(p, "latest root open", "log")
  /\ latestRoot' \in Written(latestRoot, roots[stamp[p]])
  /\ UNCHANGED <<repo, clock, locals, manifests, roots, latestManifest, log, history>>

AppendLog(p) ==
  /\ Go(p, "log", "done")
  /\ log' = Append(log, Summary(p))
  /\ UNCHANGED <<repo, clock, locals, manifests, roots, latestManifest, latestRoot, history>>

(* The process is killed, or a write fails: nothing is undone. *)
Crash(p) ==
  /\ pc[p] \notin {"start", "done", "dead"}
  /\ pc' = [pc EXCEPT ![p] = "dead"]
  /\ UNCHANGED <<repo, clock, locals, outputs, history>>

-----------------------------------------------------------------------------
(* A file is changed, added, removed; or the index is.  Repository and      *)
(* clock are of no more interest when no run is going to look at them.      *)
Looking(p) == pc[p] \in {"start", "walk", "read"}

Change(f, c) ==
  /\ \E p \in Tools : Looking(p)
  /\ edits < MaxEdits /\ edits' = edits + 1
  /\ \/ c # tree[f] /\ tree' = [tree EXCEPT ![f] = c] /\ UNCHANGED index
     \/ c # index[f] /\ index' = [index EXCEPT ![f] = c] /\ UNCHANGED tree
  /\ UNCHANGED <<clock, pc, locals, outputs, history>>

Tick ==
  /\ \E p \in Tools : Looking(p)
  /\ clock < MaxTime /\ clock' = clock + 1
  /\ UNCHANGED <<repo, pc, locals, outputs, history>>

Init ==
  /\ tree \in [Files -> Contents] /\ index \in [Files -> Contents \cup {None}]
  /\ edits = 0 /\ clock = 0
  /\ pc = [p \in Tools |-> "start"]
  /\ tracked = [p \in Tools |-> {}] /\ todo = [p \in Tools |-> {}]
  /\ leaves = [p \in Tools |-> {}]
  /\ stamp = [p \in Tools |-> None] /\ sha = [p \in Tools |-> None]
  /\ manifests = [s \in Seconds |-> None] /\ roots = [s \in Seconds |-> None]
  /\ latestManifest = None /\ latestRoot = None /\ log = <<>>
  /\ began = [p \in Tools |-> 0] /\ quiet = [p \in Tools |-> FALSE]
  /\ last = None /\ alone = FALSE

Run(p) == \/ ListTracked(p) \/ Walk(p) \/ ReadFile(p) \/ ReadFails(p) \/ Stamp(p)
          \/ OpenManifest(p) \/ WriteManifest(p) \/ ReadBack(p) \/ OpenRoot(p) \/ WriteRoot(p)
          \/ OpenLatestManifest(p) \/ CopyManifest(p) \/ OpenLatestRoot(p) \/ CopyRoot(p)
          \/ AppendLog(p)

Next == \/ \E p \in Tools : Run(p) \/ Crash(p)
        \/ \E f \in Files : \E c \in Contents \cup {None} : Change(f, c)
        \/ Tick

Spec == Init /\ [][Next]_vars

-----------------------------------------------------------------------------
(* Properties *)

Documents == [by: Tools, leaves: SUBSET (Files \X Contents)]

TypeOK ==
  /\ tree \in [Files -> Contents \cup {None}] /\ index \in [Files -> Contents \cup {None}]
  /\ edits \in 0 .. MaxEdits /\ clock \in Seconds
  /\ pc \in [Tools -> {"start", "walk", "read", "manifest", "done", "dead"} \cup Publishing]
  /\ tracked \in [Tools -> SUBSET Files] /\ todo \in [Tools -> SUBSET Files]
  /\ leaves \in [Tools -> SUBSET (Files \X Contents)]
  /\ \A p \in Tools : \A x, y \in leaves[p] : x[1] = y[1] => x = y
  /\ stamp \in [Tools -> Seconds \cup {None}]
  /\ \A s \in Seconds : manifests[s] \in Documents \cup {None, Partial, Garbled}
  /\ \A p \in Tools : pc[p] \in Publishing \cup {"done"} => stamp[p] # None

(* A run under whose stamp no other run has published.                      *)
OwnSecond(p) == \A q \in Tools \ {p} : stamp[q] # stamp[p]

(* What is published in a second of its own is consistent at every moment,  *)
(* whatever crashes and overlaps: a root file that is complete names a      *)
(* manifest that is there, with its digest and the root of its leaves; the  *)
(* same holds of every event in the log.                                    *)
Backed(x) ==
  LET m == manifests[x.manifest] IN
  m = x.sha /\ m = [by |-> x.by, leaves |-> x.merkleRoot]

RootsAreBacked ==
  \A p \in Tools : (stamp[p] # None /\ OwnSecond(p)) =>
    roots[stamp[p]] \in {None, Partial} \/ Backed(roots[stamp[p]])

(* An event is logged only when manifest, root and both LATEST copies were  *)
(* made.                                                                    *)
LogIsBacked ==
  \A i \in 1 .. Len(log) : OwnSecond(log[i].by) =>
    Backed(log[i]) /\ roots[log[i].manifest] = log[i]

(* A run that publishes alone and to the end leaves LATEST consistent and   *)
(* its own, whatever the runs that crashed before it have left there.       *)
LastRunHeals ==
  (alone /\ pc[last] = "done") =>
    latestRoot = Summary(last) /\ latestManifest = Manifest(last)

(* The root is one of the repository: two runs that read the same           *)
(* unchanged repository publish the same root, although the first one has   *)
(* left its outputs in it before the second one looks.                      *)
SameRepoSameRoot ==
  \A p, q \in Tools :
    (quiet[p] /\ quiet[q] /\ began[p] = began[q]) => leaves[p] = leaves[q]
=============================================================================
