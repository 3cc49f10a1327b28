----------------------- MODULE ManifestPublish_proofs -----------------------
(***************************************************************************)
(* Theorems about ManifestPublish, for any number of runs, files, seconds  *)
(* and changes of the repository.                                          *)
(***************************************************************************)
EXTENDS ManifestPublish, TLAPS

-----------------------------------------------------------------------------
(* Types *)

ManifestFile == Documents \cup {None, Partial, Garbled}
Events == [by: Tools, merkleRoot: SUBSET (Files \X Contents), manifest: Seconds,
           sha: ManifestFile]

RepoTypes ==
  /\ tree \in [Files -> Contents \cup {None}] /\ index \in [Files -> Contents \cup {None}]
  /\ edits \in 0 .. MaxEdits /\ clock \in Seconds

LocalTypes ==
  /\ pc \in [Tools -> {"start", "walk", "read", "manifest", "done", "dead"} \cup Publishing]
  /\ tracked \in [Tools -> SUBSET Files] /\ todo \in [Tools -> SUBSET Files]
  /\ leaves \in [Tools -> SUBSET (Files \X Contents)]
  /\ stamp \in [Tools -> Seconds \cup {None}]
  /\ sha \in [Tools -> ManifestFile]

OutputTypes ==
  /\ manifests \in [Seconds -> ManifestFile]
  /\ roots \in [Seconds -> Events \cup {None, Partial, Garbled}]
  /\ log \in Seq(Events)

(* A file is hashed once: what is still to do has no leaf yet.              *)
OneLeafEach ==
  \A p \in Tools :
    /\ pc[p] \in {"start", "walk"} => leaves[p] = {}
    /\ \A x \in leaves[p] : x[1] \notin todo[p]
    /\ \A x, y \in leaves[p] : x[1] = y[1] => x = y

(* A run has no stamp until it has read everything, then a second.          *)
Stamps ==
  \A p \in Tools :
    /\ pc[p] \in {"start", "walk", "read"} => stamp[p] = None
    /\ pc[p] \in Publishing \cup {"manifest", "done"} => stamp[p] \in Seconds

Types == RepoTypes /\ LocalTypes /\ OutputTypes /\ OneLeafEach /\ Stamps

LEMMA ManifestInDocuments ==
  ASSUME LocalTypes, NEW p \in Tools
  PROVE  Manifest(p) \in Documents
  BY DEF LocalTypes, Manifest, Documents

LEMMA SummaryInEvents ==
  ASSUME LocalTypes, NEW p \in Tools, stamp[p] \in Seconds
  PROVE  Summary(p) \in Events
  BY DEF LocalTypes, Summary, Events

(* Steps that write outputs only. *)
LEMMA OutputStep ==
  ASSUME NEW p \in Tools, NEW from, NEW to \in Publishing \cup {"done"},
         from \in Publishing \cup {"manifest"},
         Types, Go(p, from, to),
         UNCHANGED <<repo, clock, tracked, todo, leaves, stamp>>
  PROVE  /\ pc' \in [Tools -> {"start", "walk", "read", "manifest", "done", "dead"} \cup Publishing]
         /\ RepoTypes' /\ OneLeafEach' /\ Stamps'
  BY DEF Types, RepoTypes, LocalTypes, OneLeafEach, Stamps, Go, Publishing, repo

(* The invariant of the types: a step of a run gives it what the next one   *)
(* expects.                                                                 *)
THEOREM TypesInvariant == Spec => []Types
<1> USE ManifestAssumption
<1>1. Init => Types
  BY DEF Init, Types, RepoTypes, LocalTypes, OutputTypes, OneLeafEach, Stamps, Seconds,
         ManifestFile, Publishing
<1>2. Types /\ [Next]_vars => Types'
  <2> SUFFICES ASSUME Types, [Next]_vars PROVE Types'
    OBVIOUS
  <2> USE DEF Types
  <2>1. ASSUME NEW p \in Tools, ListTracked(p) PROVE Types'
    BY <2>1 DEF ListTracked, Go, RepoTypes, LocalTypes, OutputTypes, OneLeafEach, Stamps,
                repo, outputs, Publishing
  <2>2. ASSUME NEW p \in Tools, Walk(p) PROVE Types'
    BY <2>2 DEF Walk, Walked, Go, RepoTypes, LocalTypes, OutputTypes, OneLeafEach, Stamps,
                repo, outputs, Publishing
  <2>3. ASSUME NEW p \in Tools, ReadFile(p) PROVE Types'
    <3> DEFINE f == NextFile(p)
    <3>1. f \in todo[p] /\ f \in Files /\ f # LogFile
      BY <2>3 DEF ReadFile, NextFile, LocalTypes
    <3>2. Bytes(p, f) \in Contents
      BY <2>3, <3>1 DEF ReadFile, Bytes, RepoTypes
    <3>3. /\ leaves' = [leaves EXCEPT ![p] = @ \cup {<<f, Bytes(p, f)>>}]
          /\ todo' = [todo EXCEPT ![p] = @ \ {f}]
          /\ Go(p, "read", "read")
          /\ UNCHANGED <<repo, clock, tracked, stamp, sha, outputs>>
      BY <2>3 DEF ReadFile
    <3> HIDE DEF f
    <3>4. RepoTypes' /\ OutputTypes'
      BY <3>3 DEF RepoTypes, OutputTypes, repo, outputs
    <3>5. LocalTypes'
      BY <3>1, <3>2, <3>3 DEF LocalTypes, Go
    <3>6. OneLeafEach'
      BY <3>1, <3>3 DEF OneLeafEach, LocalTypes, Go
    <3>7. Stamps'
      BY <3>3 DEF Stamps, LocalTypes, Go
    <3> QED BY <3>4, <3>5, <3>6, <3>7
  <2>4. ASSUME NEW p \in Tools, ReadFails(p) PROVE Types'
    BY <2>4 DEF ReadFails, Go, RepoTypes, LocalTypes, OutputTypes, OneLeafEach, Stamps,
                repo, locals, outputs, Publishing
  <2>5. ASSUME NEW p \in Tools, Stamp(p) PROVE Types'
    BY <2>5 DEF Stamp, Go, RepoTypes, LocalTypes, OutputTypes, OneLeafEach, Stamps,
                repo, outputs, Publishing
  <2>6. ASSUME NEW p \in Tools, OpenManifest(p) PROVE Types'
    <3>1. RepoTypes' /\ OneLeafEach' /\ Stamps' /\ LocalTypes'
      BY <2>6, OutputStep DEF OpenManifest, LocalTypes, Publishing, locals
    <3>2. OutputTypes'
      BY <2>6 DEF OpenManifest, OutputTypes, ManifestFile
    <3> QED BY <3>1, <3>2
  <2>7. ASSUME NEW p \in Tools, WriteManifest(p) PROVE Types'
    <3>1. RepoTypes' /\ OneLeafEach' /\ Stamps' /\ LocalTypes'
      BY <2>7, OutputStep DEF WriteManifest, LocalTypes, Publishing, locals
    <3>2. OutputTypes'
      <4>1. PICK x \in Written(manifests[stamp[p]], Manifest(p)) :
              manifests' = [manifests EXCEPT ![stamp[p]] = x]
        BY <2>7 DEF WriteManifest
      <4>2. x \in ManifestFile
        BY ManifestInDocuments DEF Written, ManifestFile
      <4> QED BY <2>7, <4>1, <4>2 DEF WriteManifest, OutputTypes
    <3> QED BY <3>1, <3>2
  <2>8. ASSUME NEW p \in Tools, ReadBack(p) PROVE Types'
    <3>0. stamp[p] \in Seconds
      BY <2>8 DEF ReadBack, Go, Stamps, Publishing
    <3>1. RepoTypes' /\ OneLeafEach' /\ Stamps' /\ LocalTypes'
      BY <2>8, <3>0, OutputStep DEF ReadBack, LocalTypes, OutputTypes, Publishing, outputs
    <3>2. OutputTypes'
      BY <2>8 DEF ReadBack, OutputTypes, outputs
    <3> QED BY <3>1, <3>2
  <2>9. ASSUME NEW p \in Tools, OpenRoot(p) PROVE Types'
    <3>1. RepoTypes' /\ OneLeafEach' /\ Stamps' /\ LocalTypes'
      BY <2>9, OutputStep DEF OpenRoot, LocalTypes, Publishing, locals
    <3>2. OutputTypes'
      BY <2>9 DEF OpenRoot, OutputTypes
    <3> QED BY <3>1, <3>2
  <2>10. ASSUME NEW p \in Tools, WriteRoot(p) PROVE Types'
    <3>0. Summary(p) \in Events
      BY <2>10, SummaryInEvents DEF WriteRoot, Go, Stamps, Publishing
    <3>1. RepoTypes' /\ OneLeafEach' /\ Stamps' /\ LocalTypes'
      BY <2>10, OutputStep DEF WriteRoot, LocalTypes, Publishing, locals
    <3>2. OutputTypes'
      <4>1. PICK x \in Written(roots[stamp[p]], Summary(p)) :
              roots' = [roots EXCEPT ![stamp[p]] = x]
        BY <2>10 DEF WriteRoot
      <4>2. x \in Events \cup {None, Partial, Garbled}
        BY <3>0 DEF Written
      <4> QED BY <2>10, <4>1, <4>2 DEF WriteRoot, OutputTypes
    <3> QED BY <3>1, <3>2
  <2>11. ASSUME NEW p \in Tools,
                OpenLatestManifest(p) \/ CopyManifest(p) \/ OpenLatestRoot(p) \/ CopyRoot(p)
         PROVE  Types'
    <3>1. RepoTypes' /\ OneLeafEach' /\ Stamps' /\ LocalTypes'
      BY <2>11, OutputStep DEF OpenLatestManifest, CopyManifest, OpenLatestRoot, CopyRoot,
                               LocalTypes, Publishing, locals
    <3>2. OutputTypes'
      BY <2>11 DEF OpenLatestManifest, CopyManifest, OpenLatestRoot, CopyRoot, OutputTypes
    <3> QED BY <3>1, <3>2
  <2>12. ASSUME NEW p \in Tools, AppendLog(p) PROVE Types'
    <3>0. Summary(p) \in Events
      BY <2>12, SummaryInEvents DEF AppendLog, Go, Stamps, Publishing
    <3>1. RepoTypes' /\ OneLeafEach' /\ Stamps' /\ LocalTypes'
      BY <2>12, OutputStep DEF AppendLog, LocalTypes, Publishing, locals
    <3>2. OutputTypes'
      BY <2>12, <3>0 DEF AppendLog, OutputTypes
    <3> QED BY <3>1, <3>2
  <2>13. ASSUME NEW p \in Tools, Crash(p) PROVE Types'
    BY <2>13 DEF Crash, RepoTypes, LocalTypes, OutputTypes, OneLeafEach, Stamps,
                 repo, locals, outputs, Publishing
  <2>14. ASSUME NEW f \in Files, NEW c \in Contents \cup {None}, Change(f, c) PROVE Types'
    BY <2>14 DEF Change, RepoTypes, LocalTypes, OutputTypes, OneLeafEach, Stamps,
                 locals, outputs
  <2>15. ASSUME Tick PROVE Types'
    BY <2>15 DEF Tick, RepoTypes, LocalTypes, OutputTypes, OneLeafEach, Stamps,
                 Seconds, repo, locals, outputs
  <2>16. ASSUME UNCHANGED vars PROVE Types'
    BY <2>16 DEF vars, RepoTypes, LocalTypes, OutputTypes, OneLeafEach, Stamps,
                 repo, locals, outputs
  <2> QED
    BY <2>1, <2>2, <2>3, <2>4, <2>5, <2>6, <2>7, <2>8, <2>9, <2>10, <2>11, <2>12, <2>13,
       <2>14, <2>15, <2>16 DEF Next, Run
<1> QED BY <1>1, <1>2, PTL DEF Spec

(* The type invariant. *)
THEOREM TypeCorrect == Spec => []TypeOK
<1>1. Types => TypeOK
  BY ManifestAssumption DEF Types, RepoTypes, LocalTypes, OutputTypes, OneLeafEach, Stamps,
                            TypeOK, ManifestFile
<1> QED BY <1>1, TypesInvariant, PTL

-----------------------------------------------------------------------------
(* Publication *)

Rest == {"latest manifest", "latest manifest open", "latest root", "latest root open",
         "log", "done"}

(* Nothing is published under a second no run has for its stamp.            *)
Untaken ==
  \A s \in Seconds : (\A p \in Tools : stamp[p] # s) => manifests[s] = None /\ roots[s] = None

(* How far a run has come whose files no other run touches: its root is     *)
(* opened only when its manifest is whole and the digest of it is known.    *)
ManifestWhole(p) == manifests[stamp[p]] = Manifest(p)
DigestKnown(p) == ManifestWhole(p) /\ sha[p] = Manifest(p)
Published(p) == DigestKnown(p) /\ roots[stamp[p]] = Summary(p)

Progress(p) ==
  /\ pc[p] = "manifest open" => manifests[stamp[p]] = Partial
  /\ pc[p] = "read back" => ManifestWhole(p)
  /\ pc[p] \in {"root", "root open"} => DigestKnown(p)
  /\ pc[p] = "root open" => roots[stamp[p]] = Partial
  /\ pc[p] \in Rest => Published(p)

(* In a second of its own there is no root before its own one, and what a   *)
(* run leaves when it dies is no root, an empty one, or a backed one.       *)
Sound(p) ==
  /\ Progress(p)
  /\ roots[stamp[p]] \in {None, Partial} \/ Published(p)
  /\ pc[p] \in {"manifest", "manifest open", "read back", "root"} => roots[stamp[p]] = None

OwnProgress == \A p \in Tools : stamp[p] \in Seconds /\ OwnSecond(p) => Sound(p)

(* Events are those of runs that are done. *)
Logged ==
  \A i \in 1 .. Len(log) : \E p \in Tools : pc[p] = "done" /\ log[i] = Summary(p)

(* A run that is alone goes through the same steps in a second it may share *)
(* with runs that have died, and then through those of LATEST.              *)
LatestProgress(p) ==
  /\ pc[p] = "latest manifest open" => latestManifest = Partial
  /\ pc[p] \in {"latest root", "latest root open", "log", "done"} => latestManifest = Manifest(p)
  /\ pc[p] = "latest root open" => latestRoot = Partial
  /\ pc[p] \in {"log", "done"} => latestRoot = Summary(p)

AloneProgress ==
  alone => /\ last \in Tools
           /\ pc[last] \in Publishing \cup {"done", "dead"}
           /\ \A q \in Tools \ {last} : pc[q] \notin Publishing
           /\ Progress(last) /\ LatestProgress(last)

Inv == Types /\ Untaken /\ OwnProgress /\ Logged /\ AloneProgress

LEMMA PublicationInit == Init => Untaken /\ OwnProgress /\ Logged /\ AloneProgress
  BY ManifestAssumption DEF Init, Untaken, OwnProgress, Logged, AloneProgress, Seconds

(* A step of one run: the locals of the others and the files under other    *)
(* seconds than its own are as before.                                      *)
StepOf(p) ==
  /\ \A q \in Tools \ {p} : /\ pc'[q] = pc[q] /\ leaves'[q] = leaves[q]
                            /\ stamp'[q] = stamp[q] /\ sha'[q] = sha[q]
  /\ \A s \in Seconds \ {stamp[p]} : manifests'[s] = manifests[s] /\ roots'[s] = roots[s]

(* A step of publication: the stamp and the leaves are fixed by then.       *)
PublishStep(p) ==
  /\ StepOf(p)
  /\ pc[p] \in Publishing \cup {"manifest"}
  /\ stamp' = stamp /\ leaves' = leaves /\ UNCHANGED <<began, quiet>>

LEMMA PublishSteps ==
  ASSUME NEW p \in Tools, Types,
         \/ OpenManifest(p) \/ WriteManifest(p) \/ ReadBack(p) \/ OpenRoot(p) \/ WriteRoot(p)
         \/ OpenLatestManifest(p) \/ CopyManifest(p) \/ OpenLatestRoot(p) \/ CopyRoot(p)
         \/ AppendLog(p)
  PROVE  PublishStep(p) /\ stamp[p] \in Seconds
<1> USE DEF PublishStep, StepOf, Types, LocalTypes, OutputTypes, Stamps, Go, Publishing
<1>1. CASE OpenManifest(p) BY <1>1 DEF OpenManifest, locals
<1>2. CASE WriteManifest(p) BY <1>2 DEF WriteManifest, locals, history
<1>3. CASE ReadBack(p) BY <1>3 DEF ReadBack, outputs, history
<1>4. CASE OpenRoot(p) BY <1>4 DEF OpenRoot, locals, history
<1>5. CASE WriteRoot(p) BY <1>5 DEF WriteRoot, locals, history
<1>6. CASE OpenLatestManifest(p) BY <1>6 DEF OpenLatestManifest, locals, history
<1>7. CASE CopyManifest(p) BY <1>7 DEF CopyManifest, locals, history
<1>8. CASE OpenLatestRoot(p) BY <1>8 DEF OpenLatestRoot, locals, history
<1>9. CASE CopyRoot(p) BY <1>9 DEF CopyRoot, locals, history
<1>10. CASE AppendLog(p) BY <1>10 DEF AppendLog, locals, history
<1> QED BY <1>1, <1>2, <1>3, <1>4, <1>5, <1>6, <1>7, <1>8, <1>9, <1>10

LEMMA UntakenKept ==
  ASSUME NEW p \in Tools, Untaken, PublishStep(p)
  PROVE  Untaken'
  BY DEF Untaken, PublishStep, StepOf

(* A run in a second of its own is disturbed by no other run.               *)
LEMMA OthersSound ==
  ASSUME NEW p \in Tools, OwnProgress, PublishStep(p),
         stamp[p] \in Seconds /\ OwnSecond(p) => Sound(p)'
  PROVE  OwnProgress'
<1> SUFFICES ASSUME NEW q \in Tools, stamp'[q] \in Seconds, OwnSecond(q)' PROVE Sound(q)'
  BY DEF OwnProgress
<1>1. OwnSecond(q) /\ stamp[q] \in Seconds
  BY DEF OwnSecond, PublishStep
<1>2. CASE q = p BY <1>1, <1>2
<1>3. CASE q # p
  <2>1. stamp[q] # stamp[p]
    BY <1>1, <1>3 DEF OwnSecond
  <2>2. /\ pc'[q] = pc[q] /\ leaves'[q] = leaves[q] /\ stamp'[q] = stamp[q] /\ sha'[q] = sha[q]
        /\ manifests'[stamp[q]] = manifests[stamp[q]] /\ roots'[stamp[q]] = roots[stamp[q]]
    BY <1>1, <1>3, <2>1 DEF PublishStep, StepOf
  <2>3. Sound(q)
    BY <1>1 DEF OwnProgress
  <2> QED
    BY <2>2, <2>3 DEF Sound, Progress, Published, DigestKnown, ManifestWhole, Summary, Manifest
<1> QED BY <1>2, <1>3

(* The runs that are done stay as they are, and so does the log.            *)
LEMMA LogKept ==
  ASSUME Logged, log' = log,
         \A q \in Tools : pc[q] = "done" =>
           /\ pc'[q] = "done" /\ leaves'[q] = leaves[q]
           /\ stamp'[q] = stamp[q] /\ sha'[q] = sha[q]
  PROVE  Logged'
<1> SUFFICES ASSUME NEW i \in 1 .. Len(log)
             PROVE  \E q \in Tools : pc'[q] = "done" /\ log[i] = Summary(q)'
  BY DEF Logged
<1>1. PICK q \in Tools : pc[q] = "done" /\ log[i] = Summary(q)
  BY DEF Logged
<1> QED BY <1>1 DEF Summary

LEMMA LogKeptByPublishing ==
  ASSUME NEW p \in Tools, Logged, log' = log, PublishStep(p)
  PROVE  Logged'
  BY LogKept DEF PublishStep, StepOf, Publishing

(* When a run is alone no other run publishes.                              *)
LEMMA TheOneAlone ==
  ASSUME NEW p \in Tools, AloneProgress, alone, pc[p] \in Publishing
  PROVE  p = last /\ Progress(p) /\ LatestProgress(p)
  BY DEF AloneProgress

LEMMA StaysAlone ==
  ASSUME NEW p \in Tools, AloneProgress, PublishStep(p), pc[p] \in Publishing,
         UNCHANGED <<last, alone>>, pc'[p] \in Publishing \cup {"done"},
         alone => Progress(p)' /\ LatestProgress(p)'
  PROVE  AloneProgress'
  BY TheOneAlone DEF AloneProgress, PublishStep, StepOf

(* Steps that neither have a stamp nor write: only p changes, and p has no  *)
(* stamp, or has died with the files of the stamp as they were.             *)
LEMMA Harmless ==
  ASSUME NEW p \in Tools, Inv, Types',
         UNCHANGED <<stamp, sha, outputs, last, alone>>,
         \A q \in Tools \ {p} : pc'[q] = pc[q] /\ leaves'[q] = leaves[q],
         \/ pc[p] \in {"start", "walk", "read"} /\ pc'[p] \in {"walk", "read", "dead"}
         \/ pc[p] # "done" /\ pc'[p] = "dead" /\ leaves'[p] = leaves[p]
  PROVE  Inv'
<1> USE ManifestAssumption DEF Inv, outputs
<1>1. Untaken'
  BY DEF Untaken
<1>2. OwnProgress'
  <2> SUFFICES ASSUME NEW q \in Tools, stamp[q] \in Seconds, OwnSecond(q)' PROVE Sound(q)'
    BY DEF OwnProgress
  <2>1. Sound(q)
    BY DEF OwnProgress, OwnSecond
  <2>2. leaves'[q] = leaves[q] /\ (pc'[q] = pc[q] \/ pc'[q] = "dead")
    BY DEF Types, Stamps
  <2> QED
    BY <2>1, <2>2 DEF Sound, Progress, Published, DigestKnown, ManifestWhole, Summary, Manifest,
                      Rest
<1>3. Logged'
  BY LogKept
<1>4. AloneProgress'
  <2> SUFFICES ASSUME alone PROVE AloneProgress'
    BY DEF AloneProgress
  <2>1. last \in Tools /\ Progress(last) /\ LatestProgress(last)
        /\ pc[last] \in Publishing \cup {"done", "dead"}
    BY DEF AloneProgress
  <2>2. leaves'[last] = leaves[last] /\ (pc'[last] = pc[last] \/ pc'[last] = "dead")
    BY <2>1 DEF Publishing
  <2>3. Progress(last)' /\ LatestProgress(last)'
    BY <2>1, <2>2 DEF Progress, Published, DigestKnown, ManifestWhole, LatestProgress, Summary,
                      Manifest, Rest
  <2>4. \A q \in Tools \ {last} : pc'[q] \notin Publishing
    BY DEF AloneProgress, Publishing
  <2> QED BY <2>1, <2>2, <2>3, <2>4 DEF AloneProgress
<1> QED BY <1>1, <1>2, <1>3, <1>4

THEOREM PublicationInvariant == Spec => []Inv
<1> USE ManifestAssumption
<1>1. Init => Untaken /\ OwnProgress /\ Logged /\ AloneProgress
  BY PublicationInit
<1>2. Types' /\ Inv /\ [Next]_vars => Inv'
  <2> SUFFICES ASSUME Types', Inv, [Next]_vars PROVE Inv'
    OBVIOUS
  <2> USE DEF Inv
  <2>1. ASSUME NEW p \in Tools, ListTracked(p) PROVE Inv'
    BY <2>1, Harmless DEF ListTracked, Go, Types, LocalTypes, locals, history
  <2>2. ASSUME NEW p \in Tools, Walk(p) PROVE Inv'
    BY <2>2, Harmless DEF Walk, Go, Types, LocalTypes, locals, history
  <2>3. ASSUME NEW p \in Tools, ReadFile(p) PROVE Inv'
    BY <2>3, Harmless DEF ReadFile, Go, Types, LocalTypes, locals, history
  <2>4. ASSUME NEW p \in Tools, ReadFails(p) PROVE Inv'
    BY <2>4, Harmless DEF ReadFails, Go, Types, LocalTypes, locals, history
  <2>5. ASSUME NEW p \in Tools, Crash(p) PROVE Inv'
    BY <2>5, Harmless DEF Crash, Go, Types, LocalTypes, locals, history
  <2>6. ASSUME NEW p \in Tools, Stamp(p) PROVE Inv'
    <3>1. stamp[p] = None /\ stamp' = [stamp EXCEPT ![p] = clock] /\ clock \in Seconds
      BY <2>6 DEF Stamp, Go, Types, Stamps, RepoTypes
    <3>2. Untaken'
      BY <2>6, <3>1 DEF Stamp, Untaken, Types, LocalTypes, outputs
    <3>3. ASSUME NEW q \in Tools, stamp'[q] \in Seconds, OwnSecond(q)' PROVE Sound(q)'
      <4>1. CASE q = p
        <5>1. \A r \in Tools : stamp[r] # clock
          BY <3>1, <3>3, <4>1 DEF OwnSecond, Types, LocalTypes
        <5>2. roots[clock] = None
          BY <3>1, <5>1 DEF Untaken
        <5> QED
          BY <2>6, <3>1, <4>1, <5>2 DEF Stamp, Go, Sound, Progress, Types, LocalTypes, Rest, outputs
      <4>2. CASE q # p
        <5>1. Sound(q)
          BY <3>1, <3>3, <4>2 DEF OwnProgress, OwnSecond, Types, LocalTypes
        <5> QED
          BY <2>6, <3>1, <4>2, <5>1 DEF Stamp, Go, Sound, Progress, Published, DigestKnown,
             ManifestWhole, Summary, Manifest, Types, LocalTypes, Rest, outputs
      <4> QED BY <4>1, <4>2
    <3>4. OwnProgress'
      BY <3>3 DEF OwnProgress
    <3>5. Logged'
      BY <2>6, <3>1, LogKept DEF Stamp, Go, Types, LocalTypes, outputs
    <3>6. AloneProgress'
      BY <2>6, <3>1 DEF Stamp, Go, AloneProgress, Progress, LatestProgress, Published,
         DigestKnown, ManifestWhole, Summary, Manifest, Types, LocalTypes, Publishing, Rest, outputs
    <3> QED BY <3>2, <3>4, <3>5, <3>6
  <2>7. ASSUME NEW p \in Tools, OpenManifest(p) PROVE Inv'
    <3>1. PublishStep(p) /\ stamp[p] \in Seconds
      BY <2>7, PublishSteps
    <3>2. OwnSecond(p) => Sound(p)'
      BY <2>7, <3>1 DEF OpenManifest, OwnProgress, Go, Sound, Progress, Published, DigestKnown, ManifestWhole, Summary,
         Manifest, Types, LocalTypes, OutputTypes, Rest, locals, outputs, history
    <3>3. AloneProgress'
      BY <2>7, <3>1 DEF OpenManifest, AloneProgress, LatestProgress, Publishing, Go, Sound, Progress, Published, DigestKnown, ManifestWhole, Summary,
         Manifest, Types, LocalTypes, OutputTypes, Rest, locals, outputs, history
    <3> QED
      BY <2>7, <3>1, <3>2, <3>3, UntakenKept, OthersSound, LogKeptByPublishing DEF OpenManifest
  <2>8. ASSUME NEW p \in Tools, WriteManifest(p) PROVE Inv'
    <3>1. PublishStep(p) /\ stamp[p] \in Seconds
      BY <2>8, PublishSteps
    <3>2. Progress(p) => manifests' = [manifests EXCEPT ![stamp[p]] = Manifest(p)]
      BY <2>8 DEF WriteManifest, Go, Progress, Written
    <3>3. OwnSecond(p) => Sound(p)'
      <4> SUFFICES ASSUME OwnSecond(p) PROVE Sound(p)'
        OBVIOUS
      <4>1. Sound(p)
        BY <3>1 DEF OwnProgress
      <4>2. manifests' = [manifests EXCEPT ![stamp[p]] = Manifest(p)]
        BY <3>2, <4>1 DEF Sound
      <4> QED BY <2>8, <3>1, <4>1, <4>2 DEF WriteManifest, Go, Sound, Progress, Published, DigestKnown, ManifestWhole, Summary,
         Manifest, Types, LocalTypes, OutputTypes, Rest, locals, outputs, history
    <3>4. alone => Progress(p)' /\ LatestProgress(p)'
      <4> SUFFICES ASSUME alone PROVE Progress(p)' /\ LatestProgress(p)'
        OBVIOUS
      <4>1. Progress(p) /\ LatestProgress(p)
        BY <2>8, TheOneAlone DEF WriteManifest, Go, Publishing
      <4> QED BY <2>8, <3>1, <3>2, <4>1 DEF WriteManifest, LatestProgress, Go, Sound, Progress, Published, DigestKnown, ManifestWhole, Summary,
         Manifest, Types, LocalTypes, OutputTypes, Rest, locals, outputs, history
    <3>5. AloneProgress'
      BY <2>8, <3>1, <3>4, StaysAlone DEF WriteManifest, Go, Types, LocalTypes, Publishing, history
    <3> QED
      BY <2>8, <3>1, <3>3, <3>5, UntakenKept, OthersSound, LogKeptByPublishing DEF WriteManifest, locals, outputs
  <2>9. ASSUME NEW p \in Tools, ReadBack(p) PROVE Inv'
    <3>1. PublishStep(p) /\ stamp[p] \in Seconds
      BY <2>9, PublishSteps
    <3>3. OwnSecond(p) => Sound(p)'
      <4> SUFFICES ASSUME OwnSecond(p) PROVE Sound(p)'
        OBVIOUS
      <4>1. Sound(p)
        BY <3>1 DEF OwnProgress
      <4> QED BY <2>9, <3>1, <4>1 DEF ReadBack, Go, Sound, Progress, Published, DigestKnown, ManifestWhole, Summary,
         Manifest, Types, LocalTypes, OutputTypes, Rest, locals, outputs, history
    <3>4. alone => Progress(p)' /\ LatestProgress(p)'
      <4> SUFFICES ASSUME alone PROVE Progress(p)' /\ LatestProgress(p)'
        OBVIOUS
      <4>1. Progress(p) /\ LatestProgress(p)
        BY <2>9, TheOneAlone DEF ReadBack, Go, Publishing
      <4> QED BY <2>9, <3>1, <4>1 DEF ReadBack, LatestProgress, Written, Go, Sound, Progress, Published, DigestKnown, ManifestWhole, Summary,
         Manifest, Types, LocalTypes, OutputTypes, Rest, locals, outputs, history
    <3>5. AloneProgress'
      BY <2>9, <3>1, <3>4, StaysAlone DEF ReadBack, Go, Types, LocalTypes, Publishing, history
    <3> QED
      BY <2>9, <3>1, <3>3, <3>5, UntakenKept, OthersSound, LogKeptByPublishing DEF ReadBack, locals, outputs
  <2>10. ASSUME NEW p \in Tools, OpenRoot(p) PROVE Inv'
    <3>1. PublishStep(p) /\ stamp[p] \in Seconds
      BY <2>10, PublishSteps
    <3>3. OwnSecond(p) => Sound(p)'
      <4> SUFFICES ASSUME OwnSecond(p) PROVE Sound(p)'
        OBVIOUS
      <4>1. Sound(p)
        BY <3>1 DEF OwnProgress
      <4> QED BY <2>10, <3>1, <4>1 DEF OpenRoot, Go, Sound, Progress, Published, DigestKnown, ManifestWhole, Summary,
         Manifest, Types, LocalTypes, OutputTypes, Rest, locals, outputs, history
    <3>4. alone => Progress(p)' /\ LatestProgress(p)'
      <4> SUFFICES ASSUME alone PROVE Progress(p)' /\ LatestProgress(p)'
        OBVIOUS
      <4>1. Progress(p) /\ LatestProgress(p)
        BY <2>10, TheOneAlone DEF OpenRoot, Go, Publishing
      <4> QED BY <2>10, <3>1, <4>1 DEF OpenRoot, LatestProgress, Written, Go, Sound, Progress, Published, DigestKnown, ManifestWhole, Summary,
         Manifest, Types, LocalTypes, OutputTypes, Rest, locals, outputs, history
    <3>5. AloneProgress'
      BY <2>10, <3>1, <3>4, StaysAlone DEF OpenRoot, Go, Types, LocalTypes, Publishing, history
    <3> QED
      BY <2>10, <3>1, <3>3, <3>5, UntakenKept, OthersSound, LogKeptByPublishing DEF OpenRoot, locals, outputs
  <2>11. ASSUME NEW p \in Tools, WriteRoot(p) PROVE Inv'
    <3>1. PublishStep(p) /\ stamp[p] \in Seconds
      BY <2>11, PublishSteps
    <3>2. Progress(p) => roots' = [roots EXCEPT ![stamp[p]] = Summary(p)]
      BY <2>11 DEF WriteRoot, Go, Progress, Written
    <3>3. OwnSecond(p) => Sound(p)'
      <4> SUFFICES ASSUME OwnSecond(p) PROVE Sound(p)'
        OBVIOUS
      <4>1. Sound(p)
        BY <3>1 DEF OwnProgress
      <4>2. roots' = [roots EXCEPT ![stamp[p]] = Summary(p)]
        BY <3>2, <4>1 DEF Sound
      <4> QED BY <2>11, <3>1, <4>1, <4>2 DEF WriteRoot, Go, Sound, Progress, Published, DigestKnown, ManifestWhole, Summary,
         Manifest, Types, LocalTypes, OutputTypes, Rest, locals, outputs, history
    <3>4. alone => Progress(p)' /\ LatestProgress(p)'
      <4> SUFFICES ASSUME alone PROVE Progress(p)' /\ LatestProgress(p)'
        OBVIOUS
      <4>1. Progress(p) /\ LatestProgress(p)
        BY <2>11, TheOneAlone DEF WriteRoot, Go, Publishing
      <4> QED BY <2>11, <3>1, <3>2, <4>1 DEF WriteRoot, LatestProgress, Go, Sound, Progress, Published, DigestKnown, ManifestWhole, Summary,
         Manifest, Types, LocalTypes, OutputTypes, Rest, locals, outputs, history
    <3>5. AloneProgress'
      BY <2>11, <3>1, <3>4, StaysAlone DEF WriteRoot, Go, Types, LocalTypes, Publishing, history
    <3> QED
      BY <2>11, <3>1, <3>3, <3>5, UntakenKept, OthersSound, LogKeptByPublishing DEF WriteRoot, locals, outputs
  <2>12. ASSUME NEW p \in Tools, OpenLatestManifest(p) PROVE Inv'
    <3>1. PublishStep(p) /\ stamp[p] \in Seconds
      BY <2>12, PublishSteps
    <3>3. OwnSecond(p) => Sound(p)'
      <4> SUFFICES ASSUME OwnSecond(p) PROVE Sound(p)'
        OBVIOUS
      <4>1. Sound(p)
        BY <3>1 DEF OwnProgress
      <4> QED BY <2>12, <3>1, <4>1 DEF OpenLatestManifest, Go, Sound, Progress, Published, DigestKnown, ManifestWhole, Summary,
         Manifest, Types, LocalTypes, OutputTypes, Rest, locals, outputs, history
    <3>4. alone => Progress(p)' /\ LatestProgress(p)'
      <4> SUFFICES ASSUME alone PROVE Progress(p)' /\ LatestProgress(p)'
        OBVIOUS
      <4>1. Progress(p) /\ LatestProgress(p)
        BY <2>12, TheOneAlone DEF OpenLatestManifest, Go, Publishing
      <4> QED BY <2>12, <3>1, <4>1 DEF OpenLatestManifest, LatestProgress, Written, Go, Sound, Progress, Published, DigestKnown, ManifestWhole, Summary,
         Manifest, Types, LocalTypes, OutputTypes, Rest, locals, outputs, history
    <3>5. AloneProgress'
      BY <2>12, <3>1, <3>4, StaysAlone DEF OpenLatestManifest, Go, Types, LocalTypes, Publishing, history
    <3> QED
      BY <2>12, <3>1, <3>3, <3>5, UntakenKept, OthersSound, LogKeptByPublishing DEF OpenLatestManifest, locals, outputs
  <2>13. ASSUME NEW p \in Tools, CopyManifest(p) PROVE Inv'
    <3>1. PublishStep(p) /\ stamp[p] \in Seconds
      BY <2>13, PublishSteps
    <3>3. OwnSecond(p) => Sound(p)'
      <4> SUFFICES ASSUME OwnSecond(p) PROVE Sound(p)'
        OBVIOUS
      <4>1. Sound(p)
        BY <3>1 DEF OwnProgress
      <4> QED BY <2>13, <3>1, <4>1 DEF CopyManifest, Go, Sound, Progress, Published, DigestKnown, ManifestWhole, Summary,
         Manifest, Types, LocalTypes, OutputTypes, Rest, locals, outputs, history
    <3>4. alone => Progress(p)' /\ LatestProgress(p)'
      <4> SUFFICES ASSUME alone PROVE Progress(p)' /\ LatestProgress(p)'
        OBVIOUS
      <4>1. Progress(p) /\ LatestProgress(p)
        BY <2>13, TheOneAlone DEF CopyManifest, Go, Publishing
      <4> QED BY <2>13, <3>1, <4>1 DEF CopyManifest, LatestProgress, Written, Go, Sound, Progress, Published, DigestKnown, ManifestWhole, Summary,
         Manifest, Types, LocalTypes, OutputTypes, Rest, locals, outputs, history
    <3>5. AloneProgress'
      BY <2>13, <3>1, <3>4, StaysAlone DEF CopyManifest, Go, Types, LocalTypes, Publishing, history
    <3> QED
      BY <2>13, <3>1, <3>3, <3>5, UntakenKept, OthersSound, LogKeptByPublishing DEF CopyManifest, locals, outputs
  <2>14. ASSUME NEW p \in Tools, OpenLatestRoot(p) PROVE Inv'
    <3>1. PublishStep(p) /\ stamp[p] \in Seconds
      BY <2>14, PublishSteps
    <3>3. OwnSecond(p) => Sound(p)'
      <4> SUFFICES ASSUME OwnSecond(p) PROVE Sound(p)'
        OBVIOUS
      <4>1. Sound(p)
        BY <3>1 DEF OwnProgress
      <4> QED BY <2>14, <3>1, <4>1 DEF OpenLatestRoot, Go, Sound, Progress, Published, DigestKnown, ManifestWhole, Summary,
         Manifest, Types, LocalTypes, OutputTypes, Rest, locals, outputs, history
    <3>4. alone => Progress(p)' /\ LatestProgress(p)'
      <4> SUFFICES ASSUME alone PROVE Progress(p)' /\ LatestProgress(p)'
        OBVIOUS
      <4>1. Progress(p) /\ LatestProgress(p)
        BY <2>14, TheOneAlone DEF OpenLatestRoot, Go, Publishing
      <4> QED BY <2>14, <3>1, <4>1 DEF OpenLatestRoot, LatestProgress, Written, Go, Sound, Progress, Published, DigestKnown, ManifestWhole, Summary,
         Manifest, Types, LocalTypes, OutputTypes, Rest, locals, outputs, history
    <3>5. AloneProgress'
      BY <2>14, <3>1, <3>4, StaysAlone DEF OpenLatestRoot, Go, Types, LocalTypes, Publishing, history
    <3> QED
      BY <2>14, <3>1, <3>3, <3>5, UntakenKept, OthersSound, LogKeptByPublishing DEF OpenLatestRoot, locals, outputs
  <2>15. ASSUME NEW p \in Tools, CopyRoot(p) PROVE Inv'
    <3>1. PublishStep(p) /\ stamp[p] \in Seconds
      BY <2>15, PublishSteps
    <3>3. OwnSecond(p) => Sound(p)'
      <4> SUFFICES ASSUME OwnSecond(p) PROVE Sound(p)'
        OBVIOUS
      <4>1. Sound(p)
        BY <3>1 DEF OwnProgress
      <4> QED BY <2>15, <3>1, <4>1 DEF CopyRoot, Go, Sound, Progress, Published, DigestKnown, ManifestWhole, Summary,
         Manifest, Types, LocalTypes, OutputTypes, Rest, locals, outputs, history
    <3>4. alone => Progress(p)' /\ LatestProgress(p)'
      <4> SUFFICES ASSUME alone PROVE Progress(p)' /\ LatestProgress(p)'
        OBVIOUS
      <4>1. Progress(p) /\ LatestProgress(p)
        BY <2>15, TheOneAlone DEF CopyRoot, Go, Publishing
      <4> QED BY <2>15, <3>1, <4>1 DEF CopyRoot, LatestProgress, Written, Go, Sound, Progress, Published, DigestKnown, ManifestWhole, Summary,
         Manifest, Types, LocalTypes, OutputTypes, Rest, locals, outputs, history
    <3>5. AloneProgress'
      BY <2>15, <3>1, <3>4, StaysAlone DEF CopyRoot, Go, Types, LocalTypes, Publishing, history
    <3> QED
      BY <2>15, <3>1, <3>3, <3>5, UntakenKept, OthersSound, LogKeptByPublishing DEF CopyRoot, locals, outputs
  <2>16. ASSUME NEW p \in Tools, AppendLog(p) PROVE Inv'
    <3>1. PublishStep(p) /\ stamp[p] \in Seconds
      BY <2>16, PublishSteps
    <3>3. OwnSecond(p) => Sound(p)'
      <4> SUFFICES ASSUME OwnSecond(p) PROVE Sound(p)'
        OBVIOUS
      <4>1. Sound(p)
        BY <3>1 DEF OwnProgress
      <4> QED BY <2>16, <3>1, <4>1 DEF AppendLog, Go, Sound, Progress, Published, DigestKnown, ManifestWhole, Summary,
         Manifest, Types, LocalTypes, OutputTypes, Rest, locals, outputs, history
    <3>4. alone => Progress(p)' /\ LatestProgress(p)'
      <4> SUFFICES ASSUME alone PROVE Progress(p)' /\ LatestProgress(p)'
        OBVIOUS
      <4>1. Progress(p) /\ LatestProgress(p)
        BY <2>16, TheOneAlone DEF AppendLog, Go, Publishing
      <4> QED BY <2>16, <3>1, <4>1 DEF AppendLog, LatestProgress, Written, Go, Sound, Progress, Published, DigestKnown, ManifestWhole, Summary,
         Manifest, Types, LocalTypes, OutputTypes, Rest, locals, outputs, history
    <3>5. AloneProgress'
      BY <2>16, <3>1, <3>4, StaysAlone DEF AppendLog, Go, Types, LocalTypes, Publishing, history
    <3>6. /\ log \in Seq(Events) /\ log' = Append(log, Summary(p)) /\ Summary(p) \in Events
          /\ pc'[p] = "done" /\ UNCHANGED <<leaves, stamp, sha>>
      BY <2>16, <3>1, SummaryInEvents DEF AppendLog, Go, Types, LocalTypes, OutputTypes, locals
    <3>7. ASSUME NEW i \in 1 .. Len(log')
          PROVE  \E q \in Tools : pc'[q] = "done" /\ log'[i] = Summary(q)'
      <4>1. CASE i \in 1 .. Len(log)
        <5>1. PICK q \in Tools : pc[q] = "done" /\ log[i] = Summary(q)
          BY <4>1 DEF Logged
        <5>2. pc'[q] = "done" /\ Summary(q)' = Summary(q)
          BY <2>16, <3>6, <5>1 DEF AppendLog, Go, Types, LocalTypes, Summary
        <5>3. log'[i] = log[i]
          BY <3>6, <4>1
        <5> QED BY <5>1, <5>2, <5>3
      <4>2. CASE i = Len(log) + 1
        <5>1. log'[i] = Summary(p) /\ Summary(p)' = Summary(p)
          BY <3>6, <4>2 DEF Summary
        <5> QED BY <3>6, <5>1
      <4>3. i \in 1 .. Len(log) \/ i = Len(log) + 1
        BY <3>6
      <4> QED BY <4>1, <4>2, <4>3
    <3>8. Logged'
      BY <3>7 DEF Logged
    <3> QED BY <3>1, <3>3, <3>5, <3>8, UntakenKept, OthersSound
  <2>17. ASSUME NEW f \in Files, NEW c \in Contents \cup {None}, Change(f, c) PROVE Inv'
    BY <2>17 DEF Change, Untaken, OwnProgress, Logged, AloneProgress, LatestProgress, Sound,
                 Progress, Published, DigestKnown, ManifestWhole, Summary, Manifest, OwnSecond,
                 locals, outputs, history
  <2>18. ASSUME Tick PROVE Inv'
    BY <2>18 DEF Tick, Untaken, OwnProgress, Logged, AloneProgress, LatestProgress, Sound,
                 Progress, Published, DigestKnown, ManifestWhole, Summary, Manifest, OwnSecond,
                 locals, outputs, history
  <2>19. ASSUME UNCHANGED vars PROVE Inv'
    BY <2>19 DEF vars, Untaken, OwnProgress, Logged, AloneProgress, LatestProgress, Sound,
                 Progress, Published, DigestKnown, ManifestWhole, Summary, Manifest, OwnSecond,
                 locals, outputs, history
  <2> QED
    BY <2>1, <2>2, <2>3, <2>4, <2>5, <2>6, <2>7, <2>8, <2>9,
       <2>10, <2>11, <2>12, <2>13, <2>14, <2>15, <2>16, <2>17, <2>18, <2>19 DEF Next, Run
<1>3. Types /\ Untaken /\ OwnProgress /\ Logged /\ AloneProgress <=> Inv
  BY DEF Inv
<1> QED BY <1>1, <1>2, <1>3, TypesInvariant, PTL DEF Spec

(* A complete root in a second of its own is backed by its manifest.        *)
THEOREM RootsBacked == Spec => []RootsAreBacked
<1>1. Inv => RootsAreBacked
  <2> SUFFICES ASSUME Inv, NEW p \in Tools, stamp[p] # None, OwnSecond(p),
                      roots[stamp[p]] \notin {None, Partial}
               PROVE  Backed(roots[stamp[p]])
    BY DEF RootsAreBacked
  <2>1. Published(p)
    BY DEF Inv, Types, LocalTypes, OwnProgress, Sound
  <2> QED
    BY <2>1 DEF Published, DigestKnown, ManifestWhole, Manifest, Summary, Backed
<1> QED BY <1>1, PublicationInvariant, PTL

(* An event in the log is backed by the manifest and the root it names.     *)
THEOREM LogBacked == Spec => []LogIsBacked
<1>1. Inv => LogIsBacked
  <2> SUFFICES ASSUME Inv, NEW i \in 1 .. Len(log), OwnSecond(log[i].by)
               PROVE  Backed(log[i]) /\ roots[log[i].manifest] = log[i]
    BY DEF LogIsBacked
  <2>1. PICK p \in Tools : pc[p] = "done" /\ log[i] = Summary(p)
    BY DEF Inv, Logged
  <2>2. OwnSecond(p) /\ stamp[p] \in Seconds
    BY <2>1 DEF Inv, Types, Stamps, Summary
  <2>3. Published(p)
    BY <2>1, <2>2 DEF Inv, OwnProgress, Sound, Progress, Rest
  <2> QED
    BY <2>1, <2>3 DEF Published, DigestKnown, ManifestWhole, Manifest, Summary, Backed
<1> QED BY <1>1, PublicationInvariant, PTL

(* A run that publishes alone and to the end leaves LATEST its own.         *)
THEOREM LatestHealed == Spec => []LastRunHeals
<1>1. Inv => LastRunHeals
  BY DEF Inv, AloneProgress, LatestProgress, LastRunHeals
<1> QED BY <1>1, PublicationInvariant, PTL

-----------------------------------------------------------------------------
(* The root is one of the repository *)

(* The leaves of the repository as it is now. *)
Leaf(f) == <<f, IF index[f] # None THEN index[f] ELSE tree[f]>>
Repository == {Leaf(f) : f \in {g \in Files : tree[g] # None}}

(* As long as nothing has changed since a run listed the tracked files, its *)
(* leaves and the files it still has to read make up the repository; a      *)
(* quiet run has the leaves of the repository it found.                     *)
InStep(p) ==
  /\ began[p] \in Nat /\ began[p] <= edits
  /\ began[p] = edits =>
       /\ pc[p] \in {"walk", "read"} => tracked[p] = {f \in Files : index[f] # None}
       /\ pc[p] = "walk" => leaves[p] = {}
       /\ pc[p] = "read" => leaves[p] \cup {Leaf(f) : f \in todo[p]} = Repository
       /\ quiet[p] => leaves[p] = Repository
  /\ quiet[p] => pc[p] \notin {"start", "walk", "read"}

ReadInv ==
  /\ began \in [Tools -> Nat] /\ quiet \in [Tools -> BOOLEAN]
  /\ \A p \in Tools : InStep(p)
  /\ SameRepoSameRoot

(* A step of another kind than reading disturbs nobody's reading.           *)
LEMMA ReadingKept ==
  ASSUME Types, ReadInv, UNCHANGED <<repo, tracked, todo, leaves, began, quiet>>,
         \A p \in Tools : pc'[p] = pc[p] \/ pc'[p] \notin {"start", "walk", "read"}
  PROVE  ReadInv'
  BY DEF ReadInv, InStep, Leaf, Repository, SameRepoSameRoot, repo

THEOREM SameRoot == Spec => []SameRepoSameRoot
<1> USE ManifestAssumption
<1>1. Init => ReadInv
  BY DEF Init, ReadInv, InStep, SameRepoSameRoot
<1>2. Types /\ Types' /\ ReadInv /\ [Next]_vars => ReadInv'
  <2> SUFFICES ASSUME Types, Types', ReadInv, [Next]_vars PROVE ReadInv'
    OBVIOUS
  <2> USE DEF Types, RepoTypes, LocalTypes
  <2>1. ASSUME NEW p \in Tools, ListTracked(p) PROVE ReadInv'
    BY <2>1 DEF ListTracked, Go, ReadInv, InStep, Leaf, Repository, SameRepoSameRoot, OneLeafEach, repo
  <2>2. ASSUME NEW p \in Tools, Walk(p) PROVE ReadInv'
    BY <2>2 DEF Walk, Walked, Go, ReadInv, InStep, Leaf, Repository, SameRepoSameRoot, repo, history
  <2>3. ASSUME NEW p \in Tools, ReadFile(p) PROVE ReadInv'
    <3> DEFINE f == NextFile(p)
    <3>1. f \in todo[p] /\ f \in Files /\ f # LogFile
      BY <2>3 DEF ReadFile, NextFile
    <3>2. tracked[p] = {g \in Files : index[g] # None} => <<f, Bytes(p, f)>> = Leaf(f)
      BY <3>1 DEF Bytes, Leaf
    <3>3. /\ leaves' = [leaves EXCEPT ![p] = @ \cup {<<f, Bytes(p, f)>>}]
          /\ todo' = [todo EXCEPT ![p] = @ \ {f}]
          /\ Go(p, "read", "read")
          /\ UNCHANGED <<repo, tracked, began, quiet>>
      BY <2>3 DEF ReadFile, history
    <3> HIDE DEF f
    <3>4. ASSUME NEW q \in Tools PROVE InStep(q)'
      <4>1. CASE q = p
        BY <3>1, <3>2, <3>3, <4>1 DEF Go, ReadInv, InStep, Leaf, Repository, repo
      <4>2. CASE q # p
        BY <3>3, <4>2 DEF Go, ReadInv, InStep, Leaf, Repository, repo
      <4> QED BY <4>1, <4>2
    <3>5. SameRepoSameRoot'
      BY <3>3 DEF Go, ReadInv, InStep, SameRepoSameRoot
    <3> QED BY <3>3, <3>4, <3>5 DEF ReadInv
  <2>4. ASSUME NEW p \in Tools, Stamp(p) PROVE ReadInv'
    <3>1. /\ todo[p] = {} /\ Go(p, "read", "manifest")
          /\ quiet' = [quiet EXCEPT ![p] = edits = began[p]]
          /\ UNCHANGED <<repo, tracked, todo, leaves, began>>
      BY <2>4 DEF Stamp
    <3>2. edits = began[p] => leaves[p] = Repository
      <4>1. {Leaf(f) : f \in todo[p]} = {}
        BY <3>1
      <4>2. edits = began[p] => leaves[p] \cup {Leaf(f) : f \in todo[p]} = Repository
        BY <3>1 DEF ReadInv, InStep, Go
      <4> QED BY <4>1, <4>2
    <3>3. ASSUME NEW q \in Tools PROVE InStep(q)'
      BY <3>1, <3>2 DEF Go, ReadInv, InStep, Leaf, Repository, repo
    <3>4. SameRepoSameRoot'
      BY <3>1, <3>2 DEF ReadInv, InStep, SameRepoSameRoot, repo
    <3> QED BY <3>1, <3>3, <3>4 DEF ReadInv
  <2>5. ASSUME NEW f \in Files, NEW c \in Contents \cup {None}, Change(f, c) PROVE ReadInv'
    BY <2>5 DEF Change, ReadInv, InStep, SameRepoSameRoot, locals, history
  <2>6. ASSUME NEW p \in Tools,
               \/ ReadFails(p) \/ OpenManifest(p) \/ WriteManifest(p) \/ ReadBack(p)
               \/ OpenRoot(p) \/ WriteRoot(p) \/ OpenLatestManifest(p) \/ CopyManifest(p)
               \/ OpenLatestRoot(p) \/ CopyRoot(p) \/ AppendLog(p) \/ Crash(p)
        PROVE  ReadInv'
    BY <2>6, ReadingKept DEF ReadFails, OpenManifest, WriteManifest, ReadBack, OpenRoot,
       WriteRoot, OpenLatestManifest, CopyManifest, OpenLatestRoot, CopyRoot, AppendLog, Crash,
       Go, locals, history
  <2>7. ASSUME Tick \/ UNCHANGED vars PROVE ReadInv'
    BY <2>7, ReadingKept DEF Tick, vars, locals, history
  <2> QED
    BY <2>1, <2>2, <2>3, <2>4, <2>5, <2>6, <2>7 DEF Next, Run
<1>3. ReadInv => SameRepoSameRoot
  BY DEF ReadInv
<1> QED BY <1>1, <1>2, <1>3, TypesInvariant, PTL DEF Spec
=============================================================================
