---------------------------- MODULE CommandLine ----------------------------
(***************************************************************************)
(* The commands of the Rust program as processes over the files they       *)
(* share: `key generate` writes two, `seal` reads one of them and writes a *)
(* third, `verify` and `inspect` read.  Any of them may run at any time,   *)
(* be killed between two effects, or find that a write fails; a write is   *)
(* fs::write, which empties the file and then fills it.  What seal_bundle  *)
(* and verify_bundle compute is taken from SealAndCheck.                   *)
(***************************************************************************)
EXTENDS SealAndCheck

CONSTANTS
  Processes,   \* runs of the program
  Commands,    \* Commands[p]: the command lines p may be started with
  Paths,       \* files
  NoPath,      \* an option that is not given
  KeyTypes,    \* the algorithms `key generate` knows
  NotAKey,     \* what a PEM reader makes of anything that is no such key
  DerivedPath, \* DerivedPath[f]: f with ".pub" behind
  Fillings,    \* what the files may hold at first
  Wide         \* texts with a character across byte 80 of a long string

(* A key pair is named by the run that generates it.                       *)
Pair(p, type) == <<p, type>>

NoFile == [kind |-> "none"]
(* Emptied, written in part, or written by two runs at once: no JSON, no PEM. *)
Torn == [kind |-> "torn"]
PrivatePem(k) == [kind |-> "private", key |-> k]
PublicPem(k) == [kind |-> "public", key |-> k]
BundleJson(b) == [kind |-> "bundle", doc |-> b]

ASSUME CommandsAssumption ==
  /\ \A p \in Processes : \A t \in KeyTypes : Pair(p, t) \in Keys
  /\ NotAKey \in Keys /\ AlgsOf[NotAKey] = {}
  /\ None \notin Keys /\ None \notin Processes /\ None \notin Nat
  /\ NoPath \notin Paths
  /\ \A f \in DOMAIN DerivedPath : DerivedPath[f] \in Paths
  /\ \A f \in Fillings : f \in [Paths -> {NoFile, Torn} \cup {PrivatePem(k) : k \in Keys}
                                           \cup {PublicPem(k) : k \in Keys}]
  /\ \A p \in Processes : \A c \in Commands[p] :
       /\ c.op \in {"generate", "seal", "verify", "inspect"}
       /\ c.op = "generate" => /\ c.private \in Paths \cup {NoPath}
                               /\ c.public \in Paths \cup {NoPath}
                               /\ c.private # NoPath => c.private \in DOMAIN DerivedPath
       /\ c.op = "seal" => c.key \in Paths /\ c.out \in Paths \cup {NoPath}
       /\ c.op = "verify" => c.bundle \in Paths /\ c.public \in Paths \cup {NoPath}
       /\ c.op = "inspect" => c.bundle \in Paths

VARIABLES
  files,     \* what each path holds
  phase,     \* "idle", "reading", "writing" or "ended"
  command,   \* the command line of a run
  reads,     \* the roles of the files it has still to read
  held,      \* what it has read, by role
  todo,      \* the roles of the files it has still to write
  open,      \* the path it has open for writing, or NoPath
  shared,    \* whether another run has had that file open at the same time
  exit,      \* the exit code, None while it runs
  last,      \* history: the run that opened a path last
  clean,     \* history: nobody had a file of this run open when it was opened
  source     \* history: the run behind what was read, if it had ended

vars == <<files, phase, command, reads, held, todo, open, shared, exit, last, clean, source>>
history == <<last, clean, source>>

Roles == {"private", "public", "bundle"}

(* Private keys and bundles come before public keys, in reading as in       *)
(* writing.                                                                 *)
Turn(roles, r) == r \in roles /\ (r = "public" => roles = {"public"})

(* The files other runs may write.  Payload, boundary, context and side     *)
(* attestations are inputs nobody changes meanwhile: c.usable says that     *)
(* they are there and are JSON.                                             *)
Inputs(c) ==
  CASE c.op = "seal" -> {"private"}
    [] c.op = "verify" -> {"bundle"} \cup (IF c.public = NoPath THEN {} ELSE {"public"})
    [] c.op = "inspect" -> {"bundle"}
    [] OTHER -> {}

InPath(c, r) == IF r = "private" THEN c.key ELSE IF r = "public" THEN c.public ELSE c.bundle

(* The public key goes beside a private key that goes to a file.            *)
PublicPath(c) ==
  IF c.public # NoPath THEN c.public
  ELSE IF c.private # NoPath THEN DerivedPath[c.private]
  ELSE NoPath

OutPath(c, r) ==
  IF r = "private" THEN c.private ELSE IF r = "public" THEN PublicPath(c) ELSE c.out

(* What has no file is printed. *)
Outputs(c) ==
  {r \in IF c.op = "generate" THEN {"private", "public"}
         ELSE IF c.op = "seal" THEN {"bundle"} ELSE {} : OutPath(c, r) # NoPath}

WithKey(options, k) ==
  [o \in DOMAIN options \cup {"key"} |-> IF o = "key" THEN k ELSE options[o]]

KeyIn(kind, content) == IF content.kind = kind THEN content.key ELSE NotAKey

(* The options of seal_bundle, and the document it returns for them.        *)
Options(p) == WithKey(command[p].options, KeyIn("private", held[p].private))
Document(o) == [Unsigned(o) EXCEPT !.signature = Sign(o.sigAlg, o.key, Unsigned(o))]

(* What a run writes to the file of a role. *)
Data(p, r) ==
  IF r = "private" THEN PrivatePem(Pair(p, command[p].type))
  ELSE IF r = "public" THEN PublicPem(Pair(p, command[p].type))
  ELSE BundleJson(Document(Options(p)))

-----------------------------------------------------------------------------
(* faulty: the text says FAILED, the exit code does not *)
EndQuietly(p, code) ==
  /\ phase' = [phase EXCEPT ![p] = "ended"]
  /\ exit' = [exit EXCEPT ![p] = IF code >= 10 THEN 0 ELSE code]
  /\ UNCHANGED <<files, command, reads, held, todo, open, shared, history>>

End(p, code) ==
  /\ phase' = [phase EXCEPT ![p] = "ended"]
  /\ exit' = [exit EXCEPT ![p] = code]
  /\ UNCHANGED <<files, command, reads, held, todo, open, shared, history>>

(* From here on the run writes: to the outputs of its command.              *)
Publish(p, c) ==
  /\ phase' = [phase EXCEPT ![p] = "writing"]
  /\ todo' = [todo EXCEPT ![p] = Outputs(c)]
  /\ UNCHANGED <<files, reads, held, open, shared, exit, history>>

(* seal, verify and inspect begin with reading. *)
Start(p, c) ==
  /\ phase[p] = "idle" /\ c.op # "generate"
  /\ phase' = [phase EXCEPT ![p] = "reading"]
  /\ command' = [command EXCEPT ![p] = c]
  /\ reads' = [reads EXCEPT ![p] = Inputs(c)]
  /\ UNCHANGED <<files, held, todo, open, shared, exit, history>>

(* key generate reads nothing: the pair is made, or the algorithm refused,  *)
(* before any file is touched.                                              *)
Generate(p, c) ==
  /\ phase[p] = "idle" /\ c.op = "generate" /\ c.type \in KeyTypes
  /\ command' = [command EXCEPT ![p] = c]
  /\ Publish(p, c)

UnknownAlgorithm(p, c) ==
  /\ phase[p] = "idle" /\ c.op = "generate" /\ c.type \notin KeyTypes
  /\ command' = [command EXCEPT ![p] = c]
  /\ phase' = [phase EXCEPT ![p] = "ended"]
  /\ exit' = [exit EXCEPT ![p] = 1]
  /\ UNCHANGED <<files, reads, held, todo, open, shared, history>>

-----------------------------------------------------------------------------
(* Reading *)

(* faulty: a bundle is taken as it is *)
ReadableUnparsed(r, content) == content # NoFile

(* A bundle is parsed as soon as it is read; a key is any text.             *)
Readable(r, content) == content # NoFile /\ (r = "bundle" => content.kind = "bundle")

(* The run whose output it is, if that run is over.                         *)
Author(path) ==
  IF last[path] # None /\ phase[last[path]] = "ended" THEN last[path] ELSE None

Read(p, r) ==
  /\ phase[p] = "reading" /\ Turn(reads[p], r)
  /\ Readable(r, files[InPath(command[p], r)])
  /\ held' = [held EXCEPT ![p][r] = files[InPath(command[p], r)]]
  /\ source' = [source EXCEPT ![p][r] = Author(InPath(command[p], r))]
  /\ reads' = [reads EXCEPT ![p] = @ \ {r}]
  /\ UNCHANGED <<files, phase, command, todo, open, shared, exit, last, clean>>

ReadFails(p, r) ==
  /\ phase[p] = "reading" /\ Turn(reads[p], r)
  /\ ~Readable(r, files[InPath(command[p], r)])
  /\ End(p, 1)

(* Another input is missing or does not parse: the context of verify, which *)
(* is read last, or any of seal's.                                          *)
Refuse(p) ==
  /\ phase[p] = "reading" /\ command[p].op \in {"seal", "verify"}
  /\ ~command[p].usable
  /\ command[p].op = "verify" => reads[p] = {}
  /\ End(p, 1)

-----------------------------------------------------------------------------
(* What the commands do with what they have read *)

Ready(p, op) == phase[p] = "reading" /\ reads[p] = {} /\ command[p].op = op

Seal(p) ==
  /\ Ready(p, "seal") /\ command[p].usable
  /\ Sealable(Options(p))
  /\ Publish(p, command[p])
  /\ UNCHANGED command

SealFails(p) ==
  /\ Ready(p, "seal") /\ command[p].usable
  /\ ~Sealable(Options(p))
  /\ End(p, 1)

(* The names of verify_bundle's outcomes, as verify.rs numbers them.        *)
ExitCode(outcome) ==
  CASE outcome = "verified" -> 0            [] outcome = "malformed" -> 10
    [] outcome = "invalid-signature" -> 11  [] outcome = "out-of-bounds" -> 12
    [] outcome = "unknown-version" -> 13    [] outcome = "missing-side-info" -> 14
    [] outcome = "lineage-invalid" -> 15    [] outcome = "resource-exhausted" -> 16
    [] outcome = "policy-denied" -> 17

(* faulty: a public key that cannot be loaded counts as none given *)
ConfigLenient(p) ==
  WithKey(command[p].config,
          IF held[p].public.kind # "public" THEN None ELSE held[p].public.key)

Config(p) ==
  WithKey(command[p].config,
          IF command[p].public = NoPath THEN None ELSE KeyIn("public", held[p].public))

(* The pipeline in one step: SealVerify's VerdictIsAtomic.                  *)
Verify(p) ==
  /\ Ready(p, "verify") /\ command[p].usable
  /\ \E x \in Verifications(held[p].bundle.doc, Config(p)) : End(p, ExitCode(x))

(* print_value cuts a long string at byte 80 and panics inside a character. *)
Inspect(p) ==
  /\ Ready(p, "inspect")
  /\ End(p, IF held[p].bundle.doc.payload.text \in Wide THEN 101 ELSE 0)

-----------------------------------------------------------------------------
(* Writing *)

Sharing(p, path) == {q \in Processes \ {p} : open[q] = path}

Open(p, r) ==
  /\ phase[p] = "writing" /\ Turn(todo[p], r) /\ open[p] = NoPath
  /\ LET path == OutPath(command[p], r) IN
       /\ files' = [files EXCEPT ![path] = Torn]
       /\ open' = [open EXCEPT ![p] = path]
       /\ shared' = [q \in Processes |-> IF q = p THEN Sharing(p, path) # {}
                                         ELSE shared[q] \/ open[q] = path]
       /\ last' = [last EXCEPT ![path] = p]
       /\ clean' = [clean EXCEPT ![p] = @ /\ Sharing(p, path) = {}]
  /\ UNCHANGED <<phase, command, reads, held, todo, exit, source>>

(* Two runs in one file leave what the last one wrote, or a mixture.        *)
Write(p, r) ==
  /\ open[p] # NoPath /\ Turn(todo[p], r)
  /\ \E x \in {Data(p, r)} \cup (IF shared[p] THEN {Torn} ELSE {}) :
       files' = [files EXCEPT ![open[p]] = x]
  /\ todo' = [todo EXCEPT ![p] = @ \ {r}]
  /\ open' = [open EXCEPT ![p] = NoPath]
  /\ UNCHANGED <<phase, command, reads, held, shared, exit, history>>

Finish(p) ==
  /\ phase[p] = "writing" /\ todo[p] = {}
  /\ End(p, 0)

(* faulty: the error of a write is dropped *)
StopUnnoticed(p) ==
  /\ phase[p] = "writing"
  /\ phase' = [phase EXCEPT ![p] = "ended"]
  /\ exit' = [exit EXCEPT ![p] = 0]
  /\ open' = [open EXCEPT ![p] = NoPath]
  /\ UNCHANGED <<files, command, reads, held, todo, shared, history>>

(* The file cannot be opened, the disk is full, the terminal is closed under *)
(* println!, the process is killed: the exit code is not 0, and a file that  *)
(* was open is as it was or written in part.  A run that has not come to its *)
(* writing leaves nothing; it may as well wait for ever.                     *)
Stop(p) ==
  /\ phase[p] = "writing"
  /\ phase' = [phase EXCEPT ![p] = "ended"]
  /\ exit' = [exit EXCEPT ![p] = 1]
  /\ open' = [open EXCEPT ![p] = NoPath]
  /\ \/ UNCHANGED files
     \/ open[p] # NoPath /\ files' = [files EXCEPT ![open[p]] = Torn]
  /\ UNCHANGED <<command, reads, held, todo, shared, history>>

-----------------------------------------------------------------------------
Init ==
  /\ files \in Fillings
  /\ phase = [p \in Processes |-> "idle"]
  /\ command = [p \in Processes |-> None]
  /\ reads = [p \in Processes |-> {}] /\ todo = [p \in Processes |-> {}]
  /\ held = [p \in Processes |-> [r \in Roles |-> NoFile]]
  /\ open = [p \in Processes |-> NoPath]
  /\ shared = [p \in Processes |-> FALSE]
  /\ exit = [p \in Processes |-> None]
  /\ last = [f \in Paths |-> None]
  /\ clean = [p \in Processes |-> TRUE]
  /\ source = [p \in Processes |-> [r \in Roles |-> None]]

Next == \E p \in Processes :
  \/ \E c \in Commands[p] : Start(p, c) \/ Generate(p, c) \/ UnknownAlgorithm(p, c)
  \/ \E r \in Roles : Read(p, r) \/ ReadFails(p, r) \/ Open(p, r) \/ Write(p, r)
  \/ Refuse(p) \/ Seal(p) \/ SealFails(p) \/ Verify(p) \/ Inspect(p)
  \/ Finish(p) \/ Stop(p)

Spec == Init /\ [][Next]_vars

-----------------------------------------------------------------------------
(* Properties *)

Content(x) ==
  \/ x \in {NoFile, Torn}
  \/ \E k \in Keys : x \in {PrivatePem(k), PublicPem(k)}
  \/ x.kind = "bundle"

ExitCodes == {0, 1, 10, 11, 12, 13, 14, 15, 16, 17, 101}

TypeOK ==
  /\ DOMAIN files = Paths /\ \A f \in Paths : Content(files[f])
  /\ phase \in [Processes -> {"idle", "reading", "writing", "ended"}]
  /\ DOMAIN command = Processes
  /\ \A p \in Processes : phase[p] # "idle" => command[p] \in Commands[p]
  /\ reads \in [Processes -> SUBSET Roles] /\ todo \in [Processes -> SUBSET Roles]
  /\ DOMAIN held = Processes
  /\ \A p \in Processes :
       /\ DOMAIN held[p] = Roles /\ \A r \in Roles : Content(held[p][r])
       /\ held[p].bundle = NoFile \/ held[p].bundle.kind = "bundle"
  /\ open \in [Processes -> Paths \cup {NoPath}]
  /\ shared \in [Processes -> BOOLEAN] /\ clean \in [Processes -> BOOLEAN]
  /\ exit \in [Processes -> ExitCodes \cup {None}]
  /\ \A p \in Processes : (exit[p] # None) <=> (phase[p] = "ended")
  /\ last \in [Paths -> Processes \cup {None}]
  /\ source \in [Processes -> [Roles -> Processes \cup {None}]]

(* key generate with one path for both keys leaves the public one there.    *)
Overwritten(c, r) ==
  r = "private" /\ "public" \in Outputs(c) /\ PublicPath(c) = c.private

(* Exit code 0 means written: what a run has reported as written is there,  *)
(* whole, until another run opens the file; unless another run had it open  *)
(* at the time.                                                             *)
OutputsKept ==
  \A p \in Processes : (exit[p] = 0 /\ clean[p]) =>
    \A r \in Outputs(command[p]) :
      (last[OutPath(command[p], r)] = p /\ ~Overwritten(command[p], r))
        => files[OutPath(command[p], r)] = Data(p, r)

(* generate, seal and verify, each run when the one before has ended and    *)
(* with nobody else at their files in between, give the verdict seal_bundle *)
(* and verify_bundle give in one program with a fresh pair of keys:         *)
(* whatever crashes and overlaps have left in the files before.             *)
FilesAreTransparent ==
  \A g, s, v \in Processes :
    (/\ exit[g] = 0 /\ command[g].op = "generate" /\ clean[g]
     /\ exit[s] = 0 /\ command[s].op = "seal" /\ clean[s]
     /\ phase[v] = "ended" /\ command[v].op = "verify" /\ command[v].usable
     /\ source[s].private = g /\ source[v].public = g /\ source[v].bundle = s
     /\ command[s].key = command[g].private /\ command[v].public = PublicPath(command[g]))
    => LET k == Pair(g, command[g].type)
           b == Document(WithKey(command[s].options, k))
       IN \E x \in Verifications(b, WithKey(command[v].config, k)) : exit[v] = ExitCode(x)

(* What verify accepts with a public key was made by a run of seal that had *)
(* read the private key of the same pair: no mixture of half-written,       *)
(* overwritten or mixed-up files is accepted.                               *)
VerifiedWasSealed ==
  \A v \in Processes :
    (exit[v] = 0 /\ command[v].op = "verify" /\ command[v].public # NoPath) =>
      \E s \in Processes : \E k \in Keys :
        /\ phase[s] # "idle" /\ command[s].op = "seal"
        /\ held[s].private = PrivatePem(k) /\ held[v].public = PublicPem(k)
        /\ held[v].bundle = BundleJson(Document(Options(s)))
=============================================================================
