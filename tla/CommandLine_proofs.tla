------------------------- MODULE CommandLine_proofs -------------------------
(***************************************************************************)
(* Theorems about CommandLine, for any number of runs, any command lines   *)
(* and any files they begin with.                                          *)
(***************************************************************************)
EXTENDS CommandLine, SealAndCheck_proofs

USE FormatAssumption, CommandsAssumption

(* A run that writes, or has written all, had a reason to.                  *)
Published(p) ==
  /\ command[p].op = "generate" => command[p].type \in KeyTypes
  /\ command[p].op = "seal" => Sealable(Options(p))

(* Where a run stands.                                                      *)
Control(p) ==
  /\ phase[p] \in {"idle", "reading"} => todo[p] = {}
  /\ phase[p] # "writing" => open[p] = NoPath
  /\ phase[p] = "idle" => reads[p] = {}
  /\ phase[p] # "idle" => reads[p] \subseteq Inputs(command[p])
  /\ phase[p] = "reading" => command[p].op # "generate"
  /\ phase[p] = "writing" =>
       /\ command[p].op \in {"generate", "seal"}
       /\ todo[p] \subseteq Outputs(command[p])
       /\ todo[p] # {} /\ "public" \in Outputs(command[p]) => "public" \in todo[p]
       /\ Published(p)
  /\ exit[p] = 0 => todo[p] = {} /\ Published(p)
  /\ open[p] # NoPath =>
       \E r \in Roles : Turn(todo[p], r) /\ open[p] = OutPath(command[p], r)

(* What has been read could be, and nothing is known about what has not.    *)
Reading(p) ==
  /\ \A r \in Roles : source[p][r] # None =>
       phase[p] # "idle" /\ r \in Inputs(command[p]) \ reads[p]
  /\ phase[p] # "idle" =>
       \A r \in Inputs(command[p]) \ reads[p] : Readable(r, held[p][r])

(* A run of verify answers what verify_bundle says of what the run has read. *)
Answered(p) ==
  (phase[p] = "ended" /\ command[p].op = "verify") =>
    \/ exit[p] = 1 /\ (reads[p] # {} \/ ~command[p].usable)
    \/ /\ reads[p] = {}
       /\ \E x \in Verifications(held[p].bundle.doc, Config(p)) : exit[p] = ExitCode(x)

(* Two runs in one file.                                                    *)
Overlaps ==
  /\ \A p \in Processes :
       (open[p] # NoPath /\ shared[p]) => ~clean[p] \/ last[open[p]] # p
  /\ \A p, q \in Processes :
       (q # p /\ open[q] # NoPath /\ last[open[q]] = p) => ~clean[p]

(* What has been written so far is there.                                   *)
Written(p) ==
  (phase[p] = "writing" \/ exit[p] = 0) =>
    \A r \in Outputs(command[p]) \ todo[p] :
      (clean[p] /\ last[OutPath(command[p], r)] = p /\ ~Overwritten(command[p], r))
        => files[OutPath(command[p], r)] = Data(p, r)

(* Whoever opened a file last had it among its outputs.                     *)
Opened ==
  \A f \in Paths : last[f] # None =>
    /\ phase[last[f]] \in {"writing", "ended"}
    /\ \E r \in Outputs(command[last[f]]) : OutPath(command[last[f]], r) = f

(* What has been read from a run that had reported success is what it wrote. *)
Delivered(p) ==
  \A r \in Roles : \A g \in Processes : source[p][r] = g =>
    /\ phase[g] = "ended"
    /\ \E w \in Outputs(command[g]) : OutPath(command[g], w) = InPath(command[p], r)
    /\ (exit[g] = 0 /\ clean[g]) =>
         \A w \in Outputs(command[g]) :
           (OutPath(command[g], w) = InPath(command[p], r) /\ ~Overwritten(command[g], w))
             => held[p][r] = Data(g, w)

(* A bundle comes out of seal_bundle.                                       *)
Sealed(x) ==
  \E s \in Processes :
    /\ phase[s] \in {"writing", "ended"} /\ command[s].op = "seal"
    /\ Sealable(Options(s)) /\ x = BundleJson(Document(Options(s)))
Bundles ==
  /\ \A f \in Paths : files[f].kind = "bundle" => Sealed(files[f])
  /\ \A p \in Processes : held[p].bundle.kind = "bundle" => Sealed(held[p].bundle)

IInv ==
  /\ TypeOK /\ Overlaps /\ Opened /\ Bundles
  /\ \A p \in Processes : Control(p) /\ Reading(p) /\ Answered(p) /\ Written(p) /\ Delivered(p)

-----------------------------------------------------------------------------
(* Commands and the contents of files.                                      *)
LEMMA OutPaths ==
  ASSUME NEW p \in Processes, NEW c \in Commands[p], NEW r \in Outputs(c)
  PROVE  OutPath(c, r) \in Paths /\ r \in Roles
  BY DEF Outputs, OutPath, PublicPath, Roles

LEMMA InPaths ==
  ASSUME NEW p \in Processes, NEW c \in Commands[p], NEW r \in Inputs(c)
  PROVE  InPath(c, r) \in Paths /\ r \in Roles
  BY DEF Inputs, InPath, Roles

LEMMA Contents ==
  ASSUME NEW x, Content(x)
  PROVE  /\ x.kind \in {"none", "torn", "private", "public", "bundle"}
         /\ x.kind = "none" <=> x = NoFile
         /\ x.kind = "private" => \E k \in Keys : x = PrivatePem(k)
         /\ x.kind = "public" => \E k \in Keys : x = PublicPem(k)
         /\ \A kind \in {"private", "public"} : KeyIn(kind, x) \in Keys
<1>1. CASE x \in {NoFile, Torn}
  BY <1>1 DEF NoFile, Torn, PrivatePem, PublicPem, KeyIn
<1>2. CASE \E k \in Keys : x \in {PrivatePem(k), PublicPem(k)}
  <2>1. PICK k \in Keys : x \in {PrivatePem(k), PublicPem(k)}
    BY <1>2
  <2>2. CASE x = PrivatePem(k)
    <3>1. x.kind = "private" /\ x.key = k
      BY <2>2 DEF PrivatePem
    <3> QED BY <2>2, <3>1 DEF NoFile, KeyIn
  <2>3. CASE x = PublicPem(k)
    <3>1. x.kind = "public" /\ x.key = k
      BY <2>3 DEF PublicPem
    <3> QED BY <2>3, <3>1 DEF NoFile, KeyIn
  <2> QED BY <2>1, <2>2, <2>3
<1>3. CASE x.kind = "bundle"
  BY <1>3 DEF NoFile, KeyIn
<1> QED BY <1>1, <1>2, <1>3 DEF Content

LEMMA ExitCodeTypes ==
  ASSUME NEW v \in Outcomes \ {"pending"}
  PROVE  /\ ExitCode(v) \in ExitCodes
         /\ ExitCode(v) = 0 <=> v = "verified"
<1>1. ExitCode("verified") = 0
  BY DEF ExitCode
<1>2. v # "verified" => ExitCode(v) \in {10, 11, 12, 13, 14, 15, 16, 17}
  BY DEF Outcomes, ExitCode
<1> QED BY <1>1, <1>2 DEF ExitCodes

LEMMA DataContent ==
  ASSUME NEW p \in Processes, NEW r \in Roles, TypeOK, Control(p),
         phase[p] = "writing", r \in todo[p]
  PROVE  Content(Data(p, r)) /\ OutPath(command[p], r) \in Paths
<1>1. command[p] \in Commands[p] /\ r \in Outputs(command[p])
  BY DEF TypeOK, Control
<1>2. r \in {"private", "public"} => command[p].op = "generate"
  BY <1>1 DEF Outputs
<1>3. r \in {"private", "public"} => Pair(p, command[p].type) \in Keys
  BY <1>1, <1>2 DEF Control, Published
<1>4. Content(Data(p, r))
  BY <1>3 DEF Content, Data, BundleJson, Roles
<1> QED BY <1>1, <1>4, OutPaths

-----------------------------------------------------------------------------
(* A step of one run leaves the private state of the others alone.          *)
Act(p) ==
  \/ \E c \in Commands[p] : Start(p, c) \/ Generate(p, c) \/ UnknownAlgorithm(p, c)
  \/ \E r \in Roles : Read(p, r) \/ ReadFails(p, r) \/ Open(p, r) \/ Write(p, r)
  \/ Refuse(p) \/ Seal(p) \/ SealFails(p) \/ Verify(p) \/ Inspect(p)
  \/ Finish(p) \/ Stop(p)

Others(p) ==
  \A q \in Processes \ {p} :
    /\ phase'[q] = phase[q] /\ command'[q] = command[q] /\ reads'[q] = reads[q]
    /\ held'[q] = held[q] /\ todo'[q] = todo[q] /\ open'[q] = open[q]
    /\ exit'[q] = exit[q] /\ clean'[q] = clean[q] /\ source'[q] = source[q]

LEMMA OthersAlone ==
  ASSUME NEW p \in Processes, TypeOK, Act(p)
  PROVE  Others(p)
<1>1. ASSUME NEW c \in Commands[p], Start(p, c) \/ Generate(p, c) \/ UnknownAlgorithm(p, c)
      PROVE  Others(p)
  BY <1>1 DEF TypeOK, Others, Start, Generate, UnknownAlgorithm, Publish, history
<1>2. ASSUME NEW r \in Roles, Read(p, r) PROVE Others(p)
  BY <1>2 DEF TypeOK, Others, Read
<1>3. ASSUME NEW r \in Roles, Open(p, r) \/ Write(p, r) PROVE Others(p)
  BY <1>3 DEF TypeOK, Others, Open, Write, history
<1>4. ASSUME NEW code, End(p, code) PROVE Others(p)
  BY <1>4 DEF TypeOK, Others, End, history
<1>5. ASSUME Seal(p) \/ Stop(p) PROVE Others(p)
  BY <1>5 DEF TypeOK, Others, Seal, Publish, Stop, history
<1> QED
  BY <1>1, <1>2, <1>3, <1>4, <1>5
     DEF Act, ReadFails, Refuse, SealFails, Verify, Inspect, Finish

(* Nobody goes on when he has ended.                                        *)
LEMMA EndIsFinal ==
  ASSUME NEW p \in Processes, Act(p), Control(p)
  PROVE  phase[p] # "ended"
<1>1. ASSUME NEW c \in Commands[p], Start(p, c) \/ Generate(p, c) \/ UnknownAlgorithm(p, c)
      PROVE  phase[p] = "idle"
  BY <1>1 DEF Start, Generate, UnknownAlgorithm
<1>2. ASSUME NEW r \in Roles, Read(p, r) \/ ReadFails(p, r) PROVE phase[p] = "reading"
  BY <1>2 DEF Read, ReadFails
<1>3. ASSUME NEW r \in Roles, Open(p, r) PROVE phase[p] = "writing"
  BY <1>3 DEF Open
<1>4. ASSUME NEW r \in Roles, Write(p, r) PROVE phase[p] = "writing"
  BY <1>4 DEF Write, Control
<1> QED
  BY <1>1, <1>2, <1>3, <1>4
     DEF Act, Refuse, Seal, SealFails, Verify, Inspect, Finish, Stop, Ready

-----------------------------------------------------------------------------
(* The initial states.                                                      *)
LEMMA InitHolds == Init => IInv
<1> SUFFICES ASSUME Init PROVE IInv
  OBVIOUS
<1>1. \A f \in Paths : Content(files[f]) /\ files[f].kind # "bundle"
  <2>1. files \in [Paths -> {NoFile, Torn} \cup {PrivatePem(k) : k \in Keys}
                                           \cup {PublicPem(k) : k \in Keys}]
    BY DEF Init
  <2> QED BY <2>1 DEF Content, NoFile, Torn, PrivatePem, PublicPem
<1>2. DOMAIN files = Paths
  BY DEF Init
<1>3. Content(NoFile) /\ NoFile.kind # "bundle"
  BY DEF Content, NoFile
<1>4. TypeOK
  <2>1. \A p \in Processes :
          /\ DOMAIN held[p] = Roles /\ \A r \in Roles : Content(held[p][r])
          /\ held[p].bundle = NoFile
    BY <1>3 DEF Init, Roles
  <2>2. /\ phase \in [Processes -> {"idle", "reading", "writing", "ended"}]
        /\ \A p \in Processes : phase[p] = "idle" /\ exit[p] = None
        /\ exit \in [Processes -> ExitCodes \cup {None}]
    BY DEF Init
  <2>3. /\ reads \in [Processes -> SUBSET Roles] /\ todo \in [Processes -> SUBSET Roles]
        /\ open \in [Processes -> Paths \cup {NoPath}]
        /\ shared \in [Processes -> BOOLEAN] /\ clean \in [Processes -> BOOLEAN]
    BY DEF Init
  <2>4. /\ last \in [Paths -> Processes \cup {None}]
        /\ source \in [Processes -> [Roles -> Processes \cup {None}]]
        /\ DOMAIN command = Processes /\ DOMAIN held = Processes
    BY DEF Init
  <2> QED BY <1>1, <1>2, <2>1, <2>2, <2>3, <2>4 DEF TypeOK
<1>5. Overlaps /\ Opened
  BY DEF Init, Overlaps, Opened
<1>6. Bundles
  BY <1>1, <1>3 DEF Init, Bundles, Roles
<1>7. ASSUME NEW p \in Processes
      PROVE  Control(p) /\ Reading(p) /\ Answered(p) /\ Written(p) /\ Delivered(p)
  <2>1. /\ phase[p] = "idle" /\ todo[p] = {} /\ open[p] = NoPath /\ reads[p] = {}
        /\ exit[p] = None /\ \A r \in Roles : source[p][r] = None
    BY DEF Init
  <2>2. None # 0
    OBVIOUS
  <2>3. Control(p) /\ Reading(p)
    BY <2>1, <2>2 DEF Control, Reading
  <2>4. Answered(p) /\ Written(p) /\ Delivered(p)
    BY <2>1, <2>2 DEF Answered, Written, Delivered
  <2> QED BY <2>3, <2>4
<1> QED BY <1>4, <1>5, <1>6, <1>7 DEF IInv

-----------------------------------------------------------------------------
(* Types.                                                                   *)
LEMMA EndTypes ==
  ASSUME NEW p \in Processes, TypeOK, NEW code \in ExitCodes, phase[p] # "idle", End(p, code)
  PROVE  TypeOK'
<1>1. None \notin ExitCodes
  BY DEF ExitCodes
<1> QED BY <1>1 DEF TypeOK, End, history

LEMMA TypeStep ==
  ASSUME NEW p \in Processes, TypeOK, Control(p), Act(p)
  PROVE  TypeOK'
<1>1. ASSUME NEW c \in Commands[p], Start(p, c) PROVE TypeOK'
  <2>1. Inputs(c) \subseteq Roles
    BY InPaths
  <2> QED BY <1>1, <2>1 DEF TypeOK, Start, history
<1>2. ASSUME NEW c \in Commands[p], Generate(p, c) PROVE TypeOK'
  <2>1. Outputs(c) \subseteq Roles
    BY OutPaths
  <2> QED BY <1>2, <2>1 DEF TypeOK, Generate, Publish, history
<1>3. ASSUME NEW c \in Commands[p], UnknownAlgorithm(p, c) PROVE TypeOK'
  <2>1. 1 \in ExitCodes /\ None # 1
    BY DEF ExitCodes
  <2> QED BY <1>3, <2>1 DEF TypeOK, UnknownAlgorithm, history
<1>4. ASSUME NEW r \in Roles, Read(p, r) PROVE TypeOK'
  <2> DEFINE f == InPath(command[p], r)
  <2>1. phase[p] = "reading" /\ command[p] \in Commands[p] /\ r \in Inputs(command[p])
    BY <1>4 DEF Read, Turn, Control, TypeOK
  <2>2. f \in Paths
    BY <2>1, InPaths
  <2>3. Content(files[f]) /\ (r = "bundle" => files[f].kind = "bundle")
    BY <1>4, <2>2 DEF Read, Readable, TypeOK
  <2>4. Author(f) \in Processes \cup {None}
    BY <2>2 DEF Author, TypeOK
  <2>5. held' = [held EXCEPT ![p][r] = files[f]]
    BY <1>4 DEF Read
  <2>6. DOMAIN held' = Processes
        /\ \A q \in Processes :
             /\ DOMAIN held'[q] = Roles
             /\ \A w \in Roles : held'[q][w] = IF q = p /\ w = r THEN files[f] ELSE held[q][w]
    BY <2>5 DEF TypeOK
  <2>7. \A q \in Processes :
             /\ \A w \in Roles : Content(held'[q][w])
             /\ held'[q].bundle = NoFile \/ held'[q].bundle.kind = "bundle"
    BY <2>3, <2>6 DEF TypeOK, Roles
  <2>8. source' \in [Processes -> [Roles -> Processes \cup {None}]]
    BY <1>4, <2>4 DEF Read, TypeOK
  <2> QED BY <1>4, <2>6, <2>7, <2>8 DEF Read, TypeOK
<1>5. ASSUME NEW r \in Roles, ReadFails(p, r) PROVE TypeOK'
  BY <1>5, EndTypes DEF ReadFails, ExitCodes
<1>6. ASSUME NEW r \in Roles, Open(p, r) PROVE TypeOK'
  <2> DEFINE f == OutPath(command[p], r)
  <2>1. f \in Paths
    BY <1>6, DataContent DEF Open, Turn
  <2>2. Content(Torn)
    BY DEF Content
  <2>3. DOMAIN files' = Paths /\ \A g \in Paths : Content(files'[g])
    BY <1>6, <2>2 DEF Open, TypeOK
  <2>4. /\ open' \in [Processes -> Paths \cup {NoPath}]
        /\ shared' \in [Processes -> BOOLEAN] /\ clean' \in [Processes -> BOOLEAN]
        /\ last' \in [Paths -> Processes \cup {None}]
    <3>1. shared' = [q \in Processes |-> IF q = p THEN Sharing(p, f) # {}
                                         ELSE shared[q] \/ open[q] = f]
      BY <1>6 DEF Open
    <3>2. \A q \in Processes : shared'[q] \in BOOLEAN
      BY <3>1
    <3>3. shared' \in [Processes -> BOOLEAN]
      BY <3>1, <3>2
    <3>4. clean' = [clean EXCEPT ![p] = @ /\ Sharing(p, f) = {}]
      BY <1>6 DEF Open
    <3>5. clean' \in [Processes -> BOOLEAN]
      BY <3>4 DEF TypeOK
    <3>6. /\ open' = [open EXCEPT ![p] = f]
          /\ last' = [last EXCEPT ![f] = p]
      BY <1>6 DEF Open
    <3>7. open' \in [Processes -> Paths \cup {NoPath}]
      BY <3>6, <2>1 DEF TypeOK
    <3>8. last' \in [Paths -> Processes \cup {None}]
      BY <3>6, <2>1 DEF TypeOK
    <3> QED BY <3>3, <3>5, <3>7, <3>8
  <2> QED BY <1>6, <2>3, <2>4 DEF Open, TypeOK
<1>7. ASSUME NEW r \in Roles, Write(p, r) PROVE TypeOK'
  <2>1. PICK x \in {Data(p, r)} \cup (IF shared[p] THEN {Torn} ELSE {}) :
          files' = [files EXCEPT ![open[p]] = x]
    BY <1>7 DEF Write
  <2>2. phase[p] = "writing"
    BY <1>7 DEF Write, Control
  <2>3. Content(x)
    BY <1>7, <2>2, DataContent DEF Write, Turn, Content
  <2>4. DOMAIN files' = Paths /\ \A g \in Paths : Content(files'[g])
    BY <2>1, <2>3 DEF TypeOK
  <2> QED BY <1>7, <2>4 DEF Write, TypeOK, history
<1>8. Seal(p) => TypeOK'
  <2>1. phase[p] # "idle" /\ Seal(p) => Outputs(command[p]) \subseteq Roles
    BY OutPaths DEF TypeOK
  <2> QED BY <2>1 DEF TypeOK, Seal, Publish, Ready, history
<1>9. Refuse(p) \/ SealFails(p) => TypeOK'
  BY EndTypes DEF Refuse, SealFails, Ready, ExitCodes
<1>10. Verify(p) => TypeOK'
  BY EndTypes, ExitCodeTypes, VerificationOutcomes DEF Verify, Ready
<1>11. Inspect(p) \/ Finish(p) => TypeOK'
  BY EndTypes DEF Inspect, Finish, Ready, ExitCodes
<1>12. Stop(p) => TypeOK'
  <2> SUFFICES ASSUME Stop(p) PROVE TypeOK'
    OBVIOUS
  <2>1. Content(Torn)
    BY DEF Content
  <2>2. DOMAIN files' = Paths /\ \A g \in Paths : Content(files'[g])
    BY <2>1 DEF Stop, TypeOK
  <2>3. exit' \in [Processes -> ExitCodes \cup {None}]
        /\ \A q \in Processes : (exit'[q] # None) <=> (phase'[q] = "ended")
    BY DEF Stop, TypeOK, ExitCodes
  <2> QED BY <2>2, <2>3 DEF Stop, TypeOK, history
<1> QED
  BY <1>1, <1>2, <1>3, <1>4, <1>5, <1>6, <1>7, <1>8, <1>9, <1>10, <1>11, <1>12 DEF Act

-----------------------------------------------------------------------------
(* What a step of one run leaves true of another.                           *)
LEMMA OthersKeep ==
  ASSUME NEW p \in Processes, NEW q \in Processes \ {p}, TypeOK, Act(p)
  PROVE  /\ Options(q)' = Options(q) /\ \A r \in Roles : Data(q, r)' = Data(q, r)
         /\ Control(q) => Control(q)'
         /\ Reading(q) => Reading(q)'
         /\ Answered(q) => Answered(q)'
<1>1. /\ phase'[q] = phase[q] /\ command'[q] = command[q] /\ reads'[q] = reads[q]
      /\ held'[q] = held[q] /\ todo'[q] = todo[q] /\ open'[q] = open[q]
      /\ exit'[q] = exit[q] /\ source'[q] = source[q]
  BY OthersAlone DEF Others
<1>2. Options(q)' = Options(q)
  BY <1>1 DEF Options
<1>3. \A r \in Roles : Data(q, r)' = Data(q, r)
  BY <1>1, <1>2 DEF Data
<1>4. Published(q)' = Published(q)
  BY <1>1, <1>2 DEF Published
<1>5. Control(q) => Control(q)'
  BY <1>1, <1>4 DEF Control
<1>6. Reading(q) => Reading(q)'
  BY <1>1 DEF Reading
<1>7. Config(q)' = Config(q)
  BY <1>1 DEF Config
<1>8. Answered(q) => Answered(q)'
  BY <1>1, <1>7 DEF Answered
<1> QED BY <1>2, <1>3, <1>5, <1>6, <1>8

-----------------------------------------------------------------------------
(* A run that ends: reading, with nothing to write, or with all written.    *)
LEMMA Ends ==
  ASSUME NEW p \in Processes, TypeOK, Control(p), Reading(p), NEW code, End(p, code),
         phase[p] \in {"reading", "writing"}, phase[p] = "writing" => todo[p] = {},
         code = 0 /\ phase[p] = "reading" => command[p].op \in {"verify", "inspect"}
  PROVE  Control(p)' /\ Reading(p)'
<1>1. /\ phase'[p] = "ended" /\ exit'[p] = code /\ open'[p] = NoPath /\ command'[p] = command[p]
      /\ reads'[p] = reads[p] /\ todo'[p] = {} /\ source'[p] = source[p] /\ held'[p] = held[p]
  BY DEF End, TypeOK, Control, history, Turn
<1>2. Published(p)' = Published(p)
  BY <1>1 DEF Published, Options
<1>3. code = 0 => Published(p)
  BY DEF Control, Published
<1>4. Control(p)'
  BY <1>1, <1>2, <1>3 DEF Control
<1>5. Reading(p)'
  BY <1>1 DEF Reading
<1> QED BY <1>4, <1>5

LEMMA ControlStep ==
  ASSUME NEW p \in Processes, TypeOK, Control(p), Reading(p), Act(p)
  PROVE  Control(p)' /\ Reading(p)'
<1>1. ASSUME NEW c \in Commands[p], Start(p, c) PROVE Control(p)' /\ Reading(p)'
  <2>1. /\ phase'[p] = "reading" /\ command'[p] = c /\ reads'[p] = Inputs(c) /\ todo'[p] = {}
        /\ open'[p] = NoPath /\ source'[p] = source[p] /\ exit'[p] = None /\ c.op # "generate"
    BY <1>1 DEF Start, TypeOK, Control, history
  <2>2. phase[p] = "idle"
    BY <1>1 DEF Start
  <2>3. Control(p)'
    BY <2>1 DEF Control
  <2> QED BY <2>1, <2>2, <2>3 DEF Reading
<1>2. ASSUME NEW c \in Commands[p], Generate(p, c) PROVE Control(p)' /\ Reading(p)'
  <2>1. /\ phase[p] = "idle" /\ phase'[p] = "writing" /\ command'[p] = c
        /\ reads'[p] = {} /\ todo'[p] = Outputs(c) /\ open'[p] = NoPath
        /\ source'[p] = source[p] /\ exit'[p] = None
        /\ c.op = "generate" /\ c.type \in KeyTypes
    BY <1>2 DEF Generate, Publish, TypeOK, Control, history
  <2>2. Control(p)'
    BY <2>1 DEF Control, Published
  <2> QED BY <2>1, <2>2 DEF Reading, Inputs
<1>3. ASSUME NEW c \in Commands[p], UnknownAlgorithm(p, c) PROVE Control(p)' /\ Reading(p)'
  <2>1. /\ phase[p] = "idle" /\ phase'[p] = "ended" /\ command'[p] = c
        /\ reads'[p] = {} /\ todo'[p] = {} /\ open'[p] = NoPath
        /\ source'[p] = source[p] /\ exit'[p] = 1 /\ c.op = "generate"
    BY <1>3 DEF UnknownAlgorithm, TypeOK, Control, history
  <2>2. Control(p)'
    BY <2>1 DEF Control, Published
  <2> QED BY <2>1, <2>2 DEF Reading, Inputs
<1>4. ASSUME NEW r \in Roles, Read(p, r) PROVE Control(p)' /\ Reading(p)'
  <2>1. /\ phase[p] = "reading" /\ r \in reads[p]
        /\ phase'[p] = "reading" /\ command'[p] = command[p] /\ reads'[p] = reads[p] \ {r}
        /\ todo'[p] = todo[p] /\ open'[p] = open[p] /\ exit'[p] = exit[p]
        /\ \A w \in Roles \ {r} : source'[p][w] = source[p][w] /\ held'[p][w] = held[p][w]
        /\ Readable(r, held'[p][r])
    BY <1>4 DEF Read, Turn, TypeOK
  <2>2. exit[p] # 0
    <3>1. exit[p] # None <=> phase[p] = "ended"
      BY DEF TypeOK
    <3>2. exit[p] = None
      BY <2>1, <3>1
    <3> QED BY ONLY <3>2, CommandsAssumption
  <2>3. Control(p)'
    BY <2>1, <2>2 DEF Control
  <2>4. r \in Inputs(command[p])
    BY <2>1 DEF Control
  <2>5. Reading(p)'
    <3>1. Inputs(command[p]) \subseteq Roles
      BY <2>1, InPaths DEF TypeOK
    <3> QED BY <2>1, <2>4, <3>1 DEF Reading
  <2> QED BY <2>3, <2>5
<1>5. ASSUME NEW r \in Roles, ReadFails(p, r) PROVE Control(p)' /\ Reading(p)'
  BY <1>5, Ends DEF ReadFails
<1>6. ASSUME NEW r \in Roles, Open(p, r) PROVE Control(p)' /\ Reading(p)'
  <2>1. /\ phase[p] = "writing" /\ Turn(todo[p], r) /\ open'[p] = OutPath(command[p], r)
        /\ phase'[p] = phase[p] /\ command'[p] = command[p] /\ reads'[p] = reads[p]
        /\ held'[p] = held[p] /\ todo'[p] = todo[p] /\ exit'[p] = exit[p] /\ source'[p] = source[p]
    BY <1>6 DEF Open, TypeOK
  <2>2. Published(p)' = Published(p)
    BY <2>1 DEF Published, Options
  <2>3. Control(p)'
    BY <2>1, <2>2 DEF Control
  <2> QED BY <2>1, <2>3 DEF Reading
<1>7. ASSUME NEW r \in Roles, Write(p, r) PROVE Control(p)' /\ Reading(p)'
  <2>1. /\ phase[p] = "writing" /\ Turn(todo[p], r) /\ open'[p] = NoPath
        /\ phase'[p] = phase[p] /\ command'[p] = command[p] /\ reads'[p] = reads[p]
        /\ held'[p] = held[p] /\ todo'[p] = todo[p] \ {r}
        /\ exit'[p] = exit[p] /\ source'[p] = source[p]
    BY <1>7 DEF Write, TypeOK, Control, history
  <2>2. Published(p)' = Published(p)
    BY <2>1 DEF Published, Options
  <2>3. todo'[p] # {} /\ "public" \in Outputs(command[p]) => "public" \in todo'[p]
    BY <2>1 DEF Control, Turn
  <2>4. exit[p] # 0
    BY <2>1 DEF TypeOK
  <2>5. Control(p)'
    BY <2>1, <2>2, <2>3, <2>4 DEF Control
  <2> QED BY <2>1, <2>5 DEF Reading
<1>8. Refuse(p) \/ SealFails(p) => Control(p)' /\ Reading(p)'
  BY Ends DEF Refuse, SealFails, Ready
<1>9. Seal(p) => Control(p)' /\ Reading(p)'
  <2> SUFFICES ASSUME Seal(p) PROVE Control(p)' /\ Reading(p)'
    OBVIOUS
  <2>1. /\ phase[p] = "reading" /\ command[p].op = "seal" /\ Sealable(Options(p))
        /\ phase'[p] = "writing" /\ command'[p] = command[p] /\ reads'[p] = reads[p]
        /\ held'[p] = held[p] /\ todo'[p] = Outputs(command[p]) /\ open'[p] = open[p]
        /\ exit'[p] = exit[p] /\ source'[p] = source[p]
    BY DEF Seal, Publish, Ready, TypeOK, history
  <2>2. exit[p] # 0 /\ open[p] = NoPath
    BY <2>1 DEF TypeOK, Control
  <2>3. Published(p)'
    BY <2>1 DEF Published, Options
  <2>4. Control(p)'
    BY <2>1, <2>2, <2>3 DEF Control
  <2> QED BY <2>1, <2>4 DEF Reading
<1>10. Verify(p) \/ Inspect(p) => Control(p)' /\ Reading(p)'
  BY Ends DEF Verify, Inspect, Ready
<1>11. Finish(p) => Control(p)' /\ Reading(p)'
  BY Ends DEF Finish
<1>12. Stop(p) => Control(p)' /\ Reading(p)'
  <2> SUFFICES ASSUME Stop(p) PROVE Control(p)' /\ Reading(p)'
    OBVIOUS
  <2>1. /\ phase[p] = "writing" /\ phase'[p] = "ended" /\ command'[p] = command[p]
        /\ reads'[p] = reads[p] /\ open'[p] = NoPath /\ exit'[p] = 1 /\ source'[p] = source[p]
        /\ held'[p] = held[p]
    BY DEF Stop, TypeOK, history
  <2>2. Control(p)'
    BY <2>1 DEF Control
  <2> QED BY <2>1, <2>2 DEF Reading
<1> QED
  BY <1>1, <1>2, <1>3, <1>4, <1>5, <1>6, <1>7, <1>8, <1>9, <1>10, <1>11, <1>12 DEF Act

-----------------------------------------------------------------------------
(* The answers of verify.                                                   *)
LEMMA AnsweredStep ==
  ASSUME NEW p \in Processes, TypeOK, Control(p), Act(p)
  PROVE  Answered(p)'
<1>1. ASSUME NEW c \in Commands[p], Start(p, c) \/ Generate(p, c) PROVE phase'[p] # "ended"
  BY <1>1 DEF Start, Generate, Publish, TypeOK
<1>2. ASSUME NEW c \in Commands[p], UnknownAlgorithm(p, c)
      PROVE  command'[p].op = "generate"
  BY <1>2 DEF UnknownAlgorithm, TypeOK
<1>3. ASSUME NEW r \in Roles, Read(p, r) \/ Open(p, r) \/ Write(p, r) PROVE phase'[p] # "ended"
  BY <1>3 DEF Read, Open, Write, TypeOK, Control
<1>4. ASSUME NEW r \in Roles, ReadFails(p, r) PROVE Answered(p)'
  <2>1. exit'[p] = 1 /\ reads'[p] = reads[p] /\ reads[p] # {}
    BY <1>4 DEF ReadFails, End, Turn, TypeOK
  <2> QED BY <2>1 DEF Answered
<1>5. Refuse(p) => Answered(p)'
  <2>1. Refuse(p) => exit'[p] = 1 /\ command'[p] = command[p] /\ ~command[p].usable
    BY DEF Refuse, End, TypeOK
  <2> QED BY <2>1 DEF Answered
<1>6. Seal(p) \/ SealFails(p) \/ Inspect(p) => command'[p] = command[p] /\ command[p].op # "verify"
  BY DEF Seal, Publish, SealFails, Inspect, Ready, End
<1>7. Finish(p) \/ Stop(p) => command'[p] = command[p] /\ command[p].op # "verify"
  BY DEF Finish, End, Stop, Control
<1>8. Verify(p) => Answered(p)'
  <2> SUFFICES ASSUME Verify(p) PROVE Answered(p)'
    OBVIOUS
  <2>1. PICK x \in Verifications(held[p].bundle.doc, Config(p)) : End(p, ExitCode(x))
    BY DEF Verify
  <2>2. reads'[p] = {} /\ command'[p] = command[p] /\ held'[p] = held[p]
    BY <2>1 DEF Verify, Ready, End
  <2>3. exit'[p] = ExitCode(x)
    BY <2>1 DEF End, TypeOK
  <2>4. Config(p)' = Config(p)
    BY <2>2 DEF Config
  <2> QED BY <2>2, <2>3, <2>4 DEF Answered
<1> QED
  BY <1>1, <1>2, <1>3, <1>4, <1>5, <1>6, <1>7, <1>8 DEF Act, Answered

-----------------------------------------------------------------------------
(* Files.                                                                   *)
Opening(p) == \E r \in Roles : Open(p, r)
Closing(p) == Stop(p) \/ \E r \in Roles : Write(p, r)

(* Only opening and closing touches a file.                                 *)
LEMMA FilesAlone ==
  ASSUME NEW p \in Processes, Act(p)
  PROVE  \/ Opening(p) \/ Closing(p)
         \/ UNCHANGED <<files, open, shared, last, clean>>
<1>1. ASSUME NEW c \in Commands[p], Start(p, c) \/ Generate(p, c) \/ UnknownAlgorithm(p, c)
      PROVE  UNCHANGED <<files, open, shared, last, clean>>
  BY <1>1 DEF Start, Generate, UnknownAlgorithm, Publish, history
<1>2. ASSUME NEW r \in Roles, Read(p, r) PROVE UNCHANGED <<files, open, shared, last, clean>>
  BY <1>2 DEF Read
<1>3. ASSUME NEW code, End(p, code) PROVE UNCHANGED <<files, open, shared, last, clean>>
  BY <1>3 DEF End, history
<1>4. Seal(p) => UNCHANGED <<files, open, shared, last, clean>>
  BY DEF Seal, Publish, history
<1> QED
  BY <1>1, <1>2, <1>3, <1>4
     DEF Act, Opening, Closing, ReadFails, Refuse, SealFails, Verify, Inspect, Finish

(* What opening and closing does to the files and who has them open.        *)
Took(p, f) ==
  /\ f \in Paths /\ open'[p] = f /\ last'[f] = p /\ files'[f] = Torn
  /\ \A g \in Paths \ {f} : last'[g] = last[g] /\ files'[g] = files[g]
  /\ (shared'[p] <=> Sharing(p, f) # {}) /\ (clean'[p] <=> clean[p] /\ Sharing(p, f) = {})
  /\ \A q \in Processes \ {p} :
       /\ open'[q] = open[q] /\ clean'[q] = clean[q]
       /\ (shared'[q] <=> shared[q] \/ open[q] = f)

LEMMA OpeningEffect ==
  ASSUME NEW p \in Processes, TypeOK, Control(p), NEW r \in Roles, Open(p, r)
  PROVE  Took(p, OutPath(command[p], r))
<1> DEFINE f == OutPath(command[p], r)
<1>1. f \in Paths
  BY DataContent DEF Open, Turn
<1>2. /\ files' = [files EXCEPT ![f] = Torn] /\ open' = [open EXCEPT ![p] = f]
      /\ shared' = [q \in Processes |-> IF q = p THEN Sharing(p, f) # {}
                                        ELSE shared[q] \/ open[q] = f]
      /\ last' = [last EXCEPT ![f] = p]
      /\ clean' = [clean EXCEPT ![p] = @ /\ Sharing(p, f) = {}]
  BY DEF Open
<1>3. files'[f] = Torn /\ last'[f] = p /\ open'[p] = f
  BY <1>1, <1>2 DEF TypeOK
<1>4. \A g \in Paths \ {f} : last'[g] = last[g] /\ files'[g] = files[g]
  BY <1>2 DEF TypeOK
<1>5. shared'[p] <=> Sharing(p, f) # {}
  BY <1>2
<1>6. clean'[p] <=> clean[p] /\ Sharing(p, f) = {}
  BY <1>2 DEF TypeOK
<1>7. \A q \in Processes \ {p} : open'[q] = open[q] /\ clean'[q] = clean[q]
  BY <1>2 DEF TypeOK
<1>8. \A q \in Processes \ {p} : (shared'[q] <=> shared[q] \/ open[q] = f)
  BY <1>2
<1> QED BY <1>1, <1>3, <1>4, <1>5, <1>6, <1>7, <1>8 DEF Took

LEMMA ClosingEffect ==
  ASSUME NEW p \in Processes, TypeOK, Closing(p)
  PROVE  /\ open'[p] = NoPath
         /\ \A q \in Processes \ {p} : open'[q] = open[q]
         /\ UNCHANGED <<shared, last, clean>>
         /\ \A g \in Paths \ {open[p]} : files'[g] = files[g]
<1>1. ASSUME NEW r \in Roles, Write(p, r)
      PROVE  \A g \in Paths \ {open[p]} : files'[g] = files[g]
  BY <1>1 DEF Write, TypeOK
<1>2. Stop(p) => \A g \in Paths \ {open[p]} : files'[g] = files[g]
  BY DEF Stop, TypeOK
<1>3. /\ open'[p] = NoPath
      /\ \A q \in Processes \ {p} : open'[q] = open[q]
      /\ UNCHANGED <<shared, last, clean>>
  BY DEF Closing, Write, Stop, TypeOK, history
<1> QED BY <1>1, <1>2, <1>3 DEF Closing

LEMMA OverlapsStep ==
  ASSUME NEW p \in Processes, TypeOK, Control(p), Overlaps, Act(p)
  PROVE  Overlaps'
<1>1. CASE Opening(p)
  <2>1. PICK r \in Roles : Open(p, r)
    BY <1>1 DEF Opening
  <2> DEFINE f == OutPath(command[p], r)
  <2>2. Took(p, f)
    BY <2>1, OpeningEffect
  <2>3. ASSUME NEW x \in Processes, open'[x] # NoPath, shared'[x]
        PROVE  ~clean'[x] \/ last'[open'[x]] # x
    <3>1. CASE x = p
      BY <3>1, <2>2, <2>3 DEF Took
    <3>2. CASE x # p /\ open[x] = f
      BY <3>2, <2>2 DEF Took
    <3>3. CASE x # p /\ open[x] # f
      BY <3>3, <2>2, <2>3 DEF Took, Overlaps, TypeOK
    <3> QED BY <3>1, <3>2, <3>3
  <2>4. ASSUME NEW x \in Processes, NEW y \in Processes, y # x, open'[y] # NoPath,
               last'[open'[y]] = x
        PROVE  ~clean'[x]
    <3>1. y # p /\ open[y] = open'[y]
      BY <2>2, <2>4 DEF Took
    <3>2. CASE open[y] = f
      <4>1. x = p
        BY <3>1, <3>2, <2>2, <2>4 DEF Took
      <4>2. y \in Sharing(p, f)
        BY <3>1, <3>2 DEF Sharing
      <4> QED BY <4>1, <4>2, <2>2 DEF Took
    <3>3. CASE open[y] # f
      <4>1. last[open[y]] = x
        BY <3>1, <3>3, <2>2, <2>4 DEF Took, TypeOK
      <4>2. ~clean[x]
        BY <4>1, <3>1, <2>4 DEF Overlaps
      <4> QED BY <4>2, <2>2 DEF Took
    <3> QED BY <3>2, <3>3
  <2> QED BY <2>3, <2>4 DEF Overlaps
<1>2. CASE Closing(p)
  <2>1. /\ open'[p] = NoPath
        /\ \A q \in Processes \ {p} : open'[q] = open[q]
        /\ UNCHANGED <<shared, last, clean>>
    BY <1>2, ClosingEffect
  <2> QED BY <2>1 DEF Overlaps
<1>3. CASE UNCHANGED <<files, open, shared, last, clean>>
  BY <1>3 DEF Overlaps
<1> QED BY <1>1, <1>2, <1>3, FilesAlone

-----------------------------------------------------------------------------
(* What is written stays.                                                   *)
LEMMA OthersWritten ==
  ASSUME NEW p \in Processes, NEW q \in Processes \ {p}, TypeOK, Control(p), Overlaps, Act(p),
         Written(q)
  PROVE  Written(q)'
<1>1. /\ phase'[q] = phase[q] /\ command'[q] = command[q] /\ todo'[q] = todo[q]
      /\ exit'[q] = exit[q] /\ clean'[q] = clean[q]
  BY OthersAlone DEF Others
<1> SUFFICES ASSUME phase[q] = "writing" \/ exit[q] = 0,
                    NEW r \in Outputs(command[q]) \ todo[q],
                    clean[q], last'[OutPath(command[q], r)] = q,
                    ~Overwritten(command[q], r)
             PROVE  files'[OutPath(command[q], r)] = Data(q, r)'
  BY <1>1 DEF Written
<1> DEFINE g == OutPath(command[q], r)
<1>2. command[q] \in Commands[q]
  <2> HIDE FormatAssumption
  <2>1. phase[q] # "idle"
    <3>1. (exit[q] # None) <=> (phase[q] = "ended")
      BY DEF TypeOK
    <3> QED BY <3>1
  <2> HIDE CommandsAssumption
  <2> QED BY <2>1 DEF TypeOK
<1>3. g \in Paths /\ r \in Roles
  BY <1>2, OutPaths
<1>4. Data(q, r)' = Data(q, r)
  BY <1>3, OthersKeep
<1>5. last[g] = q => files[g] = Data(q, r)
  BY DEF Written
<1>6. CASE Opening(p)
  <2>1. PICK w \in Roles : Open(p, w)
    BY <1>6 DEF Opening
  <2>2. Took(p, OutPath(command[p], w))
    BY <2>1, OpeningEffect
  <2>3. g # OutPath(command[p], w)
    BY <2>2 DEF Took
  <2>4. last'[g] = last[g] /\ files'[g] = files[g]
    BY <1>3, <2>2, <2>3 DEF Took
  <2> QED BY <1>4, <1>5, <2>4
<1>7. CASE Closing(p)
  <2>1. last' = last /\ \A h \in Paths \ {open[p]} : files'[h] = files[h]
    BY <1>7, ClosingEffect
  <2>2. g # open[p]
    BY <2>1, <1>3 DEF Overlaps
  <2> QED BY <1>3, <1>4, <1>5, <2>1, <2>2
<1>8. CASE UNCHANGED <<files, open, shared, last, clean>>
  BY <1>4, <1>5, <1>8
<1> QED BY <1>6, <1>7, <1>8, FilesAlone

(* Two outputs of a run in one file: the private key is the overwritten one. *)
LEMMA OneFile ==
  ASSUME NEW p \in Processes, NEW c \in Commands[p], NEW r \in Outputs(c), NEW w \in Outputs(c),
         r # w, OutPath(c, r) = OutPath(c, w), ~Overwritten(c, r)
  PROVE  r = "public" /\ w = "private"
<1>1. r \in {"private", "public"} /\ w \in {"private", "public"}
  BY DEF Outputs
<1>2. r = "private" => w = "public" /\ PublicPath(c) = c.private
  BY <1>1 DEF OutPath
<1> QED BY <1>1, <1>2 DEF Overwritten

(* There is one role whose turn it is.                                      *)
LEMMA OneTurn ==
  ASSUME NEW p \in Processes, NEW c \in Commands[p], NEW S \in SUBSET Outputs(c),
         NEW r, Turn(S, r), NEW w, Turn(S, w)
  PROVE  r = w
  BY DEF Turn, Outputs

LEMMA WrittenStep ==
  ASSUME NEW p \in Processes, TypeOK, Control(p), Overlaps, Act(p), Written(p)
  PROVE  Written(p)'
<1>1. ASSUME NEW c \in Commands[p], Start(p, c) \/ UnknownAlgorithm(p, c)
      PROVE  phase'[p] # "writing" /\ exit'[p] # 0
  <2>1. Start(p, c) => phase[p] = "idle" /\ phase'[p] = "reading" /\ exit' = exit
    BY DEF Start, TypeOK
  <2>2. UnknownAlgorithm(p, c) => phase'[p] = "ended" /\ exit'[p] = 1
    BY DEF UnknownAlgorithm, TypeOK
  <2>3. phase[p] = "idle" => exit[p] # 0
    BY DEF TypeOK
  <2> QED BY <1>1, <2>1, <2>2, <2>3
<1>2. ASSUME NEW c \in Commands[p], Generate(p, c) PROVE Written(p)'
  <2>1. command'[p] = c /\ todo'[p] = Outputs(c)
    BY <1>2 DEF Generate, Publish, TypeOK
  <2> QED BY <2>1 DEF Written
<1>3. ASSUME NEW r \in Roles, Read(p, r) \/ ReadFails(p, r)
      PROVE  phase'[p] # "writing" /\ exit'[p] # 0
  BY <1>3 DEF Read, ReadFails, End, TypeOK
<1>4. ASSUME NEW r \in Roles, Open(p, r) PROVE Written(p)'
  <2> DEFINE f == OutPath(command[p], r)
  <2>1. /\ phase[p] = "writing" /\ Turn(todo[p], r) /\ command'[p] = command[p]
        /\ todo'[p] = todo[p] /\ exit'[p] = exit[p] /\ held'[p] = held[p]
    BY <1>4 DEF Open
  <2>2. Took(p, f)
    BY <1>4, OpeningEffect
  <2> SUFFICES ASSUME NEW w \in Outputs(command[p]) \ todo[p], clean[p],
                      last'[OutPath(command[p], w)] = p, ~Overwritten(command[p], w)
               PROVE  files'[OutPath(command[p], w)] = Data(p, w)'
    BY <2>1, <2>2 DEF Written, Took
  <2>3. Data(p, w)' = Data(p, w)
    BY <2>1 DEF Data, Options
  <2>4. command[p] \in Commands[p] /\ r \in Outputs(command[p]) /\ w # r
    BY <2>1 DEF TypeOK, Control, Turn
  <2>5. OutPath(command[p], w) # f
    BY <2>1, <2>4, OneFile DEF Control, Turn
  <2>6. OutPath(command[p], w) \in Paths
    BY <2>4, OutPaths
  <2> QED BY <2>1, <2>2, <2>3, <2>5, <2>6 DEF Took, Written
<1>5. ASSUME NEW r \in Roles, Write(p, r) PROVE Written(p)'
  <2>1. /\ phase[p] = "writing" /\ Turn(todo[p], r) /\ command'[p] = command[p]
        /\ todo'[p] = todo[p] \ {r} /\ exit'[p] = exit[p] /\ held'[p] = held[p]
        /\ last' = last /\ clean' = clean /\ open[p] # NoPath
    BY <1>5 DEF Write, Control, TypeOK, history
  <2>2. command[p] \in Commands[p] /\ r \in Outputs(command[p])
    BY <2>1 DEF TypeOK, Control, Turn
  <2>3. open[p] = OutPath(command[p], r)
    <3>1. PICK w \in Roles : Turn(todo[p], w) /\ open[p] = OutPath(command[p], w)
      BY <2>1 DEF Control
    <3>2. todo[p] \in SUBSET Outputs(command[p])
      BY <2>1 DEF Control
    <3> QED BY <2>1, <2>2, <3>1, <3>2, OneTurn
  <2> SUFFICES ASSUME NEW w \in Outputs(command[p]) \ todo'[p], clean[p],
                      last[OutPath(command[p], w)] = p, ~Overwritten(command[p], w)
               PROVE  files'[OutPath(command[p], w)] = Data(p, w)'
    BY <2>1 DEF Written
  <2>4. Data(p, w)' = Data(p, w)
    BY <2>1 DEF Data, Options
  <2>5. CASE w = r
    <3>1. ~shared[p]
      BY <2>1, <2>3, <2>5 DEF Overlaps
    <3>2. files' = [files EXCEPT ![open[p]] = Data(p, r)]
      BY <1>5, <3>1 DEF Write
    <3>3. open[p] \in Paths
      BY <2>2, <2>3, OutPaths
    <3> QED BY <2>3, <2>4, <2>5, <3>2, <3>3 DEF TypeOK
  <2>6. CASE w # r
    <3>1. w \in Outputs(command[p]) \ todo[p]
      BY <2>1, <2>6
    <3>2. OutPath(command[p], w) # open[p]
      BY <2>1, <2>2, <2>3, <2>6, <3>1, OneFile DEF Control, Turn
    <3>3. OutPath(command[p], w) \in Paths
      BY <2>2, <3>1, OutPaths
    <3>4. files'[OutPath(command[p], w)] = files[OutPath(command[p], w)]
      BY <1>5, <3>2, <3>3, ClosingEffect DEF Closing
    <3> QED BY <2>1, <2>4, <3>1, <3>4 DEF Written
  <2> QED BY <2>5, <2>6
<1>6. Refuse(p) \/ SealFails(p) \/ Stop(p) => phase'[p] # "writing" /\ exit'[p] # 0
  BY DEF Refuse, SealFails, Stop, End, TypeOK
<1>7. Seal(p) => Written(p)'
  <2>1. Seal(p) => command'[p] = command[p] /\ todo'[p] = Outputs(command[p])
    BY DEF Seal, Publish, TypeOK
  <2> QED BY <2>1 DEF Written
<1>8. Verify(p) \/ Inspect(p) => Written(p)'
  <2>1. Verify(p) \/ Inspect(p) => command'[p] = command[p] /\ Outputs(command[p]) = {}
    BY DEF Verify, Inspect, Ready, End, Outputs
  <2> QED BY <2>1 DEF Written
<1>9. Finish(p) => Written(p)'
  <2> SUFFICES ASSUME Finish(p) PROVE Written(p)'
    OBVIOUS
  <2>1. /\ phase[p] = "writing" /\ command'[p] = command[p] /\ todo'[p] = todo[p]
        /\ held'[p] = held[p] /\ files' = files /\ last' = last /\ clean' = clean
    BY DEF Finish, End, history
  <2>2. \A r : Data(p, r)' = Data(p, r)
    BY <2>1 DEF Data, Options
  <2> QED BY <2>1, <2>2 DEF Written
<1>10. phase'[p] # "writing" /\ exit'[p] # 0 => Written(p)'
  BY DEF Written
<1> QED
  BY <1>1, <1>2, <1>3, <1>4, <1>5, <1>6, <1>7, <1>8, <1>9, <1>10 DEF Act

-----------------------------------------------------------------------------
(* Who opened a file last, and what was read from him.                      *)
LEMMA CommandStays ==
  ASSUME NEW p \in Processes, TypeOK, Control(p), Act(p), NEW q \in Processes,
         phase[q] \in {"writing", "ended"}
  PROVE  /\ command'[q] = command[q] /\ held'[q] = held[q]
         /\ phase'[q] \in {"writing", "ended"}
<1>1. CASE q # p
  BY <1>1, OthersAlone DEF Others
<1>2. CASE q = p
  <2>1. phase[p] = "writing"
    BY <1>2, EndIsFinal
  <2>2. ASSUME NEW c \in Commands[p], Start(p, c) \/ Generate(p, c) \/ UnknownAlgorithm(p, c)
        PROVE  FALSE
    BY <2>1, <2>2 DEF Start, Generate, UnknownAlgorithm
  <2>3. ASSUME NEW r \in Roles, Read(p, r) \/ ReadFails(p, r) PROVE FALSE
    BY <2>1, <2>3 DEF Read, ReadFails
  <2>4. ASSUME NEW r \in Roles, Open(p, r) \/ Write(p, r)
        PROVE  command' = command /\ held' = held /\ phase' = phase
    BY <2>4 DEF Open, Write, history
  <2>5. ~(Refuse(p) \/ Seal(p) \/ SealFails(p) \/ Verify(p) \/ Inspect(p))
    BY <2>1 DEF Refuse, Seal, SealFails, Verify, Inspect, Ready
  <2>6. Finish(p) \/ Stop(p) => command' = command /\ held' = held /\ phase'[p] = "ended"
    BY DEF Finish, End, Stop, TypeOK, history
  <2> QED BY <1>2, <2>1, <2>2, <2>3, <2>4, <2>5, <2>6 DEF Act
<1> QED BY <1>1, <1>2

LEMMA OpenedStep ==
  ASSUME NEW p \in Processes, TypeOK, Control(p), Opened, Act(p)
  PROVE  Opened'
<1> SUFFICES ASSUME NEW f \in Paths, last'[f] # None
             PROVE  /\ phase'[last'[f]] \in {"writing", "ended"}
                    /\ \E r \in Outputs(command'[last'[f]]) : OutPath(command'[last'[f]], r) = f
  BY DEF Opened
<1>1. CASE last'[f] = last[f]
  <2>1. last[f] \in Processes /\ phase[last[f]] \in {"writing", "ended"}
    BY <1>1 DEF Opened, TypeOK
  <2>2. command'[last[f]] = command[last[f]] /\ phase'[last[f]] \in {"writing", "ended"}
    BY <2>1, CommandStays
  <2> QED BY <1>1, <2>2 DEF Opened
<1>2. CASE last'[f] # last[f]
  <2>1. Opening(p)
    BY <1>2, FilesAlone, ClosingEffect
  <2>2. PICK r \in Roles : Open(p, r)
    BY <2>1 DEF Opening
  <2>3. last'[f] = p /\ f = OutPath(command[p], r)
    BY <1>2, <2>2, OpeningEffect DEF Took
  <2>4. /\ phase'[p] = "writing" /\ command'[p] = command[p]
        /\ r \in Outputs(command[p])
    BY <2>2 DEF Open, Turn, Control
  <2> QED BY <2>3, <2>4
<1> QED BY <1>1, <1>2

LEMMA DeliveredStep ==
  ASSUME NEW p \in Processes, TypeOK, \A q \in Processes : Control(q) /\ Reading(q) /\ Written(q),
         Opened, Act(p), NEW q \in Processes, Delivered(q)
  PROVE  Delivered(q)'
<1> SUFFICES ASSUME NEW r \in Roles, NEW g \in Processes, source'[q][r] = g
             PROVE  /\ phase'[g] = "ended"
                    /\ \E w \in Outputs(command'[g]) : OutPath(command'[g], w) = InPath(command'[q], r)
                    /\ (exit'[g] = 0 /\ clean'[g]) =>
                         \A w \in Outputs(command'[g]) :
                           (/\ OutPath(command'[g], w) = InPath(command'[q], r)
                            /\ ~Overwritten(command'[g], w))
                             => held'[q][r] = Data(g, w)'
  BY DEF Delivered
(* The run that has ended stays as it is. *)
<1>1. ASSUME phase[g] = "ended"
      PROVE  /\ phase'[g] = "ended" /\ command'[g] = command[g] /\ exit'[g] = exit[g]
             /\ clean'[g] = clean[g] /\ g # p /\ \A w \in Roles : Data(g, w)' = Data(g, w)
  <2>1. g # p
    BY <1>1, EndIsFinal
  <2> QED BY <1>1, <2>1, OthersAlone, OthersKeep DEF Others
<1>2. CASE source'[q][r] = source[q][r] /\ command'[q] = command[q] /\ held'[q][r] = held[q][r]
  <2>1. phase[g] = "ended"
    BY <1>2 DEF Delivered
  <2>2. \A w \in Outputs(command[g]) : w \in Roles
    BY <2>1, OutPaths DEF TypeOK
  <2>3. \E w \in Outputs(command[g]) : OutPath(command[g], w) = InPath(command[q], r)
    BY <1>2 DEF Delivered
  <2>4. ASSUME exit[g] = 0, clean[g], NEW w \in Outputs(command[g]),
               OutPath(command[g], w) = InPath(command[q], r), ~Overwritten(command[g], w)
        PROVE  held'[q][r] = Data(g, w)'
    <3>1. held[q][r] = Data(g, w)
      BY <1>2, <2>4 DEF Delivered
    <3> QED BY <1>1, <1>2, <2>1, <2>2, <3>1
  <2>5. command'[q] = command[q] /\ command'[g] = command[g] /\ exit'[g] = exit[g]
        /\ clean'[g] = clean[g] /\ phase'[g] = "ended"
    BY <1>1, <1>2, <2>1
  <2>6. \E w \in Outputs(command'[g]) : OutPath(command'[g], w) = InPath(command'[q], r)
    BY <2>3, <2>5
  <2>7. (exit'[g] = 0 /\ clean'[g]) =>
          \A w \in Outputs(command'[g]) :
            (/\ OutPath(command'[g], w) = InPath(command'[q], r)
             /\ ~Overwritten(command'[g], w))
              => held'[q][r] = Data(g, w)'
    BY <2>4, <2>5
  <2> QED BY <2>5, <2>6, <2>7
<1>3. CASE \E w \in Roles : Read(p, w) /\ q = p /\ w = r
  <2> DEFINE f == InPath(command[p], r)
  <2>1. /\ Read(p, r) /\ q = p /\ command'[p] = command[p] /\ phase[p] = "reading"
        /\ r \in reads[p]
    BY <1>3 DEF Read, Turn
  <2>2. source'[p][r] = Author(f) /\ held'[p][r] = files[f]
    BY <2>1 DEF Read, TypeOK
  <2>3. f \in Paths
    BY <2>1, InPaths DEF Control, TypeOK
  <2>4. g = last[f] /\ phase[g] = "ended"
    BY <2>1, <2>2 DEF Author
  <2>5. \E w \in Outputs(command[g]) : OutPath(command[g], w) = f
    BY <2>3, <2>4 DEF Opened
  <2>6. ASSUME exit[g] = 0, clean[g], NEW w \in Outputs(command[g]),
               OutPath(command[g], w) = f, ~Overwritten(command[g], w)
        PROVE  files[f] = Data(g, w)
    BY <2>4, <2>6 DEF Written, Control
  <2>7. \A w \in Outputs(command[g]) : w \in Roles
    BY <2>4, OutPaths DEF TypeOK
  <2> HIDE FormatAssumption, CommandsAssumption DEF f
  <2>8. /\ phase'[g] = "ended" /\ command'[g] = command[g] /\ exit'[g] = exit[g]
        /\ clean'[g] = clean[g] /\ \A w \in Roles : Data(g, w)' = Data(g, w)
    BY <1>1, <2>4
  <2>9. f = InPath(command'[q], r) /\ held'[q][r] = files[f]
    BY <2>1, <2>2 DEF f
  <2>10. ASSUME exit'[g] = 0, clean'[g], NEW w \in Outputs(command'[g]),
                OutPath(command'[g], w) = InPath(command'[q], r), ~Overwritten(command'[g], w)
         PROVE  held'[q][r] = Data(g, w)'
    BY <2>6, <2>7, <2>8, <2>9, <2>10
  <2>11. \E w \in Outputs(command'[g]) : OutPath(command'[g], w) = InPath(command'[q], r)
    BY <2>5, <2>8, <2>9
  <2> QED BY <2>8, <2>10, <2>11
<1>4. \/ source'[q][r] = source[q][r] /\ command'[q] = command[q] /\ held'[q][r] = held[q][r]
      \/ \E w \in Roles : Read(p, w) /\ q = p /\ w = r
  <2>1. CASE q # p
    BY <2>1, OthersAlone DEF Others
  <2>2. CASE q = p
    <3>1. ASSUME NEW c \in Commands[p], Start(p, c) \/ Generate(p, c) \/ UnknownAlgorithm(p, c)
          PROVE  FALSE
      <4>1. phase[p] = "idle" /\ source' = source
        BY <3>1 DEF Start, Generate, UnknownAlgorithm, Publish, history
      <4>2. source[p][r] = None
        BY <4>1 DEF Reading
      <4> QED BY <2>2, <4>1, <4>2
    <3>2. ASSUME NEW w \in Roles, Read(p, w), w # r
          PROVE  source'[p][r] = source[p][r] /\ command'[p] = command[p] /\ held'[p][r] = held[p][r]
      BY <3>2 DEF Read, TypeOK
    <3>3. ASSUME NEW code, End(p, code)
          PROVE  source' = source /\ command' = command /\ held' = held
      BY <3>3 DEF End, history
    <3>4. ASSUME NEW w \in Roles, Open(p, w) \/ Write(p, w)
          PROVE  source' = source /\ command' = command /\ held' = held
      BY <3>4 DEF Open, Write, history
    <3>5. Seal(p) \/ Stop(p) => source' = source /\ command' = command /\ held' = held
      BY DEF Seal, Publish, Stop, history
    <3> QED
      BY <2>2, <3>1, <3>2, <3>3, <3>4, <3>5
         DEF Act, ReadFails, Refuse, SealFails, Verify, Inspect, Finish
  <2> QED BY <2>1, <2>2
<1> QED BY <1>2, <1>3, <1>4

-----------------------------------------------------------------------------
(* Where bundles come from.                                                 *)
LEMMA BundlesStep ==
  ASSUME NEW p \in Processes, TypeOK, Control(p), Bundles, Act(p)
  PROVE  Bundles'
(* A run that has sealed has done so for good. *)
<1>1. ASSUME NEW s \in Processes, phase[s] \in {"writing", "ended"}
      PROVE  /\ phase'[s] \in {"writing", "ended"} /\ command'[s] = command[s]
             /\ held'[s] = held[s]
  BY <1>1, CommandStays
(* No content is new but what seal writes. *)
<1>2. ASSUME NEW f \in Paths, files'[f].kind = "bundle", files'[f] # files[f]
      PROVE  /\ phase[p] = "writing" /\ command[p].op = "seal" /\ Sealable(Options(p))
             /\ files'[f] = BundleJson(Document(Options(p)))
  <2>1. Torn.kind # "bundle"
    BY DEF Torn
  <2>2. ~Opening(p)
    BY <1>2, <2>1, OpeningEffect DEF Opening, Took
  <2>3. ~Stop(p)
    BY <1>2, <2>1 DEF Stop, TypeOK
  <2>4. PICK r \in Roles : Write(p, r)
    BY <1>2, <2>2, <2>3, FilesAlone DEF Closing
  <2>5. phase[p] = "writing" /\ r \in Outputs(command[p])
    BY <2>4 DEF Write, Turn, Control
  <2>6. files'[f] = Data(p, r)
    BY <1>2, <2>1, <2>4 DEF Write, TypeOK
  <2>7. r \notin {"private", "public"}
    BY <1>2, <2>6 DEF Data, PrivatePem, PublicPem
  <2>8. command[p].op = "seal"
    BY <2>5, <2>7 DEF Outputs
  <2> QED BY <2>5, <2>6, <2>7, <2>8 DEF Data, Control, Published
<1>3. ASSUME NEW f \in Paths, files'[f].kind = "bundle" PROVE Sealed(files[f])'
  <2>1. PICK s \in Processes :
          /\ phase[s] \in {"writing", "ended"} /\ command[s].op = "seal"
          /\ Sealable(Options(s)) /\ files'[f] = BundleJson(Document(Options(s)))
    BY <1>2, <1>3 DEF Bundles, Sealed
  <2>2. Options(s)' = Options(s)
    BY <1>1, <2>1 DEF Options
  <2> QED BY <1>1, <2>1, <2>2 DEF Sealed
<1>4. ASSUME NEW q \in Processes, held'[q].bundle.kind = "bundle" PROVE Sealed(held[q].bundle)'
  <2>1. \/ held'[q].bundle = held[q].bundle
        \/ \E f \in Paths : held'[q].bundle = files[f]
    <3>1. CASE q # p
      BY <3>1, OthersAlone DEF Others
    <3>2. ASSUME NEW r \in Roles, Read(p, r), q = p
          PROVE  \/ held'[q].bundle = held[q].bundle
                 \/ \E f \in Paths : held'[q].bundle = files[f]
      <4>1. InPath(command[p], r) \in Paths
        BY <3>2, InPaths DEF Read, Turn, Control, TypeOK
      <4>2. held' = [held EXCEPT ![p][r] = files[InPath(command[p], r)]]
        BY <3>2 DEF Read
      <4>3. CASE r = "bundle"
        BY <3>2, <4>1, <4>2, <4>3 DEF TypeOK, Roles
      <4>4. CASE r # "bundle"
        BY <3>2, <4>2, <4>4 DEF TypeOK, Roles
      <4> QED BY <4>3, <4>4
    <3>3. (\A r \in Roles : ~Read(p, r)) => held' = held
      BY DEF Act, Start, Generate, UnknownAlgorithm, ReadFails, Open, Write, Refuse, Seal, Publish,
             SealFails, Verify, Inspect, Finish, Stop, End, history
    <3> QED BY <3>1, <3>2, <3>3
  <2>2. PICK s \in Processes :
          /\ phase[s] \in {"writing", "ended"} /\ command[s].op = "seal"
          /\ Sealable(Options(s)) /\ held'[q].bundle = BundleJson(Document(Options(s)))
    BY <1>4, <2>1 DEF Bundles, Sealed
  <2>3. Options(s)' = Options(s)
    BY <1>1, <2>2 DEF Options
  <2> QED BY <1>1, <2>2, <2>3 DEF Sealed
<1> QED BY <1>3, <1>4 DEF Bundles

-----------------------------------------------------------------------------
LEMMA Stuttering ==
  ASSUME IInv, UNCHANGED vars PROVE IInv'
<1>1. \A p \in Processes : Options(p)' = Options(p) /\ Config(p)' = Config(p)
  BY DEF vars, Options, Config
<1>2. \A p \in Processes : \A r : Data(p, r)' = Data(p, r)
  BY <1>1 DEF vars, Data
<1>3. TypeOK' /\ Overlaps' /\ Opened'
  BY DEF IInv, vars, TypeOK, Overlaps, Opened
<1>4. Bundles'
  BY <1>1 DEF IInv, vars, Bundles, Sealed
<1>5. \A p \in Processes : Control(p)' /\ Reading(p)'
  BY <1>1 DEF IInv, vars, Control, Published, Reading
<1>6. \A p \in Processes : Answered(p)'
  BY <1>1 DEF IInv, vars, Answered
<1>7. \A p \in Processes : Written(p)'
  <2> HIDE FormatAssumption, CommandsAssumption
  <2> QED BY <1>2 DEF IInv, vars, Written
<1>8. ASSUME NEW p \in Processes PROVE Delivered(p)'
  <2> HIDE FormatAssumption, CommandsAssumption
  <2>1. Delivered(p)
    BY DEF IInv
  <2>2. /\ source' = source /\ phase' = phase /\ command' = command /\ exit' = exit
        /\ clean' = clean /\ held' = held
    BY DEF vars
  <2> QED BY <1>2, <2>1, <2>2 DEF Delivered
<1> QED BY <1>3, <1>4, <1>5, <1>6, <1>7, <1>8 DEF IInv

LEMMA Step ==
  ASSUME IInv, NEW p \in Processes, Act(p) PROVE IInv'
<1>1. TypeOK' /\ Overlaps' /\ Opened' /\ Bundles'
  BY TypeStep, OverlapsStep, OpenedStep, BundlesStep DEF IInv
<1>2. Control(p)' /\ Reading(p)' /\ Answered(p)' /\ Written(p)'
  BY ControlStep, AnsweredStep, WrittenStep DEF IInv
<1>3. ASSUME NEW q \in Processes \ {p}
      PROVE  Control(q)' /\ Reading(q)' /\ Answered(q)' /\ Written(q)'
  BY OthersKeep, OthersWritten DEF IInv
<1>4. \A q \in Processes : Delivered(q)'
  BY DeliveredStep DEF IInv
<1> QED BY <1>1, <1>2, <1>3, <1>4 DEF IInv

LEMMA Invariance == Spec => []IInv
<1>1. IInv /\ [Next]_vars => IInv'
  BY Stuttering, Step DEF Next, Act
<1> QED BY InitHolds, <1>1, PTL DEF Spec

(* The state of the runs and of the files has the types above: no step      *)
(* leaves a file with anything but a key, a bundle or broken text, and no   *)
(* run without the exit code the program has for its case.                  *)
THEOREM TypeCorrect == Spec => []TypeOK
<1>1. IInv => TypeOK
  BY DEF IInv
<1> QED BY Invariance, <1>1, PTL

(* Exit code 0 means written: the keys of `key generate` and the bundle of  *)
(* `seal` are there, whole, until another run opens the file.               *)
THEOREM SuccessIsKept == Spec => []OutputsKept
<1>1. IInv => OutputsKept
  <2> SUFFICES ASSUME IInv, NEW p \in Processes, exit[p] = 0, clean[p],
                      NEW r \in Outputs(command[p]),
                      last[OutPath(command[p], r)] = p, ~Overwritten(command[p], r)
               PROVE  files[OutPath(command[p], r)] = Data(p, r)
    BY DEF OutputsKept
  <2>1. todo[p] = {}
    BY DEF IInv, Control
  <2> QED BY <2>1 DEF IInv, Written
<1> QED BY Invariance, <1>1, PTL

(* What a run of verify that answers 0 has read.                            *)
LEMMA AcceptedBundle ==
  ASSUME IInv, NEW v \in Processes, exit[v] = 0, command[v].op = "verify",
         command[v].public # NoPath
  PROVE  LET b == held[v].bundle.doc
             k == KeyIn("public", held[v].public)
         IN /\ Sealed(held[v].bundle)
            /\ k # NotAKey /\ k \in Keys /\ held[v].public = PublicPem(k)
            /\ b.signature = Sign(b.sigAlg, k, Body(b))
<1> DEFINE b == held[v].bundle.doc
           k == KeyIn("public", held[v].public)
<1>1. phase[v] = "ended" /\ 0 # 1
  BY DEF IInv, TypeOK
<1>2. PICK x \in Verifications(b, Config(v)) : reads[v] = {} /\ ExitCode(x) = 0
  BY <1>1 DEF IInv, Answered
<1>3. x = "verified"
  BY <1>2, ExitCodeTypes, VerificationOutcomes
<1>4. Readable("bundle", held[v].bundle)
  BY <1>1, <1>2 DEF IInv, Reading, Inputs
<1>5. Sealed(held[v].bundle)
  BY <1>4 DEF Readable, IInv, Bundles
<1>6. Content(held[v].public)
  BY DEF IInv, TypeOK, Roles
<1>7. k \in Keys
  BY <1>6, Contents
<1>8. Config(v).key = k
  BY DEF Config, WithKey
<1>9. VerifySignature(b.sigAlg, k, Body(b), b.signature)
  BY <1>3, <1>7, <1>8, VerificationOutcomes, CommandsAssumption
<1>10. k # NotAKey /\ b.signature = Sign(b.sigAlg, k, Body(b))
  BY <1>9 DEF VerifySignature, CanSign
<1>11. held[v].public.kind = "public"
  BY <1>10 DEF KeyIn
<1>12. held[v].public = PublicPem(k)
  <2>1. PICK j \in Keys : held[v].public = PublicPem(j)
    BY <1>6, <1>11, Contents
  <2> QED BY <2>1, <1>11 DEF KeyIn, PublicPem
<1> QED BY <1>5, <1>7, <1>10, <1>12

(* What verify accepts with a public key was made by a run of seal that had *)
(* read the private key of the same pair: crashes and overlaps of any       *)
(* number of runs leave no mixture it would accept.                         *)
THEOREM OnlySealedIsVerified == Spec => []VerifiedWasSealed
<1>1. IInv => VerifiedWasSealed
  <2> SUFFICES ASSUME IInv, NEW v \in Processes, exit[v] = 0, command[v].op = "verify",
                      command[v].public # NoPath
               PROVE  \E s \in Processes : \E k \in Keys :
                        /\ phase[s] # "idle" /\ command[s].op = "seal"
                        /\ held[s].private = PrivatePem(k) /\ held[v].public = PublicPem(k)
                        /\ held[v].bundle = BundleJson(Document(Options(s)))
    BY DEF VerifiedWasSealed
  <2> DEFINE b == held[v].bundle.doc
             k == KeyIn("public", held[v].public)
  <2>1. /\ Sealed(held[v].bundle)
        /\ k # NotAKey /\ k \in Keys /\ held[v].public = PublicPem(k)
        /\ b.signature = Sign(b.sigAlg, k, Body(b))
    BY AcceptedBundle
  <2>2. PICK s \in Processes :
          /\ phase[s] \in {"writing", "ended"} /\ command[s].op = "seal"
          /\ held[v].bundle = BundleJson(Document(Options(s)))
    BY <2>1 DEF Sealed
  <2>3. b = Document(Options(s))
    BY <2>2 DEF BundleJson
  <2>4. b.signature = Sign(Options(s).sigAlg, Options(s).key, Unsigned(Options(s)))
    BY <2>3 DEF Document, Unsigned
  <2>5. Options(s).key = k
    BY <2>1, <2>4 DEF Sign
  <2>6. KeyIn("private", held[s].private) = k
    BY <2>5 DEF Options, WithKey
  <2>7. held[s].private.kind = "private" /\ held[s].private.key = k
    BY <2>1, <2>6 DEF KeyIn
  <2>8. Content(held[s].private)
    BY DEF IInv, TypeOK, Roles
  <2>9. held[s].private = PrivatePem(k)
    <3>1. PICK j \in Keys : held[s].private = PrivatePem(j)
      BY <2>7, <2>8, Contents
    <3> QED BY <3>1, <2>7 DEF PrivatePem
  <2> QED BY <2>1, <2>2, <2>9
<1> QED BY Invariance, <1>1, PTL

(* What is read from a run that has reported success.                       *)
LEMMA AsWritten ==
  ASSUME IInv, NEW x \in Processes, NEW r \in Roles, NEW y \in Processes, source[x][r] = y,
         exit[y] = 0, clean[y], NEW w \in Outputs(command[y]),
         OutPath(command[y], w) = InPath(command[x], r), ~Overwritten(command[y], w)
  PROVE  held[x][r] = Data(y, w)
<1> HIDE FormatAssumption, CommandsAssumption
<1>1. Delivered(x)
  BY DEF IInv
<1>2. \A z \in Outputs(command[y]) :
        (OutPath(command[y], z) = InPath(command[x], r) /\ ~Overwritten(command[y], z))
          => held[x][r] = Data(y, z)
  BY <1>1 DEF Delivered
<1> QED BY <1>2

(* One after the other and undisturbed, generate, seal and verify give the  *)
(* verdict of the library functions for a fresh pair of keys.               *)
THEOREM FilesAddNothing == Spec => []FilesAreTransparent
<1>1. IInv => FilesAreTransparent
  <2> SUFFICES ASSUME IInv, NEW g \in Processes, NEW s \in Processes, NEW v \in Processes,
                      exit[g] = 0, command[g].op = "generate", clean[g],
                      exit[s] = 0, command[s].op = "seal", clean[s],
                      phase[v] = "ended", command[v].op = "verify", command[v].usable,
                      source[s].private = g, source[v].public = g, source[v].bundle = s,
                      command[s].key = command[g].private,
                      command[v].public = PublicPath(command[g])
               PROVE  \E x \in Verifications(
                             Document(WithKey(command[s].options, Pair(g, command[g].type))),
                             WithKey(command[v].config, Pair(g, command[g].type))) :
                        exit[v] = ExitCode(x)
    BY DEF FilesAreTransparent
  <2> HIDE FormatAssumption, CommandsAssumption
  <2> DEFINE k == Pair(g, command[g].type)
  <2>0. PICK private \in Roles, public \in Roles : private = "private" /\ public = "public"
    BY DEF Roles
  <2>1. phase[s] = "ended" /\ phase[g] = "ended"
    BY CommandsAssumption DEF IInv, TypeOK
  <2>2. command[g] \in Commands[g] /\ command[s] \in Commands[s] /\ command[v] \in Commands[v]
    BY <2>1 DEF IInv, TypeOK
  (* What each of them has read is what the one before wrote. *)
  <2>3. /\ "private" \in Inputs(command[s]) \ reads[s]
        /\ {"bundle", "public"} \subseteq Inputs(command[v]) \ reads[v]
    BY CommandsAssumption DEF IInv, Reading, Roles
  <2>4. command[v].public # NoPath /\ reads[v] = {}
    <3>1. reads[v] \subseteq Inputs(command[v])
      BY DEF IInv, Control
    <3> QED BY <2>3, <3>1 DEF Inputs
  <2>5. command[s].key \in Paths
    BY <2>2, CommandsAssumption
  <2>6. "public" \in Outputs(command[g]) /\ "private" \in Outputs(command[g])
    BY <2>4, <2>5, CommandsAssumption DEF Outputs, OutPath
  <2>7. held[v].public = PublicPem(k)
    <3>1. OutPath(command[g], public) = InPath(command[v], public)
      BY <2>0 DEF OutPath, InPath
    <3>2. public \in Outputs(command[g]) /\ ~Overwritten(command[g], public)
      BY <2>0, <2>6 DEF Overwritten
    <3>3. source[v][public] = g
      BY <2>0
    <3>4. held[v][public] = Data(g, public)
      BY AsWritten, <3>1, <3>2, <3>3
    <3> QED BY <2>0, <3>4 DEF Data
  <2>8. Sealable(Options(s))
    BY DEF IInv, Control, Published
  <2>9. Options(s).key = KeyIn("private", held[s].private)
    BY DEF Options, WithKey
  <2>10. KeyIn("private", held[s].private) # NotAKey
    BY <2>8, <2>9, CommandsAssumption DEF Sealable, CanSign
  <2>11. ~Overwritten(command[g], "private")
    <3> SUFFICES ASSUME PublicPath(command[g]) = command[g].private PROVE FALSE
      BY DEF Overwritten
    <3>1. OutPath(command[g], public) = InPath(command[s], private)
      BY <2>0 DEF OutPath, InPath
    <3>2. public \in Outputs(command[g]) /\ ~Overwritten(command[g], public)
      BY <2>0, <2>6 DEF Overwritten
    <3>3. source[s][private] = g
      BY <2>0
    <3>4. held[s][private] = Data(g, public)
      BY AsWritten, <3>1, <3>2, <3>3
    <3> QED BY <2>0, <2>10, <3>4 DEF Data, PublicPem, KeyIn
  <2>12. held[s].private = PrivatePem(k)
    <3>1. OutPath(command[g], private) = InPath(command[s], private)
      BY <2>0 DEF OutPath, InPath
    <3>2. private \in Outputs(command[g]) /\ ~Overwritten(command[g], private)
      BY <2>0, <2>6, <2>11
    <3>3. source[s][private] = g
      BY <2>0
    <3>4. held[s][private] = Data(g, private)
      BY AsWritten, <3>1, <3>2, <3>3
    <3> QED BY <2>0, <3>4 DEF Data
  <2>13. Options(s) = WithKey(command[s].options, k)
    BY <2>12 DEF Options, KeyIn, PrivatePem
  <2>14. held[v].bundle = BundleJson(Document(Options(s)))
    <3>1. PICK w \in Outputs(command[s]) : OutPath(command[s], w) = InPath(command[v], "bundle")
      BY DEF IInv, Delivered, Roles
    <3>2. w = "bundle"
      BY <3>1 DEF Outputs
    <3>3. held[v]["bundle"] = Data(s, "bundle")
      BY AsWritten, <3>1, <3>2 DEF Roles, Overwritten
    <3> QED BY <3>3 DEF Data
  (* So verify answers for the document and the key of the library. *)
  <2>15. \E x \in Verifications(held[v].bundle.doc, Config(v)) : exit[v] = ExitCode(x)
    BY <2>4 DEF IInv, Answered
  <2>16. Config(v) = WithKey(command[v].config, k)
    BY <2>4, <2>7 DEF Config, KeyIn, PublicPem
  <2> QED BY <2>13, <2>14, <2>15, <2>16 DEF BundleJson
<1> QED BY Invariance, <1>1, PTL
=============================================================================
