--------------------------- MODULE MCCommandLine ---------------------------
(* Two runs that may generate keys, one that seals and one that looks.     *)
EXTENDS CommandLine

MCProcesses == {"first", "second", "third", "fourth"}
MCKeyTypes == {"ed25519", "p256"}
OldKey == <<"before", "ed25519">>
MCNotAKey == <<"not a", "key">>
MCKeys == {Pair(p, t) : p \in MCProcesses, t \in MCKeyTypes} \cup {OldKey, NotAKey}
MCAlgsOf == [k \in MCKeys |-> IF k = NotAKey THEN {}
                              ELSE IF k[2] = "ed25519" THEN {"ed25519"}
                              ELSE {"ecdsa-sha256-p256"}]
MCEvaluate == [s \in {"role"} |-> [c \in {"admin"} |-> [t \in {0} |-> [u \in {0} |-> {"true"}]]]]

MCDerivedPath == [f \in {"k"} |-> "k.pub"]
(* An earlier run was killed while it wrote the second key.                *)
Leftover == [f \in {"k", "k.pub", "b"} |->
               IF f = "k" THEN PrivatePem(OldKey) ELSE IF f = "k.pub" THEN Torn ELSE NoFile]
MCFillings == {Leftover}

KeyGen(type, private, public) ==
  [op |-> "generate", type |-> type, private |-> private, public |-> public]
With(profile, sig) ==
  [profile |-> profile, digestAlg |-> "sha256", sigAlg |-> sig, text |-> "letter",
   spec |-> NoSpec, commit |-> None, parents |-> Missing, side |-> Missing,
   expiration |-> [kind |-> Missing]]
SealIt(options, out, usable) ==
  [op |-> "seal", options |-> options, key |-> "k", out |-> out, usable |-> usable]
Plain == [context |-> None, profile |-> Missing, tooLarge |-> FALSE, tooDeep |-> FALSE]
VerifyIt(public, config, usable) ==
  [op |-> "verify", bundle |-> "b", public |-> public, config |-> config, usable |-> usable]

MCCommands == [p \in MCProcesses |->
  CASE p = "first" ->
         {KeyGen("ed25519", "k", NoPath), KeyGen("dsa", "k", NoPath),
          KeyGen("ed25519", NoPath, NoPath),
          [op |-> "inspect", bundle |-> "b"]}
    [] p = "second" ->
         {KeyGen("p256", "k", "k.pub"), KeyGen("ed25519", "k", "k"),
          SealIt(With("core", "ed25519"), "b", TRUE)}
    [] p = "third" ->
         {SealIt(With("core", "ed25519"), "b", TRUE),
          SealIt([With("sealed", "ecdsa-sha256-p256") EXCEPT !.text = "wide"], "b", TRUE),  \* no boundary
          SealIt(With("core", "ed25519"), NoPath, FALSE)}
    [] p = "fourth" ->
         {VerifyIt("k.pub", Plain, TRUE),
          VerifyIt(NoPath, [Plain EXCEPT !.profile = "core"], TRUE)}]
=============================================================================
