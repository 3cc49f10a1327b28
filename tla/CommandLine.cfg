SPECIFICATION Spec
CONSTANTS
  None = None
  NoText = NoText
  NoSpec = NoSpec
  NoDigest = NoDigest
  NoPath = NoPath
  NotAKey <- MCNotAKey
  Texts = {"letter", "wide"}
  Specs = {"role"}
  Contexts = {"admin"}
  Uncanonical = {}
  Times = {0}
  Evaluate <- MCEvaluate
  Keys <- MCKeys
  SigAlgs = {"ed25519", "ecdsa-sha256-p256"}
  AlgsOf <- MCAlgsOf
  DigestAlgs = {"sha256"}
  Processes <- MCProcesses
  Commands <- MCCommands
  Paths = {"k", "k.pub", "b"}
  KeyTypes <- MCKeyTypes
  DerivedPath <- MCDerivedPath
  Fillings <- MCFillings
  Wide = {"wide"}
INVARIANTS TypeOK OutputsKept FilesAreTransparent VerifiedWasSealed
CHECK_DEADLOCK FALSE
