SPECIFICATION Spec
CONSTANTS
  t1 = t1
  t2 = t2
  inC1 = inC1
  brokenAt1 = brokenAt1
  either = either
  float = float
  c1 = c1
  c2 = c2
  k1 = k1
  k2 = k2
  None = None
  NoText = NoText
  NoSpec = NoSpec
  NoDigest = NoDigest
  Texts = {t1, t2}
  Specs = {inC1, brokenAt1, either, float}
  Contexts = {c1, c2}
  Uncanonical = {float}
  Evaluate <- MCEvaluate
  Keys = {k1, k2}
  SigAlgs = {"ed25519", "rsa-pss-sha256", "rsa-pss-sha512"}
  AlgsOf <- MCAlgsOf
  DigestAlgs = {"sha256", "sha512"}
  Times = {0, 1}
  SealOptions <- MCSealOptions
  Edits <- MCEdits
  SectionEdits <- MCSectionEdits
  Configs <- MCConfigs
  MaxEdits = 0
INVARIANT OutOfBoundsRejected
CHECK_DEADLOCK FALSE
