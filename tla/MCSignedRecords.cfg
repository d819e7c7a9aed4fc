SPECIFICATION Spec
CONSTANTS
  Configs <- MCConfigs
  Invocations <- MCInvocations
  canonicalizeValue <- ValueForm
  Canonicalizable <- HasForm
  Processes = {1, 2}
  MaxRecords = 2
  MaxEdits = 2
INVARIANTS
  VerifiesIffUnchanged VerifyFindsEdits ProjectionsSplit CanonicalInjective
