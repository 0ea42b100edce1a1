SPECIFICATION Spec
CONSTANTS
  Session = {"s1", "s2"}
  NoSession = "none"
  Detectors <- Nesting
  Hidden <- MCHidden
  DlpActions = {"redact", "block"}
  BlockOnObfuscated = TRUE
  AllowNonJson = TRUE
  Fields <- MCFields
  Texts <- MCTexts
  Indices <- MCIndices
  KnownKeys <- MCKnownKeys
  StructuralKeys <- MCStructuralKeys
  ShortNames = {"mail"}
  ModelPointer <- MCModelPointer
  ModelNames = {"key2", "plain"}
  MaxModelText = 1
INVARIANTS
  ForwardedClean
  NeverRematerialized
  FlatEchoRestored
  HarmlessUntouched
  BlockNeverRewrites
CHECK_DEADLOCK FALSE
