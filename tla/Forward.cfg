SPECIFICATION Spec
CONSTANTS
  Environment <- MCEnvironment
  KeychainRefs <- MCKeychainRefs
  VaultFiles <- MCVaultFiles
  Value = {"k1", "id1"}
  None = None
  Request = {q1, q2}
  Configs <- MCConfigs
  Upstreams = {None, "bad"}
  Arrivals <- MCArrivals
  GoodUrls = {"good1", "good2", "good3", "ollama"}
  Ollama = "ollama"
  Identities = {"id1", "id2"}
  Unquoted <- MCUnquoted
  Unsendable = {"blank"}
SYMMETRY Symmetry
INVARIANTS OwnCredential FreshCredential OnlyGoodEndpoints
CHECK_DEADLOCK FALSE
