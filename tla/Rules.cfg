SPECIFICATION Spec
CONSTANTS
  Files = {"secrets", "more"}
  Configured <- Beside
  InDirectory = {"secrets", "more"}
  Contents = {"a", "b", "bad", "bytes", "denied"}
  Malformed = {"bad"}
  Garbled = {"bytes"}
  Unreadable = {"denied"}
  Absent = "absent"
  Keys = {"k1", "k2"}
  NoKey = "no key"
  NoManifest = NoManifest
  Broken = Broken
  MaxEdits = 2
  MaxSigns = 1
  MaxStarts = 2
INVARIANTS
  BrokerSkipsNoText
  QuietStartSigned
  StartsExactlyIfVouched
CHECK_DEADLOCK FALSE
