SPECIFICATION Spec
CONSTANTS
  Calls = {c1, c2}
  Audience = "here"
  Issuers = {"org"}
  Provider <- MCProvider
  Envelopes <- MCEnvelopes
  Encodings = {"x", "y"}
  Configs <- Lenient
  MaxAge = 1
  FutureSkew = 1
  Margin = 3
  Floor = 2
  Delay = 1
  Res = 2
  Horizon = 7
  MaxLives = 2
  None = None
SYMMETRY Perms
INVARIANT
  HandedOverIsSigned
CHECK_DEADLOCK FALSE
