SPECIFICATION BorderSpec
CONSTANTS
  None = None
  Provider <- MCProvider
  Calls = {c1, c2}
  Audience = "here"
  Issuers = {"org"}
  Envelopes <- MCEnvelopes
  Encodings = {"x", "y"}
  Configs <- MCConfigs
  MaxAge = 0
  FutureSkew = 1
  Margin = 3
  Floor = 2
  Delay = 1
  Res = 2
  Horizon = 6
  MaxLives = 2
  Limit = 4
  Wide = 6
  KeyOrder <- MCKeyOrder
  Arguments <- MCArguments
  Beyond <- MCBeyond
  MaxBoundArgs = 2
  MaxRelays = 1
  Controllers = {"web", "ledger"}
  Method <- MCMethod
  Published <- MCPublished
  Chains <- MCChains
  Granted = {2}
  Expirations = {None, 0}
  MaxConfigs = 1
  EndOfDay = 1
  Domains = {"org", "peer"}
  Exports <- MCExports
  Levels = {1, 2}
  Svids <- MCSvids
  IdTokens <- MCIdTokens
  Logins = {None, "n"}
  Grants = {{"read"}, {"read", "pay"}}
  Namespaces = {{}, {"mail"}}
  Lifetimes = {1, 3}
  MaxHeld = 1
  MaxMinted = 1
  Closing = 2
  Issuances <- MCIssuances
  Org = "org"
  Advisory = {"model", "boss"}
  Holders = {"h1", "h2"}
  Verifiers = {"v1", "v2"}
  Nonces = {"n1"}
  BbsKeys <- MCBbsKeys
  KeyAlgorithm <- MCKeyAlgorithm
  MaxCredentials = 2
  MaxShown = 2
  Ending = 1
SYMMETRY Perms
INVARIANT
  HeaderCountsOnce
  AdmittedIsMeant
  EveryAnswerIsRecorded
  BoundIsDelivered
  BelievedIsGrounded
  VouchedByItsDomain
  OnBehalfIsConsented
  PresentedIsMeant
CHECK_DEADLOCK FALSE
