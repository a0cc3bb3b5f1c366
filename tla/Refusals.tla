------------------------------- MODULE Refusals -------------------------------
(***************************************************************************)
(* What becomes of an error of the core on its way to an operator: the     *)
(* class the bindings raise, which is the same in Python and Node, the     *)
(* code a runtime denies with, and the signal a decision record carries.   *)
(***************************************************************************)

\* AgentCredsError.
Errors ==
  {"UnsupportedDidMethod", "ResolverRequired", "InvalidDidSignature", "DidResolutionFailed",
   "InvalidKeyMaterial", "InvalidVcProof", "CredentialExpired", "CredentialRevoked",
   "IssuerMismatch", "MalformedClaims", "ScopeWideningAttempt", "DelegationDepthExceeded",
   "TokenExpired", "InvalidBiscuitSignature", "ActionDenied", "RootKeyMismatch",
   "ProofOfPossessionFailed", "SvidValidationFailed", "OidcValidationFailed",
   "PrincipalMismatch", "ActingForMismatch", "ConsentViolation",
   "RevocationIndexOutOfBounds", "InvalidRevocationListSignature", "RevocationListStale",
   "Json", "Cbor", "Base64", "CryptoError", "EntropyError", "MissingField", "OutOfBounds"}

\* map_err.
ClassOf(error) ==
  CASE error \in {"UnsupportedDidMethod", "ResolverRequired", "InvalidDidSignature",
                  "DidResolutionFailed", "InvalidKeyMaterial"} -> "DidError"
    [] error = "CredentialExpired" -> "CredentialExpiredError"
    [] error = "CredentialRevoked" -> "CredentialRevokedError"
    [] error \in {"InvalidVcProof", "IssuerMismatch", "MalformedClaims"} -> "CredentialError"
    [] error = "ScopeWideningAttempt" -> "ScopeWideningError"
    [] error = "TokenExpired" -> "TokenExpiredError"
    [] error = "ActionDenied" -> "ActionDeniedError"
    [] error \in {"DelegationDepthExceeded", "InvalidBiscuitSignature",
                  "RootKeyMismatch"} -> "DelegationError"
    [] error = "ProofOfPossessionFailed" -> "ProofOfPossessionError"
    [] error \in {"PrincipalMismatch", "ActingForMismatch"} -> "PrincipalMismatchError"
    [] error = "SvidValidationFailed" -> "SvidValidationError"
    [] error = "OidcValidationFailed" -> "OidcValidationError"
    [] error = "ConsentViolation" -> "ConsentViolationError"
    [] error \in {"RevocationIndexOutOfBounds", "InvalidRevocationListSignature"} ->
         "RevocationError"
    [] error \in {"Json", "Cbor", "Base64"} -> "SerializationError"
    [] error \in {"MissingField", "OutOfBounds"} -> "ValidationError"
    [] OTHER -> "AgentCredsError"

\* The hierarchy the Python classes are created in; in Node a class is only a name.
CredentialErrors == {"CredentialError", "CredentialExpiredError", "CredentialRevokedError",
                     "ConsentViolationError"}
DelegationErrors == {"DelegationError", "ScopeWideningError", "TokenExpiredError",
                     "ActionDeniedError", "ProofOfPossessionError", "PrincipalMismatchError"}

\* classify_exception and classifyError.
Code(class, invalid) ==
  IF class = "ProofOfPossessionError"                           THEN "possession_failed"
  ELSE IF class = "PrincipalMismatchError"                      THEN "principal_mismatch"
  ELSE IF class \in {"ActionDeniedError", "ScopeWideningError"} THEN "not_authorized"
  ELSE IF class \in invalid                                     THEN "credential_invalid"
  ELSE "access_denied"
ClassifyException(class) == Code(class, CredentialErrors \cup DelegationErrors)
ClassifyError(class) ==
  Code(class, {"TokenExpiredError", "CredentialExpiredError", "CredentialRevokedError",
               "CredentialError", "DelegationError"})

\* Signal::from_error: several errors are one signal.
SignalFrom(error) ==
  CASE error = "ScopeWideningAttempt" -> "scope_widening_attempt"
    [] error = "DelegationDepthExceeded" -> "delegation_depth_exceeded"
    [] error \in {"TokenExpired", "CredentialExpired"} -> "expired"
    [] error \in {"CredentialRevoked", "InvalidRevocationListSignature",
                  "RevocationIndexOutOfBounds"} -> "revoked"
    [] error = "IssuerMismatch" -> "issuer_mismatch"
    [] error = "RootKeyMismatch" -> "unrooted_authority"
    [] error = "ActionDenied" -> "action_denied"
    [] error = "ProofOfPossessionFailed" -> "proof_of_possession_failed"
    [] error \in {"InvalidBiscuitSignature", "InvalidVcProof", "InvalidDidSignature",
                  "InvalidKeyMaterial", "SvidValidationFailed"} -> "signature_invalid"
    [] OTHER -> "other"

\* adr_signal_for, of the class.
AdrSignalFor(class) ==
  IF class = "ProofOfPossessionError"                               THEN "proof_of_possession_failed"
  ELSE IF class = "ScopeWideningError"                              THEN "scope_widening_attempt"
  ELSE IF class \in {"ActionDeniedError", "PrincipalMismatchError"} THEN "action_denied"
  ELSE IF class \in {"TokenExpiredError", "CredentialExpiredError"} THEN "expired"
  ELSE IF class = "CredentialRevokedError"                          THEN "revoked"
  ELSE IF class \in CredentialErrors \cup DelegationErrors          THEN "signature_invalid"
  ELSE "other"
===============================================================================
