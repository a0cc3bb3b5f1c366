--------------------------------- MODULE Oidc ---------------------------------
(***************************************************************************)
(* OidcProvider.validate_id_token (oidc.rs): the receiver of an A2A        *)
(* message asks it who the human is, an issuer asks it who authorizes.     *)
(* Whatever can be sent is a token: a signature verifies when its signer   *)
(* is a key the provider has.                                              *)
(***************************************************************************)
EXTENDS Integers, Options

CONSTANT
  Provider      \* issuer, audience, keys, leeway, and the actor it expects

\* A key is tried when the token names no key, or names this one.
SignatureVerifies(t) ==
  \E key \in Provider.keys : (t.kid # None => t.kid = key.kid) /\ t.signer = key.signer

\* The nonce is compared when one is expected, the actor when the token has one
\* as well.
ValidateIdToken(t, at, nonce) ==
  /\ SignatureVerifies(t)
  /\ t.iss = Provider.issuer
  /\ Provider.audience \in t.aud
  /\ at <= t.exp + Provider.leeway
  /\ at + Provider.leeway >= t.nbf
  /\ nonce # None => t.nonce = nonce
  /\ t.act # None /\ Provider.actor # None => t.act = Provider.actor
===============================================================================
