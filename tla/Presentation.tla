----------------------------- MODULE Presentation -----------------------------
(***************************************************************************)
(* What a holder shows of a credential, and what a verifier may conclude   *)
(* of it: the credentials of vc.rs (JSON-LD, and the SD-JWT VC with its    *)
(* key binding) behind the ports of interop.rs, and the selective          *)
(* disclosures of sd_jwt.rs and bbs.rs.                                    *)
(*                                                                         *)
(* A disclosure is salted, so that it is of one credential; a text is the  *)
(* credential its issuer signed, the set of disclosures after it, and the  *)
(* proof at its end.  Whoever saw texts puts others together from their    *)
(* parts; verification keeps nothing, and is a predicate on them.          *)
(***************************************************************************)
EXTENDS Integers, FiniteSets, Options

CONSTANTS
  Issuances,     \* what is issued in the name of Org: [format, signer, subject]
  Org,           \* the anchor a verifier has resolved
  KeyAlgorithm,  \* signer |-> "Ed25519" or "P256"
  Advisory,      \* the claims a holder may withhold
  Holders,
  Verifiers, Nonces,
  BbsKeys,       \* BBS+ public keys a verifier may be given: [owner, did, attested]
  MaxCredentials, MaxShown, Ending    \* bounds: credentials, presentations, the clock

ASSUME PresentationAssumption ==
  /\ \A i \in Issuances : i.format \in {"w3c", "vc", "sd", "bbs"} /\ i.subject \in Holders
  /\ \A key \in BbsKeys : key.attested = <<Org, key.owner>> => key.owner = Org
  /\ {MaxCredentials, MaxShown, Ending} \subseteq Nat

VARIABLES
  moment,
  credentials,   \* everything that was issued
  asked,         \* challenges verifiers made: [audience, nonce]
  shown          \* history: what holders presented, and to which challenge

presentationVars == <<moment, credentials, asked, shown>>

-------------------------------------------------------------------------------
\* issue and issue_sd_jwt_vc, for a credential that is valid for the moment.
Issued(i) ==
  [id |-> Cardinality(credentials) + 1, format |-> i.format, signer |-> i.signer,
   subject |-> i.subject, expires |-> moment]

\* What is signed of the claims: digests, or in JSON-LD the claims themselves.
Disclosure(c, name) == <<c.id, name>>
Signed(c) == {Disclosure(c, name) : name \in Advisory}

\* for_anchor: the anchor attests the BBS+ key; generate: none does.
ForAnchor(owner, anchor) == [owner |-> owner, did |-> anchor, attested |-> <<anchor, owner>>]
Generated(owner) == [owner |-> owner, did |-> None, attested |-> None]

Showing(c, disclosures, proof) == [credential |-> c, disclosures |-> disclosures, proof |-> proof]

\* The KB-JWT: its sd_hash is of all the text before it.
KeyBinding(agent, c, disclosures, challenge) ==
  [over |-> <<c, disclosures>>, signer |-> agent, challenge |-> challenge]

\* derive_proof: of a signature, over what is revealed; its nonce is no audience.
BbsProof(c, disclosures, nonce) == [over |-> <<c, disclosures>>, nonce |-> nonce]

\* present_credential, present and derive_proof: the texts an agent can make of a
\* credential.  Only the subject binds its key, and JSON-LD has no such binding.
Presentable(agent, c, names, challenge) ==
  LET disclosures == {Disclosure(c, name) : name \in names} IN
  CASE c.format = "w3c" -> IF challenge = None THEN {Showing(c, Signed(c), None)} ELSE {}
    [] c.format = "vc"  -> IF challenge = None THEN {Showing(c, disclosures, None)}
                           ELSE IF agent # c.subject THEN {}
                           ELSE {Showing(c, disclosures, KeyBinding(agent, c, disclosures, challenge))}
    [] c.format = "sd"  -> IF challenge = None THEN {Showing(c, disclosures, None)} ELSE {}
    [] c.format = "bbs" -> IF challenge = None THEN {}
                           ELSE {Showing(c, disclosures, BbsProof(c, disclosures, challenge.nonce))}

Selections(texts) == SUBSET UNION {x.disclosures : x \in texts}

\* Parsing and writing a bound text anew (to_wire) closes it after the binding,
\* which is then not found: that is the text without it.
Recomposed(texts) ==
  {Showing(u.credential, disclosures, proof) :
     u \in texts, disclosures \in Selections(texts), proof \in {x.proof : x \in texts} \cup {None}}

Texts == {s.text : s \in shown}
Deliverable == Recomposed(Texts)

-------------------------------------------------------------------------------
IsGenuine(c) == c.signer = Org /\ moment <= c.expires

\* CapabilityCredential::verify, strict: disclosures must be in the signed _sd; a
\* binding at the end is skipped over.
VerifyStrict(t) ==
  /\ t.credential.format \in {"w3c", "vc"} /\ IsGenuine(t.credential)
  /\ IF t.credential.format = "w3c" THEN t.disclosures = Signed(t.credential)
     ELSE t.disclosures \subseteq Signed(t.credential)

\* Faulty: the hash leaves the disclosures out.
VerifyJwsBinding(t, challenge) ==
  /\ t.credential.format = "vc" /\ t.proof # None
  /\ t.proof.over[1] = t.credential
  /\ t.proof.challenge = challenge
  /\ t.proof.signer = t.credential.subject

\* verify_key_binding: over exactly this text, for this audience and nonce.
VerifyKeyBinding(t, challenge) ==
  /\ t.credential.format = "vc" /\ t.proof # None
  /\ t.proof.over = <<t.credential, t.disclosures>>
  /\ t.proof.challenge = challenge
  /\ t.proof.signer = t.credential.subject

\* jose_verify: an SD-JWT VC that a P-256 key signed is in DER and no JWS.
JoseSigned(c) == c.format = "sd" \/ (c.format = "vc" /\ KeyAlgorithm[c.signer] = "Ed25519")

\* verify_presentation: an SD-JWT VC passes as well, if it discloses nothing.
VerifyPresentation(t) ==
  /\ JoseSigned(t.credential) /\ IsGenuine(t.credential) /\ t.proof = None
  /\ t.disclosures \subseteq (IF t.credential.format = "sd" THEN Signed(t.credential) ELSE {})

IsBound(key) == key.did # None /\ key.attested # None

\* BbsPresentation::verify: the key of the verifier, and if it is bound to a DID
\* the attestation by that DID's anchor, and the issuer revealed.
VerifyBbs(t, key, nonce) ==
  /\ t.credential.format = "bbs" /\ t.proof # None
  /\ t.proof = BbsProof(t.credential, t.disclosures, nonce)
  /\ t.credential.signer = key.owner /\ moment <= t.credential.expires
  /\ IsBound(key) => key.attested = <<key.did, key.owner>> /\ key.did = Org

-------------------------------------------------------------------------------
PresentationInit ==
  /\ moment = 0
  /\ credentials = {} /\ asked = {} /\ shown = {}

\* issue_as: a credential of any format.
IssueIn(i) ==
  /\ Cardinality(credentials) < MaxCredentials
  /\ credentials' = credentials \cup {Issued(i)}
  /\ UNCHANGED <<moment, asked, shown>>

\* A verifier may well repeat the nonce another one drew.
AskFor(audience, nonce) ==
  /\ asked' = asked \cup {[audience |-> audience, nonce |-> nonce]}
  /\ UNCHANGED <<moment, credentials, shown>>

\* agent has the credential, as its subject or because it was given it.
PresentTo(agent, c, names, challenge) ==
  /\ Cardinality(shown) < MaxShown
  /\ \E text \in Presentable(agent, c, names, challenge) :
       shown' = shown \cup {[text |-> text, by |-> agent, challenge |-> challenge]}
  /\ UNCHANGED <<moment, credentials, asked>>

NextMoment ==
  /\ moment < Ending /\ moment' = moment + 1
  /\ UNCHANGED <<credentials, asked, shown>>

PresentationNext ==
  \/ \E i \in Issuances : IssueIn(i)
  \/ \E audience \in Verifiers, nonce \in Nonces : AskFor(audience, nonce)
  \/ \E agent \in Holders, c \in credentials, names \in SUBSET Advisory,
       challenge \in asked \cup {None} : PresentTo(agent, c, names, challenge)
  \/ NextMoment

PresentationSpec == PresentationInit /\ [][PresentationNext]_presentationVars

-------------------------------------------------------------------------------
(***************************************************************************)
(* "sd_hash binds the KB-JWT to exactly this presentation": however the    *)
(* parts of presentations are put together, a text is accepted as bound    *)
(* only if the subject itself showed exactly that to that very verifier in *)
(* answer to its challenge; a BBS+ proof only if exactly that was revealed *)
(* for that nonce; and without a binding a verifier learns of a credential *)
(* the org signed, before it expires, and nothing that was withheld from   *)
(* every presentation of it.                                               *)
(***************************************************************************)
PresentedIsMeant ==
  \A t \in Deliverable :
    /\ \A challenge \in asked :
         VerifyStrict(t) /\ VerifyKeyBinding(t, challenge) =>
           \E s \in shown : s = [text |-> t, by |-> t.credential.subject, challenge |-> challenge]
    /\ \A key \in BbsKeys, nonce \in Nonces :
         VerifyBbs(t, key, nonce) =>
           /\ \E s \in shown : s.text = t /\ s.challenge.nonce = nonce
           /\ IsBound(key) => t.credential.signer = Org
    /\ VerifyStrict(t) \/ VerifyPresentation(t) =>
         /\ t.credential \in credentials /\ t.credential.signer = Org
         /\ moment <= t.credential.expires
         /\ \A d \in t.disclosures :
              d[1] = t.credential.id
              /\ \E s \in shown : s.text.credential = t.credential /\ d \in s.text.disclosures
===============================================================================
