------------------------------ MODULE Federation ------------------------------
(***************************************************************************)
(* How an issuer takes an identity somebody else attests and puts it into  *)
(* a credential of its own.  A bridge validates the SVIDs of workloads by  *)
(* the bundle of the trust domain they name (wimse.rs, spiffe.rs); an      *)
(* OidcProvider validates the tokens of humans (oidc.rs); either is given  *)
(* a stable DID (principal.rs) and the bounds its own authority puts on    *)
(* the agent acting for it (vc.rs).                                        *)
(*                                                                         *)
(* An SVID and a token are what anybody may send: they verify when their   *)
(* signer is a key of the bundle.  A fingerprint is the pair it is of.     *)
(***************************************************************************)
EXTENDS Oidc, FiniteSets, Sequences

CONSTANTS
  Domains,       \* SPIFFE trust domains
  Exports,       \* the bundles each exports in turn, of [kid, kty, signer]
  Levels,        \* trust levels a bridge assigns
  Svids,         \* JWT-SVIDs
  IdTokens,      \* ID tokens
  Logins,        \* nonces an issuer expects, None if it does not look
  Grants,        \* sets of tools asked for
  Namespaces,    \* sets of resource namespaces the issuer resolves
  Lifetimes,     \* valid_for_secs of a request
  MaxHeld, MaxMinted, Closing   \* bounds: identities and credentials, the clock

ASSUME FederationAssumption ==
  /\ \A d \in Domains : Len(Exports[d]) \in Nat \ {0} /\ DOMAIN Exports[d] = 1..Len(Exports[d])
  /\ \A svid \in Svids : svid.domain \in Domains
  /\ \A token \in IdTokens : token.exp \in Int
  /\ {MaxHeld, MaxMinted, Closing} \subseteq Nat /\ Lifetimes \subseteq Nat

Sources == {"asserted", "policy", "attested"}
Rank == [asserted |-> 0, policy |-> 1, attested |-> 2]

VARIABLES
  hour,
  exported,    \* how many bundles each domain has exported
  bridge,      \* domain |-> [keys, level], None if it is not federated
  identities,  \* FederatedIdentity values the issuer holds
  people,      \* VerifiedHumanPrincipal values it holds
  minted,      \* credentials it signed
  federated    \* history: every bundle the bridge ever took, and its level

federationVars == <<hour, exported, bridge, identities, people, minted, federated>>

-------------------------------------------------------------------------------
\* Faulty: any bundle the bridge holds.
PooledBundle(svid) == UNION {bridge[d].keys : d \in {d \in Domains : bridge[d] # None}}

\* The domain an SVID says it is of only says which bundle it must verify with.
BundleFor(svid) == IF bridge[svid.domain] = None THEN {} ELSE bridge[svid.domain].keys

\* from_jwks: what the types of its keys can sign with; the others are skipped.
Algorithm == [OKP |-> "EdDSA", EC |-> "ES256"]
Imported(jwks) == {key \in jwks : key.kty \in DOMAIN Algorithm}

\* verify_signature: by any key of the algorithm, or only the one that is named.
BundleSigned(bundle, svid) ==
  \E key \in bundle :
    /\ svid.kid # None => svid.kid = key.kid
    /\ svid.alg = Algorithm[key.kty] /\ svid.signer = key.signer

\* validate_jwt_svid: no leeway, and the audience only if one is expected.
SvidVerifies(svid, audience) ==
  /\ BundleSigned(BundleFor(svid), svid)
  /\ hour < svid.exp
  /\ audience # None => audience \in svid.aud

\* A workload's kind is in its DID, so that it is no human's.
PrincipalDid(kind, host, issuer, subject) == <<host, kind, <<issuer, subject>>>>
WorkloadDid(svid) == PrincipalDid("workload", svid.domain, svid.domain, svid.path)
HumanDid(token) == PrincipalDid("human", token.iss, token.iss, token.sub)

Weaker(a, b) == IF Rank[a] < Rank[b] THEN a ELSE b

\* Faulty: the source of the scope stands for the pair.
ScopeSource(scope, resources, source) == IF scope = {} THEN source ELSE "attested"

\* What a reader of one entitlement_source is told of the scope and the resources.
EntitlementSource(scope, resources, source) ==
  IF scope = {}          THEN source
  ELSE IF resources = {} THEN "attested"
  ELSE Weaker(source, "attested")

\* PrincipalAuthorization, granted now.
Authorize(did, expires, scope, resources, source) ==
  [principal |-> did, authorized_at |-> hour, expires_at |-> expires, scope |-> scope,
   resources |-> resources, source |-> source]

\* CapabilityClaims::validate, of what concerns the principal.
ClaimsAreCoherent(tools, obo) ==
  /\ tools # {}
  /\ obo # None => obo.expires_at > obo.authorized_at
                   /\ (obo.scope # {} => tools \subseteq obo.scope)

\* The credential cannot outlive the authorization.
CredentialExpiry(life, obo) ==
  IF obo # None /\ obo.expires_at < hour + life THEN obo.expires_at ELSE hour + life

\* from: the evidence it was issued on, for the properties.
IssueCapability(tools, life, obo, by, from) ==
  /\ Cardinality(minted) < MaxMinted
  /\ ClaimsAreCoherent(tools, obo)
  /\ minted' = minted \cup {[tools |-> tools, on_behalf_of |-> obo, authorized_by |-> by,
                             issued |-> hour, expires |-> CredentialExpiry(life, obo),
                             from |-> from]}
  /\ UNCHANGED <<hour, exported, bridge, identities, people, federated>>

-------------------------------------------------------------------------------
FederationInit ==
  /\ hour = 0
  /\ exported = [d \in Domains |-> 1]
  /\ bridge = [d \in Domains |-> None]
  /\ identities = {} /\ people = {} /\ minted = {} /\ federated = {}

\* to_jwks, after a domain changed its keys.
ExportBundle(d) ==
  /\ exported[d] < Len(Exports[d])
  /\ exported' = [exported EXCEPT ![d] = @ + 1]
  /\ UNCHANGED <<hour, bridge, identities, people, minted, federated>>

\* add_domain_from_jwks, of an export of any age: it replaces what was there.
AddDomain(d, i, level) ==
  /\ i <= exported[d]
  /\ LET entry == [keys |-> Imported(Exports[d][i]), level |-> level] IN
     /\ bridge' = [bridge EXCEPT ![d] = entry]
     /\ federated' = federated \cup {<<d, entry>>}
  /\ UNCHANGED <<hour, exported, identities, people, minted>>

Held == Cardinality(identities) + Cardinality(people)

ValidateSvid(svid, audience) ==
  /\ Held < MaxHeld
  /\ bridge[svid.domain] # None /\ SvidVerifies(svid, audience)
  /\ identities' = identities \cup {[svid |-> svid, level |-> bridge[svid.domain].level,
                                     at |-> hour]}
  /\ UNCHANGED <<hour, exported, bridge, people, minted, federated>>

SignIn(token, nonce) ==
  /\ Held < MaxHeld
  /\ ValidateIdToken(token, hour, nonce)
  /\ people' = people \cup {token}
  /\ UNCHANGED <<hour, exported, bridge, identities, minted, federated>>

\* issue_from_svid: the SPIFFE ID is recorded, and neither its expiry nor the
\* level of its domain is looked at.
IssueFromSvid(identity, tools, life) ==
  IssueCapability(tools, life, None, <<identity.svid.domain, identity.svid.path>>, identity)

\* from_spiffe and authorize_now: its operator says what it may do, and until when.
IssueForWorkload(identity, tools, life, expires, scope, resources, source) ==
  /\ identity.svid.path # None
  /\ IssueCapability(tools, life,
       Authorize(WorkloadDid(identity.svid), expires, scope, resources, source), None,
       [identity |-> identity, source |-> source])

\* issue_on_behalf_of: the scope is the token's, the resources come with their source.
IssueOnBehalfOf(token, tools, life, resources, source) ==
  IssueCapability(tools, life,
    Authorize(HumanDid(token), token.exp, token.scope, resources,
              EntitlementSource(token.scope, resources, source)), None,
    [token |-> token, source |-> source])

NextHour ==
  /\ hour < Closing /\ hour' = hour + 1
  /\ UNCHANGED <<exported, bridge, identities, people, minted, federated>>

FederationNext ==
  \/ \E d \in Domains :
       ExportBundle(d) \/ \E i \in DOMAIN Exports[d], level \in Levels : AddDomain(d, i, level)
  \/ \E svid \in Svids : \E audience \in {None} \cup svid.aud : ValidateSvid(svid, audience)
  \/ \E token \in IdTokens, nonce \in Logins : SignIn(token, nonce)
  \/ \E tools \in Grants, life \in Lifetimes :
       \/ \E identity \in identities : IssueFromSvid(identity, tools, life)
       \/ \E identity \in identities, resources \in Namespaces, source \in {"asserted", "policy"},
            expires \in 1..Closing, scope \in Grants :
            IssueForWorkload(identity, tools, life, expires, scope, resources, source)
       \/ \E token \in people, resources \in Namespaces, source \in Sources :
            IssueOnBehalfOf(token, tools, life, resources, source)
  \/ NextHour

FederationSpec == FederationInit /\ [][FederationNext]_federationVars

-------------------------------------------------------------------------------
(***************************************************************************)
(* "A forged sub cannot gain trust": whatever SVIDs arrive, and however a  *)
(* bridge is changed between them, an identity is held only if a key of    *)
(* the domain it names signed it, with the level that was assigned to that *)
(* domain with those very keys, and before it expired; and what is issued  *)
(* on it names it.                                                         *)
(***************************************************************************)
VouchedByItsDomain ==
  /\ \A i \in identities :
       /\ \E f \in federated : f[1] = i.svid.domain /\ f[2].level = i.level
                               /\ \E key \in f[2].keys : key.signer = i.svid.signer
       /\ \E n \in 1..exported[i.svid.domain] : \E key \in Exports[i.svid.domain][n] :
            key.signer = i.svid.signer
       /\ i.at < i.svid.exp
  /\ \A c \in minted : c.authorized_by # None =>
       c.from \in identities /\ c.authorized_by = <<c.from.svid.domain, c.from.svid.path>>

(***************************************************************************)
(* The authority an agent gets on behalf of somebody stays within what     *)
(* that somebody's own authority attested: its tools within the scope the  *)
(* provider signed, its life within that of the token, and neither half of *)
(* the entitlement labelled with better evidence than it came with.        *)
(***************************************************************************)
OnBehalfIsConsented ==
  \A c \in minted : c.on_behalf_of # None =>
    LET obo == c.on_behalf_of IN
    /\ c.expires <= obo.expires_at /\ c.issued < obo.expires_at
    /\ obo.scope # {} => c.tools \subseteq obo.scope
    /\ obo.resources # {} => Rank[obo.source] <= Rank[c.from.source]
    /\ IF obo.principal[2] = "human"
       THEN \E t \in IdTokens :
              /\ t = c.from.token /\ SignatureVerifies(t) /\ obo.principal = HumanDid(t)
              /\ obo.scope = t.scope /\ obo.expires_at = t.exp
       ELSE obo.source # "attested" /\ obo.principal = WorkloadDid(c.from.identity.svid)
===============================================================================
