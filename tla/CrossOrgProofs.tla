---------------------------- MODULE CrossOrgProofs ----------------------------
(***************************************************************************)
(* Proofs about what crosses the border of an organization: the identity   *)
(* its bridges attest (Federation), the credential a holder presents       *)
(* (Presentation), the key a relying party comes to hold (CrossOrg) and    *)
(* the message it is sent (A2AVerifier).                                   *)
(***************************************************************************)
EXTENDS A2AVerifier, CrossOrg, Federation, Presentation, FiniteSetTheorems,
        WellFoundedInduction, TLAPS

-------------------------------------------------------------------------------
(***************************************************************************)
(* Federation.  Whatever trust domains export and whenever a bridge takes  *)
(* it, an identity that is held was vouched for by its own domain, and     *)
(* authority on behalf of somebody stays within what that somebody's       *)
(* authority attested.  What has to be added to the properties is where    *)
(* the bridge and the people come from: an entry of the bridge is one that *)
(* was taken, of an export of its domain, and a person that is held showed *)
(* a signed token.                                                         *)
(***************************************************************************)
BridgeKnown ==
  \A d \in Domains : bridge[d] # None =>
    /\ <<d, bridge[d]>> \in federated
    /\ \E n \in 1..exported[d] : bridge[d].keys \subseteq Exports[d][n]

PeopleSignedIn == \A t \in people : t \in IdTokens /\ SignatureVerifies(t)

FederationInv ==
  /\ hour \in Nat
  /\ exported \in [Domains -> Nat] /\ DOMAIN bridge = Domains
  /\ \A i \in identities : i.svid \in Svids
  /\ BridgeKnown /\ PeopleSignedIn

-------------------------------------------------------------------------------
\* A bundle that verifies an SVID has a key that signed it.
LEMMA SignerInBundle ==
  ASSUME NEW svid, NEW audience, SvidVerifies(svid, audience)
  PROVE  /\ bridge[svid.domain] # None
         /\ \E key \in bridge[svid.domain].keys : key.signer = svid.signer
         /\ hour < svid.exp
BY DEF SvidVerifies, BundleSigned, BundleFor

LEMMA FederationInvInit == FederationInit => FederationInv
BY DEF FederationInit, FederationInv, BridgeKnown, PeopleSignedIn

\* Domains export more, and a bridge takes what was exported: the entry that
\* was taken last is of an export that stays.
LEMMA BridgeStep ==
  ASSUME FederationInv, FederationAssumption, NEW d \in Domains,
         ExportBundle(d) \/ \E i \in DOMAIN Exports[d], level \in Levels : AddDomain(d, i, level)
  PROVE  FederationInv'
<1>1. CASE ExportBundle(d)
  BY <1>1 DEF ExportBundle, FederationInv, BridgeKnown, PeopleSignedIn
<1>2. ASSUME NEW i \in DOMAIN Exports[d], NEW level \in Levels, AddDomain(d, i, level)
      PROVE  FederationInv'
  <2> DEFINE entry == [keys |-> Imported(Exports[d][i]), level |-> level]
  <2>1. /\ bridge' = [bridge EXCEPT ![d] = entry]
        /\ federated' = federated \cup {<<d, entry>>}
        /\ i <= exported[d]
        /\ UNCHANGED <<hour, exported, identities, people, minted>>
    BY <1>2 DEF AddDomain
  <2>2. i \in 1..exported[d]
    BY <2>1 DEF FederationInv, FederationAssumption
  <2>3. entry.keys \subseteq Exports[d][i]
    BY DEF Imported
  <2>4. BridgeKnown'
    <3> SUFFICES ASSUME NEW e \in Domains, bridge'[e] # None
                 PROVE  /\ <<e, bridge'[e]>> \in federated'
                        /\ \E n \in 1..exported[e] : bridge'[e].keys \subseteq Exports[e][n]
      BY <2>1 DEF BridgeKnown
    <3>1. CASE e = d
      <4>1. bridge'[d] = entry
        BY <2>1 DEF FederationInv
      <4> QED
        BY <3>1, <4>1, <2>1, <2>2, <2>3
    <3>2. CASE e # d
      <4>1. bridge'[e] = bridge[e]
        BY <3>2, <2>1 DEF FederationInv
      <4> QED
        BY <4>1, <2>1 DEF FederationInv, BridgeKnown
    <3> QED
      BY <3>1, <3>2
  <2>5. DOMAIN bridge' = Domains
    BY <2>1 DEF FederationInv
  <2> QED
    BY <2>1, <2>4, <2>5 DEF FederationInv, PeopleSignedIn
<1> QED
  BY <1>1, <1>2

\* Nothing else touches the bridge, and only a validated token makes a person.
LEMMA OtherStep ==
  ASSUME FederationInv, FederationAssumption, UNCHANGED <<exported, bridge, federated>>,
         hour' \in Nat,
         \A i \in identities' : i \in identities \/ i.svid \in Svids,
         \A t \in people' : t \in people \/ (t \in IdTokens /\ SignatureVerifies(t))
  PROVE  FederationInv'
BY DEF FederationInv, BridgeKnown, PeopleSignedIn, SignatureVerifies

LEMMA MintKeeps ==
  ASSUME NEW tools, NEW span, NEW obo, NEW by, NEW from,
         IssueCapability(tools, span, obo, by, from)
  PROVE  /\ UNCHANGED <<hour, exported, bridge, identities, people, federated>>
         /\ ClaimsAreCoherent(tools, obo)
         /\ minted' = minted \cup {[tools |-> tools, on_behalf_of |-> obo, authorized_by |-> by,
                             issued |-> hour, expires |-> CredentialExpiry(span, obo),
                             from |-> from]}
BY DEF IssueCapability

-------------------------------------------------------------------------------
LEMMA FederationInvNext ==
  ASSUME FederationInv, FederationAssumption, FederationNext
  PROVE  FederationInv'
<1>1. ASSUME NEW d \in Domains,
             ExportBundle(d) \/ \E i \in DOMAIN Exports[d], level \in Levels : AddDomain(d, i, level)
      PROVE  FederationInv'
  BY <1>1, BridgeStep
<1>2. ASSUME NEW svid \in Svids, NEW audience \in {None} \cup svid.aud, ValidateSvid(svid, audience)
      PROVE  FederationInv'
  BY <1>2, OtherStep DEF ValidateSvid, FederationInv
<1>3. ASSUME NEW token \in IdTokens, NEW nonce \in Logins, SignIn(token, nonce)
      PROVE  FederationInv'
  BY <1>3, OtherStep DEF SignIn, ValidateIdToken, FederationInv
<1>4. ASSUME NEW tools, NEW span, NEW obo, NEW by, NEW from,
             IssueCapability(tools, span, obo, by, from)
      PROVE  FederationInv'
  BY <1>4, MintKeeps, OtherStep DEF FederationInv
<1>5. ASSUME NextHour
      PROVE  FederationInv'
  BY <1>5, OtherStep DEF NextHour, FederationInv
<1> QED
  BY <1>1, <1>2, <1>3, <1>4, <1>5
     DEF FederationNext, IssueFromSvid, IssueForWorkload, IssueOnBehalfOf

-------------------------------------------------------------------------------
\* An identity is only added when the bridge verifies it, and a credential on
\* one names it: the rest can only add to what the property looks for.
LEMMA VouchedStep ==
  ASSUME FederationInv, FederationAssumption, FederationNext, VouchedByItsDomain
  PROVE  VouchedByItsDomain'
<1>1. ASSUME NEW d \in Domains, ExportBundle(d)
      PROVE  VouchedByItsDomain'
  <2>1. /\ UNCHANGED <<hour, bridge, identities, people, minted, federated>>
        /\ exported' = [exported EXCEPT ![d] = @ + 1]
    BY <1>1 DEF ExportBundle
  <2>2. \A e \in Domains : exported'[e] \in Nat /\ 1..exported[e] \subseteq 1..exported'[e]
    BY <2>1 DEF FederationInv
  <2>3. \A i \in identities : i.svid.domain \in Domains
    BY DEF FederationInv, FederationAssumption
  <2> QED
    BY <2>1, <2>2, <2>3 DEF VouchedByItsDomain
<1>2. ASSUME NEW d \in Domains, NEW i \in DOMAIN Exports[d], NEW level \in Levels,
             AddDomain(d, i, level)
      PROVE  VouchedByItsDomain'
  BY <1>2 DEF AddDomain, VouchedByItsDomain
<1>3. ASSUME NEW svid \in Svids, NEW audience \in {None} \cup svid.aud, ValidateSvid(svid, audience)
      PROVE  VouchedByItsDomain'
  <2> DEFINE new == [svid |-> svid, level |-> bridge[svid.domain].level, at |-> hour]
             d   == svid.domain
  <2>1. /\ bridge[d] # None /\ identities' = identities \cup {new}
        /\ UNCHANGED <<hour, exported, bridge, people, minted, federated>>
        /\ d \in Domains
    BY <1>3 DEF ValidateSvid, FederationAssumption
  <2>2. /\ \E key \in bridge[d].keys : key.signer = svid.signer
        /\ hour < svid.exp
    BY <1>3, SignerInBundle DEF ValidateSvid
  <2>3. /\ <<d, bridge[d]>> \in federated
        /\ \E n \in 1..exported[d] : bridge[d].keys \subseteq Exports[d][n]
    BY <2>1 DEF FederationInv, BridgeKnown
  <2>4. /\ \E f \in federated : f[1] = new.svid.domain /\ f[2].level = new.level
                                /\ \E key \in f[2].keys : key.signer = new.svid.signer
        /\ \E n \in 1..exported[new.svid.domain] : \E key \in Exports[new.svid.domain][n] :
             key.signer = new.svid.signer
        /\ new.at < new.svid.exp
    <3> DEFINE taken == <<d, bridge[d]>>
    <3>1. taken[1] = new.svid.domain /\ taken[2].level = new.level
          /\ \E key \in taken[2].keys : key.signer = new.svid.signer
      BY <2>2
    <3>2. taken \in federated
      BY <2>3
    <3> QED
      BY <3>1, <3>2, <2>2, <2>3
  <2> HIDE DEF new
  <2> QED
    BY <2>1, <2>4 DEF VouchedByItsDomain
<1>4. ASSUME NEW token \in IdTokens, NEW nonce \in Logins, SignIn(token, nonce)
      PROVE  VouchedByItsDomain'
  BY <1>4 DEF SignIn, VouchedByItsDomain
<1>5. ASSUME NEW tools, NEW span, NEW obo, NEW by, NEW from,
             IssueCapability(tools, span, obo, by, from),
             by # None => from \in identities /\ by = <<from.svid.domain, from.svid.path>>
      PROVE  VouchedByItsDomain'
  <2> DEFINE new == [tools |-> tools, on_behalf_of |-> obo, authorized_by |-> by,
                     issued |-> hour, expires |-> CredentialExpiry(span, obo), from |-> from]
  <2>1. /\ minted' = minted \cup {new}
        /\ UNCHANGED <<hour, exported, bridge, identities, people, federated>>
    BY <1>5, MintKeeps
  <2>2. new.authorized_by # None =>
          new.from \in identities /\ new.authorized_by = <<new.from.svid.domain, new.from.svid.path>>
    BY <1>5
  <2> HIDE DEF new
  <2> QED
    BY <2>1, <2>2 DEF VouchedByItsDomain
<1>6. ASSUME NextHour
      PROVE  VouchedByItsDomain'
  BY <1>6 DEF NextHour, VouchedByItsDomain
<1> QED
  BY <1>1, <1>2, <1>3, <1>4, <1>5, <1>6
     DEF FederationNext, IssueFromSvid, IssueForWorkload, IssueOnBehalfOf

\* "A forged sub cannot gain trust": an identity that is held was signed by a key
\* the domain it names exported, has the level that was assigned with those very
\* keys, and had not expired; and what is issued on it names it.
THEOREM IdentityVouched == FederationSpec => []VouchedByItsDomain
<1>1. FederationInit => FederationInv /\ VouchedByItsDomain
  BY FederationInvInit DEF FederationInit, VouchedByItsDomain
<1>2. FederationInv /\ VouchedByItsDomain /\ [FederationNext]_federationVars
        => FederationInv' /\ VouchedByItsDomain'
  <2>1. CASE FederationNext
    BY <2>1, FederationInvNext, VouchedStep, FederationAssumption
  <2>2. CASE UNCHANGED federationVars
    BY <2>2 DEF federationVars, FederationInv, VouchedByItsDomain, BridgeKnown, PeopleSignedIn
  <2> QED
    BY <2>1, <2>2
<1> QED
  BY <1>1, <1>2, PTL DEF FederationSpec

-------------------------------------------------------------------------------
\* What one credential has to satisfy.
Consented(c) == c.on_behalf_of # None =>
  LET obo == c.on_behalf_of IN
  /\ c.expires <= obo.expires_at /\ c.issued < obo.expires_at
  /\ obo.scope # {} => c.tools \subseteq obo.scope
  /\ obo.resources # {} => Rank[obo.source] <= Rank[c.from.source]
  /\ IF obo.principal[2] = "human"
     THEN \E t \in IdTokens :
            /\ t = c.from.token /\ SignatureVerifies(t) /\ obo.principal = HumanDid(t)
            /\ obo.scope = t.scope /\ obo.expires_at = t.exp
     ELSE obo.source # "attested" /\ obo.principal = WorkloadDid(c.from.identity.svid)

\* A source that labels resources is no better than the one they came with.
LEMMA EntitlementNoBetter ==
  ASSUME NEW scope, NEW resources, resources # {}, NEW source \in Sources
  PROVE  Rank[EntitlementSource(scope, resources, source)] <= Rank[source]
<1>1. Rank["asserted"] = 0 /\ Rank["policy"] = 1 /\ Rank["attested"] = 2
  BY DEF Rank
<1>2. source = "asserted" \/ source = "policy" \/ source = "attested"
  BY DEF Sources
<1>3. Rank[source] \in 0..2
  BY <1>1, <1>2
<1>4. CASE scope = {}
  BY <1>3, <1>4 DEF EntitlementSource
<1>5. CASE scope # {}
  <2>1. EntitlementSource(scope, resources, source) = Weaker(source, "attested")
    BY <1>5 DEF EntitlementSource
  <2> QED
    BY <2>1, <1>1, <1>2, <1>3 DEF Weaker
<1> QED
  BY <1>4, <1>5

\* A credential ends with the authorization, and its claims fit it.
LEMMA MintWithin ==
  ASSUME FederationInv, FederationAssumption, NEW tools, NEW span \in Lifetimes, NEW obo,
         obo.authorized_at = hour, obo.expires_at \in Int, obo # None, ClaimsAreCoherent(tools, obo)
  PROVE  /\ CredentialExpiry(span, obo) <= obo.expires_at /\ hour < obo.expires_at
         /\ obo.scope # {} => tools \subseteq obo.scope
<1>1. hour \in Nat /\ span \in Nat
  BY DEF FederationInv, FederationAssumption
<1> QED
  BY <1>1 DEF CredentialExpiry, ClaimsAreCoherent

LEMMA OnBehalfStep ==
  ASSUME FederationInv, FederationAssumption, FederationNext, OnBehalfIsConsented
  PROVE  OnBehalfIsConsented'
<1> USE DEF Consented
<1>1. ASSUME NEW tools, NEW span, NEW obo, NEW by, NEW from,
             IssueCapability(tools, span, obo, by, from),
             Consented([tools |-> tools, on_behalf_of |-> obo, authorized_by |-> by,
                        issued |-> hour, expires |-> CredentialExpiry(span, obo), from |-> from])
      PROVE  OnBehalfIsConsented'
  <2> DEFINE new == [tools |-> tools, on_behalf_of |-> obo, authorized_by |-> by,
                     issued |-> hour, expires |-> CredentialExpiry(span, obo), from |-> from]
  <2>1. minted' = minted \cup {new}
    BY <1>1, MintKeeps
  <2>2. \A c \in minted : Consented(c)
    BY DEF OnBehalfIsConsented
  <2>3. Consented(new)
    BY <1>1
  <2>4. \A c \in minted' : Consented(c)
    <3> HIDE DEF new, Consented
    <3> QED
      BY <2>1, <2>2, <2>3
  <2> QED
    BY <2>4 DEF OnBehalfIsConsented, SignatureVerifies, HumanDid, WorkloadDid, PrincipalDid
<1>2. ASSUME NEW tools \in Grants, NEW span \in Lifetimes, NEW identity \in identities,
             IssueFromSvid(identity, tools, span)
      PROVE  OnBehalfIsConsented'
  BY <1>2, <1>1 DEF IssueFromSvid
<1>3. ASSUME NEW tools \in Grants, NEW span \in Lifetimes, NEW identity \in identities,
             NEW resources \in Namespaces, NEW source \in {"asserted", "policy"},
             NEW expires \in 1..Closing, NEW scope \in Grants,
             IssueForWorkload(identity, tools, span, expires, scope, resources, source)
      PROVE  OnBehalfIsConsented'
  <2> DEFINE obo == Authorize(WorkloadDid(identity.svid), expires, scope, resources, source)
             from == [identity |-> identity, source |-> source]
             new == [tools |-> tools, on_behalf_of |-> obo, authorized_by |-> None,
                     issued |-> hour, expires |-> CredentialExpiry(span, obo), from |-> from]
  <2>1. IssueCapability(tools, span, obo, None, from)
    BY <1>3 DEF IssueForWorkload
  <2>2. CASE obo = None
    BY <2>1, <2>2, <1>1
  <2>3. CASE obo # None
    <3>1. /\ obo.authorized_at = hour /\ obo.expires_at = expires /\ obo.scope = scope
          /\ obo.resources = resources /\ obo.source = source
          /\ obo.principal = WorkloadDid(identity.svid)
      BY DEF Authorize
    <3>2. ClaimsAreCoherent(tools, obo)
      BY <2>1, MintKeeps
    <3>3. expires \in Int
      BY DEF FederationAssumption
    <3> HIDE DEF obo
    <3>4. /\ CredentialExpiry(span, obo) <= obo.expires_at /\ hour < obo.expires_at
          /\ obo.scope # {} => tools \subseteq obo.scope
      BY <2>3, <3>1, <3>2, <3>3, MintWithin
    <3>5. obo.principal[2] # "human" /\ obo.source # "attested"
      BY <3>1 DEF WorkloadDid, PrincipalDid
    <3>6. Rank[source] <= Rank[source]
      BY DEF Rank
    <3>7. Consented(new)
      BY <3>1, <3>4, <3>5, <3>6
    <3> QED
      BY <3>7, <2>1, <1>1
  <2> QED
    BY <2>2, <2>3
<1>4. ASSUME NEW tools \in Grants, NEW span \in Lifetimes, NEW token \in people,
             NEW resources \in Namespaces, NEW source \in Sources,
             IssueOnBehalfOf(token, tools, span, resources, source)
      PROVE  OnBehalfIsConsented'
  <2> DEFINE told == EntitlementSource(token.scope, resources, source)
             obo == Authorize(HumanDid(token), token.exp, token.scope, resources, told)
             from == [token |-> token, source |-> source]
             new == [tools |-> tools, on_behalf_of |-> obo, authorized_by |-> None,
                     issued |-> hour, expires |-> CredentialExpiry(span, obo), from |-> from]
  <2>1. IssueCapability(tools, span, obo, None, from)
    BY <1>4 DEF IssueOnBehalfOf
  <2>2. CASE obo = None
    BY <2>1, <2>2, <1>1
  <2>3. CASE obo # None
    <3>1. /\ obo.authorized_at = hour /\ obo.expires_at = token.exp /\ obo.scope = token.scope
          /\ obo.resources = resources /\ obo.source = told
          /\ obo.principal = HumanDid(token)
      BY DEF Authorize
    <3>2. ClaimsAreCoherent(tools, obo)
      BY <2>1, MintKeeps
    <3>3. token \in IdTokens /\ SignatureVerifies(token) /\ token.exp \in Int
      BY DEF FederationAssumption, FederationInv, PeopleSignedIn
    <3>4. resources # {} => Rank[told] <= Rank[source]
      BY EntitlementNoBetter
    <3> HIDE DEF obo, told
    <3>5. /\ CredentialExpiry(span, obo) <= obo.expires_at /\ hour < obo.expires_at
          /\ obo.scope # {} => tools \subseteq obo.scope
      BY <2>3, <3>1, <3>2, <3>3, MintWithin
    <3>6. obo.principal[2] = "human"
      BY <3>1 DEF HumanDid, PrincipalDid
    <3>7. Consented(new)
      BY <3>1, <3>3, <3>4, <3>5, <3>6
    <3> QED
      BY <3>7, <2>1, <1>1
  <2> QED
    BY <2>2, <2>3
<1>5. ASSUME UNCHANGED minted
      PROVE  OnBehalfIsConsented'
  BY <1>5 DEF OnBehalfIsConsented, SignatureVerifies, HumanDid, WorkloadDid, PrincipalDid
<1> QED
  BY <1>2, <1>3, <1>4, <1>5
     DEF FederationNext, ExportBundle, AddDomain, ValidateSvid, SignIn, NextHour

\* The authority an agent gets on behalf of somebody is within what that somebody's
\* own authority attested: tools, lifetime, and the label of its evidence.
THEOREM OnBehalf == FederationSpec => []OnBehalfIsConsented
<1>1. FederationInit => FederationInv /\ OnBehalfIsConsented
  BY FederationInvInit DEF FederationInit, OnBehalfIsConsented
<1>2. FederationInv /\ OnBehalfIsConsented /\ [FederationNext]_federationVars
        => FederationInv' /\ OnBehalfIsConsented'
  <2>1. CASE FederationNext
    BY <2>1, FederationInvNext, OnBehalfStep, FederationAssumption
  <2>2. CASE UNCHANGED federationVars
    BY <2>2 DEF federationVars, FederationInv, OnBehalfIsConsented, BridgeKnown, PeopleSignedIn,
                SignatureVerifies, HumanDid, WorkloadDid, PrincipalDid
  <2> QED
    BY <2>1, <2>2
<1> QED
  BY <1>1, <1>2, PTL DEF FederationSpec

-------------------------------------------------------------------------------
(***************************************************************************)
(* Presentation.  Every text a verifier may be handed is put together from *)
(* parts of texts that agents made, and each part says where it is from.   *)
(* A binding or a BBS+ proof names all of the text it closes; a disclosure *)
(* names its credential, by an identifier no other credential has.         *)
(***************************************************************************)
Made(s) ==
  \E agent \in Holders, c \in credentials, names \in SUBSET Advisory,
     challenge \in asked \cup {None} :
    /\ s.text \in Presentable(agent, c, names, challenge)
    /\ s = [text |-> s.text, by |-> agent, challenge |-> challenge]

Identified ==
  /\ IsFiniteSet(credentials)
  /\ \A c \in credentials :
       /\ c.format \in {"w3c", "vc", "sd", "bbs"}
       /\ c.id \in Nat /\ c.id <= Cardinality(credentials)
  /\ \A c, d \in credentials : c.id = d.id => c = d

PresentationInv == Identified /\ \A s \in shown : Made(s)

-------------------------------------------------------------------------------
\* What an agent can make of a credential discloses of that credential only; a
\* proof in it is over all of it, made by the subject or for the nonce.
LEMMA MadeText ==
  ASSUME NEW agent, NEW c, c.format \in {"w3c", "vc", "sd", "bbs"},
         NEW names \in SUBSET Advisory, NEW challenge,
         NEW text \in Presentable(agent, c, names, challenge)
  PROVE  /\ text = Showing(c, text.disclosures, text.proof)
         /\ text.disclosures \subseteq Signed(c)
         /\ text.proof # None =>
              \/ /\ c.format = "vc" /\ agent = c.subject
                 /\ text.proof = KeyBinding(agent, c, text.disclosures, challenge)
              \/ /\ c.format = "bbs"
                 /\ text.proof = BbsProof(c, text.disclosures, challenge.nonce)
<1> DEFINE disclosures == {Disclosure(c, name) : name \in names}
<1>1. disclosures \subseteq Signed(c)
  BY DEF Signed
<1>2. CASE c.format = "w3c"
  BY <1>2 DEF Presentable, Showing
<1>3. CASE c.format = "vc"
  <2>1. CASE challenge = None
    BY <1>1, <1>3, <2>1 DEF Presentable, Showing
  <2>2. CASE challenge # None /\ agent = c.subject
    <3>1. text = Showing(c, disclosures, KeyBinding(agent, c, disclosures, challenge))
      BY <1>3, <2>2 DEF Presentable
    <3> QED
      BY <1>1, <1>3, <2>2, <3>1 DEF Showing
  <2>3. CASE challenge # None /\ agent # c.subject
    BY <1>3, <2>3 DEF Presentable
  <2> QED
    BY <2>1, <2>2, <2>3
<1>4. CASE c.format = "sd"
  BY <1>1, <1>4 DEF Presentable, Showing
<1>5. CASE c.format = "bbs"
  <2>1. text = Showing(c, disclosures, BbsProof(c, disclosures, challenge.nonce))
    BY <1>5 DEF Presentable
  <2> QED
    BY <1>1, <1>5, <2>1 DEF Showing
<1> QED
  BY <1>2, <1>3, <1>4, <1>5

\* The parts of a presentation that was made.
LEMMA PartsOfShown ==
  ASSUME PresentationInv, NEW s \in shown
  PROVE  /\ s.text.credential \in credentials
         /\ s.text = Showing(s.text.credential, s.text.disclosures, s.text.proof)
         /\ s.text.disclosures \subseteq Signed(s.text.credential)
         /\ s = [text |-> s.text, by |-> s.by, challenge |-> s.challenge]
         /\ s.text.proof # None =>
              LET c == s.text.credential IN
              \/ /\ c.format = "vc" /\ s.by = c.subject
                 /\ s.text.proof = KeyBinding(s.by, c, s.text.disclosures, s.challenge)
              \/ /\ c.format = "bbs"
                 /\ s.text.proof = BbsProof(c, s.text.disclosures, s.challenge.nonce)
<1>1. PICK agent \in Holders, c \in credentials, names \in SUBSET Advisory,
           challenge \in asked \cup {None} :
        /\ s.text \in Presentable(agent, c, names, challenge)
        /\ s = [text |-> s.text, by |-> agent, challenge |-> challenge]
  BY DEF PresentationInv, Made
<1>2. c.format \in {"w3c", "vc", "sd", "bbs"}
  BY DEF PresentationInv, Identified
<1>3. s.by = agent /\ s.challenge = challenge
  BY <1>1
<1>4. /\ s.text = Showing(c, s.text.disclosures, s.text.proof)
      /\ s.text.disclosures \subseteq Signed(c)
      /\ s.text.proof # None =>
           \/ /\ c.format = "vc" /\ agent = c.subject
              /\ s.text.proof = KeyBinding(agent, c, s.text.disclosures, challenge)
           \/ /\ c.format = "bbs"
              /\ s.text.proof = BbsProof(c, s.text.disclosures, challenge.nonce)
  BY <1>1, <1>2, MadeText
<1>5. s.text.credential = c
  BY <1>4 DEF Showing
<1> QED
  BY <1>1, <1>3, <1>4, <1>5

\* A proof is over the text it was made for.
LEMMA ProofIsOfText ==
  ASSUME PresentationInv, NEW s \in shown, s.text.proof # None
  PROVE  s.text.proof.over = <<s.text.credential, s.text.disclosures>>
<1> DEFINE c == s.text.credential
<1>1. CASE s.text.proof = KeyBinding(s.by, c, s.text.disclosures, s.challenge)
  BY <1>1 DEF KeyBinding
<1>2. CASE s.text.proof = BbsProof(c, s.text.disclosures, s.challenge.nonce)
  BY <1>2 DEF BbsProof
<1> QED
  BY <1>1, <1>2, PartsOfShown

-------------------------------------------------------------------------------
LEMMA PresentationInvInit == PresentationInit => PresentationInv
BY FS_EmptySet DEF PresentationInit, PresentationInv, Identified

\* A new credential has an identifier above all others.
LEMMA IssueKeeps ==
  ASSUME PresentationInv, PresentationAssumption, NEW i \in Issuances, IssueIn(i)
  PROVE  PresentationInv'
<1>1. /\ credentials' = credentials \cup {Issued(i)}
      /\ UNCHANGED <<moment, asked, shown>>
  BY DEF IssueIn
<1>2. /\ IsFiniteSet(credentials) /\ Cardinality(credentials) \in Nat
      /\ Issued(i).id = Cardinality(credentials) + 1
      /\ Issued(i).format \in {"w3c", "vc", "sd", "bbs"}
  BY FS_CardinalityType DEF PresentationInv, Identified, Issued, PresentationAssumption
<1>3. Issued(i) \notin credentials
  BY <1>2 DEF PresentationInv, Identified
<1>4. IsFiniteSet(credentials') /\ Cardinality(credentials') = Cardinality(credentials) + 1
  BY <1>1, <1>2, <1>3, FS_AddElement
<1>5. Identified'
  <2> DEFINE new == Issued(i)
  <2>1. /\ new.format \in {"w3c", "vc", "sd", "bbs"}
        /\ new.id = Cardinality(credentials')
        /\ credentials' = credentials \cup {new}
        /\ new.id \in Nat
    BY <1>1, <1>2, <1>4
  <2> HIDE DEF new
  <2>2. \A c \in credentials :
          /\ c.format \in {"w3c", "vc", "sd", "bbs"}
          /\ c.id \in Nat /\ c.id < new.id
    BY <1>2, <1>4, <2>1 DEF PresentationInv, Identified
  <2>3. \A c \in credentials' :
          /\ c.format \in {"w3c", "vc", "sd", "bbs"}
          /\ c.id \in Nat /\ c.id <= Cardinality(credentials')
    <3> SUFFICES ASSUME NEW c \in credentials'
        PROVE  /\ c.format \in {"w3c", "vc", "sd", "bbs"}
               /\ c.id \in Nat /\ c.id <= new.id
      BY <2>1
    <3>1. CASE c \in credentials
      <4>1. c.id \in Nat /\ c.id < new.id /\ c.format \in {"w3c", "vc", "sd", "bbs"}
        BY <2>2, <3>1
      <4>2. new.id \in Nat
        BY <2>1
      <4> QED
        BY <4>1, <4>2
    <3>2. CASE c = new
      BY <2>1, <3>2
    <3> QED
      BY <2>1, <3>1, <3>2
  <2>4. \A c, d \in credentials' : c.id = d.id => c = d
    BY <2>1, <2>2 DEF PresentationInv, Identified
  <2> QED
    BY <1>4, <2>3, <2>4 DEF Identified
<1>6. \A s \in shown' : Made(s)'
  BY <1>1 DEF PresentationInv, Made
<1> QED
  BY <1>5, <1>6 DEF PresentationInv

LEMMA PresentationInvNext ==
  ASSUME PresentationInv, PresentationAssumption, PresentationNext
  PROVE  PresentationInv'
<1> USE DEF PresentationInv, Identified, Made
<1>1. ASSUME NEW audience \in Verifiers, NEW nonce \in Nonces, AskFor(audience, nonce)
      PROVE  PresentationInv'
  <2>1. UNCHANGED <<moment, credentials, shown>> /\ asked \subseteq asked'
    BY <1>1 DEF AskFor
  <2> QED
    BY <2>1
<1>2. ASSUME NEW agent \in Holders, NEW c \in credentials, NEW names \in SUBSET Advisory,
             NEW challenge \in asked \cup {None}, PresentTo(agent, c, names, challenge)
      PROVE  PresentationInv'
  <2>1. PICK text \in Presentable(agent, c, names, challenge) :
          shown' = shown \cup {[text |-> text, by |-> agent, challenge |-> challenge]}
    BY <1>2 DEF PresentTo
  <2>2. UNCHANGED <<moment, credentials, asked>>
    BY <1>2 DEF PresentTo
  <2> DEFINE new == [text |-> text, by |-> agent, challenge |-> challenge]
  <2>3. Made(new) /\ \A s \in shown : Made(s)
    OBVIOUS
  <2>4. \A s \in shown' : Made(s)
    <3> SUFFICES ASSUME NEW s \in shown'
        PROVE  Made(s)
      OBVIOUS
    <3>1. s \in shown \/ s = new
      BY <2>1
    <3>2. CASE s \in shown
      BY <2>3, <3>2
    <3>3. CASE s = new
      <4> HIDE DEF new, Made
      <4> QED
        BY <2>3, <3>3
    <3> QED
      BY <3>1, <3>2, <3>3
  <2> QED
    BY <2>2, <2>4
<1>3. ASSUME NextMoment
      PROVE  PresentationInv'
  BY <1>3 DEF NextMoment
<1> QED
  BY <1>1, <1>2, <1>3, IssueKeeps DEF PresentationNext

-------------------------------------------------------------------------------
\* A deliverable text: its credential, each of its disclosures and its proof are
\* those of presentations that were made.
LEMMA PartsOfDeliverable ==
  ASSUME PresentationInv, NEW t \in Deliverable
  PROVE  /\ t = Showing(t.credential, t.disclosures, t.proof)
         /\ t.credential \in credentials
         /\ \A d \in t.disclosures : \E s \in shown : d \in s.text.disclosures
         /\ t.proof # None => \E s \in shown : s.text.proof = t.proof
<1>1. PICK u \in Texts, disclosures \in Selections(Texts),
           proof \in {x.proof : x \in Texts} \cup {None} :
        t = Showing(u.credential, disclosures, proof)
  BY DEF Deliverable, Recomposed
<1>2. t.credential = u.credential /\ t.disclosures = disclosures /\ t.proof = proof
  BY <1>1 DEF Showing
<1>3. u.credential \in credentials
  BY PartsOfShown DEF Texts
<1>4. \A d \in disclosures : \E s \in shown : d \in s.text.disclosures
  BY DEF Texts, Selections
<1>5. proof # None => \E s \in shown : s.text.proof = proof
  BY DEF Texts
<1> QED
  BY <1>1, <1>2, <1>3, <1>4, <1>5

\* A bound text is the one its subject showed.
LEMMA BoundIsShown ==
  ASSUME PresentationInv, NEW t \in Deliverable, NEW challenge \in asked,
         VerifyKeyBinding(t, challenge)
  PROVE  \E s \in shown : s = [text |-> t, by |-> t.credential.subject, challenge |-> challenge]
<1>1. /\ t.credential.format = "vc" /\ t.proof # None
      /\ t.proof.over = <<t.credential, t.disclosures>> /\ t.proof.challenge = challenge
      /\ t.proof.signer = t.credential.subject
  BY DEF VerifyKeyBinding
<1>2. PICK s \in shown : s.text.proof = t.proof
  BY <1>1, PartsOfDeliverable
<1> DEFINE c == s.text.credential
<1>3. t.proof.over = <<c, s.text.disclosures>>
  BY <1>1, <1>2, ProofIsOfText
<1>4. c = t.credential /\ s.text.disclosures = t.disclosures
  BY <1>1, <1>3
<1>5. s.text.proof = KeyBinding(s.by, c, s.text.disclosures, s.challenge) /\ s.by = c.subject
  BY <1>1, <1>2, <1>4, PartsOfShown
<1>6. s.challenge = challenge
  BY <1>1, <1>2, <1>5 DEF KeyBinding
<1>7. s.text = t
  BY <1>2, <1>4, PartsOfShown, PartsOfDeliverable
<1>8. s = [text |-> s.text, by |-> s.by, challenge |-> s.challenge]
  BY PartsOfShown
<1>9. s = [text |-> t, by |-> t.credential.subject, challenge |-> challenge]
  BY <1>4, <1>5, <1>6, <1>7, <1>8
<1> QED
  BY <1>9

\* A BBS+ proof is of what was revealed for its nonce.
LEMMA DerivedIsShown ==
  ASSUME PresentationInv, PresentationAssumption, NEW t \in Deliverable,
         NEW key \in BbsKeys, NEW nonce, VerifyBbs(t, key, nonce)
  PROVE  /\ \E s \in shown : s.text = t /\ s.challenge.nonce = nonce
         /\ IsBound(key) => t.credential.signer = Org
<1>1. /\ t.credential.format = "bbs" /\ t.proof # None
      /\ t.proof = BbsProof(t.credential, t.disclosures, nonce)
      /\ t.credential.signer = key.owner
      /\ IsBound(key) => key.attested = <<key.did, key.owner>> /\ key.did = Org
  BY DEF VerifyBbs
<1>2. PICK s \in shown : s.text.proof = t.proof
  BY <1>1, PartsOfDeliverable
<1> DEFINE c == s.text.credential
<1>3. t.proof.over = <<c, s.text.disclosures>> /\ t.proof.over = <<t.credential, t.disclosures>>
  BY <1>1, <1>2, ProofIsOfText DEF BbsProof
<1>4. c = t.credential /\ s.text.disclosures = t.disclosures
  BY <1>3
<1>5. s.text.proof = BbsProof(c, s.text.disclosures, s.challenge.nonce)
  BY <1>1, <1>2, <1>4, PartsOfShown
<1>6. s.challenge.nonce = nonce
  BY <1>1, <1>2, <1>5 DEF BbsProof
<1>7. s.text = t
  BY <1>2, <1>4, PartsOfShown, PartsOfDeliverable
<1>8. IsBound(key) => t.credential.signer = Org
  BY <1>1 DEF PresentationAssumption
<1>9. \E x \in shown : x.text = t /\ x.challenge.nonce = nonce
  BY <1>6, <1>7
<1> QED
  BY <1>8, <1>9

\* What is disclosed was disclosed of this credential: identifiers are unique.
LEMMA DisclosedWasShown ==
  ASSUME PresentationInv, NEW t \in Deliverable, NEW d \in t.disclosures,
         t.disclosures \subseteq Signed(t.credential)
  PROVE  /\ d[1] = t.credential.id
         /\ \E s \in shown : s.text.credential = t.credential /\ d \in s.text.disclosures
<1>1. d[1] = t.credential.id
  BY DEF Signed, Disclosure
<1>2. PICK s \in shown : d \in s.text.disclosures
  BY PartsOfDeliverable
<1>3. d \in Signed(s.text.credential)
  BY <1>2, PartsOfShown
<1>4. d[1] = s.text.credential.id
  BY <1>3 DEF Signed, Disclosure
<1>5. s.text.credential = t.credential
  BY <1>1, <1>4, PartsOfShown, PartsOfDeliverable DEF PresentationInv, Identified
<1> QED
  BY <1>1, <1>2, <1>5

LEMMA InvMeans ==
  ASSUME PresentationInv, PresentationAssumption
  PROVE  PresentedIsMeant
<1> SUFFICES ASSUME NEW t \in Deliverable
    PROVE /\ \A challenge \in asked :
              VerifyStrict(t) /\ VerifyKeyBinding(t, challenge) =>
                \E s \in shown : s = [text |-> t, by |-> t.credential.subject, challenge |-> challenge]
          /\ \A key \in BbsKeys, nonce \in Nonces :
              VerifyBbs(t, key, nonce) =>
                /\ \E s \in shown : s.text = t /\ s.challenge.nonce = nonce
                /\ IsBound(key) => t.credential.signer = Org
          /\ VerifyStrict(t) \/ VerifyPresentation(t) =>
              /\ t.credential \in credentials /\ t.credential.signer = Org
              /\ moment <= t.credential.expires
              /\ \A d \in t.disclosures :
                   d[1] = t.credential.id
                   /\ \E s \in shown : s.text.credential = t.credential /\ d \in s.text.disclosures
  BY DEF PresentedIsMeant
<1>1. ASSUME VerifyStrict(t) \/ VerifyPresentation(t)
      PROVE  IsGenuine(t.credential) /\ t.disclosures \subseteq Signed(t.credential)
  BY <1>1 DEF VerifyStrict, VerifyPresentation
<1>2. t.credential \in credentials
  BY PartsOfDeliverable
<1> QED
  BY <1>1, <1>2, BoundIsShown, DerivedIsShown, DisclosedWasShown DEF IsGenuine

\* However presentations are taken apart and put together, what is accepted as bound
\* was shown so by the subject for that challenge, what is derived was revealed for
\* that nonce, and nothing is learnt that was withheld from every presentation.
THEOREM Presented == PresentationSpec => []PresentedIsMeant
<1>1. PresentationInit => PresentationInv
  BY PresentationInvInit
<1>2. PresentationInv /\ [PresentationNext]_presentationVars => PresentationInv'
  <2>1. CASE PresentationNext
    BY <2>1, PresentationInvNext, PresentationAssumption
  <2>2. CASE UNCHANGED presentationVars
    BY <2>2 DEF presentationVars, PresentationInv, Identified, Made
  <2> QED
    BY <2>1, <2>2
<1>3. PresentationInv => PresentedIsMeant
  BY InvMeans, PresentationAssumption
<1> QED
  BY <1>1, <1>2, <1>3, PTL DEF PresentationSpec

-------------------------------------------------------------------------------
(***************************************************************************)
(* Resolution and registries.  Every entry of a registry, and of a config  *)
(* that was ever sealed, is grounded: under a primary key of the DID's own *)
(* controller unless the DID is one a universal endpoint is asked about,   *)
(* and beyond self-asserted trust only as the framework admitted it.  What *)
(* has to be added is that the in-memory resolver holds a document its     *)
(* controller did publish, that a config is sealed over its own fields, so *)
(* that one edited afterwards is not current, that a party asks whom its   *)
(* framework asks, and that one rebuilt from a config asks nobody.         *)
(***************************************************************************)
Grounded(d, e) ==
  /\ Theirs(d, e.key)
  /\ e.level > SelfAsserted => e.key \in Own(d) /\ <<d, e>> \in granted

EntriesGrounded(entries) ==
  /\ DOMAIN entries = Controllers
  /\ \A d \in Controllers : entries[d] # None => Grounded(d, entries[d])

ConfigFields == {"version", "minimum", "entries", "not_after", "over"}

PrefetchedPublished ==
  \A d \in Controllers :
    prefetched[d] # None => \E i \in 1..edition[d] : prefetched[d] = Document(d, i)

RegistriesGrounded ==
  \A registry \in {framework, relying} :
    /\ DOMAIN registry = {"entries", "minimum", "chain"}
    /\ EntriesGrounded(registry.entries)

AskTheSame ==
  /\ framework.chain \in Seq({"memory", "web", "universal", "hostile", "cheqd", "indy"})
  /\ relying.chain \in {framework.chain, <<>>}

SealedGrounded ==
  \A c \in sealed :
    DOMAIN c = ConfigFields /\ c.over = Sealed(c) /\ EntriesGrounded(c.entries)

RebuiltIsClosed ==
  rebuilt =>
    /\ relying.chain = <<>>
    /\ \A d \in Controllers : relying.entries[d] # None => <<d, relying.entries[d]>> \in loaded

LoadedWasSealed == \A entry \in loaded : \E c \in sealed : c.entries[entry[1]] = entry[2]

ReliedGrounded ==
  relied # None => relied[1] \in Controllers /\ Theirs(relied[1], relied[2])

CrossInv ==
  /\ edition \in [Controllers -> Nat] /\ \A d \in Controllers : edition[d] \in DOMAIN Published[d]
  /\ DOMAIN prefetched = Controllers
  /\ PrefetchedPublished /\ RegistriesGrounded /\ AskTheSame /\ SealedGrounded
  /\ RebuiltIsClosed /\ LoadedWasSealed /\ ReliedGrounded

-------------------------------------------------------------------------------
LEMMA Least ==
  ASSUME NEW S \in SUBSET Nat, S # {}
  PROVE  LET least == CHOOSE i \in S : \A j \in S : i <= j
         IN  /\ least \in S /\ \A j \in S : least <= j
             /\ \A i \in S : (\A j \in S : i <= j) => i = least
<1>1. PICK m \in S : \A k \in S : ~(<<k, m>> \in OpToRel(<, Nat))
  BY NatLessThanWellFounded, WFMin
<1>2. ASSUME NEW k \in S PROVE m <= k
  <2>1. ~(k < m)
    BY <1>1 DEF OpToRel
  <2> QED
    BY <2>1
<1> DEFINE least == CHOOSE i \in S : \A j \in S : i <= j
<1>3. least \in S /\ \A j \in S : least <= j
  BY <1>2
<1>4. ASSUME NEW i \in S, \A j \in S : i <= j PROVE i = least
  <2> HIDE DEF least
  <2>1. i <= least /\ least <= i
    BY <1>3, <1>4
  <2>2. i \in Nat /\ least \in Nat
    BY <1>3
  <2> QED
    BY <2>1, <2>2
<1> QED
  BY <1>3, <1>4

\* Whom a DID is asked of does not change, and what its controller published stays
\* published: what was grounded is so for ever.
LEMMA GroundsLast ==
  ASSUME CrossInv, CrossOrgAssumption, edition' \in [Controllers -> Nat],
         \A d \in Controllers : edition[d] <= edition'[d],
         framework'.chain = framework.chain, granted \subseteq granted'
  PROVE  /\ \A d \in Controllers : Own(d) \subseteq Own(d)'
         /\ \A d \in Controllers : \A key : Theirs(d, key) => Theirs(d, key)'
         /\ \A d \in Controllers : \A e : Grounded(d, e) => Grounded(d, e)'
         /\ \A entries : EntriesGrounded(entries) => EntriesGrounded(entries)'
<1>1. ASSUME NEW d \in Controllers PROVE 1..edition[d] \subseteq 1..edition'[d]
  BY DEF CrossInv
<1>2. \A d \in Controllers : Own(d) \subseteq Own(d)'
  BY <1>1 DEF Own
<1>3. \A d \in Controllers : \A key : Promoted(d, key) => Promoted(d, key)'
  BY <1>1 DEF Promoted
<1>4. ASSUME NEW d \in Controllers PROVE Asked(d)' = Asked(d)
  <2>1. \A r : r # "memory" => Handles(r, d)' = Handles(r, d)
    BY DEF Handles
  <2> DEFINE able == {i \in DOMAIN framework.chain :
                        framework.chain[i] # "memory" /\ Handles(framework.chain[i], d)}
  <2>2. able' = able
    BY <2>1
  <2>3. Asked(d) = IF able = {} THEN None
                   ELSE framework.chain[CHOOSE i \in able : \A j \in able : i <= j]
    BY DEF Asked
  <2>4. Asked(d)' = (IF able = {} THEN None
                     ELSE framework.chain[CHOOSE i \in able : \A j \in able : i <= j])'
    BY DEF Asked
  <2> HIDE DEF able
  <2> QED
    BY <2>2, <2>3, <2>4
<1>5. \A d \in Controllers : \A key : Theirs(d, key) => Theirs(d, key)'
  BY <1>2, <1>3, <1>4 DEF Theirs
<1>6. \A d \in Controllers : \A e : Grounded(d, e) => Grounded(d, e)'
  BY <1>2, <1>5 DEF Grounded
<1>7. \A entries : EntriesGrounded(entries) => EntriesGrounded(entries)'
  BY <1>6 DEF EntriesGrounded
<1> QED
  BY <1>2, <1>5, <1>6, <1>7

\* A step that publishes nothing, admits nobody and leaves the framework's chain alone.
LEMMA GroundsSame ==
  ASSUME CrossInv, CrossOrgAssumption, edition' = edition, granted' = granted,
         framework'.chain = framework.chain
  PROVE  /\ \A d \in Controllers : Own(d) \subseteq Own(d)'
         /\ \A d \in Controllers : \A key : Theirs(d, key) => Theirs(d, key)'
         /\ \A d \in Controllers : \A e : Grounded(d, e) => Grounded(d, e)'
         /\ \A entries : EntriesGrounded(entries) => EntriesGrounded(entries)'
<1>1. /\ edition' \in [Controllers -> Nat] /\ \A d \in Controllers : edition[d] <= edition'[d]
      /\ granted \subseteq granted'
  BY DEF CrossInv
<1> QED
  BY <1>1, GroundsLast

-------------------------------------------------------------------------------
\* A host that answers for its own DIDs can only answer under a primary key that the
\* DID's controller published; a document that is about another DID is refused.
LEMMA WebIsOwn ==
  ASSUME NEW d \in Controllers, NEW doc \in Web(d), PrimaryKey(doc) # None
  PROVE  PrimaryKey(doc) \in Own(d)
<1>1. PICK e \in Controllers : \E i \in 1..edition[e] : doc = Document(e, i)
  BY DEF Web, Answers
<1>2. e = d
  BY <1>1 DEF Web, Document
<1> QED
  BY <1>1, <1>2 DEF PrimaryKey, Document, Own

\* What a universal endpoint answers as it should is a document of the DID, cut down to
\* its first method that can be read.
LEMMA UniversalIsPromoted ==
  ASSUME CrossInv, CrossOrgAssumption, NEW d \in Controllers, NEW doc \in Universal(d)
  PROVE  Promoted(d, PrimaryKey(doc))
<1>1. PICK a \in Answers : doc = Mapped(a)
  BY DEF Universal
<1>2. PICK e \in Controllers : \E i \in 1..edition[e] : a = Document(e, i)
  BY DEF Answers
<1>0. PICK i \in 1..edition[e] : a = Document(e, i)
  BY <1>2
<1> DEFINE methods == Published[d][i]
           kept == {j \in DOMAIN methods : Multibase(methods[j])}
           first == CHOOSE j \in kept : \A l \in kept : j <= l
<1>3. e = d /\ a.methods = methods
  BY <1>0, <1>1 DEF Universal, Mapped, Document
<1>4. DOMAIN methods = 1..Len(methods) /\ Len(methods) \in Nat
  <2>1. Published[d] \in Seq(Seq(VerificationMethod)) /\ edition[d] \in DOMAIN Published[d]
    BY DEF CrossOrgAssumption, CrossInv
  <2>2. i \in DOMAIN Published[d]
    BY <1>3, <2>1
  <2>3. methods \in Seq(VerificationMethod)
    BY <2>1, <2>2
  <2> QED
    BY <2>3
<1>5. kept # {} /\ doc.methods = <<methods[first]>>
  BY <1>1, <1>3 DEF Mapped, Universal
<1>6. first \in kept /\ \A l \in kept : first <= l
  <2>1. kept \in SUBSET Nat /\ kept # {}
    BY <1>4, <1>5
  <2> HIDE DEF kept
  <2> QED
    BY <2>1, Least
<1> HIDE DEF first
<1>7. PrimaryKey(doc) = methods[first].key
  BY <1>5, <1>6 DEF PrimaryKey, Multibase
<1>8. ASSUME NEW l \in 1..(first - 1) PROVE ~Multibase(methods[l])
  <2>1. first \in 1..Len(methods)
    BY <1>4, <1>6
  <2>2. l \in 1..Len(methods) /\ ~(first <= l)
    BY <1>4, <2>1
  <2> QED
    BY <1>4, <1>6, <2>2
<1> QED
  BY <1>3, <1>6, <1>7, <1>8 DEF Promoted

\* Whatever resolver takes an answer, the key found in it is one that is theirs.
LEMMA ResolvedIsTheirs ==
  ASSUME CrossInv, CrossOrgAssumption, NEW d \in Controllers,
         NEW doc \in Resolutions(framework.chain, d), PrimaryKey(doc) # None
  PROVE  Theirs(d, PrimaryKey(doc))
<1> DEFINE chain == framework.chain
           able == {i \in DOMAIN chain : Handles(chain[i], d)}
           first == CHOOSE i \in able : \A j \in able : i <= j
           remote == {i \in DOMAIN chain : chain[i] # "memory" /\ Handles(chain[i], d)}
<1>1. able # {} /\ doc \in ResolveWith(chain[first], d)
  BY DEF Resolutions
<1>2. DOMAIN chain \subseteq Nat
  BY DEF CrossInv, AskTheSame
<1>3. first \in able /\ \A j \in able : first <= j
  BY <1>1, <1>2, Least
<1> HIDE DEF first
<1>4. ASSUME chain[first] # "memory" PROVE Asked(d) = chain[first]
  <2>1. first \in remote /\ remote \subseteq able
    BY <1>3, <1>4
  <2>2. \A j \in remote : first <= j
    BY <1>3, <2>1
  <2>3. first = CHOOSE i \in remote : \A j \in remote : i <= j
    BY <1>2, <2>1, <2>2, Least
  <2> QED
    BY <2>1, <2>3 DEF Asked
<1>5. CASE chain[first] = "memory"
  <2>1. doc = prefetched[d] /\ prefetched[d] # None
    BY <1>1, <1>5 DEF ResolveWith
  <2>2. PICK i \in 1..edition[d] : doc = Document(d, i)
    BY <2>1 DEF CrossInv, PrefetchedPublished
  <2> QED
    BY <2>2 DEF PrimaryKey, Document, Own, Theirs
<1>6. CASE chain[first] = "web"
  BY <1>1, <1>6, WebIsOwn DEF ResolveWith, Theirs
<1>7. CASE chain[first] = "universal"
  BY <1>1, <1>4, <1>7, UniversalIsPromoted DEF ResolveWith, Theirs
<1>8. CASE chain[first] = "hostile"
  BY <1>4, <1>8 DEF Theirs
<1> QED
  BY <1>1, <1>5, <1>6, <1>7, <1>8 DEF ResolveWith

\* A registry that resolves stays grounded, keeps its chain, and one that has nobody
\* to ask learns nothing.
LEMMA ResolveGrounded ==
  ASSUME CrossInv, CrossOrgAssumption, NEW d \in Controllers,
         NEW registry \in {framework, relying}, NEW result \in Resolve(registry, d)
  PROVE  /\ DOMAIN result = DOMAIN registry /\ result.chain = registry.chain
         /\ EntriesGrounded(result.entries)
         /\ Theirs(d, result.entries[d].key)
         /\ registry.chain = <<>> => result = registry \/ registry.entries[d] # None
<1>1. DOMAIN registry = {"entries", "minimum", "chain"} /\ EntriesGrounded(registry.entries)
  BY DEF CrossInv, RegistriesGrounded
<1>2. CASE registry.entries[d] # None
  BY <1>1, <1>2 DEF Resolve, EntriesGrounded, Grounded
<1>3. CASE registry.entries[d] = None
  <2>1. PICK doc \in Resolutions(registry.chain, d) :
          /\ PrimaryKey(doc) # None
          /\ result = Register(registry, d, [key |-> PrimaryKey(doc), level |-> SelfAsserted])
    BY <1>3 DEF Resolve
  <2>4. registry.chain # <<>>
    BY <2>1 DEF Resolutions
  <2>2. Theirs(d, PrimaryKey(doc))
    <3>1. registry.chain = framework.chain
      BY <2>4 DEF CrossInv, AskTheSame
    <3> QED
      BY <2>1, <3>1, ResolvedIsTheirs
  <2> DEFINE entry == [key |-> PrimaryKey(doc), level |-> SelfAsserted]
  <2>3. Grounded(d, entry) /\ Theirs(d, entry.key)
    BY <2>2 DEF Grounded, SelfAsserted
  <2> HIDE DEF entry
  <2>5. /\ DOMAIN result = DOMAIN registry /\ result.chain = registry.chain
        /\ result.entries = [registry.entries EXCEPT ![d] = entry]
    BY <1>1, <2>1 DEF Register, entry
  <2>6. EntriesGrounded(result.entries) /\ result.entries[d] = entry
    BY <1>1, <2>3, <2>5 DEF EntriesGrounded
  <2> QED
    BY <2>3, <2>4, <2>5, <2>6
<1> QED
  BY <1>2, <1>3

-------------------------------------------------------------------------------
\* A framework admits a primary key its controller publishes on that day.
LEMMA AdmittedIsGrounded ==
  ASSUME CrossInv, CrossOrgAssumption, NEW d \in Controllers, NEW level \in Granted,
         Admit(d, level)
  PROVE  CrossInv'
<1>1. PICK entry :
        /\ entry = [key |-> PrimaryKey(Document(d, edition[d])), level |-> level]
        /\ entry.key # None
        /\ framework' = Register(framework, d, entry)
        /\ granted' = granted \cup {<<d, entry>>}
        /\ UNCHANGED <<today, edition, prefetched, relying, sealed, loaded, rebuilt, relied>>
  BY DEF Admit
<1>2. edition[d] \in 1..edition[d]
  BY DEF CrossInv, CrossOrgAssumption
<1>3. entry.key \in Own(d)
  BY <1>1, <1>2 DEF PrimaryKey, Document, Own
<1>0. framework'.chain = framework.chain /\ granted \subseteq granted'
  BY <1>1 DEF Register, CrossInv, RegistriesGrounded
<1>4. edition' \in [Controllers -> Nat] /\ \A e \in Controllers : edition[e] <= edition'[e]
  BY <1>1 DEF CrossInv
<1>5. /\ \A e \in Controllers : Own(e) \subseteq Own(e)'
      /\ \A e \in Controllers : \A key : Theirs(e, key) => Theirs(e, key)'
      /\ \A entries : EntriesGrounded(entries) => EntriesGrounded(entries)'
      /\ \A e \in Controllers : \A x : Grounded(e, x) => Grounded(e, x)'
  BY <1>0, <1>4, GroundsLast
<1>6. Grounded(d, entry)'
  BY <1>1, <1>3, <1>5 DEF Grounded, Theirs
<1>7. RegistriesGrounded'
  <2>1. DOMAIN framework = {"entries", "minimum", "chain"} /\ DOMAIN framework.entries = Controllers
    BY DEF CrossInv, RegistriesGrounded, EntriesGrounded
  <2>2. /\ DOMAIN framework' = {"entries", "minimum", "chain"}
        /\ framework'.entries = [framework.entries EXCEPT ![d] = entry]
    BY <1>1, <2>1 DEF Register
  <2>3. EntriesGrounded(framework.entries) /\ EntriesGrounded(relying.entries)
    BY DEF CrossInv, RegistriesGrounded
  <2>4. EntriesGrounded(framework.entries)'
    BY <1>5, <1>6, <2>1, <2>2, <2>3 DEF EntriesGrounded
  <2>5. EntriesGrounded(relying.entries)'
    BY <1>1, <1>5, <2>3
  <2> QED
    BY <1>1, <2>2, <2>4, <2>5 DEF RegistriesGrounded, CrossInv
<1>8. SealedGrounded' /\ AskTheSame'
  BY <1>0, <1>1, <1>5 DEF CrossInv, SealedGrounded, Sealed, AskTheSame
<1>9. PrefetchedPublished' /\ LoadedWasSealed' /\ UNCHANGED <<edition, prefetched>>
  BY <1>1 DEF CrossInv, PrefetchedPublished, LoadedWasSealed, Document
<1>10. ReliedGrounded'
  BY <1>1, <1>5 DEF CrossInv, ReliedGrounded
<1>11. RebuiltIsClosed'
  BY <1>1 DEF CrossInv, RebuiltIsClosed
<1> QED
  BY <1>1, <1>4, <1>7, <1>8, <1>9, <1>10, <1>11 DEF CrossInv

\* What a controller published stays published.
LEMMA RotationKeepsGrounds ==
  ASSUME CrossInv, CrossOrgAssumption, NEW d \in Controllers, RotateKeys(d)
  PROVE  CrossInv'
<1>1. /\ edition[d] < Len(Published[d])
      /\ edition' = [edition EXCEPT ![d] = @ + 1]
      /\ UNCHANGED <<today, prefetched, framework, relying, sealed, granted, loaded, rebuilt, relied>>
  BY DEF RotateKeys, crossHistory
<1>2. /\ edition' \in [Controllers -> Nat]
      /\ \A e \in Controllers : edition'[e] \in DOMAIN Published[e] /\ edition[e] <= edition'[e]
  <2>1. \A e \in Controllers : DOMAIN Published[e] = 1..Len(Published[e]) /\ Len(Published[e]) \in Nat
    BY DEF CrossOrgAssumption
  <2> QED
    BY SMTT(30), <1>1, <2>1 DEF CrossInv
<1>3. /\ \A e \in Controllers : \A key : Theirs(e, key) => Theirs(e, key)'
      /\ \A entries : EntriesGrounded(entries) => EntriesGrounded(entries)'
  <2>1. framework'.chain = framework.chain /\ granted \subseteq granted'
    BY <1>1
  <2> QED
    BY <1>2, <2>1, GroundsLast
<1>5. PrefetchedPublished'
  <2> SUFFICES ASSUME NEW e \in Controllers, prefetched[e] # None
               PROVE  \E i \in 1..edition'[e] : prefetched[e] = Document(e, i)
    BY <1>1 DEF PrefetchedPublished, Document
  <2>1. PICK i \in 1..edition[e] : prefetched[e] = Document(e, i)
    BY DEF CrossInv, PrefetchedPublished
  <2> QED
    BY <1>2, <2>1 DEF CrossInv
<1>6. RegistriesGrounded' /\ SealedGrounded' /\ AskTheSame'
  BY <1>1, <1>3 DEF CrossInv, RegistriesGrounded, SealedGrounded, Sealed, AskTheSame
<1>7. ReliedGrounded'
  BY <1>1, <1>3 DEF CrossInv, ReliedGrounded
<1>8. RebuiltIsClosed' /\ LoadedWasSealed' /\ DOMAIN prefetched' = Controllers
  BY <1>1 DEF CrossInv, RebuiltIsClosed, LoadedWasSealed
<1> QED
  BY <1>2, <1>5, <1>6, <1>7, <1>8 DEF CrossInv

LEMMA PrefetchKeepsGrounds ==
  ASSUME CrossInv, CrossOrgAssumption, NEW d \in Controllers, Prefetch(d)
  PROVE  CrossInv'
<1>1. /\ prefetched' = [prefetched EXCEPT ![d] = Document(d, edition[d])]
      /\ UNCHANGED <<today, edition, framework, relying, sealed, granted, loaded, rebuilt, relied>>
  BY DEF Prefetch, crossHistory
<1>2. edition[d] \in 1..edition[d]
  BY DEF CrossInv, CrossOrgAssumption
<1>3. PrefetchedPublished'
  BY <1>1, <1>2 DEF CrossInv, PrefetchedPublished, Document
<1>4. /\ \A e \in Controllers : \A key : Theirs(e, key) => Theirs(e, key)'
      /\ \A entries : EntriesGrounded(entries) => EntriesGrounded(entries)'
  BY <1>1, GroundsSame
<1>8. RegistriesGrounded' /\ SealedGrounded' /\ AskTheSame'
  BY <1>1, <1>4 DEF CrossInv, RegistriesGrounded, SealedGrounded, Sealed, AskTheSame
<1>5. RebuiltIsClosed' /\ LoadedWasSealed'
  BY <1>1 DEF CrossInv, RebuiltIsClosed, LoadedWasSealed
<1>6. ReliedGrounded'
  BY <1>1, <1>4 DEF CrossInv, ReliedGrounded
<1>7. DOMAIN prefetched' = Controllers /\ edition' = edition
  BY <1>1 DEF CrossInv
<1> QED
  BY <1>3, <1>5, <1>6, <1>7, <1>8 DEF CrossInv

\* Verifying, at either side, only adds what is grounded.
LEMMA MeetingKeepsGrounds ==
  ASSUME CrossInv, CrossOrgAssumption, NEW d \in Controllers,
         Meet(d) \/ MeetAtFramework(d) \/ JudgeHop(d)
  PROVE  CrossInv'
<1>1. CASE Meet(d)
  <2>1. PICK result \in Resolve(relying, d) :
          /\ relying' = result
          /\ \/ relied' = <<d, result.entries[d].key>>
             \/ relied' = relied
          /\ UNCHANGED <<today, edition, prefetched, framework, sealed, granted, loaded, rebuilt>>
    BY <1>1 DEF Meet
  <2>2. /\ DOMAIN result = DOMAIN relying /\ result.chain = relying.chain
        /\ EntriesGrounded(result.entries)
        /\ Theirs(d, result.entries[d].key)
        /\ relying.chain = <<>> => result = relying \/ relying.entries[d] # None
    BY ResolveGrounded
  <2>8. /\ \A e \in Controllers : \A key : Theirs(e, key) => Theirs(e, key)'
        /\ \A entries : EntriesGrounded(entries) => EntriesGrounded(entries)'
    BY <2>1, GroundsSame
  <2>3. RegistriesGrounded' /\ SealedGrounded' /\ AskTheSame'
    BY <2>1, <2>2, <2>8 DEF CrossInv, RegistriesGrounded, SealedGrounded, Sealed, AskTheSame
  <2>4. relying.chain = <<>> => result = relying
    BY <2>2 DEF Resolve
  <2>5. RebuiltIsClosed'
    BY <2>1, <2>4 DEF CrossInv, RebuiltIsClosed
  <2>6. ReliedGrounded'
    <3>2. CASE relied' = <<d, result.entries[d].key>>
      BY <2>2, <2>8, <3>2 DEF ReliedGrounded
    <3>3. CASE relied' = relied
      BY <2>8, <3>3 DEF CrossInv, ReliedGrounded
    <3> QED
      BY <2>1, <3>2, <3>3
  <2>7. PrefetchedPublished' /\ LoadedWasSealed' /\ UNCHANGED <<edition, prefetched>>
    BY <2>1 DEF CrossInv, PrefetchedPublished, LoadedWasSealed, Document
  <2> QED
    BY <2>3, <2>5, <2>6, <2>7 DEF CrossInv
<1>2. CASE MeetAtFramework(d)
  <2>1. PICK result \in Resolve(framework, d) :
          /\ framework' = result
          /\ UNCHANGED <<today, edition, prefetched, relying, sealed, granted, loaded, rebuilt, relied>>
    BY <1>2 DEF MeetAtFramework, crossHistory
  <2>2. /\ DOMAIN result = DOMAIN framework /\ result.chain = framework.chain
        /\ EntriesGrounded(result.entries)
    BY ResolveGrounded
  <2>7. /\ \A e \in Controllers : \A key : Theirs(e, key) => Theirs(e, key)'
        /\ \A entries : EntriesGrounded(entries) => EntriesGrounded(entries)'
    BY <2>1, <2>2, GroundsSame
  <2>3. RegistriesGrounded' /\ SealedGrounded' /\ AskTheSame'
    BY <2>1, <2>2, <2>7 DEF CrossInv, RegistriesGrounded, SealedGrounded, Sealed, AskTheSame
  <2>4. PrefetchedPublished' /\ LoadedWasSealed' /\ UNCHANGED <<edition, prefetched>>
    BY <2>1 DEF CrossInv, PrefetchedPublished, LoadedWasSealed, Document
  <2>5. RebuiltIsClosed'
    BY <2>1 DEF CrossInv, RebuiltIsClosed
  <2>6. ReliedGrounded'
    BY <2>1, <2>7 DEF CrossInv, ReliedGrounded
  <2> QED
    BY <2>3, <2>4, <2>5, <2>6 DEF CrossInv
<1>3. CASE JudgeHop(d)
  <2>1. PICK doc \in Resolutions(relying.chain, d) :
          /\ PrimaryKey(doc) # None /\ relied' = <<d, PrimaryKey(doc)>>
          /\ UNCHANGED <<today, edition, prefetched, framework, relying, sealed, granted, loaded, rebuilt>>
    BY <1>3 DEF JudgeHop
  <2>2. Theirs(d, PrimaryKey(doc))
    <3>1. relying.chain = framework.chain
      BY DEF CrossInv, AskTheSame, Resolutions
    <3> QED
      BY <2>1, <3>1, ResolvedIsTheirs
  <2>8. /\ \A e \in Controllers : \A key : Theirs(e, key) => Theirs(e, key)'
        /\ \A entries : EntriesGrounded(entries) => EntriesGrounded(entries)'
    BY <2>1, GroundsSame
  <2>3. RegistriesGrounded' /\ AskTheSame'
    BY <2>1, <2>8 DEF CrossInv, RegistriesGrounded, AskTheSame
  <2>4. SealedGrounded'
    BY <2>1, <2>8 DEF CrossInv, SealedGrounded, Sealed
  <2>5. PrefetchedPublished' /\ LoadedWasSealed' /\ UNCHANGED <<edition, prefetched>>
    BY <2>1 DEF CrossInv, PrefetchedPublished, LoadedWasSealed, Document
  <2>6. RebuiltIsClosed'
    BY <2>1 DEF CrossInv, RebuiltIsClosed
  <2>7. ReliedGrounded'
    BY <2>1, <2>2, <2>8 DEF ReliedGrounded
  <2> QED
    BY <2>3, <2>4, <2>5, <2>6, <2>7 DEF CrossInv
<1> QED
  BY <1>1, <1>2, <1>3

LEMMA SealingKeepsGrounds ==
  ASSUME CrossInv, CrossOrgAssumption, NEW t \in Expirations, SealConfig(t)
  PROVE  CrossInv'
<1>1. PICK c :
        /\ c = Export(framework, Cardinality(sealed) + 1, t)
        /\ sealed' = sealed \cup {c}
        /\ UNCHANGED <<today, edition, prefetched, framework, relying, granted, loaded, rebuilt, relied>>
  BY DEF SealConfig, crossHistory
<1>2. /\ DOMAIN c = ConfigFields
      /\ c.over = Sealed(c) /\ c.entries = framework.entries
  BY <1>1 DEF Export, ConfigFields, Sealed
<1>3. EntriesGrounded(framework.entries)
  BY DEF CrossInv, RegistriesGrounded
<1>4. /\ \A e \in Controllers : \A key : Theirs(e, key) => Theirs(e, key)'
      /\ \A entries : EntriesGrounded(entries) => EntriesGrounded(entries)'
  BY <1>1, GroundsSame
<1>5. RegistriesGrounded' /\ SealedGrounded' /\ AskTheSame'
  BY <1>1, <1>2, <1>3, <1>4 DEF CrossInv, RegistriesGrounded, SealedGrounded, Sealed, AskTheSame
<1>6. PrefetchedPublished' /\ LoadedWasSealed' /\ UNCHANGED <<edition, prefetched>>
  BY <1>1 DEF CrossInv, PrefetchedPublished, LoadedWasSealed, Document
<1>7. ReliedGrounded' /\ RebuiltIsClosed'
  BY <1>1, <1>4 DEF CrossInv, ReliedGrounded, RebuiltIsClosed
<1> QED
  BY <1>5, <1>6, <1>7 DEF CrossInv

\* What a party may be handed and finds current has the entries that were sealed: an
\* edited config is not over its own fields any more.
LEMMA CurrentWasSealed ==
  ASSUME CrossInv, NEW c \in ServedConfigs, ConfigIsCurrent(c)
  PROVE  \E o \in sealed : c.entries = o.entries
<1>1. PICK o \in sealed :
        \/ c = o
        \/ c = [o EXCEPT !.not_after = None]
        \/ c = [o EXCEPT !.minimum = 0]
        \/ \E d, e \in Controllers :
             c = [o EXCEPT !.entries[d] = [key |-> Published[e][1][1].key, level |-> 3]]
  BY DEF ServedConfigs
<1>2. DOMAIN o = ConfigFields /\ o.over = Sealed(o)
  BY DEF CrossInv, SealedGrounded
<1>3. c.over = o.over
  BY <1>1, <1>2 DEF ConfigFields
<1> QED
  BY <1>2, <1>3 DEF ConfigIsCurrent, Sealed

LEMMA LoadingKeepsGrounds ==
  ASSUME CrossInv, CrossOrgAssumption, NEW c \in ServedConfigs, Load(c)
  PROVE  CrossInv'
<1>1. PICK o \in sealed : c.entries = o.entries
  BY CurrentWasSealed DEF Load
<1>2. EntriesGrounded(c.entries)
  BY <1>1 DEF CrossInv, SealedGrounded
<1> DEFINE taken == {<<d, c.entries[d]>> : d \in {d \in Controllers : c.entries[d] # None}}
<1>3. /\ loaded' = loaded \cup taken
      /\ UNCHANGED <<today, edition, prefetched, framework, sealed, granted, relied>>
      /\ \/ relying' = FromConfig(relying, c) /\ rebuilt' = TRUE
         \/ relying' = Import(relying, c) /\ rebuilt' = rebuilt
  BY DEF Load
<1>4. LoadedWasSealed'
  BY <1>1, <1>3 DEF CrossInv, LoadedWasSealed
<1>5. ASSUME relying' = FromConfig(relying, c)
      PROVE  /\ DOMAIN relying' = {"entries", "minimum", "chain"}
             /\ relying'.entries = c.entries /\ relying'.chain = <<>>
  BY <1>5 DEF FromConfig, NewRegistry
<1>6. ASSUME relying' = Import(relying, c)
      PROVE  /\ DOMAIN relying' = {"entries", "minimum", "chain"}
             /\ relying'.entries = [d \in Controllers |-> IF c.entries[d] # None THEN c.entries[d]
                                                          ELSE relying.entries[d]]
             /\ relying'.chain = relying.chain
  BY <1>6 DEF Import, CrossInv, RegistriesGrounded
<1>7. EntriesGrounded(relying.entries) /\ EntriesGrounded(framework.entries)
  BY DEF CrossInv, RegistriesGrounded
<1>8. DOMAIN relying' = {"entries", "minimum", "chain"} /\ EntriesGrounded(relying'.entries)
  BY <1>2, <1>3, <1>5, <1>6, <1>7 DEF EntriesGrounded
<1>9. /\ \A e \in Controllers : \A key : Theirs(e, key) => Theirs(e, key)'
      /\ \A entries : EntriesGrounded(entries) => EntriesGrounded(entries)'
  BY <1>3, GroundsSame
<1>10. RegistriesGrounded' /\ SealedGrounded' /\ AskTheSame'
  BY <1>3, <1>5, <1>6, <1>7, <1>8, <1>9
     DEF CrossInv, RegistriesGrounded, SealedGrounded, Sealed, AskTheSame
<1>11. RebuiltIsClosed'
  <2>1. CASE relying' = FromConfig(relying, c)
    BY <1>3, <1>5, <2>1 DEF RebuiltIsClosed
  <2>2. CASE relying' = Import(relying, c) /\ rebuilt' = rebuilt
    BY <1>3, <1>6, <2>2 DEF CrossInv, RebuiltIsClosed
  <2> QED
    BY <1>3, <2>1, <2>2
<1>12. PrefetchedPublished' /\ UNCHANGED <<edition, prefetched>>
  BY <1>3 DEF CrossInv, PrefetchedPublished, Document
<1>13. ReliedGrounded'
  BY <1>3, <1>9 DEF CrossInv, ReliedGrounded
<1> QED
  BY <1>4, <1>10, <1>11, <1>12, <1>13 DEF CrossInv

LEMMA CrossInvInit == CrossInit /\ CrossOrgAssumption => CrossInv
<1> SUFFICES ASSUME CrossInit, CrossOrgAssumption PROVE CrossInv
  OBVIOUS
<1>1. \A d \in Controllers : 1 \in DOMAIN Published[d]
  <2> TAKE d \in Controllers
  <2>1. Published[d] \in Seq(Seq(VerificationMethod)) /\ Published[d] # <<>>
    BY DEF CrossOrgAssumption
  <2> QED
    BY <2>1
<1>2. /\ DOMAIN relying = {"entries", "minimum", "chain"} /\ relying.entries = NoEntries
      /\ DOMAIN framework = {"entries", "minimum", "chain"} /\ framework.entries = NoEntries
  BY DEF CrossInit, NewRegistry
<1>3. RegistriesGrounded
  BY <1>2 DEF RegistriesGrounded, EntriesGrounded, NoEntries
<1>4. AskTheSame
  BY DEF CrossInit, AskTheSame, NewRegistry, CrossOrgAssumption
<1> QED
  BY <1>1, <1>3, <1>4 DEF CrossInit, CrossInv, PrefetchedPublished, SealedGrounded,
                          RebuiltIsClosed, LoadedWasSealed, ReliedGrounded

LEMMA GroundsStay ==
  ASSUME CrossInv, CrossOrgAssumption,
         UNCHANGED <<edition, prefetched, framework, relying, sealed, granted, loaded, rebuilt,
                     relied>>
  PROVE  CrossInv'
<1>1. /\ \A e \in Controllers : \A key : Theirs(e, key) => Theirs(e, key)'
      /\ \A entries : EntriesGrounded(entries) => EntriesGrounded(entries)'
  BY GroundsSame
<1>2. RegistriesGrounded' /\ SealedGrounded' /\ AskTheSame'
  BY <1>1 DEF CrossInv, RegistriesGrounded, SealedGrounded, Sealed, AskTheSame
<1>3. PrefetchedPublished' /\ LoadedWasSealed'
  BY DEF CrossInv, PrefetchedPublished, LoadedWasSealed, Document
<1>4. ReliedGrounded' /\ RebuiltIsClosed'
  BY <1>1 DEF CrossInv, ReliedGrounded, RebuiltIsClosed
<1> QED
  BY <1>2, <1>3, <1>4 DEF CrossInv

LEMMA CrossInvNext ==
  ASSUME CrossInv, CrossOrgAssumption, [CrossNext]_crossVars
  PROVE  CrossInv'
<1>1. CASE CrossNext
  <2>1. ASSUME NEW d \in Controllers, RotateKeys(d) PROVE CrossInv'
    BY <2>1, RotationKeepsGrounds
  <2>2. ASSUME NEW d \in Controllers, Prefetch(d) PROVE CrossInv'
    BY <2>2, PrefetchKeepsGrounds
  <2>3. ASSUME NEW d \in Controllers, Meet(d) \/ MeetAtFramework(d) \/ JudgeHop(d) PROVE CrossInv'
    BY <2>3, MeetingKeepsGrounds
  <2>4. ASSUME NEW d \in Controllers, NEW level \in Granted, Admit(d, level) PROVE CrossInv'
    BY <2>4, AdmittedIsGrounded
  <2>5. ASSUME NEW t \in Expirations, SealConfig(t) PROVE CrossInv'
    BY <2>5, SealingKeepsGrounds
  <2>6. ASSUME NEW c \in ServedConfigs, Load(c) PROVE CrossInv'
    BY <2>6, LoadingKeepsGrounds
  <2>7. CASE NextDay
    <3>1. UNCHANGED <<edition, prefetched, framework, relying, sealed, granted, loaded, rebuilt,
                      relied>>
      BY <2>7 DEF NextDay, crossHistory
    <3> QED
      BY <3>1, GroundsStay
  <2> QED
    BY <1>1, <2>1, <2>2, <2>3, <2>4, <2>5, <2>6, <2>7 DEF CrossNext
<1>2. CASE UNCHANGED crossVars
  BY <1>2, GroundsStay DEF crossVars, crossHistory
<1> QED
  BY <1>1, <1>2

\* Whatever hosts answer and whatever configs are handed over, edited or old, a
\* signature is believed only under a primary key that its DID's controller published,
\* except of a DID that a universal endpoint is asked about; what such an endpoint makes
\* up stays with those DIDs and at self-asserted trust; a level above that is one the
\* framework gave to the controller's own key.
THEOREM BelievedAlwaysGrounded == CrossSpec => []BelievedIsGrounded
<1>1. CrossInit => CrossInv
  BY CrossInvInit, CrossOrgAssumption
<1>2. CrossInv /\ [CrossNext]_crossVars => CrossInv'
  BY CrossInvNext, CrossOrgAssumption
<1>3. CrossInv => BelievedIsGrounded
  <2> SUFFICES ASSUME CrossInv PROVE BelievedIsGrounded
    OBVIOUS
  <2>1. ASSUME NEW registry \in {framework, relying}, NEW d \in Controllers,
               registry.entries[d] # None
        PROVE  /\ Theirs(d, registry.entries[d].key)
               /\ registry.entries[d].level > SelfAsserted =>
                    /\ registry.entries[d].key \in Own(d)
                    /\ <<d, registry.entries[d]>> \in granted
    BY <2>1 DEF CrossInv, RegistriesGrounded, EntriesGrounded, Grounded
  <2>2. ASSUME NEW d \in Controllers, relying.entries[d] # None, rebuilt
        PROVE  <<d, relying.entries[d]>> \in loaded
    BY <2>2 DEF CrossInv, RebuiltIsClosed
  <2> QED
    BY <2>1, <2>2 DEF BelievedIsGrounded, CrossInv, LoadedWasSealed, ReliedGrounded
<1> QED
  BY <1>1, <1>2, <1>3, PTL DEF CrossSpec

-------------------------------------------------------------------------------
(***************************************************************************)
(* Messages.  What admits a call is remembered in the call: the time it    *)
(* was checked at and whom it was found to act for.  What has to be added  *)
(* for single use relates the guard to the calls that counted: it          *)
(* remembers each for as long as another call with that header can still   *)
(* come to it, and what it remembers some call did count.                  *)
(***************************************************************************)
\* The guard remembers a header for longer than it can be presented: max_age_secs and
\* the skew allowed to a fast clock, each to the end of its second, and the Delay of
\* the call that presents it.
GuardOutlasts == (MaxAge + 1) * Res - 1 + (FutureSkew + 1) * Res - 1 + Delay < Ttl * Res

CallFields == {"pc", "env", "encoding", "at", "acting", "life", "counted", "verdict", "record",
               "bound"}
Waiting == {"guard", "gates", "finish", "audited", "recorded", "delivered"}

\* The text of a call's header, and the texts there are.
Key(c) == GuardKey(calls[c].env.header, calls[c].encoding)
Keys == {GuardKey(h, x) : h \in Headers, x \in Encodings}
SameText(c, d) == Key(c) = Key(d)
InGuardsLife(c) == config.guard = "memory" => calls[c].life = life

CallTyped(c) ==
  /\ DOMAIN calls[c] = CallFields
  /\ calls[c].pc \in Waiting \cup {"idle", "done", "raised", "lost"}
  /\ calls[c].at \in Nat /\ calls[c].at <= now
  /\ calls[c].life \in Nat /\ calls[c].life <= life
  /\ calls[c].counted \in BOOLEAN
  /\ calls[c].pc = "idle" => ~calls[c].counted /\ calls[c].verdict = None
  /\ calls[c].pc \in Waiting => calls[c].life = life
  /\ calls[c].pc = "guard" => now - calls[c].at <= Delay
  /\ calls[c].pc # "idle" => calls[c].env \in Envelopes /\ calls[c].encoding \in Encodings

CallsTyped == DOMAIN calls = Calls /\ \A c \in Calls : CallTyped(c)

\* What let a call through to the guard.
Cleared(c) ==
  LET e == calls[c].env  h == e.header IN
  /\ h # None /\ h.proof.audience = Audience /\ h.proof.signer = h.token.leaf
  /\ NumSeconds(calls[c].at - h.proof.at) \in -FutureSkew..MaxAge
  /\ PrincipalMatches(h, calls[c].acting) /\ Bound(e)
  /\ config.octets => e.carried.args = e.args
  /\ calls[c].acting # None =>
       e.human # None /\ e.human.sub = calls[c].acting /\ Vouched(e.human, calls[c].at)

CallCleared(c) ==
  /\ calls[c].pc \in {"guard", "gates"} => calls[c].verdict = None
  /\ calls[c].pc = "guard" => ~calls[c].counted
  /\ calls[c].pc # "idle" /\ calls[c].verdict \in {None, "allow", "replay"} => Cleared(c)
  /\ calls[c].counted => calls[c].pc # "idle" /\ Cleared(c)
  /\ calls[c].pc \in (Waiting \ {"guard"}) \cup {"done"} /\ calls[c].verdict \in {None, "allow"}
       => calls[c].counted
  /\ calls[c].pc = "done" /\ calls[c].verdict = "allow"
       => calls[c].bound = IF config.octets THEN calls[c].env.carried.args ELSE None

CallsCleared == \A c \in Calls : CallCleared(c)

\* The guard and the calls that counted.
Remembered ==
  \A c \in Calls : calls[c].counted /\ InGuardsLife(c)
    => seen[Key(c)] >= calls[c].at + Ttl * Res

CountedOnce ==
  \A c, d \in Calls : c # d /\ calls[c].counted /\ calls[d].counted /\ SameText(c, d)
    => config.guard = "memory" /\ calls[c].life # calls[d].life

SeenWasCounted ==
  \A k \in Keys : seen[k] > 0
    => \E d \in Calls : calls[d].counted /\ Key(d) = k /\ InGuardsLife(d)

\* A header is refused as used only if another call used it.
ReplayWasCounted ==
  \A c \in Calls : calls[c].verdict = "replay" =>
    \E d \in Calls \ {c} :
      /\ calls[d].counted /\ SameText(d, c)
      /\ config.guard = "memory" => calls[d].life = calls[c].life

CallsInv ==
  /\ now \in Nat /\ life \in Nat /\ config \in Configs /\ seen \in [Keys -> Nat]
  /\ CallsTyped /\ CallsCleared

GuardInv == Remembered /\ CountedOnce /\ SeenWasCounted /\ ReplayWasCounted

-------------------------------------------------------------------------------
LEMMA DivBound ==
  ASSUME NEW d \in Nat, NEW n \in Nat, NEW r \in Nat \ {0}, d \div r <= n
  PROVE  d <= (n + 1) * r - 1
<1> DEFINE q == d \div r
<1>1. q \in Nat /\ d < (q + 1) * r
  OBVIOUS
<1>2. (q + 1) * r <= (n + 1) * r
  <2>1. q <= n /\ n - q \in Nat
    BY <1>1
  <2>2. (n - q) * r >= 0
    BY <2>1
  <2> QED
    BY <1>1, <2>2
<1> QED
  BY <1>1, <1>2

\* A truncated age within the window is an age within the window to the end of its
\* last second, at either side.
LEMMA FreshWindow ==
  ASSUME A2AAssumption, NEW d \in Int, NumSeconds(d) \in -FutureSkew..MaxAge
  PROVE  d <= (MaxAge + 1) * Res - 1 /\ -d <= (FutureSkew + 1) * Res - 1
<1>1. MaxAge \in Nat /\ FutureSkew \in Nat /\ Res \in Nat \ {0}
  BY DEF A2AAssumption
<1>2. (MaxAge + 1) * Res >= 1 /\ (FutureSkew + 1) * Res >= 1
  BY <1>1
<1>3. CASE d >= 0
  <2>1. d \in Nat /\ d \div Res <= MaxAge
    BY <1>1, <1>3 DEF NumSeconds
  <2>2. d <= (MaxAge + 1) * Res - 1
    BY <1>1, <2>1, DivBound
  <2>3. (FutureSkew + 1) * Res \in Int
    BY <1>1
  <2> QED
    BY <1>2, <1>3, <2>2, <2>3
<1>4. CASE d < 0
  <2> DEFINE n == -d
  <2>1. n \in Nat /\ n \div Res \in Int /\ -(n \div Res) >= -FutureSkew
    BY <1>1, <1>4 DEF NumSeconds
  <2>2. n \div Res <= FutureSkew
    BY <1>1, <2>1
  <2>3. n <= (FutureSkew + 1) * Res - 1
    BY <1>1, <2>1, <2>2, DivBound
  <2>4. (MaxAge + 1) * Res \in Int
    BY <1>1
  <2> QED
    BY <1>2, <1>4, <2>3, <2>4
<1> QED
  BY <1>3, <1>4

\* What the early returns let through.
LEMMA LocalClears ==
  ASSUME A2AAssumption, NEW e \in Envelopes, NEW acting, LocalDenial(e, acting) = None
  PROVE  LET h == e.header IN
         /\ h # None /\ h.proof.audience = Audience /\ h.proof.signer = h.token.leaf
         /\ Fresh(h.proof) /\ PrincipalMatches(h, acting) /\ Bound(e)
         /\ config.octets => e.carried.args = e.args
<1>1. None \notin Verdicts
  BY DEF A2AAssumption
<1>2. /\ e.header # None
      /\ ~(config.octets /\ e.carried.args # e.args)
      /\ ~(e.header.proof.audience # Audience)
      /\ PrincipalMatches(e.header, acting)
      /\ ~(~ProofVerifies(e.header) \/ ~Bound(e))
  BY <1>1 DEF LocalDenial, Verdicts
<1> QED
  BY <1>2 DEF ProofVerifies

\* Nothing of what cleared a call is looked at again.
LEMMA ClearedStays ==
  ASSUME NEW c \in Calls, config' = config,
         calls'[c].env = calls[c].env, calls'[c].at = calls[c].at,
         calls'[c].acting = calls[c].acting
  PROVE  Cleared(c)' = Cleared(c)
BY DEF Cleared, PrincipalMatches, Bound, BindingText, Unbound, NumSeconds, Vouched

\* What each step does to the call it is of; the other calls it leaves alone.
Only(c) == DOMAIN calls' = Calls /\ \A d \in Calls : d # c => calls'[d] = calls[d]

Carried(c) ==
  /\ DOMAIN calls'[c] = CallFields
  /\ calls'[c].env = calls[c].env /\ calls'[c].encoding = calls[c].encoding
  /\ calls'[c].at = calls[c].at
  /\ calls'[c].acting = calls[c].acting /\ calls'[c].life = calls[c].life

LEMMA ArriveStep ==
  ASSUME CallsTyped, A2AAssumption, NEW c \in Calls, NEW e \in Envelopes,
         NEW text \in Encodings, Arrive(c, e, text)
  PROVE  /\ calls[c].pc = "idle" /\ Only(c)
         /\ DOMAIN calls'[c] = CallFields
         /\ calls'[c].env = e /\ calls'[c].encoding = text
         /\ calls'[c].at = now /\ calls'[c].life = life
         /\ calls'[c].counted = FALSE
         /\ \/ calls'[c].pc = "guard" /\ calls'[c].verdict = None
            \/ /\ calls'[c].pc = "finish"
               /\ calls'[c].verdict \in Verdicts \ {"allow", "replay"}
         /\ calls'[c].pc = "guard" => Cleared(c)'
         /\ UNCHANGED <<now, config, life, seen, stream, delivered>>
<1>1. PICK acting, denial :
        /\ acting = IF e.human = None THEN None ELSE PrincipalResolver(e.human)
        /\ denial = IF e.human # None /\ e.header # None /\ acting = None
                    THEN "principal" ELSE LocalDenial(e, acting)
        /\ calls[c].pc = "idle"
        /\ calls' = [calls EXCEPT ![c] =
             [Idle EXCEPT !.pc = IF denial = None THEN "guard" ELSE "finish", !.env = e,
                          !.encoding = text, !.at = now, !.acting = acting, !.life = life, !.verdict = denial]]
        /\ UNCHANGED <<now, config, life, seen, stream, delivered>>
  BY DEF Arrive
<1>2. Only(c) /\ calls'[c] =
        [Idle EXCEPT !.pc = IF denial = None THEN "guard" ELSE "finish", !.env = e,
                     !.encoding = text, !.at = now, !.acting = acting, !.life = life, !.verdict = denial]
  BY <1>1 DEF Only, CallsTyped, CallTyped
<1>3. /\ DOMAIN calls'[c] = CallFields
      /\ calls'[c].env = e /\ calls'[c].encoding = text
      /\ calls'[c].at = now /\ calls'[c].life = life
      /\ calls'[c].acting = acting /\ calls'[c].verdict = denial
      /\ calls'[c].pc = IF denial = None THEN "guard" ELSE "finish"
      /\ ~calls'[c].counted
  BY <1>2 DEF Idle, CallFields
<1>4. denial = None \/ denial \in Verdicts \ {"allow", "replay"}
  <2>1. None \notin Verdicts
    BY DEF A2AAssumption
  <2> QED
    BY <1>1, <2>1 DEF LocalDenial, Verdicts
<1>5. ASSUME denial = None PROVE Cleared(c)'
  <2>1. LocalDenial(e, acting) = None /\ (e.human # None /\ e.header # None => acting # None)
    <3>1. None # "principal"
      BY DEF A2AAssumption, Verdicts
    <3> QED
      BY <1>1, <1>5, <3>1
  <2>2. LET h == e.header IN
        /\ h # None /\ h.proof.audience = Audience /\ h.proof.signer = h.token.leaf
        /\ Fresh(h.proof) /\ PrincipalMatches(h, acting) /\ Bound(e)
        /\ config.octets => e.carried.args = e.args
    BY <2>1, LocalClears
  <2>3. acting # None =>
          e.human # None /\ e.human.sub = acting /\ Vouched(e.human, now)
    BY <1>1 DEF PrincipalResolver, ValidateIdToken, SignatureVerifies, Vouched
  <2>4. Bound(e)'
    BY <1>1, <2>2 DEF Bound, BindingText, Unbound
  <2> QED
    BY <1>1, <1>3, <2>2, <2>3, <2>4 DEF Cleared, Fresh, NumSeconds, PrincipalMatches, Vouched
<1> QED
  BY <1>1, <1>2, <1>3, <1>4, <1>5

LEMMA GuardStep ==
  ASSUME CallsTyped, NEW c \in Calls, Guard(c)
  PROVE  /\ calls[c].pc = "guard" /\ Only(c) /\ Carried(c)
         /\ \/ /\ seen[Key(c)] > now /\ seen' = seen
               /\ calls'[c].pc = "finish" /\ calls'[c].verdict = "replay"
               /\ calls'[c].counted = calls[c].counted
            \/ /\ ~(seen[Key(c)] > now)
               /\ seen' = [seen EXCEPT ![Key(c)] = now + Ttl * Res]
               /\ calls'[c].pc = "gates" /\ calls'[c].verdict = calls[c].verdict
               /\ calls'[c].counted
         /\ UNCHANGED <<now, config, life, stream, delivered>>
<1>1. /\ calls[c].pc = "guard"
      /\ UNCHANGED <<now, config, life, stream, delivered>>
      /\ \/ /\ seen[Key(c)] > now /\ seen' = seen
            /\ calls' = [calls EXCEPT ![c].pc = "finish", ![c].verdict = "replay"]
         \/ /\ ~(seen[Key(c)] > now)
            /\ seen' = [seen EXCEPT ![Key(c)] = now + Ttl * Res]
            /\ calls' = [calls EXCEPT ![c].pc = "gates", ![c].counted = TRUE]
  BY DEF Guard, Key, Deny
<1>3. CASE seen[Key(c)] > now
  <2>0. calls' = [calls EXCEPT ![c].pc = "finish", ![c].verdict = "replay"]
    BY <1>1, <1>3
  <2>1. /\ Only(c) /\ Carried(c)
        /\ calls'[c].pc = "finish" /\ calls'[c].verdict = "replay"
        /\ calls'[c].counted = calls[c].counted
    BY <2>0 DEF Only, Carried, CallFields, CallsTyped, CallTyped
  <2> QED
    BY <1>1, <1>3, <2>1
<1>4. CASE ~(seen[Key(c)] > now)
  <2>1. /\ Only(c) /\ Carried(c)
        /\ calls'[c].pc = "gates" /\ calls'[c].verdict = calls[c].verdict
        /\ calls'[c].counted
    <3>1. PICK yes : yes = TRUE
      OBVIOUS
    <3>2. calls' = [calls EXCEPT ![c].pc = "gates", ![c].counted = yes]
      BY <1>1, <1>4, <3>1
    <3>3. /\ Only(c) /\ Carried(c)
          /\ calls'[c].pc = "gates" /\ calls'[c].verdict = calls[c].verdict
          /\ calls'[c].counted = yes
      BY <3>2 DEF Only, Carried, CallFields, CallsTyped, CallTyped
    <3> QED
      BY <3>1, <3>3
  <2> QED
    BY <1>1, <1>4, <2>1
<1> QED
  BY <1>3, <1>4

LEMMA GatesStep ==
  ASSUME CallsTyped, NEW c \in Calls, Gates(c)
  PROVE  /\ calls[c].pc = "gates" /\ Only(c) /\ Carried(c)
         /\ calls'[c].pc = "finish" /\ calls'[c].verdict \in {"gates", calls[c].verdict}
         /\ calls'[c].counted = calls[c].counted
         /\ UNCHANGED <<now, config, life, seen, stream, delivered>>
BY DEF Gates, Deny, Only, Carried, CallFields, CallsTyped, CallTyped

LEMMA HookStep ==
  ASSUME CallsTyped, NEW c \in Calls, NEW from, NEW to, Hook(c, from, to)
  PROVE  /\ calls[c].pc = from /\ Only(c) /\ Carried(c)
         /\ calls'[c].pc \in {to, "raised"} /\ calls'[c].verdict = calls[c].verdict
         /\ calls'[c].counted = calls[c].counted /\ calls'[c].record = calls[c].record
<1>1. PICK pc \in {to, "raised"} : calls' = [calls EXCEPT ![c].pc = pc]
  BY DEF Hook
<1> QED
  BY <1>1 DEF Hook, Only, Carried, CallFields, CallsTyped, CallTyped

LEMMA RecordStep ==
  ASSUME CallsTyped, NEW c \in Calls, Record(c)
  PROVE  \E verdict, digest :
         /\ verdict = IF calls[c].verdict = None THEN "allow" ELSE calls[c].verdict
         /\ digest = [call |-> c, verdict |-> verdict]
         /\ calls[c].pc = "audited" /\ Only(c) /\ Carried(c)
         /\ calls'[c].pc = "recorded" /\ calls'[c].verdict = verdict
         /\ calls'[c].counted = calls[c].counted
         /\ calls'[c].record = Stamped(stream, digest)
         /\ stream' = Recorded(stream, digest)
         /\ UNCHANGED <<now, config, life, seen, delivered>>
<1>1. PICK verdict, digest, record :
        /\ verdict = IF calls[c].verdict = None THEN "allow" ELSE calls[c].verdict
        /\ digest = [call |-> c, verdict |-> verdict]
        /\ record = Stamped(stream, digest)
        /\ calls[c].pc = "audited"
        /\ stream' = Recorded(stream, digest)
        /\ calls' = [calls EXCEPT ![c].pc = "recorded", ![c].verdict = verdict,
                                  ![c].record = record]
        /\ UNCHANGED <<now, config, life, seen, delivered>>
  BY DEF Record, EmitAdr
<1>2. /\ Only(c) /\ Carried(c)
      /\ calls'[c].pc = "recorded" /\ calls'[c].verdict = verdict /\ calls'[c].record = record
      /\ calls'[c].counted = calls[c].counted
  BY <1>1 DEF Only, Carried, CallFields, CallsTyped, CallTyped
<1> QED
  BY <1>1, <1>2

LEMMA AnswerStep ==
  ASSUME CallsTyped, NEW c \in Calls, Answer(c)
  PROVE  /\ calls[c].pc = "delivered" /\ Only(c) /\ Carried(c)
         /\ calls'[c].pc = "done" /\ calls'[c].verdict = calls[c].verdict
         /\ calls'[c].counted = calls[c].counted /\ calls'[c].record = calls[c].record
         /\ calls'[c].bound = IF calls[c].verdict = "allow" /\ config.octets
                              THEN calls[c].env.carried.args ELSE None
         /\ UNCHANGED <<now, config, life, seen, stream, delivered>>
<1>1. PICK bound :
        /\ bound = IF calls[c].verdict = "allow" /\ config.octets
                   THEN calls[c].env.carried.args ELSE None
        /\ calls[c].pc = "delivered"
        /\ calls' = [calls EXCEPT ![c].pc = "done", ![c].bound = bound]
        /\ UNCHANGED <<now, config, life, seen, stream, delivered>>
  BY DEF Answer
<1> QED
  BY <1>1 DEF Only, Carried, CallFields, CallsTyped, CallTyped

-------------------------------------------------------------------------------
LEMMA ArriveKeeps ==
  ASSUME CallsInv, A2AAssumption, NEW c \in Calls, NEW e \in Envelopes,
         NEW text \in Encodings, Arrive(c, e, text)
  PROVE  CallsInv' /\ (GuardInv => GuardInv')
<1> USE DEF CallsInv, GuardInv
<1>1. /\ calls[c].pc = "idle" /\ Only(c)
      /\ DOMAIN calls'[c] = CallFields
      /\ calls'[c].env = e /\ calls'[c].encoding = text
      /\ calls'[c].at = now /\ calls'[c].life = life
      /\ calls'[c].counted = FALSE
      /\ \/ calls'[c].pc = "guard" /\ calls'[c].verdict = None
         \/ calls'[c].pc = "finish" /\ calls'[c].verdict \notin {None, "allow", "replay"}
      /\ calls'[c].pc = "guard" => Cleared(c)'
      /\ UNCHANGED <<now, config, life, seen, stream, delivered>>
  <2>1. CallsTyped
    OBVIOUS
  <2>2. /\ calls[c].pc = "idle" /\ Only(c)
        /\ DOMAIN calls'[c] = CallFields
        /\ calls'[c].env = e /\ calls'[c].encoding = text
        /\ calls'[c].at = now /\ calls'[c].life = life
        /\ calls'[c].counted = FALSE
        /\ \/ calls'[c].pc = "guard" /\ calls'[c].verdict = None
           \/ /\ calls'[c].pc = "finish"
              /\ calls'[c].verdict \in Verdicts \ {"allow", "replay"}
        /\ calls'[c].pc = "guard" => Cleared(c)'
        /\ UNCHANGED <<now, config, life, seen, stream, delivered>>
    BY <2>1, ArriveStep
  <2>3. None \notin Verdicts
    BY DEF A2AAssumption
  <2> QED
    BY <2>2, <2>3
<1>2. ~calls[c].counted /\ calls[c].verdict = None
  BY <1>1 DEF CallsTyped, CallTyped
<1>3. \A d \in Calls : d # c => /\ calls'[d] = calls[d] /\ Cleared(d)' = Cleared(d)
                                /\ Key(d)' = Key(d)
  BY <1>1, ClearedStays DEF Only, Key
<1>4. CallsTyped'
  <2>1. Delay \in Nat
    BY DEF A2AAssumption
  <2> SUFFICES ASSUME NEW d \in Calls PROVE CallTyped(d)'
    BY <1>1 DEF CallsTyped, Only
  <2>2. CASE d = c
    <3>1. /\ calls'[c].at \in Nat /\ calls'[c].at <= now'
          /\ calls'[c].life \in Nat /\ calls'[c].life <= life' /\ calls'[c].life = life'
          /\ now' - calls'[c].at <= Delay
      BY <1>1, <2>1
    <3>2. calls'[c].counted \in BOOLEAN /\ ~calls'[c].counted
      BY <1>1
    <3>3. calls'[c].pc \in {"guard", "finish"}
      BY <1>1
    <3> QED
      BY <1>1, <2>2, <3>1, <3>2, <3>3 DEF CallTyped, Waiting
  <2>3. CASE d # c
    BY <1>1, <1>3, <2>3 DEF CallsTyped, CallTyped
  <2> QED
    BY <2>2, <2>3
<1>5. CallsCleared'
  BY <1>1, <1>3 DEF CallsCleared, CallCleared
<1>6. ASSUME Remembered PROVE Remembered'
  BY <1>1, <1>3, <1>6 DEF Remembered, InGuardsLife
<1>7. ASSUME CountedOnce PROVE CountedOnce'
  <2> SUFFICES ASSUME NEW x \in Calls, NEW y \in Calls, x # y,
                      calls'[x].counted, calls'[y].counted, SameText(x, y)'
               PROVE  config.guard = "memory" /\ calls'[x].life # calls'[y].life
    BY <1>1 DEF CountedOnce
  <2>1. x # c /\ y # c
    BY <1>1
  <2> QED
    BY <1>3, <1>7, <2>1 DEF CountedOnce, SameText
<1>8. ASSUME SeenWasCounted PROVE SeenWasCounted'
  BY <1>1, <1>2, <1>3, <1>8 DEF SeenWasCounted, InGuardsLife
<1>9. ASSUME ReplayWasCounted PROVE ReplayWasCounted'
  <2> SUFFICES ASSUME NEW x \in Calls, calls'[x].verdict = "replay"
               PROVE  (\E d \in Calls \ {x} :
                         /\ calls[d].counted /\ SameText(d, x)
                         /\ config.guard = "memory" => calls[d].life = calls[x].life)'
    BY DEF ReplayWasCounted
  <2>1. x # c
    BY <1>1 DEF A2AAssumption, Verdicts
  <2>2. PICK d \in Calls \ {x} :
          /\ calls[d].counted /\ SameText(d, x)
          /\ config.guard = "memory" => calls[d].life = calls[x].life
    BY <1>3, <1>9, <2>1 DEF ReplayWasCounted
  <2>3. d # c
    BY <1>2, <2>2
  <2> QED
    BY <1>1, <1>3, <2>1, <2>2, <2>3 DEF SameText
<1> QED
  BY <1>1, <1>4, <1>5, <1>6, <1>7, <1>8, <1>9

\* A call that only moves on, with what it carries, keeps its type.
LEMMA MovedTyped ==
  ASSUME CallsTyped, A2AAssumption, NEW c \in Calls, Only(c), Carried(c),
         UNCHANGED <<now, life>>, calls[c].pc \in Waiting,
         calls'[c].pc \in (Waiting \ {"guard"}) \cup {"done", "raised"}, calls'[c].counted \in BOOLEAN
  PROVE  CallsTyped'
BY DEF CallsTyped, CallTyped, Only, Carried, Waiting

LEMMA MovedCleared ==
  ASSUME NEW c \in Calls, Only(c), Carried(c), config' = config
  PROVE  /\ \A d \in Calls : Cleared(d)' = Cleared(d)
         /\ \A d \in Calls : calls'[d].env = calls[d].env /\ calls'[d].at = calls[d].at
                             /\ calls'[d].life = calls[d].life
         /\ \A d \in Calls : Key(d)' = Key(d)
         /\ \A d \in Calls : d # c => calls'[d] = calls[d]
BY ClearedStays DEF Only, Carried, Key

\* Leaving the gates or answering changes nothing the guard is about.
LEMMA AnsweringKeeps ==
  ASSUME CallsInv, A2AAssumption, NEW c \in Calls,
         Gates(c) \/ Audit(c) \/ Record(c) \/ Deliver(c) \/ Answer(c)
  PROVE  CallsInv' /\ (GuardInv => GuardInv')
<1> USE DEF CallsInv, GuardInv
<1>1. /\ Only(c) /\ Carried(c) /\ UNCHANGED <<now, config, life, seen>>
      /\ calls[c].pc \in Waiting \ {"guard"}
      /\ calls'[c].counted = calls[c].counted
      /\ \/ calls'[c].pc \in {"finish", "audited", "delivered", "raised"}
            /\ calls'[c].verdict \in {"gates", calls[c].verdict}
         \/ /\ calls'[c].pc = "recorded"
            /\ calls'[c].verdict = IF calls[c].verdict = None THEN "allow" ELSE calls[c].verdict
         \/ /\ calls'[c].pc = "done" /\ calls'[c].verdict = calls[c].verdict
            /\ calls'[c].bound = IF calls[c].verdict = "allow" /\ config.octets
                                 THEN calls[c].env.carried.args ELSE None
  <2>1. CASE Gates(c)
    BY <2>1, GatesStep DEF Waiting
  <2>2. CASE Audit(c)
    BY <2>2, HookStep DEF Audit, Waiting
  <2>3. CASE Record(c)
    BY <2>3, RecordStep DEF Waiting
  <2>4. CASE Deliver(c)
    BY <2>4, HookStep DEF Deliver, Waiting
  <2>5. CASE Answer(c)
    BY <2>5, AnswerStep DEF Waiting
  <2> QED
    BY <2>1, <2>2, <2>3, <2>4, <2>5
<1>2. CallsTyped'
  <2>1. calls'[c].counted \in BOOLEAN
    BY <1>1 DEF CallsTyped, CallTyped
  <2> QED
    BY <1>1, <2>1, MovedTyped DEF Waiting
<1>3. /\ \A d \in Calls : Cleared(d)' = Cleared(d)
      /\ \A d \in Calls : calls'[d].env = calls[d].env /\ calls'[d].at = calls[d].at
                          /\ calls'[d].life = calls[d].life
      /\ \A d \in Calls : Key(d)' = Key(d)
      /\ \A d \in Calls : d # c => calls'[d] = calls[d]
  BY <1>1, MovedCleared
<1>4. \A d \in Calls : calls'[d].counted = calls[d].counted
  BY <1>1, <1>3
<1>5. CallsCleared'
  <2>1. "gates" \notin {None, "allow", "replay"}
    BY DEF A2AAssumption, Verdicts
  <2> SUFFICES ASSUME NEW d \in Calls PROVE CallCleared(d)'
    BY DEF CallsCleared
  <2>2. CASE d = c
    BY <1>1, <1>3, <2>1, <2>2 DEF CallsCleared, CallCleared, Waiting
  <2>3. CASE d # c
    BY <1>1, <1>3, <2>3 DEF CallsCleared, CallCleared
  <2> QED
    BY <2>2, <2>3
<1>6. ASSUME Remembered, CountedOnce, SeenWasCounted
      PROVE  Remembered' /\ CountedOnce' /\ SeenWasCounted'
  BY <1>1, <1>3, <1>4, <1>6 DEF Remembered, CountedOnce, SeenWasCounted, InGuardsLife, SameText
<1>7. ASSUME ReplayWasCounted PROVE ReplayWasCounted'
  <2>1. calls'[c].verdict = "replay" => calls[c].verdict = "replay"
    BY <1>1
  <2> QED
    BY <1>1, <1>3, <1>4, <1>7, <2>1 DEF ReplayWasCounted, SameText
<1> QED
  BY <1>1, <1>2, <1>5, <1>6, <1>7

-------------------------------------------------------------------------------
\* The guard.  A header it has forgotten is one that nobody can present any more.
LEMMA ForgottenIsStale ==
  ASSUME CallsInv, Remembered, A2AAssumption, GuardOutlasts,
         NEW c \in Calls, NEW d \in Calls, SameText(c, d),
         calls[c].counted, InGuardsLife(c), calls[d].pc = "guard",
         ~(seen[Key(d)] > now)
  PROVE  FALSE
<1> DEFINE h == calls[c].env.header
           k == Key(c)
           ttl == Ttl * Res
           young == (MaxAge + 1) * Res - 1
           early == (FutureSkew + 1) * Res - 1
<1>1. Cleared(c) /\ Cleared(d)
  <2>1. calls[d].verdict = None /\ calls[d].pc # "idle"
    BY DEF CallsInv, CallsCleared, CallCleared
  <2> QED
    BY <2>1 DEF CallsInv, CallsCleared, CallCleared
<1>2. /\ calls[c].env \in Envelopes /\ calls[c].encoding \in Encodings /\ h # None
      /\ calls[d].env.header = h
  BY <1>1 DEF CallsInv, CallsTyped, CallTyped, CallsCleared, CallCleared, Cleared, SameText, Key, GuardKey
<1>3. h.proof.at \in Nat
  BY <1>2 DEF A2AAssumption, Proof
<1>4. /\ calls[c].at \in Nat /\ calls[d].at \in Nat /\ now \in Nat
      /\ now - calls[d].at <= Delay
  BY DEF CallsInv, CallsTyped, CallTyped
<1>5. seen[k] \in Nat
  BY <1>2 DEF CallsInv, Headers, Keys, Key
<1>6. seen[k] >= calls[c].at + ttl /\ seen[k] <= now
  <2>1. seen[k] >= calls[c].at + ttl
    BY DEF Remembered
  <2>2. Key(d) = k
    BY DEF SameText
  <2> QED
    BY <1>4, <1>5, <2>1, <2>2
<1>7. calls[d].at - h.proof.at <= young
  <2>1. calls[d].at - h.proof.at \in Int
    BY <1>3, <1>4
  <2>2. NumSeconds(calls[d].at - h.proof.at) \in -FutureSkew..MaxAge
    BY <1>1, <1>2 DEF Cleared
  <2> QED
    BY <2>1, <2>2, FreshWindow
<1>8. h.proof.at - calls[c].at <= early
  <2>1. calls[c].at - h.proof.at \in Int
    BY <1>3, <1>4
  <2>2. NumSeconds(calls[c].at - h.proof.at) \in -FutureSkew..MaxAge
    BY <1>1 DEF Cleared
  <2>3. -(calls[c].at - h.proof.at) <= early
    BY <2>1, <2>2, FreshWindow
  <2> QED
    BY <1>3, <1>4, <2>3
<1>9. ttl \in Int /\ young \in Int /\ early \in Int /\ Delay \in Int
  BY DEF A2AAssumption, Ttl
<1>10. young + early + Delay < ttl
  <2>1. (MaxAge + 1) * Res \in Int /\ (FutureSkew + 1) * Res \in Int
    BY DEF A2AAssumption
  <2> QED
    BY <1>9, <2>1 DEF GuardOutlasts
<1> HIDE DEF k, ttl, young, early
<1> QED
  BY <1>3, <1>4, <1>5, <1>6, <1>7, <1>8, <1>9, <1>10

LEMMA GuardKeeps ==
  ASSUME CallsInv, A2AAssumption, NEW c \in Calls, Guard(c)
  PROVE  CallsInv' /\ (GuardOutlasts /\ GuardInv => GuardInv')
<1> USE DEF CallsInv, GuardInv
<1> DEFINE k == Key(c)
<1>1. /\ calls[c].pc = "guard" /\ Only(c) /\ Carried(c)
      /\ UNCHANGED <<now, config, life, stream, delivered>>
      /\ \/ /\ seen[k] > now /\ seen' = seen
            /\ calls'[c].pc = "finish" /\ calls'[c].verdict = "replay"
            /\ calls'[c].counted = calls[c].counted
         \/ /\ ~(seen[k] > now)
            /\ seen' = [seen EXCEPT ![k] = now + Ttl * Res]
            /\ calls'[c].pc = "gates" /\ calls'[c].verdict = calls[c].verdict
            /\ calls'[c].counted
  BY GuardStep
<1>2. /\ ~calls[c].counted /\ calls[c].verdict = None /\ Cleared(c)
      /\ calls[c].env \in Envelopes /\ k \in Keys
      /\ calls[c].at \in Nat /\ calls[c].at <= now /\ calls[c].life = life
  <2>1. /\ ~calls[c].counted /\ calls[c].verdict = None /\ Cleared(c)
    BY <1>1 DEF CallsCleared, CallCleared
  <2>2. /\ calls[c].env \in Envelopes /\ calls[c].at \in Nat /\ calls[c].at <= now
        /\ calls[c].life = life /\ calls[c].encoding \in Encodings
    BY <1>1 DEF CallsTyped, CallTyped, Waiting
  <2> QED
    BY <2>1, <2>2 DEF Cleared, Headers, Keys, Key
<1>3. /\ \A d \in Calls : Cleared(d)' = Cleared(d)
      /\ \A d \in Calls : calls'[d].env = calls[d].env /\ calls'[d].at = calls[d].at
                          /\ calls'[d].life = calls[d].life
      /\ \A d \in Calls : Key(d)' = Key(d)
      /\ \A d \in Calls : d # c => calls'[d] = calls[d]
  BY <1>1, MovedCleared
<1>4. CASE seen[k] > now
  <2>1. /\ seen' = seen /\ calls'[c].pc = "finish" /\ calls'[c].verdict = "replay"
        /\ calls'[c].counted = calls[c].counted
    BY <1>1, <1>4
  <2>2. \A d \in Calls : calls'[d].counted = calls[d].counted
    BY <1>3, <2>1
  <2>3. CallsTyped'
    <3>1. calls'[c].counted \in BOOLEAN
      BY <2>1 DEF CallsTyped, CallTyped
    <3> QED
      BY <1>1, <2>1, <3>1, MovedTyped DEF Waiting
  <2>4. CallsCleared'
    <3>1. None # "replay"
      BY DEF A2AAssumption, Verdicts
    <3>2. CallCleared(c)'
      BY <1>2, <1>3, <2>1, <3>1 DEF CallCleared
    <3>3. \A d \in Calls : d # c => CallCleared(d)'
      BY <1>1, <1>3 DEF CallsCleared, CallCleared
    <3> QED
      BY <3>2, <3>3 DEF CallsCleared
  <2>5. ASSUME Remembered, CountedOnce, SeenWasCounted
        PROVE  Remembered' /\ CountedOnce' /\ SeenWasCounted'
    BY <1>1, <1>3, <2>1, <2>2, <2>5 DEF Remembered, CountedOnce, SeenWasCounted, InGuardsLife, SameText
  <2>7. ASSUME SeenWasCounted, ReplayWasCounted PROVE ReplayWasCounted'
    <3>0. PICK d \in Calls : calls[d].counted /\ Key(d) = k /\ InGuardsLife(d)
      BY <1>2, <1>4, <2>7 DEF SeenWasCounted
    <3> SUFFICES ASSUME NEW x \in Calls, calls'[x].verdict = "replay"
                 PROVE  (\E y \in Calls \ {x} :
                           /\ calls[y].counted /\ SameText(y, x)
                           /\ config.guard = "memory" => calls[y].life = calls[x].life)'
      BY DEF ReplayWasCounted
    <3>1. CASE x = c
      <4>1. d # c
        BY <1>2, <3>0
      <4> QED
        BY <1>1, <1>2, <1>3, <2>2, <3>0, <3>1, <4>1 DEF InGuardsLife, SameText
    <3>2. CASE x # c
      <4>1. calls[x].verdict = "replay"
        BY <1>3, <3>2
      <4> QED
        BY <1>1, <1>3, <2>2, <2>7, <4>1 DEF ReplayWasCounted, SameText
    <3> QED
      BY <3>1, <3>2
  <2> QED
    BY <1>1, <2>1, <2>3, <2>4, <2>5, <2>7
<1>5. CASE ~(seen[k] > now)
  <2>1. /\ seen' = [seen EXCEPT ![k] = now + Ttl * Res]
        /\ calls'[c].pc = "gates" /\ calls'[c].verdict = calls[c].verdict
        /\ calls'[c].counted
    BY <1>1, <1>5
  <2>2. now + Ttl * Res \in Nat /\ Ttl * Res \in Nat
    BY DEF A2AAssumption, Ttl
  <2>3. ASSUME Remembered, GuardOutlasts
        PROVE  \A x \in Calls : x # c /\ calls[x].counted /\ InGuardsLife(x)
                 => Key(x) # k
    BY <1>1, <1>5, <2>3, ForgottenIsStale DEF SameText
  <2>4. seen' \in [Keys -> Nat]
    BY <2>1, <2>2
  <2>5. CallsTyped'
    <3>1. calls'[c].counted = TRUE
      BY <2>1 DEF Guard, CallsTyped, CallTyped, Deny
    <3> QED
      BY <1>1, <2>1, <3>1, MovedTyped DEF Waiting
  <2>6. CallsCleared'
    <3>1. None \notin {"allow", "replay"}
      BY DEF A2AAssumption, Verdicts
    <3>2. CallCleared(c)'
      BY <1>2, <1>3, <2>1, <3>1 DEF CallCleared
    <3>3. \A d \in Calls : d # c => CallCleared(d)'
      BY <1>1, <1>3 DEF CallsCleared, CallCleared
    <3> QED
      BY <3>2, <3>3 DEF CallsCleared
  <2>7. ASSUME Remembered, GuardOutlasts PROVE Remembered'
    <3> SUFFICES ASSUME NEW x \in Calls, calls'[x].counted, InGuardsLife(x)'
                 PROVE  seen'[Key(x)'] >= calls'[x].at + Ttl * Res
      BY DEF Remembered
    <3>1. CASE x = c
      BY <1>2, <1>3, <2>1, <2>2, <3>1
    <3>2. CASE x # c
      <4>1. calls[x].counted /\ InGuardsLife(x)
        BY <1>1, <1>3, <3>2 DEF InGuardsLife
      <4>2. Key(x) # k
        BY <2>3, <2>7, <3>2, <4>1
      <4>3. Key(x) \in Keys
        BY <4>1 DEF CallsTyped, CallTyped, CallsCleared, CallCleared, Cleared, Headers, Keys, Key
      <4> QED
        BY <1>3, <2>1, <2>7, <3>2, <4>1, <4>2, <4>3 DEF Remembered
    <3> QED
      BY <3>1, <3>2
  <2>8. ASSUME Remembered, CountedOnce, GuardOutlasts PROVE CountedOnce'
    <3>1. \A x \in Calls : x # c /\ calls[x].counted /\ Key(x) = k
            => config.guard = "memory" /\ calls[x].life # calls[c].life
      BY <1>2, <2>3, <2>8 DEF InGuardsLife
    <3> SUFFICES ASSUME NEW x \in Calls, NEW y \in Calls, x # y,
                        calls'[x].counted, calls'[y].counted, SameText(x, y)'
                 PROVE  config.guard = "memory" /\ calls[x].life # calls[y].life
      BY <1>1, <1>3 DEF CountedOnce
    <3>2. Key(x) = Key(y)
      BY <1>3 DEF SameText
    <3>3. CASE x = c
      BY <1>3, <3>1, <3>2, <3>3
    <3>4. CASE y = c
      BY <1>3, <3>1, <3>2, <3>4
    <3>5. CASE x # c /\ y # c
      BY <1>3, <2>8, <3>2, <3>5 DEF CountedOnce, SameText
    <3> QED
      BY <3>3, <3>4, <3>5
  <2>9. ASSUME SeenWasCounted PROVE SeenWasCounted'
    <3> SUFFICES ASSUME NEW l \in Keys, seen'[l] > 0
                 PROVE  (\E d \in Calls : calls[d].counted /\ Key(d) = l /\ InGuardsLife(d))'
      BY DEF SeenWasCounted
    <3>1. CASE l = k
      BY <1>1, <1>2, <1>3, <2>1, <3>1 DEF InGuardsLife
    <3>2. CASE l # k
      <4>1. PICK d \in Calls : calls[d].counted /\ Key(d) = l /\ InGuardsLife(d)
        BY <2>1, <2>9, <3>2 DEF SeenWasCounted
      <4>2. d # c
        BY <1>2, <4>1
      <4> QED
        BY <1>1, <1>3, <4>1, <4>2 DEF InGuardsLife
    <3> QED
      BY <3>1, <3>2
  <2>10. ASSUME ReplayWasCounted PROVE ReplayWasCounted'
    <3> SUFFICES ASSUME NEW x \in Calls, calls'[x].verdict = "replay"
                 PROVE  (\E y \in Calls \ {x} :
                           /\ calls[y].counted /\ SameText(y, x)
                           /\ config.guard = "memory" => calls[y].life = calls[x].life)'
      BY DEF ReplayWasCounted
    <3>1. calls[x].verdict = "replay"
      BY <1>3, <2>1
    <3>2. PICK y \in Calls \ {x} :
            /\ calls[y].counted /\ SameText(y, x)
            /\ config.guard = "memory" => calls[y].life = calls[x].life
      BY <2>10, <3>1 DEF ReplayWasCounted
    <3>3. calls'[y].counted
      BY <1>3, <2>1, <3>2
    <3> QED
      BY <1>1, <1>3, <3>2, <3>3 DEF SameText
  <2> QED
    BY <1>1, <2>4, <2>5, <2>6, <2>7, <2>8, <2>9, <2>10
<1> QED
  BY <1>4, <1>5

-------------------------------------------------------------------------------
LEMMA TickKeeps ==
  ASSUME CallsInv, A2AAssumption, Tick
  PROVE  CallsInv' /\ (GuardInv => GuardInv')
<1> USE DEF CallsInv, GuardInv
<1>1. /\ now' = now + 1 /\ UNCHANGED <<config, life, seen, stream, calls>>
      /\ \A c \in Calls : calls[c].pc = "guard" => now - calls[c].at < Delay
  BY DEF Tick
<1>2. Delay \in Nat
  BY DEF A2AAssumption
<1>3. CallsTyped'
  BY <1>1, <1>2 DEF CallsTyped, CallTyped
<1>0. \A c \in Calls : Cleared(c)' = Cleared(c) /\ Key(c)' = Key(c)
  BY <1>1, ClearedStays DEF Key
<1>4. CallsCleared'
  BY <1>0, <1>1 DEF CallsCleared, CallCleared
<1>5. ASSUME GuardInv PROVE GuardInv'
  BY <1>0, <1>1, <1>5 DEF Remembered, CountedOnce, SeenWasCounted, ReplayWasCounted, InGuardsLife, SameText
<1> QED
  BY <1>1, <1>3, <1>4, <1>5

\* A restart ends the life that an in-memory guard's calls counted in.
LEMMA RestartKeeps ==
  ASSUME CallsInv, A2AAssumption, Restart
  PROVE  CallsInv' /\ (GuardInv => GuardInv')
<1> USE DEF CallsInv, GuardInv
<1>1. /\ life' = life + 1 /\ UNCHANGED <<now, config>>
      /\ seen' = IF config.guard = "memory" THEN NothingSeen ELSE seen
      /\ calls' = [c \in Calls |-> IF calls[c].pc \in {"idle", "done", "raised", "lost"}
                                   THEN calls[c] ELSE [calls[c] EXCEPT !.pc = "lost"]]
  BY DEF Restart
<1>2. ASSUME NEW c \in Calls
      PROVE  /\ DOMAIN calls'[c] = CallFields
             /\ \/ calls'[c].pc = calls[c].pc /\ calls[c].pc \in {"idle", "done", "raised", "lost"}
                \/ calls'[c].pc = "lost" /\ calls[c].pc \in Waiting
             /\ calls'[c].env = calls[c].env /\ calls'[c].encoding = calls[c].encoding
             /\ calls'[c].at = calls[c].at
             /\ calls'[c].acting = calls[c].acting /\ calls'[c].life = calls[c].life
             /\ calls'[c].counted = calls[c].counted /\ calls'[c].verdict = calls[c].verdict
             /\ calls'[c].bound = calls[c].bound
  BY <1>1 DEF CallsTyped, CallTyped, CallFields, Waiting
<1>3. \A c \in Calls : Cleared(c)' = Cleared(c) /\ Key(c)' = Key(c)
  BY <1>1, <1>2, ClearedStays DEF Key
<1>4. DOMAIN calls' = Calls
  BY <1>1
<1>5. CallsTyped'
  BY <1>1, <1>2, <1>4 DEF CallsTyped, CallTyped, Waiting
<1>6. CallsCleared'
  <2> SUFFICES ASSUME NEW c \in Calls PROVE CallCleared(c)'
    BY DEF CallsCleared
  <2>1. CallCleared(c)
    BY DEF CallsCleared
  <2> QED
    BY <1>1, <1>2, <1>3, <2>1 DEF CallCleared, Waiting
<1>7. \A c \in Calls : InGuardsLife(c)' => config.guard # "memory"
  BY <1>1, <1>2 DEF InGuardsLife, CallsTyped, CallTyped
<1>8. seen' \in [Keys -> Nat]
  BY <1>1 DEF NothingSeen, Keys
<1>9. ASSUME Remembered, CountedOnce PROVE Remembered' /\ CountedOnce'
  BY <1>1, <1>2, <1>3, <1>7, <1>9 DEF Remembered, CountedOnce, InGuardsLife, SameText
<1>10. ASSUME SeenWasCounted PROVE SeenWasCounted'
  <2> SUFFICES ASSUME NEW k \in Keys, seen'[k] > 0
               PROVE  (\E d \in Calls : calls[d].counted /\ Key(d) = k /\ InGuardsLife(d))'
    BY DEF SeenWasCounted
  <2>1. config.guard # "memory" /\ seen' = seen
    BY <1>1 DEF NothingSeen, Keys
  <2> QED
    BY <1>1, <1>2, <1>3, <1>10, <2>1 DEF SeenWasCounted, InGuardsLife
<1>11. ASSUME ReplayWasCounted PROVE ReplayWasCounted'
  <2> SUFFICES ASSUME NEW x \in Calls, calls'[x].verdict = "replay"
               PROVE  (\E y \in Calls \ {x} :
                         /\ calls[y].counted /\ SameText(y, x)
                         /\ config.guard = "memory" => calls[y].life = calls[x].life)'
    BY DEF ReplayWasCounted
  <2>1. PICK y \in Calls \ {x} :
          /\ calls[y].counted /\ SameText(y, x)
          /\ config.guard = "memory" => calls[y].life = calls[x].life
    BY <1>2, <1>11 DEF ReplayWasCounted
  <2> QED
    BY <1>1, <1>2, <1>3, <2>1 DEF SameText
<1> QED
  BY <1>1, <1>5, <1>6, <1>8, <1>9, <1>10, <1>11

LEMMA MessagesInvInit == Init /\ A2AAssumption => CallsInv /\ GuardInv
<1> SUFFICES ASSUME Init, A2AAssumption PROVE CallsInv /\ GuardInv
  OBVIOUS
<1>1. \A c \in Calls : calls[c] = Idle
  BY DEF Init
<1>2. /\ Idle.pc = "idle" /\ Idle.at = 0 /\ Idle.life = 0 /\ Idle.counted = FALSE
      /\ Idle.verdict = None /\ DOMAIN Idle = CallFields
  BY DEF Idle, CallFields
<1>3. CallsTyped
  <2>1. now = 0 /\ life = 1 /\ DOMAIN calls = Calls
    BY DEF Init
  <2>2. Idle.counted \in BOOLEAN /\ ~Idle.counted
    BY <1>2
  <2> SUFFICES ASSUME NEW c \in Calls PROVE CallTyped(c)
    BY <2>1 DEF CallsTyped
  <2>3. calls[c] = Idle
    BY <1>1
  <2> QED
    BY <1>2, <2>1, <2>2, <2>3 DEF CallTyped, Waiting
<1>4. CallsCleared
  <2> SUFFICES ASSUME NEW c \in Calls PROVE CallCleared(c)
    BY DEF CallsCleared
  <2>1. calls[c] = Idle
    BY <1>1
  <2>2. calls[c].pc = "idle" /\ calls[c].counted = FALSE
    BY <1>2, <2>1
  <2> QED
    BY <2>2 DEF CallCleared, Waiting
<1>5. Remembered /\ CountedOnce
  BY <1>1, <1>2 DEF Remembered, CountedOnce
<1>6. seen \in [Keys -> Nat] /\ SeenWasCounted
  BY DEF Init, NothingSeen, Keys, SeenWasCounted
<1>7. ReplayWasCounted
  <2>1. None # "replay"
    BY DEF A2AAssumption, Verdicts
  <2> QED
    BY <1>1, <1>2, <2>1 DEF ReplayWasCounted
<1> QED
  BY <1>3, <1>4, <1>5, <1>6, <1>7 DEF Init, CallsInv, GuardInv

\* The calls keep what cleared them, however short the guard's memory is.
LEMMA MessagesInvNext ==
  ASSUME CallsInv, A2AAssumption, [Next]_vars
  PROVE  CallsInv' /\ (GuardOutlasts /\ GuardInv => GuardInv')
<1>1. CASE Next
  <2>1. ASSUME NEW c \in Calls, NEW e \in Envelopes, NEW text \in Encodings, Arrive(c, e, text)
        PROVE  CallsInv' /\ (GuardInv => GuardInv')
    BY <2>1, ArriveKeeps
  <2>2. ASSUME NEW c \in Calls, Guard(c)
        PROVE  CallsInv' /\ (GuardOutlasts /\ GuardInv => GuardInv')
    BY <2>2, GuardKeeps
  <2>3. ASSUME NEW c \in Calls,
               Gates(c) \/ Audit(c) \/ Record(c) \/ Deliver(c) \/ Answer(c)
        PROVE  CallsInv' /\ (GuardInv => GuardInv')
    BY <2>3, AnsweringKeeps
  <2> QED
    BY <1>1, <2>1, <2>2, <2>3, TickKeeps, RestartKeeps DEF Next
<1>2. CASE UNCHANGED vars
  <2>1. /\ UNCHANGED <<now, config, life, seen, calls>>
    BY <1>2 DEF vars
  <2>2. \A c \in Calls : Cleared(c)' = Cleared(c) /\ Key(c)' = Key(c)
    BY <2>1, ClearedStays DEF Key
  <2>3. CallsCleared'
    BY <2>1, <2>2 DEF CallsInv, CallsCleared, CallCleared
  <2>4. CallsTyped'
    BY <2>1 DEF CallsInv, CallsTyped, CallTyped
  <2>5. GuardInv => GuardInv'
    BY <2>1, <2>2 DEF GuardInv, Remembered, CountedOnce, SeenWasCounted, ReplayWasCounted,
                      InGuardsLife, SameText
  <2> QED
    BY <2>1, <2>3, <2>4, <2>5 DEF CallsInv
<1> QED
  BY <1>1, <1>2

\* Between a receiver and its senders the text of a header counts once: two messages
\* that race with it, or one at the far edge of its window, are not both admitted in one
\* life of the guard, and none is refused as used that another did not use.  What the
\* header decodes to may come in another text, and then counts again.
THEOREM HeaderAlwaysCountsOnce ==
  ASSUME GuardOutlasts
  PROVE  Spec => []HeaderCountsOnce
<1> DEFINE Inv == CallsInv /\ GuardInv
<1>1. Init => Inv
  BY MessagesInvInit, A2AAssumption
<1>2. Inv /\ [Next]_vars => Inv'
  BY MessagesInvNext, A2AAssumption, GuardOutlasts
<1>3. Inv => HeaderCountsOnce
  <2> SUFFICES ASSUME Inv PROVE HeaderCountsOnce
    OBVIOUS
  <2>1. \A c \in Admitted : c \in Calls /\ calls[c].counted
    BY DEF Admitted, CallsInv, CallsCleared, CallCleared
  <2>2. \A c, d \in Calls : SameText(c, d)
          <=> /\ calls[c].env.header = calls[d].env.header
              /\ calls[c].encoding = calls[d].encoding
    BY DEF SameText, Key, GuardKey
  <2> QED
    BY <2>1, <2>2 DEF HeaderCountsOnce, HeaderSingleUse, ReplayMeansUsed, GuardInv, CountedOnce,
                      ReplayWasCounted
<1> QED
  BY <1>1, <1>2, <1>3, PTL DEF Spec

\* No confused deputy: a message admitted for a human carried that human's own live
\* token, it was meant for this receiver, and what its sender bound is what runs.
THEOREM AdmittedAlwaysMeant == Spec => []AdmittedIsMeant
<1>1. Init => CallsInv
  BY MessagesInvInit, A2AAssumption
<1>2. CallsInv /\ [Next]_vars => CallsInv'
  BY MessagesInvNext, A2AAssumption
<1>3. CallsInv => AdmittedIsMeant
  <2> SUFFICES ASSUME CallsInv, NEW c \in Admitted
      PROVE  LET e == calls[c].env  p == e.header.proof IN
             /\ p.audience = Audience /\ p.signer = e.header.token.leaf
             /\ e.header.token.principal # None =>
                  /\ e.human # None /\ e.human.sub = e.header.token.principal
                  /\ Vouched(e.human, calls[c].at)
             /\ p.bound # None =>
                  /\ p.tool = e.tool
                  /\ p.bound.args = IF calls[c].bound = None THEN e.args ELSE calls[c].bound
    BY DEF AdmittedIsMeant
  <2> DEFINE e == calls[c].env
             p == e.header.proof
  <2>1. c \in Calls /\ calls[c].pc = "done" /\ calls[c].verdict = "allow"
    BY DEF Admitted
  <2>2. /\ Cleared(c)
        /\ calls[c].bound = IF config.octets THEN e.carried.args ELSE None
    BY <2>1 DEF CallsInv, CallsCleared, CallCleared
  <2>3. e.header.token.principal # None =>
          /\ e.human # None /\ e.human.sub = e.header.token.principal
          /\ Vouched(e.human, calls[c].at)
    BY <2>2 DEF Cleared, PrincipalMatches
  <2>4. ASSUME p.bound # None
        PROVE  /\ p.tool = e.tool
               /\ p.bound.args = IF calls[c].bound = None THEN e.args ELSE calls[c].bound
    <3>1. p.tool = e.tool /\ p.bound = BindingText(e)
      BY <2>2, <2>4 DEF Cleared, Bound, Unbound
    <3>2. CASE config.octets
      <4>1. p.bound.args = e.args /\ e.carried.args = e.args
        BY <2>2, <3>1, <3>2 DEF Cleared, BindingText
      <4> QED
        BY <2>2, <3>1, <3>2, <4>1
    <3>3. CASE ~config.octets
      <4>1. p.bound.args = e.args
        BY <3>1, <3>3 DEF BindingText
      <4> QED
        BY <2>2, <3>1, <3>3, <4>1
    <3> QED
      BY <3>2, <3>3
  <2> QED
    BY <2>2, <2>3, <2>4 DEF Cleared
<1> QED
  BY <1>1, <1>2, <1>3, PTL DEF Spec

-------------------------------------------------------------------------------
(***************************************************************************)
(* The stream of a process and its sink.  An entry of the stream is the    *)
(* record of a call that went past it and holds it still; the sink has the *)
(* entry unless that call raised on handing it over or has yet to.         *)
(***************************************************************************)
Entry == [seq : Nat, digest : [call : Calls, verdict : Verdicts]]

NumberedStream ==
  /\ stream.head \in Seq(Entry) /\ stream.count = Len(stream.head)
  /\ \A i \in 1..stream.count : stream.head[i].seq = i - 1

EntryHeld(i) ==
  LET c == stream.head[i].digest.call IN
  /\ calls[c].record = stream.head[i]
  /\ calls[c].pc \in {"recorded", "delivered", "done", "raised"}
  /\ stream.head[i] \in ToSet(delivered) \/ calls[c].pc \in {"recorded", "raised"}

RecordHeld(c) ==
  /\ calls[c].pc \in {"recorded", "delivered", "done"} /\ calls[c].life = life =>
       \E i \in 1..stream.count :
         /\ stream.head[i] = calls[c].record
         /\ stream.head[i].digest = [call |-> c, verdict |-> calls[c].verdict]
  /\ calls[c].pc \in {"delivered", "done"} /\ calls[c].life = life =>
       calls[c].record \in ToSet(delivered)

RecordsInv ==
  /\ \A c \in Calls : calls[c].verdict \in Verdicts \cup {None}
  /\ NumberedStream /\ delivered \in Seq(Entry)
  /\ \A i \in 1..stream.count : EntryHeld(i)
  /\ \A c \in Calls : RecordHeld(c)

LEMMA EntryOfCall ==
  ASSUME NumberedStream, NEW i \in 1..stream.count
  PROVE  stream.head[i] \in Entry /\ stream.head[i].digest.call \in Calls
<1>1. stream.head \in Seq(Entry) /\ i \in 1..Len(stream.head)
  BY DEF NumberedStream
<1>2. stream.head[i] \in Entry
  BY <1>1
<1> QED
  BY <1>2 DEF Entry

\* A call that does not come to the stream or the sink leaves both as they are.
LEMMA ElsewhereRecords ==
  ASSUME CallsInv, RecordsInv, A2AAssumption, NEW c \in Calls, Only(c),
         UNCHANGED <<life, stream, delivered>>,
         calls[c].pc \in {"idle", "guard", "gates", "finish"},
         calls'[c].pc \in {"guard", "gates", "finish", "audited", "raised"},
         calls'[c].verdict \in Verdicts \cup {None}
  PROVE  RecordsInv'
<1>1. ASSUME NEW i \in 1..stream.count PROVE EntryHeld(i)'
  <2>1. EntryHeld(i) /\ stream.head[i].digest.call \in Calls
    BY EntryOfCall DEF RecordsInv
  <2>2. stream.head[i].digest.call # c
    BY <2>1 DEF EntryHeld
  <2> QED
    BY <2>1, <2>2 DEF EntryHeld, Only
<1>2. ASSUME NEW d \in Calls PROVE RecordHeld(d)'
  <2>1. RecordHeld(d)
    BY DEF RecordsInv
  <2> QED
    BY <2>1 DEF RecordHeld, Only
<1>3. NumberedStream' /\ delivered' \in Seq(Entry)
  BY DEF RecordsInv, NumberedStream
<1>4. \A d \in Calls : calls'[d].verdict \in Verdicts \cup {None}
  BY DEF RecordsInv, Only
<1> QED
  BY <1>1, <1>2, <1>3, <1>4 DEF RecordsInv

LEMMA BeforeRecords ==
  ASSUME CallsInv, RecordsInv, A2AAssumption, NEW c \in Calls,
         \/ \E e \in Envelopes, text \in Encodings : Arrive(c, e, text)
         \/ Guard(c) \/ Gates(c) \/ Audit(c)
  PROVE  RecordsInv'
<1>1. /\ Only(c) /\ UNCHANGED <<life, stream, delivered>>
      /\ calls[c].pc \in {"idle", "guard", "gates", "finish"}
      /\ calls'[c].pc \in {"guard", "gates", "finish", "audited", "raised"}
      /\ calls'[c].verdict \in Verdicts \cup {None}
  <2>0. calls[c].verdict \in Verdicts \cup {None}
    BY DEF RecordsInv
  <2>1. CASE \E e \in Envelopes, text \in Encodings : Arrive(c, e, text)
    BY <2>1, ArriveStep DEF CallsInv
  <2>2. CASE Guard(c)
    BY <2>0, <2>2, GuardStep DEF CallsInv, Verdicts
  <2>3. CASE Gates(c)
    BY <2>0, <2>3, GatesStep DEF CallsInv, Verdicts
  <2>4. CASE Audit(c)
    BY <2>0, <2>4, HookStep DEF CallsInv, Audit
  <2> QED
    BY <2>1, <2>2, <2>3, <2>4
<1> QED
  BY <1>1, ElsewhereRecords

LEMMA RecordRecords ==
  ASSUME CallsInv, RecordsInv, A2AAssumption, NEW c \in Calls, Record(c)
  PROVE  RecordsInv'
<1>1. PICK verdict, digest :
        /\ verdict = IF calls[c].verdict = None THEN "allow" ELSE calls[c].verdict
        /\ digest = [call |-> c, verdict |-> verdict]
        /\ calls[c].pc = "audited" /\ Only(c) /\ Carried(c)
        /\ calls'[c].pc = "recorded" /\ calls'[c].verdict = verdict
        /\ calls'[c].record = Stamped(stream, digest)
        /\ stream' = Recorded(stream, digest)
        /\ life' = life /\ delivered' = delivered
  BY RecordStep DEF CallsInv
<1>2. verdict \in Verdicts
  BY <1>1 DEF RecordsInv, Verdicts
<1> DEFINE entry == [seq |-> stream.count, digest |-> digest]
           n == stream.count
<1>3. digest \in [call : Calls, verdict : Verdicts] /\ digest.call = c
  BY <1>1, <1>2
<1>4. n \in Nat /\ stream.head \in Seq(Entry) /\ Len(stream.head) = n
  BY DEF RecordsInv, NumberedStream
<1>5. /\ entry \in Entry /\ entry.seq = n /\ entry.digest = digest
      /\ calls'[c].record = entry
  BY <1>1, <1>3, <1>4 DEF Entry, Stamped
<1>6. stream'.count = n + 1 /\ stream'.head = Append(stream.head, entry)
  BY <1>1 DEF Recorded, Fold
<1> HIDE DEF entry
<1>7. /\ stream'.head \in Seq(Entry) /\ Len(stream'.head) = n + 1
      /\ \A i \in 1..n : stream'.head[i] = stream.head[i]
      /\ stream'.head[n + 1] = entry
  BY <1>4, <1>5, <1>6
<1>8. NumberedStream'
  BY <1>4, <1>5, <1>6, <1>7 DEF RecordsInv, NumberedStream
<1>9. ASSUME NEW i \in 1..stream'.count PROVE EntryHeld(i)'
  <2>1. CASE i \in 1..n
    <3>1. EntryHeld(i) /\ stream.head[i].digest.call \in Calls
      BY <2>1, EntryOfCall DEF RecordsInv
    <3>2. stream.head[i].digest.call # c
      BY <1>1, <3>1 DEF EntryHeld
    <3> QED
      BY <1>1, <1>7, <2>1, <3>1, <3>2 DEF EntryHeld, Only
  <2>2. CASE i = n + 1
    BY <1>1, <1>3, <1>5, <1>7, <2>2 DEF EntryHeld
  <2> QED
    BY <1>4, <1>6, <2>1, <2>2
<1>10. ASSUME NEW d \in Calls PROVE RecordHeld(d)'
  <2>1. CASE d = c
    <3>1. n + 1 \in 1..stream'.count
      BY SMTT(30), <1>4, <1>6
    <3>2. /\ stream'.head[n + 1] = calls'[c].record
          /\ stream'.head[n + 1].digest = [call |-> c, verdict |-> calls'[c].verdict]
      BY <1>1, <1>5, <1>7
    <3> QED
      BY <1>1, <2>1, <3>1, <3>2 DEF RecordHeld
  <2>2. CASE d # c
    <3>1. RecordHeld(d) /\ calls'[d] = calls[d]
      BY <1>1, <2>2 DEF RecordsInv, Only
    <3>2. \A i \in 1..n : i \in 1..stream'.count /\ stream'.head[i] = stream.head[i]
      BY <1>4, <1>6, <1>7
    <3> QED
      BY <1>1, <3>1, <3>2 DEF RecordHeld
  <2> QED
    BY <2>1, <2>2
<1>11. \A d \in Calls : calls'[d].verdict \in Verdicts \cup {None}
  BY <1>1, <1>2 DEF RecordsInv, Only
<1>12. delivered' \in Seq(Entry)
  BY <1>1 DEF RecordsInv
<1> QED
  BY <1>8, <1>9, <1>10, <1>11, <1>12 DEF RecordsInv

\* A sink that is handed a record takes it behind those it has.
LEMMA Taken ==
  ASSUME NEW S, NEW s \in Seq(S), NEW e \in S
  PROVE  ToSet(Append(s, e)) = ToSet(s) \cup {e}
<1>1. /\ Len(Append(s, e)) = Len(s) + 1 /\ Len(s) \in Nat
      /\ \A i \in 1..Len(s) : Append(s, e)[i] = s[i]
      /\ Append(s, e)[Len(s) + 1] = e
  OBVIOUS
<1>2. DOMAIN s = 1..Len(s) /\ DOMAIN Append(s, e) = 1..(Len(s) + 1)
  OBVIOUS
<1> QED
  BY <1>1, <1>2 DEF ToSet

LEMMA DeliverRecords ==
  ASSUME CallsInv, RecordsInv, A2AAssumption, NEW c \in Calls, Deliver(c) \/ Answer(c)
  PROVE  RecordsInv'
<1>1. /\ Only(c) /\ Carried(c) /\ UNCHANGED <<life, stream>>
      /\ calls[c].pc \in {"recorded", "delivered"}
      /\ calls'[c].verdict = calls[c].verdict /\ calls'[c].record = calls[c].record
      /\ \/ /\ calls[c].pc = "recorded" /\ calls'[c].pc = "raised" /\ delivered' = delivered
         \/ /\ calls[c].pc = "recorded" /\ calls'[c].pc = "delivered"
            /\ delivered' = Append(delivered, calls[c].record)
         \/ /\ calls[c].pc = "delivered" /\ calls'[c].pc = "done" /\ delivered' = delivered
  <2>1. CASE Deliver(c)
    <3>1. /\ calls[c].pc = "recorded" /\ Only(c) /\ Carried(c)
          /\ calls'[c].pc \in {"delivered", "raised"} /\ calls'[c].verdict = calls[c].verdict
          /\ calls'[c].record = calls[c].record
      BY <2>1, HookStep DEF CallsInv, Deliver
    <3> QED
      BY <2>1, <3>1 DEF Deliver
  <2>2. CASE Answer(c)
    BY <2>2, AnswerStep DEF CallsInv
  <2> QED
    BY <2>1, <2>2
<1>2. calls[c].life = life /\ RecordHeld(c)
  BY <1>1 DEF RecordsInv, CallsInv, CallsTyped, CallTyped, Waiting
<1>3. PICK k \in 1..stream.count :
        /\ stream.head[k] = calls[c].record
        /\ stream.head[k].digest = [call |-> c, verdict |-> calls[c].verdict]
  BY <1>1, <1>2 DEF RecordHeld
<1>4. calls[c].record \in Entry
  BY <1>3, EntryOfCall DEF RecordsInv
<1>5. /\ delivered' \in Seq(Entry)
      /\ \A r \in ToSet(delivered) : r \in ToSet(delivered')
      /\ calls'[c].pc = "delivered" => calls[c].record \in ToSet(delivered')
  <2>1. CASE delivered' = delivered /\ calls'[c].pc # "delivered"
    BY <2>1 DEF RecordsInv
  <2>2. CASE delivered' = Append(delivered, calls[c].record)
    <3>1. delivered \in Seq(Entry)
      BY DEF RecordsInv
    <3>2. ToSet(delivered') = ToSet(delivered) \cup {calls[c].record}
      BY <1>4, <2>2, <3>1, Taken
    <3>3. delivered' \in Seq(Entry)
      BY <1>4, <2>2, <3>1
    <3> QED
      BY <3>2, <3>3
  <2> QED
    BY <1>1, <2>1, <2>2
<1>6. ASSUME NEW i \in 1..stream.count PROVE EntryHeld(i)'
  <2>1. EntryHeld(i) /\ stream.head[i].digest.call \in Calls
    BY EntryOfCall DEF RecordsInv
  <2>2. CASE stream.head[i].digest.call = c
    BY <1>1, <1>5, <2>1, <2>2 DEF EntryHeld
  <2>3. CASE stream.head[i].digest.call # c
    BY <1>1, <1>5, <2>1, <2>3 DEF EntryHeld, Only
  <2> QED
    BY <2>2, <2>3
<1>7. ASSUME NEW d \in Calls PROVE RecordHeld(d)'
  <2>1. RecordHeld(d)
    BY DEF RecordsInv
  <2>2. CASE d = c
    <3>1. calls'[c].pc \in {"delivered", "done"} => calls[c].record \in ToSet(delivered')
      BY <1>1, <1>2, <1>5 DEF RecordHeld
    <3> QED
      BY <1>1, <1>3, <2>2, <3>1 DEF RecordHeld
  <2>3. CASE d # c
    BY <1>1, <1>5, <2>1, <2>3 DEF RecordHeld, Only
  <2> QED
    BY <2>2, <2>3
<1>8. NumberedStream'
  BY <1>1 DEF RecordsInv, NumberedStream
<1>9. \A d \in Calls : calls'[d].verdict \in Verdicts \cup {None}
  BY <1>1 DEF RecordsInv, Only
<1> QED
  BY <1>1, <1>5, <1>6, <1>7, <1>8, <1>9 DEF RecordsInv

LEMMA RestartRecords ==
  ASSUME CallsInv, RecordsInv, Restart
  PROVE  RecordsInv'
<1>1. /\ life' = life + 1 /\ stream' = NewStream /\ delivered' = <<>>
      /\ calls' = [c \in Calls |-> IF calls[c].pc \in {"idle", "done", "raised", "lost"}
                                   THEN calls[c] ELSE [calls[c] EXCEPT !.pc = "lost"]]
  BY DEF Restart
<1>2. stream'.count = 0 /\ stream'.head = <<>>
  BY <1>1 DEF NewStream, Genesis
<1>3. NumberedStream' /\ delivered' \in Seq(Entry)
  BY <1>1, <1>2 DEF NumberedStream
<1>4. ASSUME NEW c \in Calls
      PROVE  /\ calls'[c].life = calls[c].life /\ calls'[c].verdict = calls[c].verdict
             /\ calls[c].life \in Nat /\ calls[c].life <= life /\ life \in Nat
  BY <1>1 DEF CallsInv, CallsTyped, CallTyped, CallFields
<1>5. \A c \in Calls : RecordHeld(c)'
  BY <1>1, <1>4 DEF RecordHeld
<1>6. \A c \in Calls : calls'[c].verdict \in Verdicts \cup {None}
  BY <1>4 DEF RecordsInv
<1>7. \A i \in 1..stream'.count : EntryHeld(i)'
  BY <1>2
<1> QED
  BY <1>3, <1>5, <1>6, <1>7 DEF RecordsInv

\* However calls overlap, hooks raise and the receiver is restarted: whoever was
\* answered by this process is in its stream once, with the answer they got, and its
\* sink has that record; what the sink lacks is of a call that was not answered.
THEOREM EveryAnswerAlwaysRecorded == Spec => []EveryAnswerIsRecorded
<1> DEFINE Inv == CallsInv /\ RecordsInv
<1>1. Init => Inv
  <2> SUFFICES ASSUME Init PROVE RecordsInv
    BY MessagesInvInit, A2AAssumption
  <2>1. stream.count = 0 /\ stream.head = <<>> /\ delivered = <<>>
    BY DEF Init, NewStream, Genesis
  <2>2. \A c \in Calls : calls[c].verdict = None /\ calls[c].pc = "idle"
    BY DEF Init, Idle
  <2> QED
    BY <2>1, <2>2 DEF RecordsInv, NumberedStream, RecordHeld
<1>2. Inv /\ [Next]_vars => Inv'
  <2> SUFFICES ASSUME Inv, [Next]_vars PROVE RecordsInv'
    BY MessagesInvNext, A2AAssumption
  <2>1. ASSUME NEW c \in Calls,
               \/ \E e \in Envelopes, text \in Encodings : Arrive(c, e, text)
               \/ Guard(c) \/ Gates(c) \/ Audit(c)
        PROVE  RecordsInv'
    BY <2>1, BeforeRecords, A2AAssumption
  <2>2. ASSUME NEW c \in Calls, Record(c) PROVE RecordsInv'
    BY <2>2, RecordRecords, A2AAssumption
  <2>3. ASSUME NEW c \in Calls, Deliver(c) \/ Answer(c) PROVE RecordsInv'
    BY <2>3, DeliverRecords, A2AAssumption
  <2>4. CASE Restart
    BY <2>4, RestartRecords
  <2>5. ASSUME UNCHANGED <<life, stream, delivered, calls>> PROVE RecordsInv'
    BY <2>5 DEF RecordsInv, NumberedStream, EntryHeld, RecordHeld
  <2>6. CASE Tick
    BY <2>5, <2>6 DEF Tick
  <2>7. CASE UNCHANGED vars
    BY <2>5, <2>7 DEF vars
  <2> QED
    BY <2>1, <2>2, <2>3, <2>4, <2>6, <2>7 DEF Next
<1>3. Inv => EveryAnswerIsRecorded
  <2> SUFFICES ASSUME Inv PROVE EveryAnswerIsRecorded
    OBVIOUS
  <2>1. stream.count \in Nat /\ \A i \in 1..stream.count : stream.head[i].seq = i - 1
    BY DEF RecordsInv, NumberedStream
  <2>2. ASSUME NEW c \in Calls, calls[c].pc = "done", calls[c].life = life
        PROVE  \E i \in 1..stream.count :
                 /\ stream.head[i].digest = [call |-> c, verdict |-> calls[c].verdict]
                 /\ i \notin Missing
                 /\ \A j \in 1..stream.count : stream.head[j].digest.call = c => j = i
    <3>1. RecordHeld(c)
      BY DEF RecordsInv
    <3>2. PICK i \in 1..stream.count :
            /\ stream.head[i] = calls[c].record
            /\ stream.head[i].digest = [call |-> c, verdict |-> calls[c].verdict]
      BY <2>2, <3>1 DEF RecordHeld
    <3>3. i \notin Missing
      BY <2>2, <3>1, <3>2 DEF RecordHeld, Missing
    <3>4. ASSUME NEW j \in 1..stream.count, stream.head[j].digest.call = c PROVE j = i
      <4>1. stream.head[j] = stream.head[i]
        BY <3>2, <3>4 DEF RecordsInv, EntryHeld
      <4> QED
        BY <2>1, <4>1
    <3> QED
      BY <3>2, <3>3, <3>4
  <2>3. ASSUME NEW i \in Missing
        PROVE  \E c \in Calls :
                 calls[c].record = stream.head[i] /\ calls[c].pc \in {"recorded", "raised"}
    <3>1. i \in 1..stream.count /\ EntryHeld(i) /\ stream.head[i].digest.call \in Calls
      BY EntryOfCall DEF Missing, RecordsInv
    <3> QED
      BY <3>1 DEF EntryHeld, Missing
  <2> QED
    BY <2>2, <2>3 DEF EveryAnswerIsRecorded
<1> QED
  BY <1>1, <1>2, <1>3, PTL DEF Spec
===============================================================================
