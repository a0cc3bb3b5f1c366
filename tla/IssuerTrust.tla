----------------------------- MODULE IssuerTrust -----------------------------
(***************************************************************************)
(* Who a relying party believes, and until when.  An organization rotates, *)
(* repudiates and seals its key history (rotation.rs), keeps a signed      *)
(* revocation list (revocation.rs) and issues credentials (vc.rs); the     *)
(* relying party knows only documents that somebody handed it: a history,  *)
(* a list and a credential, each possibly old and possibly edited.         *)
(*                                                                         *)
(* A signature is a record: who made it and over which content.  It        *)
(* verifies when it was made by the key that is asked for over the content *)
(* the document has now.  Any key may have issued any credential at any    *)
(* time, so credentials are values and not state.  Some of the             *)
(* organization's keys may be in other hands too: whoever holds a key signs*)
(* with it whatever it likes.                                              *)
(***************************************************************************)
EXTENDS Integers, FiniteSets, Sequences, SequencesExt, Options

CONSTANTS
  Keys,        \* did:key identifiers: a DID is its key
  Root,        \* the one the relying party pinned
  Own,         \* those the organization controls
  Expiries,    \* when its seals end
  Levels,      \* trust level of the DIDs in its registry, 0 for the others
  ListIds,     \* status lists of the organization
  Indexes,     \* positions of a status list
  OutOfBounds, \* a position no list has
  Claims,      \* what credentials may be asked for
  MaxAge,      \* max_signed_age of the revocation check
  SealsForward,\* the organization never reuses a version
  MaxRotations, MaxVersion, Horizon   \* bounds

ASSUME IssuerAssumption ==
  /\ Root \in Own /\ Own \subseteq Keys /\ None \notin Keys
  /\ Levels \in [Keys -> 0..3]
  /\ OutOfBounds \notin Indexes
  /\ SealsForward \in BOOLEAN
  /\ {MaxAge, MaxRotations, MaxVersion, Horizon} \subseteq Nat
  /\ \A c \in Claims : c = [tools |-> c.tools, model |-> c.model,
                            valid_for |-> c.valid_for, consent |-> c.consent]

VARIABLES
  lost,        \* keys of the organization that others hold too
  clock,
  minimum,     \* minimum_trust_level of the registry
  pinned,      \* histories resolve the issuer alone, without a registry
  history,     \* the organization's copy of its key history
  published,   \* every copy it ever sealed
  held,        \* what the cache of the relying party holds
  withdrawn,   \* keys repudiated by a history of the organization that was held
  list,        \* the organization's revocation lists
  lists,       \* every list it ever signed
  since        \* when an index was last revoked, if it still is

org == <<history, published>>
party == <<held, withdrawn>>
status == <<list, lists, since>>
config == <<lost, minimum, pinned>>
vars == <<clock, config, org, status, party>>

Times == 0..Horizon
LastElem(s) == s[Len(s)]

-------------------------------------------------------------------------------
(***************************************************************************)
(* Key histories.                                                          *)
(***************************************************************************)
Statement == [previous: Keys, next: Keys, signer: Keys]

\* The outgoing key signs.
StatementVerifies(s) == s.signer = s.previous

Content(h) == <<h.root, h.rotations, h.repudiated, h.version, h.not_after>>

Signature == [by: Keys, over: Keys \X Seq(Statement) \X (SUBSET Keys) \X Nat
                                   \X (Expiries \cup {None})]
KeyHistory == [root: Keys, rotations: Seq(Statement), repudiated: SUBSET Keys, version: Nat,
               not_after: Expiries \cup {None}, seal: Signature \cup {None}]

ASSUME AbsenceAssumption == None \notin Signature \cup KeyHistory \cup Times

Genesis(k) == [root |-> k, rotations |-> <<>>, repudiated |-> {}, version |-> 0,
               not_after |-> None, seal |-> None]

CurrentDid(h) == IF h.rotations = <<>> THEN h.root ELSE LastElem(h.rotations).next

\* Faulty: only the current key, as if credentials were re-issued at a rotation.
CurrentOnly(h) == {CurrentDid(h)}

Dids(h) == {h.root} \cup {s.next : s \in ToSet(h.rotations)}

\* push: the new statement continues the chain.  The seal is left as it was.
Push(s) ==
  /\ Len(history.rotations) < MaxRotations
  /\ s.previous = CurrentDid(history) /\ StatementVerifies(s)
  /\ history' = [history EXCEPT !.rotations = Append(@, s)]

Repudiate(did) ==
  /\ did \in Dids(history) \ {CurrentDid(history)}
  /\ history' = [history EXCEPT !.repudiated = @ \cup {did}, !.seal = None]

Seal(by, version, notAfter) ==
  LET h == [history EXCEPT !.version = version, !.not_after = notAfter] IN
  /\ by = CurrentDid(history)
  /\ SealsForward => \A p \in published : p.version < version
  /\ history' = [h EXCEPT !.seal = [by |-> by, over |-> Content(h)]]
  /\ published' = published \cup {history'}

Maintain ==
  /\ \/ \E s \in [previous: Own, next: Own, signer: Own] : Push(s) /\ UNCHANGED published
     \/ \E did \in Keys : Repudiate(did) /\ UNCHANGED published
     \/ \E by \in Own, v \in 1..MaxVersion, t \in Expiries : Seal(by, v, t)
  /\ UNCHANGED <<clock, config, status, party>>

VerifyChain(h, root) ==
  /\ h.root = root
  /\ \A i \in DOMAIN h.rotations :
       /\ h.rotations[i].previous = IF i = 1 THEN root ELSE h.rotations[i-1].next
       /\ StatementVerifies(h.rotations[i])

VerifySealed(h, root) ==
  /\ VerifyChain(h, root)
  /\ h.seal = [by |-> CurrentDid(h), over |-> Content(h)]

IsCurrent(h) == h.not_after # None => clock <= h.not_after

VerifyCurrent(h, root) == VerifySealed(h, root) /\ IsCurrent(h)

\* authorize_issuer: the issuer's key, or None.
AuthorizeIssuer(h, root, issuer) ==
  IF VerifyCurrent(h, root) /\ issuer \in Dids(h) \ h.repudiated THEN issuer ELSE None

\* A history its last key seals.
Composed(rotations, repudiated, version) ==
  LET h == [Genesis(Root) EXCEPT !.rotations = rotations, !.repudiated = repudiated,
                                 !.version = version]
  IN [h EXCEPT !.seal = [by |-> CurrentDid(h), over |-> Content(h)]]

ChainEnd(r) == CurrentDid([Genesis(Root) EXCEPT !.rotations = r])

\* The chains that end in a key which others hold.
LostChains ==
  {r \in UNION {Prefixes(h.rotations) : h \in published \cup {history}} : ChainEnd(r) \in lost}

\* The endorsement of a stranger.
Endorse(r, k) == Append(r, [previous |-> ChainEnd(r), next |-> k, signer |-> ChainEnd(r)])

\* "Whoever holds a key can endorse a successor": from the chain up to a lost key
\* its holder seals a history of its own, or has a stranger it endorses seal it.
Rivals ==
  {Composed(r, gone, v) :
     r \in LostChains \cup {Endorse(q, k) : q \in LostChains, k \in Keys \ Own},
     gone \in {{}, Dids(history) \ lost}, v \in 1..MaxVersion}

\* What an endpoint may serve: a sealed copy, the unfinished one, an edited one,
\* or a rival one.
Served ==
  LET copies == published \cup {history} IN
  Rivals \cup
  UNION {{h, [h EXCEPT !.repudiated = {}], [h EXCEPT !.not_after = None],
          [h EXCEPT !.version = MaxVersion]} : h \in copies}

\* The cache verifies what it fetched and never goes back in version.
Fetch(h) ==
  /\ h \in Served /\ VerifyCurrent(h, Root)
  /\ held # None => h.version >= held.version
  /\ held' = h
  /\ withdrawn' = IF h \in published THEN withdrawn \cup h.repudiated ELSE withdrawn
  /\ UNCHANGED <<clock, config, org, status>>

-------------------------------------------------------------------------------
(***************************************************************************)
(* The revocation lists.                                                   *)
(***************************************************************************)
\* What a credential names: a list and a position in it.
Status == [list: ListIds, index: Indexes]

StatusList == [id: ListIds, bits: SUBSET Indexes, updated: Times,
               signature: [by: Keys, over: ListIds \X (SUBSET Indexes) \X Times]]

ASSUME StatusAssumption == None \notin Status

ListContent(l) == <<l.id, l.bits, l.updated>>
Sign(l, by) == [l EXCEPT !.signature = [by |-> by, over |-> ListContent(l)]]
NewList(id, by) == Sign([id |-> id, bits |-> {}, updated |-> clock, signature |-> None], by)

CheckIndex(index) == index # OutOfBounds

\* Every change, and a heartbeat, signs again as of now.  Bound: one signing of a
\* list in each instant.
Resign(id, by, bits) ==
  /\ list[id].updated < clock
  /\ list' = [list EXCEPT ![id] = Sign([@ EXCEPT !.bits = bits, !.updated = clock], by)]
  /\ lists' = lists \cup {list'[id]}
  /\ UNCHANGED <<clock, config, org, party>>

Revoke(id, index, by) ==
  LET s == [list |-> id, index |-> index] IN
  /\ CheckIndex(index)
  /\ Resign(id, by, list[id].bits \cup {index})
  /\ since' = IF index \in list[id].bits THEN since ELSE [since EXCEPT ![s] = clock]

Unrevoke(id, index, by) ==
  /\ CheckIndex(index)
  /\ Resign(id, by, list[id].bits \ {index})
  /\ since' = [since EXCEPT ![[list |-> id, index |-> index]] = None]

Heartbeat(id, by) == Resign(id, by, list[id].bits) /\ UNCHANGED since

\* What the relying party may be handed: any list of the organization that was
\* signed, an edited one, or one signed by another who holds the root's key.
Lists ==
  lists \cup {[l EXCEPT !.bits = {}] : l \in lists}
        \cup {[l EXCEPT !.updated = clock] : l \in lists}
        \cup {[l EXCEPT !.id = id] : l \in lists, id \in ListIds}
        \cup {NewList(id, k) : id \in ListIds, k \in lost \cap {Root}}

ListVerifies(l, anchor) == l.signature = [by |-> anchor, over |-> ListContent(l)]

\* Faulty: the age of the copy is never looked at.
AlwaysFresh(l) == TRUE

CheckFresh(l) == clock - l.updated <= MaxAge

\* is_revoked of an index: one the list does not have raises.
ReadsValid(l, index) == CheckIndex(index) /\ index \notin l.bits

\* revocation_check_from_list: no status is never revoked; a check that raises
\* denies.  Which list the credential names is not compared.
NotRevoked(c, l) ==
  c.status # None =>
    ListVerifies(l, Root) /\ CheckFresh(l) /\ ReadsValid(l, c.status.index)

\* is_credential_revoked compares it.
NotRevokedBy(c, l) == c.status # None => c.status.list = l.id /\ ReadsValid(l, c.status.index)

-------------------------------------------------------------------------------
(***************************************************************************)
(* Credentials.                                                            *)
(***************************************************************************)
Formats == {"w3c", "sd-jwt"}

Valid(c) ==
  /\ c.tools # {}
  /\ c.valid_for > 0
  /\ c.consent # None => /\ c.consent.expires > c.consent.authorized
                         /\ c.tools \subseteq c.consent.tools

\* A credential ends with the consent it was issued under.
Expiry(c, now) ==
  LET end == now + c.valid_for
  IN IF c.consent # None /\ c.consent.expires < end THEN c.consent.expires ELSE end

Issue(by, claims, status_, format, now) ==
  [issuer |-> by, claims |-> claims, status |-> status_, exp |-> Expiry(claims, now),
   format |-> format]

\* Everything that may have been issued by a time, by any key.
Issued(time) ==
  {Issue(by, claims, entry, format, now) :
     by \in Keys, claims \in {c \in Claims : Valid(c)},
     entry \in Status \cup {None}, format \in Formats, now \in 0..time}

\* What is presented: a credential with one field of its container edited, an
\* SD-JWT one possibly without its advisory disclosure.
Edited(c) ==
  LET p == [issuer |-> c.issuer, claims |-> c.claims, status |-> c.status, exp |-> c.exp,
            format |-> c.format, signed |-> c]
  IN {p} \cup {[p EXCEPT !.issuer = k] : k \in Keys}
         \cup {[p EXCEPT !.exp = t] : t \in {Horizon}}
         \cup {[p EXCEPT !.status = s] : s \in Status \cup {None}}
         \cup {[p EXCEPT !.claims.model = m] : m \in {None, "forged"}}
PresentableAt == [t \in Times |-> UNION {Edited(c) : c \in Issued(t)}]
Presentations == PresentableAt[clock]

\* The payload hash of a W3C credential covers all but the status reference.
VerifyW3C(p, key) ==
  /\ p.signed.format = "w3c" /\ p.signed.issuer = key
  /\ \A f \in {"issuer", "claims", "exp"} : p[f] = p.signed[f]

\* Faulty: the status reference is not compared with the signed one.
SdJwtAnyStatus(p, key) ==
  /\ p.signed.issuer = key
  /\ \A f \in {"issuer", "claims"} : p[f] = p.signed[f]

\* The compact form covers all but the expiry the container states; a
\* disclosure that was not signed is refused, one withheld reads as absent.
VerifySdJwt(p, key) ==
  /\ p.signed.issuer = key
  /\ p.issuer = p.signed.issuer /\ p.status = p.signed.status
  /\ p.claims \in {p.signed.claims, [p.signed.claims EXCEPT !.model = None]}

VerifyCredential(p, key) ==
  /\ p.issuer = key /\ clock <= p.exp
  /\ IF p.format = "w3c" THEN VerifyW3C(p, key) ELSE VerifySdJwt(p, key)

-------------------------------------------------------------------------------
(***************************************************************************)
(* The relying party.                                                      *)
(***************************************************************************)
Trusted(did) == Levels[did] > 0 /\ Levels[did] >= minimum

\* A rotated issuer is judged by the trust level of its root.
VerifyRotated(p) ==
  /\ Trusted(Root)
  /\ VerifyCredential(p, p.issuer)
  /\ AuthorizeIssuer(held, Root, p.issuer) # None

\* CrossOrgVerifier reads the W3C payload, whatever the format.
VerifyRegistered(p) ==
  Trusted(p.issuer) /\ clock <= p.exp /\ VerifyW3C(p, p.issuer)

\* Faulty: the registry is asked first, the history only about strangers.
RegistryFirst(p) ==
  IF Trusted(p.issuer) THEN VerifyRegistered(p) ELSE held # None /\ VerifyRotated(p)

\* A history that names the issuer decides alone.
FromRegistry(p) ==
  IF held # None /\ p.issuer \in Dids(held) THEN VerifyRotated(p) ELSE VerifyRegistered(p)

\* The anchor the credential is verified under, or None.
Anchor(p) ==
  IF pinned THEN IF held = None THEN None ELSE AuthorizeIssuer(held, Root, p.issuer)
  ELSE IF FromRegistry(p) THEN p.issuer ELSE None

\* An anchor is the issuer's own key.
Believes(p) == VerifyCredential(p, p.issuer) /\ Anchor(p) = p.issuer
Accepts(p, l) == Believes(p) /\ NotRevoked(p, l)

-------------------------------------------------------------------------------
Init ==
  /\ clock = 0
  /\ lost \in SUBSET Own
  /\ pinned \in BOOLEAN /\ minimum \in IF pinned THEN {1} ELSE {1, 2}
  /\ history = Genesis(Root) /\ published = {}
  /\ held = None /\ withdrawn = {}
  /\ list = [id \in ListIds |-> NewList(id, Root)] /\ lists = {list[id] : id \in ListIds}
  /\ since = [s \in Status |-> None]

Tick ==
  /\ clock < Horizon /\ clock' = clock + 1
  /\ UNCHANGED <<config, org, status, party>>

\* The status lists are maintained.
Publish ==
  \E id \in ListIds :
    \/ \E i \in Indexes \cup {OutOfBounds} : Revoke(id, i, Root) \/ Unrevoke(id, i, Root)
    \/ Heartbeat(id, Root)

Next == Tick \/ Maintain \/ Publish \/ \E h \in Served : Fetch(h)

Spec == Init /\ [][Next]_vars

-------------------------------------------------------------------------------
TypeOK ==
  /\ clock \in Times /\ minimum \in 0..3 /\ pinned \in BOOLEAN /\ lost \subseteq Own
  /\ held \in KeyHistory \cup {None}
  /\ published \cup {history} \subseteq KeyHistory
  /\ withdrawn \subseteq Keys
  /\ list \in [ListIds -> StatusList] /\ lists \subseteq StatusList
  /\ since \in [Status -> Times \cup {None}]

(***************************************************************************)
(* "Repudiation would then be bypassable cross-org, which is to say        *)
(* useless": once the relying party has held a history in which the        *)
(* organization repudiates a key, it believes nothing that key issued, the *)
(* root's own registration, older histories, later rotations and lapsed    *)
(* seals notwithstanding.  The limit is the one anchor_resolver_from_      *)
(* key_history names: unless the history it now holds is a rival one, of   *)
(* somebody else who holds a key of its chain.                             *)
(***************************************************************************)
RepudiationSticks ==
  \A p \in Presentations :
    p.signed.issuer \in withdrawn /\ Believes(p)
    => held \notin published /\ lost \cap Dids(held) # {}

(***************************************************************************)
(* Bounded staleness: an index that has been revoked for longer than       *)
(* MaxAge is not accepted, however old or edited the list is and whether   *)
(* or not the issuer still signs.  For a relying party that was handed a   *)
(* list with the id the credential names (the check does not compare the   *)
(* two), an organization that alone holds the key of its lists, and a      *)
(* presentation that names the status it was signed with (a W3C credential *)
(* does not sign it).                                                      *)
(***************************************************************************)
RevocationBites ==
  Root \notin lost =>
  \A p \in Presentations :
    LET s == p.signed.status IN
    /\ s # None /\ since[s] # None
    /\ (p.format = "w3c" => p.status = s)
    /\ \E l \in Lists : l.id = s.list /\ Accepts(p, l)
    => clock - since[s] <= MaxAge

(***************************************************************************)
(* What is believed is what a trusted issuer signed: the issuer and the    *)
(* claims in either format, the expiry of a W3C and the status reference   *)
(* of an SD-JWT credential; and the issuer is registered at the minimum    *)
(* level, or its root is.                                                  *)
(***************************************************************************)
BelievedIsSigned ==
  \A p \in Presentations : Believes(p) =>
    /\ p.issuer = p.signed.issuer /\ p.claims.tools = p.signed.claims.tools
    /\ p.claims.model \in {p.signed.claims.model, None}
    /\ p.format = "w3c" => p.exp = p.signed.exp
    /\ p.format = "sd-jwt" => p.status = p.signed.status
    /\ ~pinned => Trusted(p.issuer) \/ (Trusted(Root) /\ p.issuer \in Dids(held))

(***************************************************************************)
(* "Keep trusting an organization across a rotation": admitting a newer    *)
(* history of the organization costs no credential its trust unless its    *)
(* key was repudiated.  A rival history may be replaced by it.             *)
(***************************************************************************)
RotationKeepsTrust ==
  [][held' # held /\ held \in published \cup {None} /\ held' \in published =>
       \A p \in Presentations :
         Believes(p) /\ p.issuer \notin held'.repudiated => Believes(p)']_vars

\* Repudiation does not recover a key that others hold.
RepudiationIsFinal ==
  \A p \in Presentations : p.signed.issuer \in withdrawn => ~Believes(p)

\* "for a deployment where the issuer's list is available": any list of its issuer
\* tells of a credential, whichever it names.
AnyListTells ==
  \A p \in Presentations, l \in Lists :
    Accepts(p, l) /\ ListVerifies(l, Root) /\ p.status # None => NotRevokedBy(p, l)

\* What the formats do not sign, they do not protect.
ExpiredIsRefused == \A p \in Presentations : Believes(p) => clock <= p.signed.exp
StatusIsSigned == \A p \in Presentations : Believes(p) => p.status = p.signed.status
===============================================================================
