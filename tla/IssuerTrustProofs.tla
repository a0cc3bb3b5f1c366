--------------------------- MODULE IssuerTrustProofs ---------------------------
(***************************************************************************)
(* Proofs about IssuerTrust and Approvers: whatever documents a relying    *)
(* party is handed, old or edited, a key it saw repudiated stays           *)
(* repudiated until a history is held that another holder of a lost key    *)
(* made, an index revoked on a list is not accepted under that list for    *)
(* longer than MaxAge, what is believed is what was signed, a rotation     *)
(* costs no credential its trust, and nobody approves whom the newest      *)
(* directory held does not name.                                           *)
(***************************************************************************)
EXTENDS Approvers, TLAPS

\* A copy of a history signed over what it says.
Original(h) == h.seal.over = Content(h)

\* h came before g: it lists no key and withdraws none that g does not.
Earlier(h, g) == Dids(h) \subseteq Dids(g) /\ h.repudiated \subseteq g.repudiated

\* The organization's histories only grow, and versions number them in that order.
HistoryInv ==
  /\ published \cup {history} \subseteq KeyHistory
  /\ \A h \in published \cup {history} : Dids(h) \subseteq Own /\ h.repudiated \subseteq Dids(h)
  /\ history.seal # None => \E p \in published : history.seal = p.seal
  /\ \A p \in published : p.seal # None /\ Original(p) /\ Earlier(p, history)
  /\ SealsForward =>
       \A p, q \in published : p.version <= q.version => Earlier(p, q)

\* What is held is a copy the organization sealed, or its chain names a lost key.  A
\* copy that could be admitted now withdraws all that any held before did.
HeldInv ==
  /\ held # None => held \in published \/ lost \cap Dids(held) # {}
  /\ held # None => held \in KeyHistory
  /\ withdrawn \subseteq history.repudiated
  /\ withdrawn # {} => held # None
  /\ SealsForward =>
       \A p \in published : held # None /\ p.version >= held.version => withdrawn \subseteq p.repudiated

\* A list as the organization signed it.
Genuine(l) ==
  l \in StatusList /\ l.signature = [by |-> Root, over |-> <<l.id, l.bits, l.updated>>]

\* Every list signed since an index of it was revoked has that index.
ListInv ==
  /\ list \in [ListIds -> StatusList]
  /\ \A id \in ListIds : list[id] \in lists /\ list[id].id = id /\ list[id].updated <= clock
  /\ \A l \in lists : Genuine(l) /\ l.updated <= list[l.id].updated
  /\ since \in [Status -> Times \cup {None}]
  /\ \A s \in Status : since[s] = None => s.index \notin list[s.list].bits
  /\ \A s \in Status, l \in lists :
       l.id = s.list /\ since[s] # None =>
         since[s] <= list[s.list].updated /\ (l.updated >= since[s] => s.index \in l.bits)

OrgInv ==
  /\ clock \in Times /\ minimum \in Nat /\ lost \subseteq Own
  /\ HistoryInv /\ HeldInv /\ ListInv

-------------------------------------------------------------------------------
(***************************************************************************)
(* Histories.                                                              *)
(***************************************************************************)
LEMMA ContentEqual ==
  ASSUME NEW h \in KeyHistory, NEW g \in KeyHistory, h.seal = g.seal, Content(h) = Content(g)
  PROVE  h = g
BY DEF KeyHistory, Content

LEMMA CurrentTyped ==
  ASSUME NEW h \in KeyHistory
  PROVE  CurrentDid(h) \in Keys
<1>1. CASE h.rotations = <<>>
  BY <1>1 DEF CurrentDid, KeyHistory
<1>2. CASE h.rotations # <<>>
  <2>1. h.rotations[Len(h.rotations)] \in Statement
    BY <1>2 DEF KeyHistory
  <2> QED
    BY <1>2, <2>1, IssuerAssumption DEF CurrentDid, LastElem, Statement
<1> QED
  BY <1>1, <1>2

LEMMA ContentTyped ==
  ASSUME NEW h \in KeyHistory
  PROVE  Content(h) \in Keys \X Seq(Statement) \X (SUBSET Keys) \X Nat \X (Expiries \cup {None})
BY DEF KeyHistory, Content

\* A rotation adds the key it names, and nothing else.
LEMMA DidsAppend ==
  ASSUME NEW h \in KeyHistory, NEW g \in KeyHistory, NEW s \in Statement,
         g.root = h.root, g.rotations = Append(h.rotations, s)
  PROVE  Dids(h) \subseteq Dids(g) /\ Dids(g) \subseteq Dids(h) \cup {s.next}
<1>1. h.rotations \in Seq(Statement)
  BY DEF KeyHistory
<1>2. \A i \in DOMAIN h.rotations : i \in DOMAIN g.rotations /\ g.rotations[i] = h.rotations[i]
  BY <1>1
<1>3. \A i \in DOMAIN g.rotations :
        g.rotations[i] = s \/ (i \in DOMAIN h.rotations /\ g.rotations[i] = h.rotations[i])
  BY <1>1
<1> QED
  BY <1>2, <1>3 DEF Dids, ToSet

\* The last key of a chain is one of its keys.
LEMMA CurrentListed ==
  ASSUME NEW h \in KeyHistory
  PROVE  CurrentDid(h) \in Dids(h)
<1>1. CASE h.rotations = <<>>
  BY <1>1 DEF CurrentDid, Dids
<1>2. CASE h.rotations # <<>>
  <2>1. Len(h.rotations) \in DOMAIN h.rotations
    BY <1>2 DEF KeyHistory
  <2> QED
    BY <1>2, <2>1 DEF CurrentDid, LastElem, Dids, ToSet
<1> QED
  BY <1>1, <1>2

LEMMA ComposedTyped ==
  ASSUME NEW r \in Seq(Statement), NEW gone \in SUBSET Keys, NEW v \in Nat
  PROVE  /\ Composed(r, gone, v) \in KeyHistory /\ Composed(r, gone, v).root = Root
         /\ Composed(r, gone, v).rotations = r
<1> DEFINE g == Genesis(Root)
           h == [g EXCEPT !.rotations = r, !.repudiated = gone, !.version = v]
           seal == [by |-> CurrentDid(h), over |-> Content(h)]
<1>1. g \in KeyHistory /\ g.root = Root
  BY IssuerAssumption DEF Genesis, KeyHistory
<1> HIDE DEF g
<1>2. h \in KeyHistory /\ h.root = Root /\ h.rotations = r
  BY <1>1 DEF KeyHistory
<1>3. Composed(r, gone, v) = [h EXCEPT !.seal = seal]
  BY Zenon DEF Composed, g
<1> HIDE DEF h
<1>4. seal \in Signature
  BY <1>2, CurrentTyped, ContentTyped DEF Signature
<1> HIDE DEF seal
<1> QED
  BY <1>2, <1>3, <1>4 DEF KeyHistory

\* A chain that ends in a lost key, and every history with that chain names the key.
LEMMA LostChainTyped ==
  ASSUME HistoryInv, NEW t \in LostChains
  PROVE  /\ t \in Seq(Statement) /\ ChainEnd(t) \in lost /\ ChainEnd(t) \in Keys
         /\ \A g \in KeyHistory : g.root = Root /\ g.rotations = t => ChainEnd(t) \in Dids(g)
<1>1. PICK q \in published \cup {history} : t \in Prefixes(q.rotations)
  BY DEF LostChains
<1>2. q.rotations \in Seq(Statement)
  BY DEF HistoryInv, KeyHistory
<1>3. PICK l \in 0..Len(q.rotations) : t = SubSeq(q.rotations, 1, l)
  BY <1>1 DEF Prefixes
<1>4. t \in Seq(Statement)
  BY <1>2, <1>3
<1> DEFINE f == [Genesis(Root) EXCEPT !.rotations = t]
<1>5. f \in KeyHistory /\ f.root = Root /\ f.rotations = t
  BY <1>4, IssuerAssumption DEF Genesis, KeyHistory
<1>6. ChainEnd(t) = CurrentDid(f)
  BY DEF ChainEnd
<1> HIDE DEF f
<1>7. CurrentDid(f) \in Dids(f) /\ CurrentDid(f) \in Keys
  BY <1>5, CurrentListed, CurrentTyped
<1>8. ChainEnd(t) \in lost
  BY DEF LostChains
<1> QED
  BY <1>4, <1>5, <1>6, <1>7, <1>8 DEF Dids

\* A rival history continues the chain from a key that is lost.
LEMMA RivalTyped ==
  ASSUME HistoryInv, NEW h \in Rivals
  PROVE  h \in KeyHistory /\ lost \cap Dids(h) # {}
<1>1. PICK r \in LostChains \cup {Endorse(q, k) : q \in LostChains, k \in Keys \ Own},
           gone \in {{}, Dids(history) \ lost}, v \in 1..MaxVersion :
        h = Composed(r, gone, v)
  BY DEF Rivals
<1>2. gone \in SUBSET Keys /\ v \in Nat
  <2>1. Dids(history) \subseteq Own /\ Own \subseteq Keys
    BY IssuerAssumption DEF HistoryInv
  <2> QED
    BY <2>1, IssuerAssumption
<1>3. CASE r \in LostChains
  <2>1. r \in Seq(Statement)
    BY <1>3, LostChainTyped
  <2>2. h \in KeyHistory /\ h.root = Root /\ h.rotations = r
    BY <1>1, <1>2, <2>1, ComposedTyped
  <2> QED
    BY <1>3, <2>2, LostChainTyped
<1>4. ASSUME NEW t \in LostChains, NEW k \in Keys \ Own, r = Endorse(t, k)
      PROVE  h \in KeyHistory /\ lost \cap Dids(h) # {}
  <2> DEFINE st == [previous |-> ChainEnd(t), next |-> k, signer |-> ChainEnd(t)]
  <2>1. t \in Seq(Statement) /\ ChainEnd(t) \in lost /\ ChainEnd(t) \in Keys
    BY LostChainTyped
  <2>2. st \in Statement /\ r = Append(t, st)
    BY <1>4, <2>1 DEF Statement, Endorse
  <2> HIDE DEF st
  <2>3. r \in Seq(Statement)
    BY <2>1, <2>2
  <2>4. h \in KeyHistory /\ h.root = Root /\ h.rotations = r
    BY <1>1, <1>2, <2>3, ComposedTyped
  <2> DEFINE g == [h EXCEPT !.rotations = t]
  <2>5. g \in KeyHistory /\ g.root = Root /\ g.rotations = t
    BY <2>1, <2>4 DEF KeyHistory
  <2> HIDE DEF g
  <2>6. ChainEnd(t) \in Dids(g)
    BY <2>5, LostChainTyped
  <2>7. Dids(g) \subseteq Dids(h)
    BY <2>2, <2>4, <2>5, DidsAppend
  <2> QED
    BY <2>1, <2>4, <2>6, <2>7
<1> QED
  BY <1>1, <1>3, <1>4

\* What an endpoint serves verifies only if it is a copy the organization sealed, or
\* a rival one.
LEMMA VerifiedIsPublished ==
  ASSUME HistoryInv, NEW h \in Served \ Rivals, VerifySealed(h, Root)
  PROVE  h \in published
<1>1. PICK q \in published \cup {history} :
        h \in {q, [q EXCEPT !.repudiated = {}], [q EXCEPT !.not_after = None],
               [q EXCEPT !.version = MaxVersion]}
  BY DEF Served
<1>2. q \in KeyHistory /\ MaxVersion \in Nat
  BY IssuerAssumption DEF HistoryInv
<1>3. h \in KeyHistory /\ h.seal = q.seal
  BY <1>1, <1>2 DEF KeyHistory
<1>4. h.seal \in Signature /\ h.seal.over = Content(h)
  <2>1. h.seal = [by |-> CurrentDid(h), over |-> Content(h)]
    BY DEF VerifySealed
  <2> QED
    BY <1>3, <2>1, CurrentTyped, ContentTyped DEF Signature
<1>5. PICK p \in published : p.seal = h.seal
  BY <1>1, <1>3, <1>4, AbsenceAssumption DEF HistoryInv
<1>6. p \in KeyHistory /\ Content(p) = Content(h)
  BY <1>4, <1>5 DEF HistoryInv, Original
<1> QED
  BY <1>3, <1>5, <1>6, ContentEqual

LEMMA EarlierTransitive ==
  ASSUME NEW f, NEW g, NEW h, Earlier(f, g), Earlier(g, h)
  PROVE  Earlier(f, h)
BY DEF Earlier

LEMMA PushInv ==
  ASSUME HistoryInv, NEW s \in [previous: Own, next: Own, signer: Own], Push(s),
         UNCHANGED published
  PROVE  HistoryInv' /\ history'.repudiated = history.repudiated
<1>0. s \in Statement /\ s.next \in Own
  BY IssuerAssumption DEF Statement
<1>1. /\ history \in KeyHistory /\ history' = [history EXCEPT !.rotations = Append(@, s)]
  BY DEF HistoryInv, Push
<1>2. /\ history' \in KeyHistory /\ history'.root = history.root
      /\ history'.rotations = Append(history.rotations, s)
      /\ history'.repudiated = history.repudiated /\ history'.seal = history.seal
  <2> DEFINE longer == Append(history.rotations, s)
  <2>1. longer \in Seq(Statement) /\ history' = [history EXCEPT !.rotations = longer]
    BY <1>0, <1>1 DEF KeyHistory
  <2> HIDE DEF longer
  <2>2. history' \in KeyHistory /\ history'.rotations = longer
    BY <1>1, <2>1 DEF KeyHistory
  <2> QED
    BY <1>1, <2>1, <2>2 DEF KeyHistory, longer
<1>3. Dids(history) \subseteq Dids(history') /\ Dids(history') \subseteq Own
  <2>1. Dids(history) \subseteq Own
    BY DEF HistoryInv
  <2>2. Dids(history) \subseteq Dids(history') /\ Dids(history') \subseteq Dids(history) \cup {s.next}
    <3>1. PICK g : g = history'
      OBVIOUS
    <3>2. Dids(history) \subseteq Dids(g) /\ Dids(g) \subseteq Dids(history) \cup {s.next}
      <4>1. /\ g \in KeyHistory /\ g.root = history.root
            /\ g.rotations = Append(history.rotations, s)
        BY <1>2, <3>1
      <4> QED
        BY <1>0, <1>1, <4>1, DidsAppend
    <3> QED
      BY <3>1, <3>2
  <2> QED
    BY <1>0, <2>1, <2>2
<1>4. Earlier(history, history')
  BY <1>2, <1>3 DEF Earlier
<1>5. \A p \in published : Earlier(p, history')
  BY <1>4, EarlierTransitive DEF HistoryInv
<1> QED
  BY <1>2, <1>3, <1>5 DEF HistoryInv

LEMMA RepudiateInv ==
  ASSUME HistoryInv, NEW did \in Keys, Repudiate(did), UNCHANGED published
  PROVE  HistoryInv' /\ history.repudiated \subseteq history'.repudiated
<1>1. /\ history \in KeyHistory /\ did \in Dids(history)
      /\ history' = [history EXCEPT !.repudiated = @ \cup {did}, !.seal = None]
  BY DEF HistoryInv, Repudiate
<1>2. /\ history' \in KeyHistory /\ history'.root = history.root
      /\ history'.rotations = history.rotations /\ history'.seal = None
      /\ history'.repudiated = history.repudiated \cup {did}
  BY <1>1 DEF KeyHistory
<1>3. Dids(history') = Dids(history)
  BY <1>2 DEF Dids
<1>4. Earlier(history, history')
  BY <1>2, <1>3 DEF Earlier
<1>5. \A p \in published : Earlier(p, history')
  BY <1>4, EarlierTransitive DEF HistoryInv
<1> QED
  BY <1>1, <1>2, <1>3, <1>5 DEF HistoryInv

LEMMA SealInv ==
  ASSUME HistoryInv, NEW by \in Own, NEW v \in 1..MaxVersion, NEW t \in Expiries, Seal(by, v, t)
  PROVE  HistoryInv' /\ history.repudiated \subseteq history'.repudiated
<1> DEFINE h == [history EXCEPT !.version = v, !.not_after = t]
<1>1. /\ history \in KeyHistory /\ v \in Nat /\ by \in Keys
      /\ history' = [h EXCEPT !.seal = [by |-> by, over |-> Content(h)]]
      /\ published' = published \cup {history'}
      /\ SealsForward => \A p \in published : p.version < v
  BY IssuerAssumption DEF HistoryInv, Seal
<1>2. h \in KeyHistory /\ h.version = v /\ h.root = history.root
      /\ h.rotations = history.rotations /\ h.repudiated = history.repudiated
  BY <1>1 DEF KeyHistory
<1> HIDE DEF h
<1> DEFINE seal == [by |-> by, over |-> Content(h)]
<1>3. seal \in Signature /\ seal.over = Content(h) /\ seal # None
  BY <1>1, <1>2, ContentTyped, AbsenceAssumption DEF Signature
<1>4. history' = [h EXCEPT !.seal = seal]
  BY <1>1
<1> HIDE DEF seal
<1>5. /\ history' \in KeyHistory /\ history'.version = v /\ history'.root = history.root
      /\ history'.rotations = history.rotations /\ history'.repudiated = history.repudiated
      /\ history'.seal = seal /\ Content(history') = Content(h)
  BY <1>2, <1>3, <1>4 DEF KeyHistory, Content
<1>6. Dids(history') = Dids(history)
  BY <1>5 DEF Dids
<1>7. Earlier(history, history') /\ Earlier(history', history')
  BY <1>5, <1>6 DEF Earlier
<1>8. \A p \in published : Earlier(p, history')
  BY <1>7, EarlierTransitive DEF HistoryInv
<1>9. Original(history') /\ history'.seal # None
  BY <1>3, <1>5 DEF Original
<1>10. ASSUME SealsForward, NEW p \in published', NEW q \in published', p.version <= q.version
       PROVE  Earlier(p, q)
  <2>1. \A r \in published : r.version \in Nat
    BY DEF HistoryInv, KeyHistory
  <2>2. CASE q = history'
    BY <1>1, <1>7, <1>8, <2>2
  <2>3. CASE q # history'
    <3>1. q \in published /\ q.version < v /\ q.version \in Nat
      BY <1>1, <1>10, <2>1, <2>3
    <3>2. p # history'
      <4>1. v \in Nat /\ history'.version = v
        BY <1>1, <1>5
      <4> QED
        BY <1>10, <3>1, <4>1
    <3>3. p \in published
      BY <1>1, <1>10, <3>2
    <3> QED
      BY <1>10, <3>1, <3>3 DEF HistoryInv
  <2> QED
    BY <2>2, <2>3
<1>11. published' \cup {history'} \subseteq KeyHistory
       /\ \A g \in published' \cup {history'} : Dids(g) \subseteq Own /\ g.repudiated \subseteq Dids(g)
  BY <1>1, <1>5, <1>6 DEF HistoryInv
<1>12. \A p \in published' : p.seal # None /\ Original(p) /\ Earlier(p, history')
  BY <1>1, <1>7, <1>8, <1>9 DEF HistoryInv
<1>13. \E p \in published' : history'.seal = p.seal
  BY <1>1
<1> QED
  BY <1>5, <1>10, <1>11, <1>12, <1>13 DEF HistoryInv

LEMMA MaintainInv ==
  ASSUME HistoryInv, HeldInv, Maintain
  PROVE  HistoryInv' /\ HeldInv'
<1>1. HistoryInv' /\ history.repudiated \subseteq history'.repudiated
  BY PushInv, RepudiateInv, SealInv DEF Maintain
<1>2. UNCHANGED <<held, withdrawn, lost>> /\ published \subseteq published'
  BY DEF Maintain, party, config, Seal
<1>3. \A p \in published' : p \in published \/ p = history'
  BY DEF Maintain, Seal
<1>4. \A p \in published' : p = history' => withdrawn \subseteq p.repudiated
  BY <1>1 DEF HeldInv
<1> QED
  BY <1>1, <1>2, <1>3, <1>4 DEF HeldInv

LEMMA FetchInv ==
  ASSUME HistoryInv, HeldInv, lost \subseteq Own, NEW h \in Served, Fetch(h)
  PROVE  HistoryInv' /\ HeldInv'
<1>1. h \in published \/ lost \cap Dids(h) # {}
  BY VerifiedIsPublished, RivalTyped DEF Fetch, VerifyCurrent
<1>2. h \in KeyHistory /\ h # None /\ h.version \in Nat
  <2>1. h \in KeyHistory
    BY VerifiedIsPublished, RivalTyped DEF Fetch, VerifyCurrent, HistoryInv
  <2> QED
    BY <2>1, AbsenceAssumption DEF KeyHistory
<1>3. /\ UNCHANGED <<history, published, lost>> /\ held' = h
      /\ withdrawn' = IF h \in published THEN withdrawn \cup h.repudiated ELSE withdrawn
      /\ held # None => h.version >= held.version
  BY DEF Fetch, org, config
<1>4. HistoryInv'
  BY <1>3 DEF HistoryInv
<1>5. withdrawn' \subseteq history.repudiated
  BY <1>3 DEF HistoryInv, HeldInv, Earlier
<1>6. ASSUME SealsForward, NEW p \in published, p.version >= h.version
      PROVE  withdrawn' \subseteq p.repudiated
  <2>1. p.version \in Nat /\ (held # None => held.version \in Nat)
    BY DEF HistoryInv, HeldInv, KeyHistory
  <2>2. withdrawn \subseteq p.repudiated
    BY <1>2, <1>3, <1>6, <2>1 DEF HeldInv
  <2>3. h \in published => h.repudiated \subseteq p.repudiated
    BY <1>2, <1>6, <2>1 DEF HistoryInv, Earlier
  <2> QED
    BY <1>3, <2>2, <2>3
<1> QED
  BY <1>1, <1>2, <1>3, <1>4, <1>5, <1>6 DEF HeldInv

-------------------------------------------------------------------------------
(***************************************************************************)
(* Status lists.                                                           *)
(***************************************************************************)
\* The list l with other bits, signed again.
Resigned(l, bits, time) == Sign([l EXCEPT !.bits = bits, !.updated = time], Root)

LEMMA SignGenuine ==
  ASSUME NEW l \in StatusList, NEW bits \in SUBSET Indexes, NEW time \in Times
  PROVE  /\ Genuine(Resigned(l, bits, time)) /\ Resigned(l, bits, time).bits = bits
         /\ Resigned(l, bits, time).updated = time /\ Resigned(l, bits, time).id = l.id
<1> DEFINE edited == [l EXCEPT !.bits = bits, !.updated = time]
           signature == [by |-> Root, over |-> <<l.id, bits, time>>]
           new == [edited EXCEPT !.signature = signature]
<1>1. edited \in StatusList /\ edited.bits = bits /\ edited.updated = time /\ edited.id = l.id
  BY DEF StatusList
<1>2. signature \in [by: Keys, over: ListIds \X (SUBSET Indexes) \X Times]
  BY IssuerAssumption DEF StatusList
<1>3. Sign(edited, Root) = new
  BY <1>1 DEF Sign, ListContent
<1> HIDE DEF edited, signature
<1>4. /\ new \in StatusList /\ new.bits = bits /\ new.updated = time /\ new.id = l.id
      /\ new.signature = signature
  BY <1>1, <1>2 DEF StatusList
<1> HIDE DEF new
<1>5. Genuine(new)
  BY <1>4 DEF Genuine, signature
<1> QED
  BY <1>3, <1>4, <1>5 DEF edited, Resigned

LEMMA NewListGenuine ==
  ASSUME clock \in Times, NEW id \in ListIds
  PROVE  /\ Genuine(NewList(id, Root)) /\ NewList(id, Root).bits = {}
         /\ NewList(id, Root).updated = clock /\ NewList(id, Root).id = id
<1> DEFINE signature == [by |-> Root, over |-> <<id, {}, clock>>]
           unsigned == [id |-> id, bits |-> {}, updated |-> clock, signature |-> None]
           new == [unsigned EXCEPT !.signature = signature]
<1>1. NewList(id, Root) = new
  <2>1. NewList(id, Root) = Sign(unsigned, Root)
    BY Zenon DEF NewList
  <2>2. [by |-> Root, over |-> ListContent(unsigned)] = signature
    BY DEF ListContent
  <2> QED
    BY <2>1, <2>2, Zenon DEF Sign
<1>2. signature \in [by: Keys, over: ListIds \X (SUBSET Indexes) \X Times]
  BY IssuerAssumption
<1>3. /\ unsigned \in [id: ListIds, bits: SUBSET Indexes, updated: Times, signature: {None}]
      /\ unsigned.bits = {} /\ unsigned.updated = clock /\ unsigned.id = id
  OBVIOUS
<1> HIDE DEF signature, unsigned
<1>4. /\ new \in StatusList /\ new.bits = {} /\ new.updated = clock /\ new.id = id
      /\ new.signature = signature
  BY <1>2, <1>3 DEF StatusList
<1> HIDE DEF new
<1> QED
  BY <1>1, <1>4 DEF Genuine, signature

LEMMA TimesNatural == \A t \in Times : t \in Nat
BY IssuerAssumption DEF Times

LEMMA VerifiedIsListed ==
  ASSUME clock \in Times, ListInv, Root \notin lost, NEW l \in Lists, ListVerifies(l, Root)
  PROVE  l \in lists
<1>1. PICK q \in lists, id \in ListIds :
        l \in {q, [q EXCEPT !.bits = {}], [q EXCEPT !.updated = clock], [q EXCEPT !.id = id]}
  <2>1. \A q \in lists : q.id \in ListIds
    BY DEF ListInv, Genuine, StatusList
  <2> QED
    BY <2>1 DEF Lists
<1>2. Genuine(q)
  BY DEF ListInv
<1>3. l \in StatusList /\ q \in StatusList /\ l.signature = q.signature
  BY <1>1, <1>2 DEF Genuine, StatusList
<1>4. <<l.id, l.bits, l.updated>> = <<q.id, q.bits, q.updated>>
  BY <1>2, <1>3 DEF Genuine, ListVerifies, ListContent
<1>5. l = q
  BY <1>3, <1>4 DEF StatusList
<1> QED
  BY <1>5

\* What a signing changes: an index is revoked, or restored, or nothing.
Revokes(s, bits) ==
  /\ bits = list[s.list].bits \cup {s.index}
  /\ since' = IF s.index \in list[s.list].bits THEN since ELSE [since EXCEPT ![s] = clock]
Restores(s, bits) == bits = list[s.list].bits \ {s.index} /\ since' = [since EXCEPT ![s] = None]
Changes(id, bits) ==
  \/ \E s \in Status : s.list = id /\ (Revokes(s, bits) \/ Restores(s, bits))
  \/ bits = list[id].bits /\ since' = since

LEMMA StatusEqual ==
  ASSUME NEW s \in Status, NEW t \in Status, s.list = t.list, s.index = t.index
  PROVE  s = t
BY DEF Status

\* What is known of a status once its list is signed with these bits.
Listed(bits, j) ==
  /\ since'[j] = None => j.index \notin bits
  /\ \A l \in lists' : l.id = j.list /\ since'[j] # None =>
       since'[j] <= clock /\ (l.updated >= since'[j] => j.index \in l.bits)

LEMMA PublishInv ==
  ASSUME clock \in Times, ListInv, Publish
  PROVE  ListInv'
<1>1. /\ \A k \in ListIds : /\ list[k] \in lists /\ Genuine(list[k]) /\ list[k].id = k
                            /\ list[k] \in StatusList /\ list[k].updated \in Times
      /\ list \in [ListIds -> StatusList]
      /\ since \in [Status -> Times \cup {None}] /\ clock # None
      /\ \A t \in Times : t \in Nat
  BY AbsenceAssumption, IssuerAssumption DEF ListInv, Times, Genuine, StatusList
<1>2. \E id \in ListIds : \E bits : Resign(id, Root, bits) /\ Changes(id, bits)
  <2>1. ASSUME NEW id \in ListIds, NEW i \in Indexes \cup {OutOfBounds}, Revoke(id, i, Root)
        PROVE  <1>2!:
    <3> DEFINE s == [list |-> id, index |-> i]
               bits == list[id].bits \cup {i}
    <3>1. s \in Status /\ s.list = id /\ s.index = i /\ Resign(id, Root, bits)
      BY <2>1 DEF Revoke, CheckIndex, Status
    <3>2. Revokes(s, bits)
      BY <2>1, <3>1 DEF Revoke, Revokes
    <3> QED
      BY <3>1, <3>2 DEF Changes
  <2>2. ASSUME NEW id \in ListIds, NEW i \in Indexes \cup {OutOfBounds}, Unrevoke(id, i, Root)
        PROVE  <1>2!:
    <3> DEFINE s == [list |-> id, index |-> i]
               bits == list[id].bits \ {i}
    <3>1. s \in Status /\ s.list = id /\ s.index = i /\ Resign(id, Root, bits)
      BY <2>2 DEF Unrevoke, CheckIndex, Status
    <3>2. Restores(s, bits)
      BY <2>2, <3>1 DEF Unrevoke, Restores
    <3> QED
      BY <3>1, <3>2 DEF Changes
  <2>3. ASSUME NEW id \in ListIds, Heartbeat(id, Root) PROVE <1>2!:
    BY <2>3 DEF Heartbeat, Changes
  <2> QED
    BY <2>1, <2>2, <2>3 DEF Publish
<1> PICK id \in ListIds : \E bits : Resign(id, Root, bits) /\ Changes(id, bits)
  BY <1>2
<1> PICK bits : Resign(id, Root, bits) /\ Changes(id, bits)
  BY <1>2
<1>0. PICK new : new = list'[id]
  OBVIOUS
<1>3. /\ bits \subseteq Indexes
      /\ list' = [list EXCEPT ![id] = Sign([@ EXCEPT !.bits = bits, !.updated = clock], Root)]
      /\ lists' = lists \cup {new} /\ list[id].updated < clock
  BY <1>0, <1>1 DEF Resign, Changes, Revokes, Restores, StatusList, Status
<1>4. Genuine(new) /\ new.bits = bits /\ new.updated = clock /\ new.id = id /\ new \in StatusList
  <2>1. PICK l \in StatusList, time \in Times : l = list[id] /\ time = clock
    BY <1>1
  <2> DEFINE again == Resigned(l, bits, time)
  <2>2. Genuine(again) /\ again.bits = bits /\ again.updated = time /\ again.id = l.id
    BY <1>3, SignGenuine
  <2>3. new = again
    BY <1>0, <1>1, <1>3, <2>1 DEF Resigned
  <2> HIDE DEF again
  <2> QED
    BY <1>1, <2>1, <2>2, <2>3 DEF Genuine
<1>5. \A k \in ListIds : list'[k] = IF k = id THEN new ELSE list[k]
  BY <1>0, <1>1, <1>3
<1>6. list' \in [ListIds -> StatusList]
  <2>1. list' = [list EXCEPT ![id] = new]
    BY <1>0, <1>1, <1>3
  <2> QED
    BY <1>1, <1>4, <2>1
<1>7. \A l \in lists : /\ l.id \in ListIds /\ l.updated \in Times
                       /\ l.updated <= list[l.id].updated
                       /\ l.id = id => l.updated < clock
  <2>1. \A l \in lists : l.id \in ListIds /\ l.updated \in Times /\ l.updated <= list[l.id].updated
    BY DEF ListInv, Genuine, StatusList
  <2> QED
    BY <1>1, <1>3, <2>1
<1>8. \A l \in lists' : Genuine(l) /\ l.updated <= list'[l.id].updated
  <2>1. ASSUME NEW l \in lists PROVE Genuine(l) /\ l.updated <= list'[l.id].updated
    <3>1. Genuine(l) /\ l.id \in ListIds /\ l.updated <= list[l.id].updated
      <4>1. Genuine(l)
        BY DEF ListInv
      <4> QED
        BY <1>7, <4>1
    <3>2. CASE l.id = id
      <4>1. list'[l.id] = new
        BY <1>5, <3>1, <3>2
      <4>2. l.updated < clock /\ l.updated \in Nat /\ clock \in Nat
        BY <1>7, <3>2, TimesNatural
      <4> QED
        BY <1>4, <3>1, <4>1, <4>2
    <3>3. CASE l.id # id
      BY <1>5, <3>1, <3>3
    <3> QED
      BY <3>2, <3>3
  <2>2. Genuine(new) /\ new.updated <= list'[new.id].updated
    BY <1>1, <1>4, <1>5
  <2> QED
    BY <1>3, <2>1, <2>2
<1>9. since' \in [Status -> Times \cup {None}]
  BY <1>1 DEF Changes, Revokes, Restores
<1>10. ASSUME NEW j \in Status, j.list = id, since'[j] = since[j]
       PROVE  Listed(bits, j)
  <2>1. j.index \in bits <=> j.index \in list[id].bits
    <3>1. ASSUME NEW s \in Status, s.list = id, Revokes(s, bits)
          PROVE  j.index \in bits <=> j.index \in list[id].bits
      <4>1. CASE s.index = j.index /\ j.index \notin list[id].bits
        <5>1. s = j
          BY <1>10, <3>1, <4>1, StatusEqual
        <5>2. since[j] = clock
          BY <1>1, <1>10, <3>1, <4>1, <5>1 DEF Revokes
        <5>3. new.id = j.list /\ clock <= list[id].updated
          BY <1>1, <1>4, <1>10, <5>2 DEF ListInv
        <5> QED
          BY <1>1, <1>3, <5>3
      <4> QED
        BY <3>1, <4>1 DEF Revokes
    <3>2. ASSUME NEW s \in Status, s.list = id, Restores(s, bits)
          PROVE  j.index \in bits <=> j.index \in list[id].bits
      <4>1. CASE s.index = j.index
        <5>1. s = j
          BY <1>10, <3>2, <4>1, StatusEqual
        <5>2. since[j] = None
          BY <1>1, <1>10, <3>2, <5>1 DEF Restores
        <5> QED
          BY <1>10, <3>2, <5>1, <5>2 DEF ListInv, Restores
      <4> QED
        BY <3>2, <4>1 DEF Restores
    <3> QED
      BY <3>1, <3>2 DEF Changes
  <2>2. since'[j] = None => j.index \notin bits
    BY <1>10, <2>1 DEF ListInv
  <2>3. ASSUME NEW l \in lists', l.id = j.list, since'[j] # None
        PROVE  since'[j] <= clock /\ (l.updated >= since'[j] => j.index \in l.bits)
    <3>1. since[j] # None /\ since[j] \in Times /\ since[j] <= list[id].updated
      BY <1>1, <1>10, <2>3 DEF ListInv
    <3>2. since'[j] <= clock
      BY <1>1, <1>3, <1>10, <3>1
    <3>3. CASE l \in lists
      BY <1>10, <2>3, <3>1, <3>2, <3>3 DEF ListInv
    <3>4. CASE l = new
      <4>1. j.index \in list[id].bits
        BY <1>1, <1>10, <3>1 DEF ListInv
      <4> QED
        BY <1>4, <2>1, <3>2, <3>4, <4>1
    <3> QED
      BY <1>3, <2>3, <3>3, <3>4
  <2> QED
    BY <2>2, <2>3 DEF Listed
<1>11. ASSUME NEW j \in Status, since'[j] # since[j]
       PROVE  Listed(bits, j) /\ j.list = id
  <2>1. ASSUME NEW s \in Status, s.list = id, Revokes(s, bits)
        PROVE  Listed(bits, j) /\ j.list = id
    <3>1. since'[j] = clock /\ j = s /\ j.index \in bits
      BY <1>1, <1>11, <2>1 DEF Revokes
    <3>2. clock \in Nat /\ clock # None
      BY <1>1, TimesNatural
    <3>3. \A l \in lists' : l.id = j.list => l = new \/ (l.updated \in Nat /\ l.updated < clock)
      <4>1. \A l \in lists : l.id = id => l.updated \in Nat /\ l.updated < clock
        BY <1>7, TimesNatural
      <4> QED
        BY <1>3, <2>1, <3>1, <4>1
    <3>4. \A l \in lists' : l.id = j.list /\ l.updated >= clock => j.index \in l.bits
      BY <1>4, <3>1, <3>2, <3>3
    <3> QED
      BY <2>1, <3>1, <3>2, <3>4 DEF Listed
  <2>2. ASSUME NEW s \in Status, s.list = id, Restores(s, bits)
        PROVE  Listed(bits, j) /\ j.list = id
    BY <1>1, <1>11, <2>2 DEF Listed, Restores
  <2> QED
    BY <1>11, <2>1, <2>2 DEF Changes
<1>12. clock' = clock
  BY DEF Resign
<1>13. \A k \in ListIds : list'[k] \in lists' /\ list'[k].id = k /\ list'[k].updated <= clock
  BY <1>1, <1>3, <1>4, <1>5 DEF ListInv
<1>14. ASSUME NEW j \in Status
       PROVE  /\ since'[j] = None => j.index \notin list'[j.list].bits
              /\ \A l \in lists' : l.id = j.list /\ since'[j] # None =>
                   /\ since'[j] <= list'[j.list].updated
                   /\ l.updated >= since'[j] => j.index \in l.bits
  <2>0. j.list \in ListIds
    BY DEF Status
  <2>1. CASE j.list = id
    <3>1. Listed(bits, j)
      BY <1>10, <1>11, <2>1
    <3>2. list'[j.list].bits = bits /\ list'[j.list].updated = clock
      BY <1>4, <1>5, <2>1
    <3> QED
      BY <3>1, <3>2 DEF Listed
  <2>2. CASE j.list # id
    <3>1. since'[j] = since[j] /\ list'[j.list] = list[j.list]
      BY <1>5, <1>11, <2>0, <2>2
    <3>2. \A l \in lists' : l.id = j.list => l \in lists
      BY <1>3, <1>4, <2>2
    <3> QED
      BY <3>1, <3>2 DEF ListInv
  <2> QED
    BY <2>1, <2>2
<1> QED
  BY <1>6, <1>8, <1>9, <1>12, <1>13, <1>14 DEF ListInv

-------------------------------------------------------------------------------
(***************************************************************************)
(* The invariant.                                                          *)
(***************************************************************************)
LEMMA OrgInit ==
  ASSUME Init
  PROVE  OrgInv
<1>1. 0 \in Times /\ None \notin Times
  BY IssuerAssumption, AbsenceAssumption DEF Times
<1>2. HistoryInv
  <2>1. history = Genesis(Root) /\ published = {} /\ Genesis(Root) \in KeyHistory
    BY IssuerAssumption DEF Init, Genesis, KeyHistory
  <2>2. /\ history.seal = None /\ history.repudiated = {}
        /\ history.root = Root /\ history.rotations = <<>>
    BY <2>1 DEF Genesis
  <2>3. Dids(history) \subseteq Own
    BY <2>2, IssuerAssumption DEF Dids, ToSet
  <2> QED
    BY <2>1, <2>2, <2>3 DEF HistoryInv
<1>3. HeldInv
  BY DEF Init, HeldInv
<1>4. ListInv
  <2>1. /\ clock = 0 /\ list = [id \in ListIds |-> NewList(id, Root)]
        /\ lists = {list[id] : id \in ListIds} /\ since = [s \in Status |-> None]
    BY DEF Init
  <2>2. \A id \in ListIds : /\ Genuine(list[id]) /\ list[id].bits = {} /\ list[id].updated = 0
                            /\ list[id].id = id /\ list[id] \in StatusList
    <3> SUFFICES ASSUME NEW id \in ListIds
                 PROVE  /\ Genuine(list[id]) /\ list[id].bits = {} /\ list[id].updated = 0
                        /\ list[id].id = id /\ list[id] \in StatusList
      OBVIOUS
    <3>1. list[id] = NewList(id, Root)
      BY <2>1
    <3>2. clock \in Times
      BY <1>1, <2>1
    <3> QED
      BY <2>1, <3>1, <3>2, NewListGenuine DEF Genuine
  <2>3. \A s \in Status : s.list \in ListIds
    BY DEF Status
  <2>4. list \in [ListIds -> StatusList]
    BY <2>1, <2>2
  <2>5. \A l \in lists : Genuine(l) /\ l.updated <= list[l.id].updated
    BY <2>1, <2>2
  <2> QED
    BY <1>1, <2>1, <2>2, <2>3, <2>4, <2>5 DEF ListInv
<1> QED
  BY <1>1, <1>2, <1>3, <1>4 DEF Init, OrgInv

LEMMA OrgNext ==
  ASSUME OrgInv, [Next]_vars
  PROVE  OrgInv'
<1> USE DEF OrgInv
<1>1. CASE Tick
  <2>1. UNCHANGED <<lost, minimum, history, published, held, withdrawn, list, lists, since>>
        /\ clock' = clock + 1 /\ clock < Horizon
    BY <1>1 DEF Tick, config, org, status, party
  <2>2. \A id \in ListIds : list[id].updated \in Times
    BY DEF ListInv, Genuine, StatusList
  <2>3. clock' \in Times /\ \A id \in ListIds : list[id].updated <= clock'
    BY <2>1, <2>2, IssuerAssumption DEF Times, ListInv
  <2>4. HistoryInv' /\ HeldInv'
    BY <2>1 DEF HistoryInv, HeldInv
  <2>5. ListInv'
    BY <2>1, <2>3 DEF ListInv
  <2> QED
    BY <2>1, <2>3, <2>4, <2>5
<1>2. CASE Maintain
  <2>1. UNCHANGED <<clock, lost, minimum, list, lists, since>>
    BY <1>2 DEF Maintain, config, status
  <2> QED
    BY <1>2, <2>1, MaintainInv DEF ListInv
<1>3. CASE Publish
  <2>1. UNCHANGED <<clock, lost, minimum, history, published, held, withdrawn>>
    BY <1>3 DEF Publish, Revoke, Unrevoke, Heartbeat, Resign, config, org, party
  <2> QED
    BY <1>3, <2>1, PublishInv DEF HistoryInv, HeldInv
<1>4. ASSUME NEW h \in Served, Fetch(h) PROVE OrgInv'
  <2>1. UNCHANGED <<clock, lost, minimum, list, lists, since>>
    BY <1>4 DEF Fetch, config, status
  <2> QED
    BY <1>4, <2>1, FetchInv DEF ListInv
<1>5. CASE UNCHANGED vars
  BY <1>5 DEF vars, config, org, status, party, HistoryInv, HeldInv, ListInv
<1> QED
  BY <1>1, <1>2, <1>3, <1>4, <1>5 DEF Next

\* IssuerTrust: the invariant of the organization and of what is held of it.
THEOREM OrgInvariant == Spec => []OrgInv
<1>1. Init => OrgInv
  BY OrgInit
<1>2. OrgInv /\ [Next]_vars => OrgInv'
  BY OrgNext
<1> QED
  BY <1>1, <1>2, PTL DEF Spec

-------------------------------------------------------------------------------
(***************************************************************************)
(* What is believed.                                                       *)
(***************************************************************************)
\* What may be presented names an issuer, and was signed with claims of the model.
LEMMA PresentationTyped ==
  ASSUME clock \in Times, NEW p \in Presentations
  PROVE  /\ p.issuer \in Keys /\ p.issuer # None
         /\ p.signed.claims \in Claims /\ p.signed.status \in Status \cup {None}
<1>1. PICK c \in Issued(clock) : p \in Edited(c)
  BY DEF Presentations, PresentableAt
<1>2. PICK by \in Keys, claims \in {q \in Claims : Valid(q)}, entry \in Status \cup {None},
           format \in Formats, now \in 0..clock :
        c = Issue(by, claims, entry, format, now)
  BY <1>1 DEF Issued
<1>3. c.issuer \in Keys /\ c.claims \in Claims /\ c.status \in Status \cup {None}
  BY <1>2 DEF Issue
<1> DEFINE plain == [issuer |-> c.issuer, claims |-> c.claims, status |-> c.status,
                     exp |-> c.exp, format |-> c.format, signed |-> c]
<1>4. p.issuer \in Keys /\ p.signed = c
  <2>1. CASE p = plain
    BY <1>3, <2>1
  <2>2. ASSUME NEW k \in Keys, p = [plain EXCEPT !.issuer = k] PROVE <1>4!:
    BY <1>3, <2>2
  <2>3. ASSUME NEW t, p = [plain EXCEPT !.exp = t] PROVE <1>4!:
    BY <1>3, <2>3
  <2>4. ASSUME NEW i, p = [plain EXCEPT !.status = i] PROVE <1>4!:
    BY <1>3, <2>4
  <2>5. ASSUME NEW m, p = [plain EXCEPT !.claims.model = m] PROVE <1>4!:
    BY <1>3, <2>5
  <2> QED
    BY <1>1, <2>1, <2>2, <2>3, <2>4, <2>5 DEF Edited
<1> QED
  BY <1>3, <1>4, IssuerAssumption

\* A believed presentation names the key that signed it.
LEMMA BelievedSigner ==
  ASSUME NEW p, Believes(p)
  PROVE  p.signed.issuer = p.issuer
BY DEF Believes, VerifyCredential, VerifyW3C, VerifySdJwt

\* A key that the history held lists is believed only under that history, and only
\* if that does not repudiate it.
LEMMA BelievedByHistory ==
  ASSUME NEW p, p.issuer # None, Believes(p), held # None, p.issuer \in Dids(held)
  PROVE  /\ VerifyCurrent(held, Root) /\ p.issuer \notin held.repudiated
         /\ ~pinned => Trusted(Root)
BY DEF Believes, Anchor, FromRegistry, VerifyRotated, AuthorizeIssuer

LEMMA RepudiatedRefused ==
  ASSUME SealsForward, OrgInv, NEW p \in Presentations, Believes(p), p.signed.issuer \in withdrawn
  PROVE  held \notin published /\ lost \cap Dids(held) # {}
<1>1. p.issuer # None /\ p.signed.issuer = p.issuer
  BY PresentationTyped, BelievedSigner DEF OrgInv
<1>2. held # None /\ held \in KeyHistory
  BY DEF OrgInv, HeldInv
<1>3. held \notin published
  <2> SUFFICES ASSUME held \in published PROVE FALSE
    OBVIOUS
  <2>1. held.version \in Nat
    BY <1>2 DEF KeyHistory
  <2>2. p.issuer \in held.repudiated
    BY <1>1, <1>2, <2>1 DEF OrgInv, HeldInv
  <2>3. p.issuer \in Dids(held)
    BY <2>2 DEF OrgInv, HistoryInv
  <2> QED
    BY <1>1, <1>2, <2>2, <2>3, BelievedByHistory
<1> QED
  BY <1>2, <1>3 DEF OrgInv, HeldInv

\* IssuerTrust: a key that any held history of the organization repudiated is not
\* believed again unless a rival history was admitted, whose chain names a key that
\* is lost; provided the organization never reuses a version.
THEOREM RepudiationAlwaysSticks == ASSUME SealsForward PROVE Spec => []RepudiationSticks
<1>1. OrgInv => RepudiationSticks
  BY RepudiatedRefused DEF RepudiationSticks
<1> QED
  BY <1>1, OrgInvariant, PTL

\* IssuerTrust: an index revoked on a list for longer than MaxAge is not accepted
\* under any copy of that list, whether or not the issuer still signs, while nobody
\* else holds the key of the lists.
THEOREM RevocationAlwaysBites == Spec => []RevocationBites
<1>1. OrgInv => RevocationBites
  <2> SUFFICES ASSUME OrgInv, Root \notin lost, NEW p \in Presentations,
                      p.signed.status # None, since[p.signed.status] # None,
                      p.format = "w3c" => p.status = p.signed.status,
                      NEW l \in Lists, l.id = p.signed.status.list, Accepts(p, l)
               PROVE  clock - since[p.signed.status] <= MaxAge
    BY DEF RevocationBites
  <2>0. PICK s : s = p.signed.status
    OBVIOUS
  <2>1. p.status = s /\ s # None /\ s \in Status
    <3>1. s # None /\ s \in Status
      BY <2>0, PresentationTyped DEF OrgInv
    <3> QED
      BY <2>0, <3>1 DEF Accepts, Believes, VerifyCredential, VerifySdJwt
  <2>2. ListVerifies(l, Root) /\ CheckFresh(l) /\ s.index \notin l.bits
    BY <2>1 DEF Accepts, NotRevoked, ReadsValid
  <2>3. l \in lists
    BY <2>2, VerifiedIsListed DEF OrgInv
  <2>4. l.updated \in Times /\ since[s] \in Times /\ clock \in Times
    <3>1. Genuine(l) /\ since \in [Status -> Times \cup {None}]
      BY <2>3 DEF OrgInv, ListInv
    <3> QED
      BY <2>0, <2>1, <3>1 DEF OrgInv, Genuine, StatusList
  <2>5. ~(l.updated >= since[s])
    BY <2>0, <2>1, <2>2, <2>3 DEF OrgInv, ListInv
  <2>6. l.updated \in Nat /\ since[s] \in Nat /\ clock \in Nat /\ MaxAge \in Nat
    BY <2>4, IssuerAssumption DEF Times
  <2> QED
    BY <2>0, <2>2, <2>5, <2>6 DEF CheckFresh
<1> QED
  BY <1>1, OrgInvariant, PTL

\* IssuerTrust: what is believed is what a trusted issuer signed, in either format.
THEOREM BelievedAlwaysSigned == Spec => []BelievedIsSigned
<1>1. OrgInv => BelievedIsSigned
  <2> SUFFICES ASSUME OrgInv, NEW p \in Presentations, Believes(p)
               PROVE  /\ p.issuer = p.signed.issuer /\ p.claims.tools = p.signed.claims.tools
                      /\ p.claims.model \in {p.signed.claims.model, None}
                      /\ p.format = "w3c" => p.exp = p.signed.exp
                      /\ p.format = "sd-jwt" => p.status = p.signed.status
                      /\ ~pinned => Trusted(p.issuer)
                                      \/ (Trusted(Root) /\ p.issuer \in Dids(held))
    BY DEF BelievedIsSigned
  <2>1. p.issuer # None /\ p.signed.claims \in Claims /\ p.issuer = p.signed.issuer
    BY PresentationTyped, BelievedSigner DEF OrgInv
  <2> DEFINE claims == p.signed.claims
  <2>2. p.claims \in {claims, [claims EXCEPT !.model = None]}
    BY DEF Believes, VerifyCredential, VerifyW3C, VerifySdJwt
  <2>3. claims = [tools |-> claims.tools, model |-> claims.model,
                  valid_for |-> claims.valid_for, consent |-> claims.consent]
    BY <2>1, IssuerAssumption
  <2>4. p.claims.tools = claims.tools /\ p.claims.model \in {claims.model, None}
    <3> HIDE DEF claims
    <3>1. claims \in [tools: {claims.tools}, model: {claims.model},
                      valid_for: {claims.valid_for}, consent: {claims.consent}]
      BY <2>3
    <3> QED
      BY <2>2, <3>1
  <2>5. /\ p.format = "w3c" => p.exp = p.signed.exp
        /\ p.format = "sd-jwt" => p.status = p.signed.status
    BY DEF Believes, VerifyCredential, VerifyW3C, VerifySdJwt
  <2>6. ~pinned => Trusted(p.issuer) \/ (Trusted(Root) /\ p.issuer \in Dids(held))
    BY <2>1 DEF Believes, Anchor, FromRegistry, VerifyRotated, VerifyRegistered
  <2> QED
    BY <2>1, <2>4, <2>5, <2>6
<1> QED
  BY <1>1, OrgInvariant, PTL

-------------------------------------------------------------------------------
(***************************************************************************)
(* Rotation.                                                               *)
(***************************************************************************)
\* No successor key is registered above the root, by which it would be judged once a
\* history names it.
RootOutranks == \A k \in Own : Levels[k] <= Levels[Root]

LEMMA RootTrusted ==
  ASSUME RootOutranks, minimum \in Nat, NEW k \in Own, Trusted(k)
  PROVE  Trusted(Root)
<1>1. k \in Keys /\ Root \in Keys /\ Levels[k] \in 0..3 /\ Levels[Root] \in 0..3
  BY IssuerAssumption
<1> QED
  BY <1>1 DEF RootOutranks, Trusted

LEMMA FetchKeepsTrust ==
  ASSUME SealsForward, RootOutranks, OrgInv, NEW h \in published, Fetch(h),
         held \in published \cup {None},
         NEW p \in Presentations, Believes(p), p.issuer \notin h.repudiated
  PROVE  Believes(p)'
<1>1. /\ UNCHANGED <<clock, minimum, pinned>> /\ held' = h /\ h.root = Root
      /\ VerifyCurrent(h, Root)
      /\ held # None => h.version >= held.version
  BY DEF Fetch, config, VerifyCurrent, VerifySealed, VerifyChain
<1>2. h \in published /\ h \in KeyHistory /\ h # None
  BY AbsenceAssumption DEF OrgInv, HistoryInv
<1>3. p.issuer \in Keys /\ p.issuer # None
  BY PresentationTyped DEF OrgInv
<1>4. VerifyCredential(p, p.issuer)'
  BY <1>1 DEF Believes, VerifyCredential, VerifyW3C, VerifySdJwt
<1>5. VerifyCurrent(held, Root)'
  BY <1>1 DEF VerifyCurrent, IsCurrent, VerifySealed, VerifyChain
<1>6. CASE p.issuer \in Dids(h)
  <2>1. AuthorizeIssuer(held, Root, p.issuer)' = p.issuer
    <3>1. p.issuer \in Dids(held') \ held'.repudiated
      BY <1>1, <1>6
    <3> QED
      BY <1>5, <3>1, Zenon DEF AuthorizeIssuer
  <2>2. p.issuer \in Own
    BY <1>6 DEF OrgInv, HistoryInv
  <2>3. ~pinned => Trusted(Root)
    BY <1>3, <2>2, RootTrusted
       DEF OrgInv, Believes, Anchor, FromRegistry, VerifyRotated, VerifyRegistered
  <2>4. ~pinned => VerifyRotated(p)'
    BY <1>1, <1>3, <1>4, <2>1, <2>3 DEF VerifyRotated, Trusted
  <2>5. Anchor(p)' = p.issuer
    BY <1>1, <1>2, <1>6, <2>1, <2>4 DEF Anchor, FromRegistry
  <2> QED
    BY <1>4, <2>5 DEF Believes
<1>7. CASE p.issuer \notin Dids(h)
  <2>1. ~(held # None /\ p.issuer \in Dids(held))
    <3> SUFFICES ASSUME held # None, p.issuer \in Dids(held) PROVE FALSE
      OBVIOUS
    <3>1. held \in published /\ held \in KeyHistory /\ h.version \in Nat /\ held.version \in Nat
      BY <1>2 DEF OrgInv, HeldInv, HistoryInv, KeyHistory
    <3>2. Earlier(held, h)
      BY <1>1, <1>2, <3>1 DEF OrgInv, HistoryInv
    <3> QED
      BY <1>7, <3>2 DEF Earlier
  <2>2. ~pinned /\ VerifyRegistered(p)
    BY <1>3, <2>1 DEF Believes, Anchor, FromRegistry, AuthorizeIssuer
  <2>3. VerifyRegistered(p)'
    BY <1>1, <2>2 DEF VerifyRegistered, Trusted, VerifyW3C
  <2>4. Anchor(p)' = p.issuer
    BY <1>1, <1>7, <2>2, <2>3 DEF Anchor, FromRegistry
  <2> QED
    BY <1>4, <2>4 DEF Believes
<1> QED
  BY <1>6, <1>7

\* IssuerTrust: admitting a newer history of the organization costs no credential its
\* trust unless its key was repudiated, provided versions are not reused and no key
\* outranks the root.
THEOREM RotationAlwaysKeepsTrust ==
  ASSUME SealsForward, RootOutranks PROVE Spec => RotationKeepsTrust
<1>1. OrgInv /\ [Next]_vars =>
        [held' # held /\ held \in published \cup {None} /\ held' \in published =>
           \A p \in Presentations :
             Believes(p) /\ p.issuer \notin held'.repudiated => Believes(p)']_vars
  <2> SUFFICES ASSUME OrgInv, [Next]_vars, held' # held, held \in published \cup {None},
                      held' \in published,
                      NEW p \in Presentations, Believes(p), p.issuer \notin held'.repudiated
               PROVE  Believes(p)'
    OBVIOUS
  <2>1. PICK h \in Served : Fetch(h)
    BY DEF Next, Tick, Maintain, Publish, Revoke, Unrevoke, Heartbeat, Resign, vars, party
  <2>2. held' = h
    BY <2>1 DEF Fetch
  <2> QED
    BY <2>1, <2>2, FetchKeepsTrust
<1> QED
  BY <1>1, OrgInvariant, PTL DEF Spec, RotationKeepsTrust

-------------------------------------------------------------------------------
(***************************************************************************)
(* Approvers.                                                              *)
(***************************************************************************)
\* The directories are as the organization sealed them; the one held is one of them,
\* and the newest that was.
RosterInv ==
  /\ directories \subseteq ApproverDirectory
  /\ \A d \in directories : d.seal.over = DirectoryContent(d)
  /\ roster \in directories \cup {None}
  /\ \A d \in admitted : roster # None /\ d \in directories /\ d.version <= roster.version

LEMMA DirectoryVerified ==
  ASSUME RosterInv, NEW d \in ServedDirectories, NEW anchor, VerifyDirectory(d, anchor)
  PROVE  d \in directories
<1>1. PICK q \in directories :
        d \in {q, [q EXCEPT !.entries = UNION Staffs], [q EXCEPT !.not_after = None],
               [q EXCEPT !.version = MaxVersion]}
  BY DEF ServedDirectories
<1>2. q \in ApproverDirectory /\ MaxVersion \in Nat
  BY IssuerAssumption DEF RosterInv
<1>3. d \in ApproverDirectory /\ d.seal = q.seal
  BY <1>1, <1>2 DEF ApproverDirectory
<1>4. DirectoryContent(d) = DirectoryContent(q)
  BY <1>3 DEF VerifyDirectory, RosterInv
<1>5. d = q
  BY <1>2, <1>3, <1>4 DEF ApproverDirectory, DirectoryContent
<1> QED
  BY <1>5

LEMMA SealDirectoryInv ==
  ASSUME RosterInv, NEW by \in Own, NEW entries \in Staffs, NEW v \in 1..MaxVersion,
         NEW end \in Ends, SealDirectory(by, entries, v, end)
  PROVE  RosterInv'
<1> DEFINE content == <<v, by, entries, end>>
           seal == [by |-> by, over |-> content]
           d == [version |-> v, issuer |-> by, entries |-> entries, not_after |-> end,
                 seal |-> None]
           new == [d EXCEPT !.seal = seal]
<1>1. content \in Nat \X Own \X (SUBSET UNION Staffs) \X (Ends \cup {None})
  BY IssuerAssumption
<1>2. DirectoryContent(d) = content
  BY DEF DirectoryContent
<1>3. directories' = directories \cup {[d EXCEPT !.seal = [by |-> by, over |-> DirectoryContent(d)]]}
      /\ UNCHANGED <<roster, admitted>>
  BY DEF SealDirectory
<1>4. directories' = directories \cup {new}
  BY <1>2, <1>3
<1>5. /\ d \in [version: Nat, issuer: Own, entries: SUBSET UNION Staffs,
                not_after: Ends \cup {None}, seal: {None}]
      /\ d.version = v /\ d.issuer = by /\ d.entries = entries /\ d.not_after = end
  BY <1>1, IssuerAssumption
<1> HIDE DEF d, content
<1>6. seal \in [by: Own, over: Nat \X Own \X (SUBSET UNION Staffs) \X (Ends \cup {None})]
      /\ seal.over = content
  BY <1>1
<1> HIDE DEF seal
<1>7. /\ new \in ApproverDirectory /\ new.version = v /\ new.issuer = by
      /\ new.entries = entries /\ new.not_after = end /\ new.seal = seal
  BY <1>5, <1>6 DEF ApproverDirectory
<1> HIDE DEF new
<1>8. new.seal.over = DirectoryContent(new)
  BY <1>6, <1>7 DEF DirectoryContent, content
<1> QED
  BY <1>3, <1>4, <1>7, <1>8 DEF RosterInv

LEMMA FetchDirectoryInv ==
  ASSUME RosterInv, NEW d \in ServedDirectories, FetchDirectory(d)
  PROVE  RosterInv'
<1>1. /\ d \in directories /\ UNCHANGED directories
      /\ roster' = d /\ admitted' = admitted \cup {d}
      /\ roster # None => d.version >= roster.version
  BY DirectoryVerified DEF FetchDirectory, Admissible
<1>2. \A e \in directories : e.version \in Nat /\ e # None
  BY ApproversAssumption DEF RosterInv, ApproverDirectory
<1>3. \A e \in admitted' : e \in directories /\ e.version <= d.version
  <2> SUFFICES ASSUME NEW e \in admitted PROVE e \in directories /\ e.version <= d.version
    BY <1>1, <1>2
  <2>1. /\ e \in directories /\ roster \in directories
        /\ e.version <= roster.version /\ roster.version <= d.version
    BY <1>1 DEF RosterInv
  <2> QED
    BY <1>1, <1>2, <2>1
<1> QED
  BY <1>1, <1>2, <1>3 DEF RosterInv

\* Approvers: seen without the directories, it is IssuerTrust.
LEMMA ApproversUse == ApproversSpec => Spec
<1>1. [(Next /\ UNCHANGED approverVars) \/ ApproversNext]_<<vars, approverVars>> => [Next]_vars
  BY DEF ApproversNext, SealDirectory, FetchDirectory
<1> QED
  BY <1>1, PTL DEF ApproversSpec, Spec

LEMMA RosterInvariant == ApproversSpec => []RosterInv
<1>1. Init /\ ApproversInit => RosterInv
  BY DEF ApproversInit, RosterInv
<1>2. RosterInv /\ [(Next /\ UNCHANGED approverVars) \/ ApproversNext]_<<vars, approverVars>>
        => RosterInv'
  BY SealDirectoryInv, FetchDirectoryInv DEF ApproversNext, approverVars, RosterInv
<1> QED
  BY <1>1, <1>2, PTL DEF ApproversSpec

\* Approvers: whoever satisfies a gate is named by a directory the organization sealed,
\* as it sealed it, with a key it has not repudiated, that has not ended, and newer
\* than which none was ever held; provided it never reuses a version and alone holds
\* its keys.
THEOREM ApproverAlwaysEnrolled ==
  ASSUME SealsForward PROVE ApproversSpec => []ApproverIsEnrolled
<1>1. OrgInv /\ RosterInv => ApproverIsEnrolled
  <2> SUFFICES ASSUME OrgInv, RosterInv, lost = {}, NEW anchor \in Anchors, NEW action \in Actions,
                      NEW e \in Evidence
               PROVE  /\ KeyGate(e, action, anchor) =>
                         /\ roster \in directories /\ roster.issuer \in Own \ withdrawn
                         /\ roster.not_after # None => clock <= roster.not_after
                         /\ \A d \in admitted : d.version <= roster.version
                         /\ \E x \in roster.entries : x.approver_did = e.signature.by
                         /\ e.signature.over
                              = <<e.approver, e.signature.by, action, e.expires_at>>
                      /\ AnchorGate(e, action, anchor) =>
                           e.signature.by = anchor /\ anchor \notin withdrawn
    BY DEF ApproverIsEnrolled
  <2>1. PICK p \in Presentations : p.issuer = anchor /\ Believes(p)
    BY DEF Anchors
  <2>2. anchor \notin withdrawn
    BY <2>1, BelievedSigner, RepudiatedRefused
  <2>3. AnchorGate(e, action, anchor) => e.signature.by = anchor
    BY DEF AnchorGate, VerifyEvidence, Supports
  <2>4. ASSUME KeyGate(e, action, anchor)
        PROVE  /\ roster \in directories /\ roster.issuer = anchor /\ roster.issuer \in Own
               /\ roster.not_after # None => clock <= roster.not_after
               /\ \A d \in admitted : d.version <= roster.version
    BY <2>4 DEF KeyGate, VerifyWithDirectory, VerifyDirectory, RosterInv, ApproverDirectory
  <2>5. ASSUME KeyGate(e, action, anchor)
        PROVE  /\ \E x \in roster.entries : x.approver_did = e.signature.by
               /\ e.signature.over = <<e.approver, e.signature.by, action, e.expires_at>>
    BY <2>5 DEF KeyGate, VerifyWithDirectory, Lookup, Supports, EvidenceContent
  <2> QED
    BY <2>2, <2>3, <2>4, <2>5
<1> QED
  BY <1>1, ApproversUse, OrgInvariant, RosterInvariant, PTL
===============================================================================
