------------------------------- MODULE Custody -------------------------------
(***************************************************************************)
(* The joint chain of custody (audit.rs).  Each organization keeps its own *)
(* log and exports signed commitments; a compositor merges what it is      *)
(* given, in whatever order and however often it is given it.  An          *)
(* organization that restarts from an older copy of its log publishes      *)
(* other commitments under numbers it has used.  What is hashed and signed *)
(* of a time is its second, and entries are in the order of their times:   *)
(* where a commitment has lost or changed the rest on its way, it verifies *)
(* and may stand elsewhere.                                                *)
(***************************************************************************)
EXTENDS Integers, Sequences, FiniteSets, SequencesExt, Sorting

CONSTANTS
  Orgs, Rank,   \* organizations and the order of their DIDs
  Parties,      \* compositors
  Times,        \* record_at takes any timestamp
  PerSecond,    \* what a timestamp tells apart within a second
  MaxLog, MaxSalts, MaxBatch, \* bounds: records per log, records made, ingested at once,
  MaxPublished                \* commitments about when one is relayed

ASSUME CustodyAssumption ==
  /\ Rank \in [Orgs -> Nat] /\ \A o, p \in Orgs : Rank[o] = Rank[p] => o = p
  /\ Times \subseteq Int /\ PerSecond \in Nat \ {0}
  /\ {MaxLog, MaxSalts, MaxBatch, MaxPublished} \subseteq Nat

VARIABLES
  logs,       \* per organization: its records
  salts,      \* salts drawn so far
  published,  \* every commitment ever exported
  entries,    \* per compositor: its entries
  settled     \* per compositor: its last ingest succeeded

custodyVars == <<logs, salts, published, entries, settled>>

\* DateTime::timestamp.
Second(time) == time \div PerSecond

RecordAt(o, time) ==
  /\ Len(logs[o]) < MaxLog /\ salts < MaxSalts
  /\ logs' = [logs EXCEPT ![o] = Append(@, [time |-> time, salt |-> salts])]
  /\ salts' = salts + 1
  /\ UNCHANGED <<published, entries, settled>>

\* AuditRecord::commitment.
CommitmentOf(record) == [second |-> Second(record.time), salt |-> record.salt]

SigningPayload(c) == <<c.org, c.seq, Second(c.time), c.commitment>>

Commitment(o, seq) ==
  LET record == logs[o][seq]
      entry == [org |-> o, seq |-> seq, time |-> record.time, commitment |-> CommitmentOf(record)]
  IN  [entry |-> entry, signature |-> [by |-> o, over |-> SigningPayload(entry)]]

Export(o) ==
  /\ logs[o] # <<>>
  /\ published' = published \cup {Commitment(o, seq) : seq \in 1..Len(logs[o])}
  /\ UNCHANGED <<logs, salts, entries, settled>>

\* Somebody hands on a commitment with less of its time, or another.
HandOn(c, time) ==
  /\ Cardinality(published) < MaxPublished
  /\ published' = published \cup {[c EXCEPT !.entry.time = time]}
  /\ UNCHANGED <<logs, salts, entries, settled>>

\* The organization starts again from a copy of its log.
Restore(o) ==
  /\ logs[o] # <<>>
  /\ logs' = [logs EXCEPT ![o] = Front(@)]
  /\ UNCHANGED <<salts, published, entries, settled>>

-------------------------------------------------------------------------------
\* Faulty: entries of one instant stay in the order they were ingested.
ByTimestamp(a, b) == a.time < b.time

Before(a, b) ==
  \/ a.time < b.time
  \/ a.time = b.time /\ Rank[a.org] < Rank[b.org]
  \/ a.time = b.time /\ a.org = b.org /\ a.seq < b.seq

Sorted(s) == Arranged(s, DOMAIN s, Before)

Verifies(c, anchor) ==
  c.entry.org = anchor /\ c.signature = [by |-> anchor, over |-> SigningPayload(c.entry)]

\* One commitment: refused, already there, or a new entry at the end.
Consider(state, c, anchor) ==
  LET same == {i \in DOMAIN state.entries :
                 state.entries[i].org = c.entry.org /\ state.entries[i].seq = c.entry.seq} IN
  IF ~state.ok THEN state
  ELSE IF ~Verifies(c, anchor) THEN [state EXCEPT !.ok = FALSE]
  ELSE IF same # {}
       THEN [state EXCEPT !.ok = (state.entries[Min(same)].commitment = c.entry.commitment)]
  ELSE [state EXCEPT !.entries = Append(@, c.entry)]

Considered(start, batch, anchor) ==
  LET after[n \in 0..Len(batch)] ==
        IF n = 0 THEN start ELSE Consider(after[n - 1], batch[n], anchor)
  IN  after[Len(batch)]

\* ingest: the sort is reached only if no commitment was refused; what was
\* pushed before the refusal stays.
Ingest(p, batch, anchor) ==
  LET state == Considered([entries |-> entries[p], ok |-> TRUE], batch, anchor) IN
  /\ entries' = [entries EXCEPT ![p] = IF state.ok THEN Sorted(state.entries)
                                       ELSE state.entries]
  /\ settled' = [settled EXCEPT ![p] = state.ok]
  /\ UNCHANGED <<logs, salts, published>>

Hashed(e) == <<e.org, e.seq, Second(e.time), e.commitment>>

RootHash(p) == [i \in DOMAIN entries[p] |-> Hashed(entries[p][i])]

VerifyRevealed(p, o, seq, record) ==
  \E i \in 1..Len(entries[p]) :
    /\ entries[p][i].org = o /\ entries[p][i].seq = seq
    /\ entries[p][i].commitment = CommitmentOf(record)

\* A commitment given twice in one batch is as good as in two.
Batches == UNION {{b \in [1..n -> published] : IsInjective(b)} : n \in 1..MaxBatch}

CustodyInit ==
  /\ logs = [o \in Orgs |-> <<>>] /\ salts = 0 /\ published = {}
  /\ entries = [p \in Parties |-> <<>>] /\ settled = [p \in Parties |-> TRUE]

CustodyNext ==
  \/ \E c \in published, time \in Times : HandOn(c, time)
  \/ \E o \in Orgs : (\E time \in Times : RecordAt(o, time)) \/ Export(o) \/ Restore(o)
  \/ \E batch \in Batches, p \in Parties, o \in Orgs : Ingest(p, batch, o)

CustodySpec == CustodyInit /\ [][CustodyNext]_custodyVars

-------------------------------------------------------------------------------
Held(p) == {entries[p][i] : i \in 1..Len(entries[p])}
Told(p) == {Hashed(e) : e \in Held(p)}

\* The two have another time for one entry, and a second entry of that second.
Retimed(p, q) ==
  \E d \in Held(p), e \in Held(q) :
    /\ Hashed(d) = Hashed(e) /\ d.time # e.time
    /\ \E f \in Held(p) : f # d /\ Second(f.time) = Second(d.time)

\* Two parties that composited the same commitments, as far as those are signed,
\* get the same root in whatever order, batches and repetitions they got them, if
\* the last batch of each was accepted, unless they were given different times
\* within a second that two entries share; a record that an organization reveals
\* later checks out with every party that has its number exactly when the party has
\* that commitment, so a log restored from a copy cannot speak for entries it has
\* since rewritten.
RootsAgree ==
  \A p, q \in Parties : settled[p] /\ settled[q] =>
    /\ Told(p) = Told(q) => RootHash(p) = RootHash(q) \/ Retimed(p, q)
    /\ \A o \in Orgs : \A seq \in 1..Len(logs[o]) :
         VerifyRevealed(p, o, seq, logs[o][seq])
           => \A e \in Held(q) : e.org = o /\ e.seq = seq
                => (VerifyRevealed(q, o, seq, logs[o][seq]) <=> Hashed(e) \in Told(p))

\* "Two parties that composited the same commitments get the same root": every
\* signature of either verifies over the other's.
SameRoot ==
  \A p, q \in Parties :
    settled[p] /\ settled[q] /\ Told(p) = Told(q) => RootHash(p) = RootHash(q)

\* The same without the condition on the last batch.
RootsAlwaysAgree ==
  \A p, q \in Parties : Held(p) = Held(q) => RootHash(p) = RootHash(q)
===============================================================================
