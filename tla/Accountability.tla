---------------------------- MODULE Accountability ----------------------------
(***************************************************************************)
(* Who answers for a decision (accountability.rs, and the records of       *)
(* adr.rs).  The organization keeps who is behind a party, revision by     *)
(* revision; a credential carries the revision and a salted commitment to  *)
(* it; a decision record copies them; the digest of the record goes into   *)
(* the hash chain.  Later an auditor holds a log somebody may have edited, *)
(* a signed checkpoint, and what the organization produces as its record.  *)
(***************************************************************************)
EXTENDS AdrStream, FiniteSets, Options, Refusals

CONSTANTS
  Teams,       \* accountable parties
  Rosters,     \* members as a store returns them: in any order, some twice
  Salts, LongSalts,   \* and those of at least MIN_SALT_LEN
  Failures,    \* errors of the verification that happen
  Auditee,     \* the anchor that issues credentials and signs checkpoints
  MaxRevisions, MaxGranted, MaxDecided, MaxEdits  \* bounds

ASSUME AccountabilityAssumption ==
  /\ Failures \subseteq Errors
  /\ LongSalts \subseteq Salts
  /\ {MaxRevisions, MaxGranted, MaxDecided, MaxEdits} \subseteq Nat

VARIABLES
  store,      \* the ownership records the organization holds
  revisions,  \* history: every one there was
  granted,    \* what credentials claim, in the order they were issued
  decided,    \* history: the decisions as they were made
  tape,       \* the decision stream
  checkpoint, \* the latest one signed
  written,    \* the stored log
  edits

ledgers == <<store, revisions>>
evidence == <<decided, tape, checkpoint, written, edits>>
accountabilityVars == <<ledgers, granted, evidence>>

-------------------------------------------------------------------------------
Normalized(roster) == ToSet(roster)   \* sort_unstable, dedup

OwnershipRecord(party, version, roster, salt) ==
  [party |-> party, version |-> version, members |-> Normalized(roster), salt |-> salt]

\* What travels.  SHA-256 over all of it, each field with its length.
PartyCommitment(o) == <<o.party, o.version, o.salt, o.members>>
Matches(o, commitment) == PartyCommitment(o) = commitment

Latest(party) == Cardinality({o \in revisions : o.party = party})

\* A party's next revision; erasure takes one out of the store for good.
Revise(party, roster, salt) ==
  /\ salt \in LongSalts /\ Cardinality(revisions) < MaxRevisions
  /\ LET o == OwnershipRecord(party, Latest(party) + 1, roster, salt) IN
     /\ store' = store \cup {o} /\ revisions' = revisions \cup {o}
  /\ UNCHANGED <<granted, evidence>>

Erase(o) ==
  /\ store' = store \ {o}
  /\ UNCHANGED <<revisions, granted, evidence>>

-------------------------------------------------------------------------------
\* The issuer names the party: by a revision it holds, or only by its name, if at all.
Named(party, source) ==
  [party |-> party, version |-> None, commitment |-> None, source |-> source]
ByRecord(o, source) ==
  [party |-> o.party, version |-> o.version, commitment |-> PartyCommitment(o), source |-> source]

Claims ==
  {Named(party, "asserted") : party \in Teams \cup {None}} \cup
  {ByRecord(o, source) : o \in {x \in store : x.version = Latest(x.party)},
                         source \in {"asserted", "policy"}}

Grant ==
  /\ Len(granted) < MaxGranted
  /\ \E claims \in Claims : granted' = Append(granted, claims)
  /\ UNCHANGED <<ledgers, evidence>>

-------------------------------------------------------------------------------
\* from_token, as the Python runtime calls it: with the signal of the exception.
Decision(error, vc) ==
  [decision |-> IF error = None THEN "allow" ELSE "deny", reason |-> error,
   signals |-> IF error = None THEN {} ELSE {AdrSignalFor(ClassOf(error))},
   vc |-> vc, action |-> None, evaluation |-> None, admission |-> None,
   party |-> None, version |-> None, commitment |-> None, source |-> None]

\* deny: no token could be read.
Deny(signal) == [Decision(None, None) EXCEPT !.decision = "deny", !.signals = {signal}]

WithAction(d) == [d EXCEPT !.action = "tool"]
WithAccountability(d, claims) ==
  [d EXCEPT !.party = claims.party, !.version = claims.version,
            !.commitment = claims.commitment, !.source = claims.source]
WithVerdicts(d, evaluation, admission) ==
  [d EXCEPT !.evaluation = evaluation, !.admission = admission]

\* Faulty: the digest of before 2026-08-07, which left out who answers.
DigestV1(d) ==
  [d EXCEPT !.party = None, !.source = None, !.version = None, !.commitment = None,
            !.evaluation = None, !.admission = None]

\* Everything but the sequence number; no action is the empty one.
Digest(d) == [d EXCEPT !.action = IF @ = None THEN "" ELSE @]

\* How an execution-time gate came out: there was none, its evidence was refused,
\* was good but spent, or was relied on.
Verdicts == {<<None, None>>, <<"deny", None>>, <<"allow", "deny">>, <<"allow", "allow">>}

Outcomes ==
  {Deny("signature_invalid")} \cup
  UNION {{WithVerdicts(WithAccountability(WithAction(Decision(error, vc)), granted[vc]), v[1], v[2]) :
            error \in IF v = <<None, None>> THEN Failures \cup {None}
                      ELSE IF v[2] = "allow" THEN {None} ELSE {"ActionDenied"}} :
         vc \in DOMAIN granted, v \in Verdicts}

Record ==
  /\ Len(decided) < MaxDecided /\ edits = 0
  /\ \E d \in Outcomes :
       /\ decided' = Append(decided, d) /\ written' = Append(written, d)
       /\ tape' = Recorded(tape, Digest(d))
  /\ checkpoint' = SignCheckpoint(tape', Auditee)
  /\ UNCHANGED <<ledgers, granted, edits>>

\* Whoever can write to the log: a field of a record, or records in another order.
Domain(field) ==
  CASE field = "party"      -> Teams \cup {None}
    [] field = "version"    -> (1..MaxRevisions) \cup {None}
    [] field = "commitment" -> {PartyCommitment(o) : o \in revisions} \cup {None}
    [] field = "source"     -> {"asserted", "policy", None}
    [] field = "decision"   -> {"allow", "deny"}
    [] field = "action"     -> {"", "tool", None}
    [] field \in {"evaluation", "admission"} -> {"allow", "deny", None}

Edit ==
  /\ written # <<>> /\ edits < MaxEdits /\ edits' = edits + 1
  /\ \/ \E i \in DOMAIN written, field \in {"party", "version", "commitment", "source",
                                            "decision", "action", "evaluation", "admission"} :
          \E value \in Domain(field) : written' = [written EXCEPT ![i][field] = value]
     \/ written' = Reverse(written)
     \/ \E i \in DOMAIN written : written' = RemoveAt(written, i)
  /\ UNCHANGED <<ledgers, granted, decided, tape, checkpoint>>

AccountabilityInit ==
  /\ store = {} /\ revisions = {} /\ granted = <<>>
  /\ decided = <<>> /\ tape = NewStream /\ checkpoint = None /\ written = <<>> /\ edits = 0

AccountabilityNext ==
  \/ \E party \in Teams, roster \in Rosters, salt \in Salts : Revise(party, roster, salt)
  \/ \E o \in store : Erase(o)
  \/ Grant \/ Record \/ Edit

AccountabilitySpec ==
  AccountabilityInit /\ [][AccountabilityNext]_accountabilityVars

-------------------------------------------------------------------------------
\* What an auditor can take for the log of the anchor: it replays to a checkpoint.
Chained(log) ==
  /\ checkpoint # None /\ CheckpointVerifies(checkpoint, Auditee)
  /\ checkpoint.count = Len(log)
  /\ checkpoint.head =
       Replay([i \in DOMAIN log |-> [seq |-> i - 1, digest |-> Digest(log[i])]])

ClaimsOf(d) ==
  [party |-> d.party, version |-> d.version, commitment |-> d.commitment, source |-> d.source]

Answer(d) ==
  <<d.party, d.version, d.commitment, d.source, d.decision, d.evaluation, d.admission>>

\* Anything that could be produced as an ownership record.
Producible ==
  {OwnershipRecord(party, version, roster, salt) :
     party \in Teams, version \in 1..MaxRevisions, roster \in Rosters, salt \in Salts}

\* Whatever was edited since and however the organization changed: a log that replays
\* to a signed checkpoint says of each decision who answered, on what basis and with
\* which verdicts, as it was decided and as the credential was issued; and the only
\* record that matches is the revision of then, which does if it was not erased.
AnswersAreAsIssued ==
  Chained(written) =>
    \A i \in DOMAIN written :
      LET d == written[i] IN
      /\ Answer(d) = Answer(decided[i])
      /\ d.vc # None => ClaimsOf(d) = granted[d.vc]
      /\ d.commitment # None =>
           /\ \A o \in Producible : Matches(o, d.commitment) =>
                o \in revisions /\ o.party = d.party /\ o.version = d.version
           /\ \A o \in store, roster \in Rosters :
                /\ o.party = d.party /\ o.version = d.version
                /\ ToSet(roster) = o.members
                => Matches(OwnershipRecord(o.party, o.version, roster, o.salt), d.commitment)

\* The signal of a record is the one the core gives its error.
SignalsMirror == \A d \in ToSet(decided) : d.reason # None => d.signals = {SignalFrom(d.reason)}

\* The Python and the Node runtime refuse with one code.
CodesMirror ==
  \A d \in ToSet(decided) : d.reason # None =>
    ClassifyException(ClassOf(d.reason)) = ClassifyError(ClassOf(d.reason))

\* No edit of a log goes unnoticed.
EditsAreNoticed == Chained(written) => written = decided
===============================================================================
