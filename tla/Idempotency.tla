----------------------------- MODULE Idempotency -----------------------------
(***************************************************************************)
(* idempotent of agentcreds-runtime: a tool handler whose deliveries, on   *)
(* several threads or replicas, share a store of claims and results.       *)
(*                                                                         *)
(* A delivery is one call of the decorated handler: an authorized request, *)
(* and a retry or a resend of it is another delivery of the same           *)
(* operation.  Each access to the store and the run of the handler are     *)
(* steps; the in-process store holds a lock, Redis only orders single      *)
(* commands.  A TTL is the event that an entry lapses.                     *)
(***************************************************************************)
EXTENDS FiniteSets, Naturals

CONSTANTS
  Deliveries,       \* the calls of the handler
  Operations,       \* what the callers mean to do, and their key for it
  Keyed,            \* may a caller supply a key: a set of booleans
  Deployments,      \* how a handler may be deployed
  Breaks,           \* may an access to the store fail
  LapsesWhileHeld,  \* may a claim lapse before its handler is through
  ResultForms,      \* what a handler may return: "text" or "object"
  None              \* Python's None

\* The store, require_key, fall_back_to_decision, and whether the enforcer
\* records its decisions.
Deployment == [store: {"memory", "redis"}, requireKey: BOOLEAN, fallBack: BOOLEAN,
               recorded: BOOLEAN]

\* An operation's own key, or the id of a delivery's decision record.
Key == ({"caller"} \X Operations) \cup ({"decision"} \X Deliveries)

Entry == [by: Deliveries, done: BOOLEAN, form: {"text"}]

ASSUME IdempotencyAssumption ==
  /\ Keyed \subseteq BOOLEAN
  /\ {Breaks, LapsesWhileHeld} \subseteq BOOLEAN
  /\ Deployments \subseteq Deployment
  /\ ResultForms \subseteq {"text", "object"}
  /\ None \notin Operations \cup Deliveries \cup Key \cup Entry

VARIABLES
  deployment, \* how this handler is deployed
  entries,    \* the store
  calls,      \* the wrapper's invocations
  effects,    \* history: the deliveries that took effect
  returned    \* history: those that returned, by key, since the store forgot it

vars == <<deployment, entries, calls, effects, returned>>

Idle == [pc |-> "idle", op |-> None, key |-> None, answer |-> None]

\* The states in which the wrapper still has to settle its claim.
Holding == {"running", "complete", "abandon", "drop"}

-------------------------------------------------------------------------------
(***************************************************************************)
(* Keys.  The enforcer mints a record for every permit it returns, so two  *)
(* deliveries of one authorization have two.                               *)
(***************************************************************************)
RecordId(d) == IF deployment.recorded THEN d ELSE None

KeyOf(d, op, keyed) ==
  IF keyed THEN <<"caller", op>>
  ELSE IF deployment.fallBack /\ RecordId(d) # None
    THEN <<"decision", RecordId(d)>>
  ELSE None

-------------------------------------------------------------------------------
(***************************************************************************)
(* The store.                                                              *)
(***************************************************************************)
\* Faulty: only a result keeps a second delivery out.
FreeUnlessDone(k) == ~(entries[k] # None /\ entries[k].done)

Free(k) == entries[k] = None

Finished(entry) == entry.done

InFlight(k) == entries[k] # None /\ ~Finished(entries[k])

Put(k, entry) == entries' = [entries EXCEPT ![k] = entry]

Claim(d) == [by |-> d, done |-> FALSE, form |-> "text"]

\* The store keeps str(result).
Rendered(form) == "text"

\* Faulty: the claim is released after a success as after a failure.
Dropped(d, form) == None

Result(d, form) == [by |-> d, done |-> TRUE, form |-> Rendered(form)]

Become(d, call) == calls' = [calls EXCEPT ![d] = call]
Goto(d, pc) == Become(d, [calls[d] EXCEPT !.pc = pc])
Answer(d, by, form) ==
  Become(d, [calls[d] EXCEPT !.pc = "answered", !.answer = [by |-> by, form |-> form]])

-------------------------------------------------------------------------------
(***************************************************************************)
(* The wrapper.                                                            *)
(***************************************************************************)
Arrive(d, op, keyed) ==
  LET key == KeyOf(d, op, keyed) IN
  /\ calls[d].pc = "idle"
  /\ Become(d, [calls[d] EXCEPT !.op = op, !.key = key,
                  !.pc = IF key # None THEN "begin"
                         ELSE IF deployment.requireKey THEN "refused" ELSE "running"])
  /\ UNCHANGED <<deployment, entries, effects, returned>>

\* What the entry of another delivery tells this one.
Read(d) ==
  LET entry == entries[calls[d].key] IN
  IF Finished(entry) THEN Answer(d, entry.by, entry.form) ELSE Goto(d, "conflict")

\* begin, in Redis up to the SET NX.
Begin(d) ==
  LET k == calls[d].key IN
  /\ calls[d].pc = "begin"
  /\ \/ Free(k) /\ Put(k, Claim(d)) /\ Goto(d, "running")
     \/ ~Free(k) /\ deployment.store = "memory" /\ Read(d) /\ UNCHANGED entries
     \/ ~Free(k) /\ deployment.store = "redis" /\ Goto(d, "peek") /\ UNCHANGED entries
  /\ UNCHANGED <<deployment, effects, returned>>

\* The GET after a lost SET NX: an entry that lapsed in between starts over.
Peek(d) ==
  /\ calls[d].pc = "peek"
  /\ IF entries[calls[d].key] = None THEN Goto(d, "begin") ELSE Read(d)
  /\ UNCHANGED <<deployment, entries, effects, returned>>

\* The handler returns: an unkeyed call answers at once.
Return(d, form) ==
  LET k == calls[d].key IN
  /\ calls[d].pc = "running"
  /\ effects' = effects \cup {d}
  /\ \/ /\ k = None
        /\ Answer(d, d, form)
        /\ UNCHANGED returned
     \/ /\ k # None
        /\ Become(d, [calls[d] EXCEPT !.pc = "complete", !.answer = [by |-> d, form |-> form]])
        /\ returned' = [returned EXCEPT ![k] = @ \cup {d}]
  /\ UNCHANGED <<deployment, entries>>

\* The handler raises, before its effect or after it.
Raise(d) ==
  /\ calls[d].pc = "running"
  /\ effects' \in {effects, effects \cup {d}}
  /\ Goto(d, IF calls[d].key = None THEN "failed" ELSE "abandon")
  /\ UNCHANGED <<deployment, entries, returned>>

Complete(d) ==
  /\ calls[d].pc = "complete"
  /\ Put(calls[d].key, Result(d, calls[d].answer.form))
  /\ Goto(d, "answered")
  /\ UNCHANGED <<deployment, effects, returned>>

\* abandon: in Redis a GET, then a DELETE; neither asks whose claim it is.
Abandon(d) ==
  LET k == calls[d].key IN
  /\ calls[d].pc = "abandon"
  /\ \/ ~InFlight(k) /\ Goto(d, "failed") /\ UNCHANGED entries
     \/ InFlight(k) /\ deployment.store = "memory" /\ Put(k, None) /\ Goto(d, "failed")
     \/ InFlight(k) /\ deployment.store = "redis" /\ Goto(d, "drop") /\ UNCHANGED entries
  /\ UNCHANGED <<deployment, effects, returned>>

Drop(d) ==
  /\ calls[d].pc = "drop"
  /\ Put(calls[d].key, None)
  /\ Goto(d, "failed")
  /\ UNCHANGED <<deployment, effects, returned>>

\* The store raises: a claim already made stays as it is until it lapses.
StoreFails(d) ==
  /\ Breaks
  /\ calls[d].pc \in {"begin", "peek", "complete", "abandon", "drop"}
  /\ Become(d, [calls[d] EXCEPT !.pc = "error", !.answer = None])
  /\ UNCHANGED <<deployment, entries, effects, returned>>

\* Faulty: a claim is set without its TTL.
ResultsOnly(k) == Finished(entries[k])

MayLapse(k) == LapsesWhileHeld \/ calls[entries[k].by].pc \notin Holding

\* The TTL of an entry passes.
Lapse(k) ==
  /\ entries[k] # None
  /\ MayLapse(k)
  /\ Put(k, None)
  /\ returned' = [returned EXCEPT ![k] = {}]
  /\ UNCHANGED <<deployment, calls, effects>>

Init ==
  /\ deployment \in Deployments
  /\ entries = [k \in Key |-> None]
  /\ calls = [d \in Deliveries |-> Idle]
  /\ effects = {}
  /\ returned = [k \in Key |-> {}]

\* What the wrapper does by itself once a delivery has arrived.
Proceed(d) ==
  \/ Begin(d)
  \/ Peek(d)
  \/ \E form \in ResultForms : Return(d, form)
  \/ Raise(d)
  \/ Complete(d)
  \/ Abandon(d)
  \/ Drop(d)
  \/ StoreFails(d)

Next ==
  \/ \E d \in Deliveries :
       \/ \E op \in Operations, keyed \in Keyed : Arrive(d, op, keyed)
       \/ Proceed(d)
  \/ \E k \in Key : Lapse(k)

Spec == Init /\ [][Next]_vars

\* A handler that runs ends, a thread goes on, and a TTL passes.
FairSpec ==
  /\ Spec
  /\ \A d \in Deliveries : WF_vars(Proceed(d))
  /\ \A k \in Key : WF_vars(Lapse(k))

-------------------------------------------------------------------------------
(***************************************************************************)
(* Properties.                                                             *)
(***************************************************************************)
\* The store holds claims and results in text, under keys of this handler.
TypeOK ==
  /\ deployment \in Deployments
  /\ entries \in [Key -> Entry \cup {None}]
  /\ calls \in [Deliveries -> [pc: {"idle", "begin", "peek", "running", "complete", "abandon",
                                    "drop", "answered", "conflict", "failed", "refused", "error"},
                               op: Operations \cup {None}, key: Key \cup {None},
                               answer: [by: Deliveries, form: {"text", "object"}] \cup {None}]]
  /\ effects \subseteq Deliveries
  /\ returned \in [Key -> SUBSET Deliveries]

\* begin: "a concurrent duplicate can be told the operation is in flight
\* rather than being allowed to execute a second time".
OneRunning ==
  \A d, e \in Deliveries :
    /\ calls[d].key # None /\ calls[d].key = calls[e].key
    /\ calls[d].pc \in {"running", "complete"} /\ calls[e].pc \in {"running", "complete"}
    => d = e

\* Until the TTL forgets it, a key whose handler returned never runs again,
\* even when the result could not be recorded.
ReturnedOnce ==
  \A k \in Key : returned[k] # {} =>
    /\ Cardinality(returned[k]) = 1
    /\ \A d \in Deliveries : calls[d].key = k => calls[d].pc # "running"

\* A duplicate is answered with the result of a run of its own operation that
\* returned; "returning success would be a lie" while that run may still fail.
AnswersAreReal ==
  \A d \in Deliveries : calls[d].answer # None =>
    LET by == calls[d].answer.by IN
    /\ by \in effects
    /\ calls[by].op = calls[d].op
    /\ calls[by].pc \in {"complete", "answered", "error"}

\* A failed attempt, or one whose result was lost, does not wedge its key.
ClaimsReleased ==
  \A k \in Key : InFlight(k) ~> ~InFlight(k)

\* "A caller that retries with the same idempotency_key gets the first result
\* back": the answer its first delivery was given.
FirstResultBack ==
  \A d \in Deliveries : calls[d].pc = "answered" =>
    LET first == calls[calls[d].answer.by] IN
    first.pc = "answered" => calls[d].answer = first.answer

\* "A retry that re-presents the same authorization arrives under the same
\* record id and is suppressed": without a caller's key it runs once.
NoBlindRetry ==
  \A d, e \in Deliveries :
    /\ calls[d].op # None /\ calls[d].op = calls[e].op
    /\ calls[d].pc = "answered" /\ calls[e].pc = "answered"
    => calls[d].answer.by = calls[e].answer.by
===============================================================================
