------------------------------ MODULE FetchCache ------------------------------
(***************************************************************************)
(* FetchCache of agentcreds-runtime: how a relying party keeps the signed  *)
(* artifacts it enforces by (key histories, the approver directory, the    *)
(* trust registry) current, when any number of request threads and a       *)
(* background thread fetch, verify and admit them at once.                 *)
(*                                                                         *)
(* Verification runs outside the lock; reading, admitting and recording    *)
(* are one step each, as each holds the lock once.  Time is its events:    *)
(* the TTL of a held artifact runs out, the sealed expiry of an artifact   *)
(* passes.                                                                 *)
(***************************************************************************)
EXTENDS Integers, FiniteSets

CONSTANTS
  Keys,        \* the pinned issuers
  Sources,     \* those with a URL to fetch from
  Configured,  \* the documents deployments seed their caches with
  Threads,
  MaxVersion, MaxSeals,  \* bounds of what the issuers publish
  Heartbeat,   \* the issuers re-seal before their newest artifact lapses
  None         \* Python's None

\* What anybody could serve under a URL: genuine or not.  Content is fixed by
\* the version; an issuer may seal one version again, with a later expiry.
Document == [key: Keys, version: 1..MaxVersion, seal: 1..MaxSeals]

ASSUME FetchCacheAssumption ==
  /\ Sources \subseteq Keys
  /\ MaxVersion \in Nat /\ MaxSeals \in Nat
  /\ Heartbeat \in BOOLEAN
  /\ None \notin Document \cup Keys
  /\ Configured \subseteq Document

VARIABLES
  sealed,      \* the documents the issuers signed
  lapsed,      \* those whose sealed expiry has passed
  held,        \* _held: the verified artifact of each source
  fresh,       \* whether it was admitted less than a TTL ago
  fetchedOk,   \* _stats: whether a fetch has ever succeeded
  threads      \* the calls in progress

issuers == <<sealed, lapsed>>
store == <<held, fresh, fetchedOk>>
cacheVars == <<issuers, store, threads>>

Ops == {"get", "refresh", "seed"}
Stages == {"idle", "fetch", "verify", "admit", "succeeded", "failed", "read", "done"}

\* floor is history: what was held when the call began.
Thread == [pc: Stages, op: Ops, key: Keys \cup {None}, doc: Document \cup {None},
           floor: Document \cup {None}, result: Document \cup {None}]

-------------------------------------------------------------------------------
(***************************************************************************)
(* The issuers, and time.                                                  *)
(***************************************************************************)
\* d supersedes e: a later version, or a later seal of the same one.
Supersedes(d, e) ==
  \/ d.version > e.version
  \/ d.version = e.version /\ d.seal > e.seal

SealedFor(k) == {d \in sealed : d.key = k}

Publish(d) ==
  /\ \A e \in SealedFor(d.key) : Supersedes(d, e)
  /\ sealed' = sealed \cup {d}
  /\ UNCHANGED <<lapsed, store, threads>>

Lapse(d) ==
  /\ d \in sealed \ lapsed
  /\ Heartbeat => \E e \in SealedFor(d.key) \ lapsed : Supersedes(e, d)
  /\ lapsed' = lapsed \cup {d}
  /\ UNCHANGED <<sealed, store, threads>>

\* Faulty: a held artifact never counts as stale.
NeverAges(k) == FALSE

Ages(k) == fresh[k]

TtlPasses(k) ==
  /\ Ages(k)
  /\ fresh' = [fresh EXCEPT ![k] = FALSE]
  /\ UNCHANGED <<issuers, held, fetchedOk, threads>>

-------------------------------------------------------------------------------
(***************************************************************************)
(* The cache.                                                              *)
(***************************************************************************)
Step(t, changes) == threads' = [threads EXCEPT ![t] = changes]
To(t, stage) == Step(t, [threads[t] EXCEPT !.pc = stage])

Call(op, k, doc, stage) ==
  [pc |-> stage, op |-> op, key |-> k, doc |-> doc, result |-> None,
   floor |-> IF op = "get" THEN held[k] ELSE None]

\* A fresh artifact is returned at once; the loop of refresh_all skips it.
Get(t, k) ==
  /\ threads[t].pc = "idle"
  /\ IF held[k] # None /\ fresh[k]
       THEN Step(t, [Call("get", k, None, "done") EXCEPT !.result = held[k]])
       ELSE Step(t, Call("get", k, None, "fetch"))
  /\ UNCHANGED <<issuers, store>>

Refresh(t, k) ==
  /\ threads[t].pc = "idle"
  /\ Step(t, Call("refresh", k, None, "fetch"))
  /\ UNCHANGED <<issuers, store>>

Seed(t, k, d) ==
  /\ threads[t].pc = "idle"
  /\ Step(t, Call("seed", k, d, "verify"))
  /\ UNCHANGED <<issuers, store>>

\* What refresh returns to: get reads the store again, the others are done.
Return(t) == IF threads[t].op = "get" THEN "read" ELSE "done"

\* The endpoint may be down, or serve whatever it likes.
Fetch(t) ==
  /\ threads[t].pc = "fetch"
  /\ \/ threads[t].key \notin Sources /\ To(t, Return(t))
     \/ threads[t].key \in Sources /\ To(t, "failed")
     \/ /\ threads[t].key \in Sources
        /\ \E d \in Document : Step(t, [threads[t] EXCEPT !.pc = "verify", !.doc = d])
  /\ UNCHANGED <<issuers, store>>

\* _verify, gates 1 to 3: signed by the pinned issuer and not lapsed.
Verifies(k, d) == d \in sealed /\ d.key = k /\ d \notin lapsed

Verify(t) ==
  /\ threads[t].pc = "verify"
  /\ To(t, IF Verifies(threads[t].key, threads[t].doc) THEN "admit"
           ELSE IF threads[t].op = "seed" THEN "done" ELSE "failed")
  /\ UNCHANGED <<issuers, store>>

\* Faulty: gate 4 is missing.
AnyVersion(k, d) == TRUE

\* Gate 4: never back to an earlier version.
GoesForward(k, d) == held[k] # None => d.version >= held[k].version

\* _admit, under the lock.
Admit(t) ==
  LET k == threads[t].key
      d == threads[t].doc
  IN
  /\ threads[t].pc = "admit"
  /\ IF GoesForward(k, d)
       THEN /\ held' = [held EXCEPT ![k] = d]
            /\ fresh' = [fresh EXCEPT ![k] = TRUE]
            /\ To(t, IF threads[t].op = "seed" THEN "done" ELSE "succeeded")
       ELSE /\ UNCHANGED <<held, fresh>>
            /\ To(t, IF threads[t].op = "seed" THEN "done" ELSE "failed")
  /\ UNCHANGED <<issuers, fetchedOk>>

Recorded(t) == [fetchedOk EXCEPT ![threads[t].key] = TRUE]

RecordSuccess(t) ==
  /\ threads[t].pc = "succeeded"
  /\ fetchedOk' = Recorded(t)
  /\ To(t, Return(t))
  /\ UNCHANGED <<issuers, held, fresh>>

\* Failures are counted and logged, and change nothing the cache serves.
RecordFailure(t) ==
  /\ threads[t].pc = "failed"
  /\ To(t, Return(t))
  /\ UNCHANGED <<issuers, store>>

\* Faulty: the fetched document is returned, admitted or not.
Fetched(t) == IF threads[t].doc # None THEN threads[t].doc ELSE held[threads[t].key]

Served(t) == held[threads[t].key]

ReadBack(t) ==
  /\ threads[t].pc = "read"
  /\ Step(t, [threads[t] EXCEPT !.pc = "done", !.result = Served(t)])
  /\ UNCHANGED <<issuers, store>>

Resting == [pc |-> "idle", op |-> "get", key |-> None, doc |-> None,
            floor |-> None, result |-> None]

\* The caller has its answer; the thread may serve another call.
Leave(t) ==
  /\ threads[t].pc = "done"
  /\ Step(t, Resting)
  /\ UNCHANGED <<issuers, store>>

Advance(t) ==
  Fetch(t) \/ Verify(t) \/ Admit(t) \/ RecordSuccess(t) \/ RecordFailure(t) \/ ReadBack(t)

Request(t) ==
  \/ \E k \in Keys : Get(t, k) \/ Refresh(t, k)
  \/ \E k \in Keys, d \in Configured : Seed(t, k, d)

World ==
  \/ \E d \in Document : Publish(d) \/ Lapse(d)
  \/ \E k \in Keys : TtlPasses(k)

Init ==
  /\ sealed = {}
  /\ lapsed = {}
  /\ held = [k \in Keys |-> None]
  /\ fresh = [k \in Keys |-> FALSE]
  /\ fetchedOk = [k \in Keys |-> FALSE]
  /\ threads = [t \in Threads |-> Resting]

Next == World \/ \E t \in Threads : Request(t) \/ Advance(t) \/ Leave(t)

CacheSpec == Init /\ [][Next]_cacheVars

\* The endpoint is up and serves the newest seal the issuer published.
HonestFetch(t) ==
  /\ threads[t].pc = "fetch"
  /\ \E d \in SealedFor(threads[t].key) :
       /\ \A e \in SealedFor(d.key) : e = d \/ Supersedes(d, e)
       /\ Step(t, [threads[t] EXCEPT !.pc = "verify", !.doc = d])
  /\ UNCHANGED <<issuers, store>>

\* Threads run; a thread works through its sources again and again, as
\* refresh_all does; the TTL passes; an endpoint asked often enough answers.
Fairness ==
  /\ \A t \in Threads :
       /\ WF_cacheVars(Advance(t)) /\ WF_cacheVars(Leave(t))
       /\ \A k \in Sources : /\ SF_cacheVars(Get(t, k))
                             /\ SF_cacheVars(HonestFetch(t) /\ threads[t].key = k)
  /\ \A k \in Keys : WF_cacheVars(TtlPasses(k))

FairSpec == CacheSpec /\ Fairness

-------------------------------------------------------------------------------
TypeOK ==
  /\ sealed \subseteq Document
  /\ lapsed \subseteq sealed
  /\ held \in [Keys -> Document \cup {None}]
  /\ fresh \in [Keys -> BOOLEAN]
  /\ fetchedOk \in [Keys -> BOOLEAN]
  /\ threads \in [Threads -> Thread]

(***************************************************************************)
(* "Verified against the DID the operator pinned, not one the fetched      *)
(* document names for itself": whatever endpoints serve and however the    *)
(* verification of one thread interleaves with the admission of another,   *)
(* what is held was sealed by the pinned issuer.                           *)
(***************************************************************************)
HeldIsGenuine == \A k \in Keys : held[k] # None => held[k] \in SealedFor(k)

(***************************************************************************)
(* "A fetched artifact may not go backwards in version", and a failed      *)
(* fetch never loses the last verified artifact.                           *)
(***************************************************************************)
NeverRollsBack ==
  [][\A k \in Keys : held[k] # None =>
       held'[k] # None /\ held'[k].version >= held[k].version]_cacheVars

(***************************************************************************)
(* A request is answered with what its own issuer sealed, and never with   *)
(* less than was held when it was made: once a withdrawal is admitted, no  *)
(* later call misses it.                                                   *)
(***************************************************************************)
ReadsSeeAdmitted ==
  \A t \in Threads : LET call == threads[t] IN
    call.pc = "done" /\ call.op = "get" =>
      /\ call.result # None => call.result \in SealedFor(call.key)
      /\ call.floor # None =>
           call.result # None /\ call.result.version >= call.floor.version

(***************************************************************************)
(* fetched_ok "is the field to alert on": while it is false, what is held  *)
(* came from configuration, or its fetch is just being recorded.           *)
(***************************************************************************)
SeedOnlyIsVisible ==
  \A k \in Keys : held[k] # None /\ ~fetchedOk[k] =>
    \/ held[k] \in Configured
    \/ \E t \in Threads : threads[t].pc = "succeeded" /\ threads[t].key = k

(***************************************************************************)
(* What an issuer publishes (a repudiation, an offboarding) takes effect:  *)
(* in time every source that can be fetched holds that version or a later. *)
(***************************************************************************)
UpdatesConverge ==
  \A k \in Sources, v \in 1..MaxVersion :
    (\E d \in SealedFor(k) : d.version = v)
      ~> (held[k] # None /\ held[k].version >= v)
===============================================================================
