------------------------- MODULE TrustRegistryProofs -------------------------
(***************************************************************************)
(* Proofs about FetchCache and TrustRegistryCache: nothing an endpoint     *)
(* serves and no interleaving of threads makes the cache hold what the     *)
(* pinned issuer did not seal, or go back; a request sees at least what    *)
(* was held when it was made; and so does the registry derived from it,    *)
(* although the memo it is taken from is written without a lock.           *)
(***************************************************************************)
EXTENDS TrustRegistryCache, TLAPS

Underway(call) == call.pc \notin {"idle", "done"}

AtLeastAsNew(d, e) == e # None => d # None /\ d.version >= e.version

\* What a call has in hand: a document it verified is its issuer's; what it will
\* read back is no older than what was held when it began.
Sound(call) ==
  /\ call.pc # "idle" => call.key \in Keys
  /\ call.pc \in {"verify", "admit"} => call.doc \in Document
  /\ call.pc = "admit" => call.doc \in SealedFor(call.key)
  /\ call.op = "get" /\ Underway(call) => AtLeastAsNew(held[call.key], call.floor)
  /\ call.op = "get" /\ call.pc = "done" =>
       /\ call.result # None => call.result \in SealedFor(call.key)
       /\ AtLeastAsNew(call.result, call.floor)

CacheInv == TypeOK /\ HeldIsGenuine /\ \A t \in Threads : Sound(threads[t])

\* What is held is never lost and never goes back.
HeldForward == \A k \in Keys : AtLeastAsNew(held'[k], held[k])

\* A request for the registry that waits for the cache is that thread's get; the
\* config it was given, and what it is answered with, are as new as its floor.
RequestOK(t) ==
  /\ requests[t].pc = "config" =>
       /\ requests[t].key \in Keys
       /\ threads[t].pc # "idle" /\ threads[t].op = "get"
       /\ threads[t].floor = requests[t].floor
  /\ requests[t].pc \in {"memo", "build", "store"} =>
       /\ requests[t].key \in Keys
       /\ requests[t].config \in Document
       /\ AtLeastAsNew(requests[t].config, requests[t].floor)
  /\ requests[t].registry # None =>
       AtLeastAsNew(requests[t].registry, requests[t].floor)
  /\ requests[t].pc # "done" => requests[t].registry = None

RegistryInv == RegistryTypeOK /\ \A t \in Threads : RequestOK(t)

-------------------------------------------------------------------------------
(***************************************************************************)
(* The cache.                                                              *)
(***************************************************************************)
LEMMA Outside == None \notin Document /\ None \notin Keys
BY FetchCacheAssumption

LEMMA DocumentTyped ==
  ASSUME NEW d \in Document
  PROVE  d.key \in Keys /\ d.version \in Nat /\ d.seal \in Nat
BY FetchCacheAssumption DEF Document

LEMMA NewerTransitive ==
  ASSUME NEW a \in Document \cup {None}, NEW b \in Document \cup {None},
         NEW c \in Document \cup {None}, AtLeastAsNew(a, b), AtLeastAsNew(b, c)
  PROVE  AtLeastAsNew(a, c)
BY DocumentTyped, Outside DEF AtLeastAsNew

LEMMA NewerReflexive ==
  ASSUME NEW a \in Document \cup {None}
  PROVE  AtLeastAsNew(a, a)
BY DocumentTyped, Outside DEF AtLeastAsNew

\* What is known of a call stays known while the store and the issuers move on.
LEMMA SoundKept ==
  ASSUME TypeOK, held' \in [Keys -> Document \cup {None}], HeldForward,
         sealed \subseteq sealed', NEW call \in Thread, Sound(call)
  PROVE  Sound(call)'
<1>1. \A k \in Keys : SealedFor(k) \subseteq SealedFor(k)'
  BY DEF SealedFor
<1>2. ASSUME call.op = "get", Underway(call) PROVE AtLeastAsNew(held'[call.key], call.floor)
  <2>1. call.key \in Keys /\ call.floor \in Document \cup {None}
    BY <1>2 DEF Sound, Underway, Thread
  <2>2. AtLeastAsNew(held[call.key], call.floor) /\ AtLeastAsNew(held'[call.key], held[call.key])
    BY <1>2, <2>1 DEF Sound, HeldForward
  <2>3. held[call.key] \in Document \cup {None} /\ held'[call.key] \in Document \cup {None}
    BY <2>1 DEF TypeOK
  <2> QED
    BY <2>1, <2>2, <2>3, NewerTransitive
<1>3. call.pc \in {"admit", "done"} => call.key \in Keys
  BY DEF Sound
<1> QED
  BY <1>1, <1>2, <1>3 DEF Sound, Underway, AtLeastAsNew

LEMMA HeldStays ==
  ASSUME TypeOK, held' = held
  PROVE  held' \in [Keys -> Document \cup {None}] /\ HeldForward
BY NewerReflexive DEF TypeOK, HeldForward

\* A step of one thread that leaves the issuers alone.
LEMMA ThreadStep ==
  ASSUME CacheInv, NEW t \in Threads, NEW call \in Thread, Step(t, call),
         held' \in [Keys -> Document \cup {None}], HeldForward, HeldIsGenuine',
         fresh' \in [Keys -> BOOLEAN], fetchedOk' \in [Keys -> BOOLEAN],
         UNCHANGED issuers, Sound(call)'
  PROVE  CacheInv'
<1>1. /\ TypeOK /\ sealed' = sealed /\ lapsed' = lapsed /\ threads \in [Threads -> Thread]
      /\ threads' = [threads EXCEPT ![t] = call]
  BY DEF CacheInv, TypeOK, issuers, Step
<1>2. ASSUME NEW u \in Threads PROVE Sound(threads[u])'
  <2>1. CASE u = t
    BY <1>1, <2>1 DEF Sound, SealedFor, AtLeastAsNew, Underway
  <2>2. CASE u # t
    <3>1. PICK other \in Thread : other = threads[u] /\ Sound(other) /\ threads'[u] = other
      BY <1>1, <2>2 DEF CacheInv
    <3>2. Sound(other)'
      BY <1>1, <3>1, SoundKept
    <3> QED
      BY <3>1, <3>2
  <2> QED
    BY <2>1, <2>2
<1>3. TypeOK'
  BY <1>1 DEF TypeOK
<1> QED
  BY <1>2, <1>3 DEF CacheInv

LEMMA CallTyped ==
  ASSUME TypeOK, NEW op \in Ops, NEW k \in Keys, NEW doc \in Document \cup {None},
         NEW stage \in Stages
  PROVE  Call(op, k, doc, stage) \in Thread
BY DEF TypeOK, Call, Thread

LEMMA GetInv ==
  ASSUME CacheInv, NEW t \in Threads, NEW k \in Keys, Get(t, k)
  PROVE  CacheInv'
<1>1. TypeOK /\ HeldIsGenuine /\ held[k] \in Document \cup {None} /\ k # None
  BY Outside DEF CacheInv, TypeOK
<1>2. UNCHANGED <<sealed, lapsed, held, fresh, fetchedOk>>
  BY DEF Get, issuers, store
<1>3. \A call : Sound(call)' = Sound(call)
  BY <1>2 DEF Sound, SealedFor
<1>4. PICK call \in Thread : Step(t, call) /\ Sound(call)
  <2>1. CASE Step(t, [Call("get", k, None, "done") EXCEPT !.result = held[k]]) /\ held[k] # None
    <3> DEFINE call == [pc |-> "done", op |-> "get", key |-> k, doc |-> None,
                        floor |-> held[k], result |-> held[k]]
    <3>1. [Call("get", k, None, "done") EXCEPT !.result = held[k]] = call
      BY DEF Call
    <3>2. call \in Thread
      BY <1>1 DEF Thread, Stages, Ops
    <3>3. Sound(call)
      BY <1>1, <2>1, NewerReflexive DEF Sound, HeldIsGenuine, Underway
    <3> QED
      BY <2>1, <3>1, <3>2, <3>3
  <2>2. CASE Step(t, Call("get", k, None, "fetch"))
    <3>1. Call("get", k, None, "fetch") \in Thread
      BY <1>1, CallTyped DEF Ops, Stages
    <3>2. Sound(Call("get", k, None, "fetch"))
      BY <1>1, NewerReflexive DEF Sound, Call, Underway
    <3> QED
      BY <2>2, <3>1, <3>2
  <2> QED
    BY <2>1, <2>2 DEF Get
<1> QED
  BY <1>1, <1>2, <1>3, <1>4, HeldStays, ThreadStep DEF TypeOK, HeldIsGenuine, SealedFor, issuers

\* A thread's step that leaves the issuers and the store alone.
LEMMA QuietStep ==
  ASSUME CacheInv, NEW t \in Threads, NEW call \in Thread, Step(t, call), Sound(call),
         UNCHANGED <<issuers, store>>
  PROVE  CacheInv'
<1>1. /\ TypeOK /\ HeldIsGenuine
      /\ UNCHANGED <<sealed, lapsed, held, fresh, fetchedOk>>
  BY DEF CacheInv, issuers, store
<1>2. Sound(call)'
  BY <1>1 DEF Sound, SealedFor, AtLeastAsNew, Underway
<1> QED
  BY <1>1, <1>2, HeldStays, ThreadStep DEF TypeOK, HeldIsGenuine, SealedFor, issuers

LEMMA RequestInv ==
  ASSUME CacheInv, NEW t \in Threads, Request(t)
  PROVE  CacheInv'
<1>1. TypeOK
  BY DEF CacheInv
<1>2. ASSUME NEW k \in Keys, Refresh(t, k) PROVE CacheInv'
  <2> DEFINE call == Call("refresh", k, None, "fetch")
  <2>1. call \in Thread
    BY <1>1, CallTyped DEF Ops, Stages
  <2>2. Sound(call) /\ Step(t, call) /\ UNCHANGED <<issuers, store>>
    BY <1>2 DEF Sound, Call, Underway, Refresh
  <2> HIDE DEF call
  <2> QED
    BY <2>1, <2>2, QuietStep
<1>3. ASSUME NEW k \in Keys, NEW d \in Configured, Seed(t, k, d) PROVE CacheInv'
  <2> DEFINE call == Call("seed", k, d, "verify")
  <2>1. call \in Thread /\ d \in Document
    BY <1>1, CallTyped, FetchCacheAssumption DEF Ops, Stages
  <2>2. Sound(call) /\ Step(t, call) /\ UNCHANGED <<issuers, store>>
    BY <1>3, <2>1 DEF Sound, Call, Underway, Seed
  <2> HIDE DEF call
  <2> QED
    BY <2>1, <2>2, QuietStep
<1> QED
  BY <1>2, <1>3, GetInv DEF Request

\* A thread moves to another stage and keeps all it has.
LEMMA ToTyped ==
  ASSUME TypeOK, NEW t \in Threads, NEW stage \in Stages
  PROVE  LET next == [threads[t] EXCEPT !.pc = stage] IN
         /\ next \in Thread /\ next.pc = stage
         /\ next.op = threads[t].op /\ next.key = threads[t].key
         /\ next.doc = threads[t].doc /\ next.floor = threads[t].floor
         /\ next.result = threads[t].result
BY DEF TypeOK, Thread

\* Moving on is sound if the next stage has nothing more to show, or shows it.
LEMMA ToSound ==
  ASSUME CacheInv, NEW t \in Threads, NEW stage \in Stages \ {"idle"},
         Underway(threads[t]),
         stage = "verify" => threads[t].doc \in Document,
         stage = "admit" => threads[t].doc \in SealedFor(threads[t].key) \cap Document,
         stage = "done" => threads[t].op # "get"
  PROVE  [threads[t] EXCEPT !.pc = stage] \in Thread /\ Sound([threads[t] EXCEPT !.pc = stage])
<1> DEFINE next == [threads[t] EXCEPT !.pc = stage]
<1>1. /\ next \in Thread /\ next.pc = stage
      /\ next.op = threads[t].op /\ next.key = threads[t].key
      /\ next.doc = threads[t].doc /\ next.floor = threads[t].floor
      /\ next.result = threads[t].result /\ Sound(threads[t])
  BY ToTyped DEF CacheInv
<1> HIDE DEF next
<1>2. Sound(next)
  BY <1>1 DEF Sound, Underway
<1> QED
  BY <1>1, <1>2 DEF next

LEMMA FetchInv ==
  ASSUME CacheInv, NEW t \in Threads, Fetch(t)
  PROVE  CacheInv'
<1>1. /\ TypeOK /\ threads[t] \in Thread /\ threads[t].pc = "fetch" /\ Underway(threads[t])
      /\ UNCHANGED <<issuers, store>> /\ Sound(threads[t])
  BY DEF CacheInv, TypeOK, Fetch, Underway
<1>2. ASSUME NEW stage \in {"read", "done", "failed"}, stage = "done" => threads[t].op # "get",
             To(t, stage)
      PROVE  CacheInv'
  <2>1. stage \in Stages \ {"idle"}
    BY DEF Stages
  <2>2. [threads[t] EXCEPT !.pc = stage] \in Thread /\ Sound([threads[t] EXCEPT !.pc = stage])
    BY <1>1, <1>2, <2>1, ToSound
  <2> QED
    BY <1>1, <1>2, <2>2, QuietStep DEF To
<1>3. ASSUME NEW d \in Document, Step(t, [threads[t] EXCEPT !.pc = "verify", !.doc = d])
      PROVE  CacheInv'
  <2> DEFINE next == [threads[t] EXCEPT !.pc = "verify", !.doc = d]
  <2>1. /\ next \in Thread /\ next.pc = "verify" /\ next.op = threads[t].op
        /\ next.key = threads[t].key /\ next.doc = d /\ next.floor = threads[t].floor
    BY <1>1 DEF Thread, Stages
  <2> HIDE DEF next
  <2>2. Sound(next)
    BY <1>1, <2>1 DEF Sound, Underway
  <2> QED
    BY <1>1, <1>3, <2>1, <2>2, QuietStep DEF next
<1>4. /\ Return(t) \in {"read", "done", "failed"}
      /\ Return(t) = "done" => threads[t].op # "get"
  BY DEF Return
<1> QED
  BY <1>2, <1>3, <1>4 DEF Fetch

LEMMA VerifyInv ==
  ASSUME CacheInv, NEW t \in Threads, Verify(t)
  PROVE  CacheInv'
<1>1. /\ TypeOK /\ threads[t].pc = "verify" /\ Underway(threads[t])
      /\ UNCHANGED <<issuers, store>> /\ threads[t].doc \in Document
  BY DEF CacheInv, TypeOK, Verify, Underway, Sound
<1> DEFINE stage == IF Verifies(threads[t].key, threads[t].doc) THEN "admit"
                    ELSE IF threads[t].op = "seed" THEN "done" ELSE "failed"
<1>2. /\ To(t, stage) /\ stage \in Stages \ {"idle"} /\ stage # "verify"
      /\ stage = "done" => threads[t].op # "get"
      /\ stage = "admit" => threads[t].doc \in SealedFor(threads[t].key)
  BY DEF Verify, Stages, Verifies, SealedFor
<1> HIDE DEF stage
<1>3. [threads[t] EXCEPT !.pc = stage] \in Thread /\ Sound([threads[t] EXCEPT !.pc = stage])
  BY <1>1, <1>2, ToSound
<1> QED
  BY <1>1, <1>2, <1>3, QuietStep DEF To

LEMMA AdmitInv ==
  ASSUME CacheInv, NEW t \in Threads, Admit(t)
  PROVE  CacheInv' /\ HeldForward
<1> DEFINE k == threads[t].key
           d == threads[t].doc
<1>1. /\ TypeOK /\ HeldIsGenuine /\ threads[t].pc = "admit" /\ Underway(threads[t])
      /\ k \in Keys /\ d \in Document /\ d \in SealedFor(k)
      /\ UNCHANGED issuers /\ UNCHANGED fetchedOk
  BY DEF CacheInv, TypeOK, Admit, Underway, Sound
<1>2. ASSUME NEW stage \in {"done", "succeeded", "failed"},
             stage = "done" => threads[t].op # "get"
      PROVE  /\ [threads[t] EXCEPT !.pc = stage] \in Thread
             /\ Sound([threads[t] EXCEPT !.pc = stage])
  <2>1. stage \in Stages \ {"idle"}
    BY DEF Stages
  <2> QED
    BY <1>1, <1>2, <2>1, ToSound
<1>3. CASE GoesForward(k, d)
  <2>1. /\ held' = [held EXCEPT ![k] = d] /\ fresh' = [fresh EXCEPT ![k] = TRUE]
        /\ To(t, IF threads[t].op = "seed" THEN "done" ELSE "succeeded")
    BY <1>3 DEF Admit
  <2> HIDE DEF k, d
  <2>2. held' \in [Keys -> Document \cup {None}] /\ fresh' \in [Keys -> BOOLEAN]
    BY <1>1, <2>1 DEF TypeOK
  <2>3. HeldForward
    <3> SUFFICES ASSUME NEW q \in Keys PROVE AtLeastAsNew(held'[q], held[q])
      BY DEF HeldForward
    <3>1. CASE q = k
      BY <1>1, <1>3, <2>1, <3>1, Outside DEF AtLeastAsNew, GoesForward, TypeOK
    <3>2. CASE q # k
      BY <2>1, <3>2, NewerReflexive DEF TypeOK, CacheInv
    <3> QED
      BY <3>1, <3>2
  <2>4. HeldIsGenuine'
    BY <1>1, <2>1 DEF HeldIsGenuine, SealedFor, issuers, TypeOK
  <2>5. PICK stage \in {"done", "succeeded", "failed"} :
          To(t, stage) /\ (stage = "done" => threads[t].op # "get")
    BY <2>1
  <2>6. PICK next \in Thread : Sound(next) /\ Step(t, next)
    BY <1>2, <2>5 DEF To
  <2>7. Sound(next)'
    BY <1>1, <2>2, <2>3, <2>6, SoundKept DEF issuers
  <2> QED
    BY <1>1, <2>2, <2>3, <2>4, <2>6, <2>7, ThreadStep DEF TypeOK
<1>4. CASE ~GoesForward(k, d)
  <2>1. /\ UNCHANGED <<held, fresh>>
        /\ To(t, IF threads[t].op = "seed" THEN "done" ELSE "failed")
    BY <1>4 DEF Admit
  <2>2. UNCHANGED <<issuers, store>>
    BY <1>1, <2>1 DEF store
  <2>3. PICK stage \in {"done", "succeeded", "failed"} :
          To(t, stage) /\ (stage = "done" => threads[t].op # "get")
    BY <2>1
  <2> QED
    BY <1>1, <1>2, <2>1, <2>2, <2>3, QuietStep, HeldStays DEF To
<1> QED
  BY <1>3, <1>4

LEMMA RecordInv ==
  ASSUME CacheInv, NEW t \in Threads, RecordSuccess(t) \/ RecordFailure(t)
  PROVE  CacheInv'
<1>1. /\ TypeOK /\ HeldIsGenuine /\ Underway(threads[t]) /\ threads[t].key \in Keys
      /\ To(t, Return(t)) /\ UNCHANGED <<issuers, held, fresh>>
  BY DEF CacheInv, Underway, Sound, RecordSuccess, RecordFailure, store
<1>2. fetchedOk' \in [Keys -> BOOLEAN]
  BY <1>1 DEF TypeOK, RecordSuccess, RecordFailure, Recorded, store
<1>3. /\ Return(t) \in Stages \ {"idle"} /\ Return(t) \notin {"verify", "admit"}
      /\ Return(t) = "done" => threads[t].op # "get"
  BY DEF Return, Stages
<1>4. PICK next \in Thread : Step(t, next) /\ Sound(next)
  BY <1>1, <1>3, ToSound DEF To
<1>5. Sound(next)' /\ HeldIsGenuine' /\ HeldForward
  BY <1>1, <1>4, HeldStays DEF Sound, SealedFor, AtLeastAsNew, Underway, HeldIsGenuine, issuers
<1> QED
  BY <1>1, <1>2, <1>4, <1>5, ThreadStep DEF TypeOK

LEMMA ReadBackInv ==
  ASSUME CacheInv, NEW t \in Threads, ReadBack(t)
  PROVE  CacheInv'
<1>1. /\ TypeOK /\ HeldIsGenuine /\ threads[t] \in Thread /\ Sound(threads[t])
      /\ Underway(threads[t]) /\ threads[t].key \in Keys /\ UNCHANGED <<issuers, store>>
      /\ Step(t, [threads[t] EXCEPT !.pc = "done", !.result = held[threads[t].key]])
  BY DEF CacheInv, TypeOK, Underway, Sound, ReadBack, Served
<1> DEFINE next == [threads[t] EXCEPT !.pc = "done", !.result = held[threads[t].key]]
<1>2. /\ next \in Thread /\ next.pc = "done" /\ next.op = threads[t].op
      /\ next.key = threads[t].key /\ next.floor = threads[t].floor
      /\ next.result = held[threads[t].key]
  BY <1>1 DEF TypeOK, Thread, Stages
<1>3. Step(t, next)
  BY <1>1
<1> HIDE DEF next
<1>4. Sound(next)
  BY <1>1, <1>2 DEF Sound, Underway, HeldIsGenuine
<1> QED
  BY <1>1, <1>2, <1>3, <1>4, QuietStep

LEMMA LeaveInv ==
  ASSUME CacheInv, NEW t \in Threads, Leave(t)
  PROVE  CacheInv'
<1>1. Resting \in Thread /\ Sound(Resting)
  BY DEF Resting, Thread, Stages, Ops, Sound, Underway
<1> QED
  BY <1>1, QuietStep DEF Leave

\* The issuers publish, artifacts lapse, the TTL passes: no thread moves.
LEMMA WorldInv ==
  ASSUME CacheInv, World
  PROVE  CacheInv'
<1>1. /\ TypeOK /\ HeldIsGenuine /\ UNCHANGED <<held, threads>>
      /\ sealed \subseteq sealed' /\ sealed' \subseteq Document /\ lapsed' \subseteq sealed'
      /\ fresh' \in [Keys -> BOOLEAN] /\ fetchedOk' = fetchedOk
  <2>1. ASSUME NEW d \in Document, Publish(d) PROVE <1>1!:
    BY <2>1 DEF CacheInv, TypeOK, Publish, store
  <2>2. ASSUME NEW d \in Document, Lapse(d) PROVE <1>1!:
    BY <2>2 DEF CacheInv, TypeOK, Lapse, store
  <2>3. ASSUME NEW k \in Keys, TtlPasses(k) PROVE <1>1!:
    BY <2>3 DEF CacheInv, TypeOK, TtlPasses, issuers
  <2> QED
    BY <2>1, <2>2, <2>3 DEF World
<1>2. ASSUME NEW t \in Threads PROVE Sound(threads[t])'
  <2>1. PICK call \in Thread : call = threads[t] /\ Sound(call)
    BY DEF CacheInv, TypeOK
  <2>2. Sound(call)'
    BY <1>1, <2>1, HeldStays, SoundKept
  <2> QED
    BY <1>1, <2>1, <2>2
<1>3. TypeOK' /\ HeldIsGenuine'
  BY <1>1 DEF TypeOK, HeldIsGenuine, SealedFor
<1> QED
  BY <1>2, <1>3 DEF CacheInv

LEMMA CacheInit ==
  ASSUME Init
  PROVE  CacheInv
<1>1. Resting \in Thread /\ Sound(Resting)
  BY DEF Resting, Thread, Stages, Ops, Sound, Underway
<1>2. TypeOK /\ HeldIsGenuine
  BY <1>1 DEF Init, TypeOK, HeldIsGenuine
<1> QED
  BY <1>1, <1>2 DEF Init, CacheInv

LEMMA CacheNext ==
  ASSUME CacheInv, [Next]_cacheVars
  PROVE  CacheInv' /\ HeldForward
<1>1. TypeOK
  BY DEF CacheInv
<1>2. CASE World
  <2>1. held' = held
    BY <1>2 DEF World, Publish, Lapse, TtlPasses, store
  <2> QED
    BY <1>1, <1>2, <2>1, WorldInv, HeldStays
<1>3. ASSUME NEW t \in Threads, Admit(t) PROVE CacheInv' /\ HeldForward
  BY <1>3, AdmitInv
<1>4. ASSUME NEW t \in Threads,
             \/ Request(t) \/ Fetch(t) \/ Verify(t) \/ RecordSuccess(t)
             \/ RecordFailure(t) \/ ReadBack(t) \/ Leave(t)
      PROVE  CacheInv' /\ HeldForward
  <2>1. held' = held
    BY <1>4 DEF Request, Get, Refresh, Seed, Fetch, Verify, RecordSuccess, RecordFailure,
                ReadBack, Leave, store
  <2> QED
    BY <1>1, <1>4, <2>1, HeldStays, RequestInv, FetchInv, VerifyInv, RecordInv,
       ReadBackInv, LeaveInv
<1>5. CASE UNCHANGED cacheVars
  <2>1. UNCHANGED <<sealed, lapsed, held, fresh, fetchedOk, threads>>
    BY <1>5 DEF cacheVars, issuers, store
  <2>2. \A call : Sound(call)' = Sound(call)
    BY <2>1 DEF Sound, SealedFor
  <2> QED
    BY <1>1, <2>1, <2>2, HeldStays DEF CacheInv, TypeOK, HeldIsGenuine, SealedFor
<1> QED
  BY <1>2, <1>3, <1>4, <1>5 DEF Next, Advance

\* FetchCache: the cache's invariant.
THEOREM CacheIsSound == CacheSpec => []CacheInv
<1>1. Init => CacheInv
  BY CacheInit
<1>2. CacheInv /\ [Next]_cacheVars => CacheInv'
  BY CacheNext
<1> QED
  BY <1>1, <1>2, PTL DEF CacheSpec

\* FetchCache: whatever endpoints serve and however a verification interleaves
\* with another thread's admission, what is held was sealed by the pinned issuer.
THEOREM HeldAlwaysGenuine == CacheSpec => []HeldIsGenuine
<1>1. CacheInv => HeldIsGenuine
  BY DEF CacheInv
<1> QED
  BY <1>1, CacheIsSound, PTL

\* FetchCache: gate 4 and a failed fetch.  What is held is never lost, and never
\* replaced by an earlier version.
THEOREM CacheNeverRollsBack == CacheSpec => NeverRollsBack
<1>1. CacheInv /\ [Next]_cacheVars =>
        [\A k \in Keys : held[k] # None =>
           held'[k] # None /\ held'[k].version >= held[k].version]_cacheVars
  BY CacheNext DEF HeldForward, AtLeastAsNew
<1> QED
  BY <1>1, CacheIsSound, PTL DEF CacheSpec, NeverRollsBack

\* FetchCache: a call is answered with what its issuer sealed, and with no less than
\* was held when it was made.
THEOREM ReadsAlwaysSeeAdmitted == CacheSpec => []ReadsSeeAdmitted
<1>1. CacheInv => ReadsSeeAdmitted
  BY DEF CacheInv, Sound, AtLeastAsNew, ReadsSeeAdmitted
<1> QED
  BY <1>1, CacheIsSound, PTL

-------------------------------------------------------------------------------
(***************************************************************************)
(* The registry.                                                           *)
(***************************************************************************)
\* Seen through its cache alone, the registry is a FetchCache.
THEOREM RegistryUsesCache == RegistrySpec => CacheSpec
<1>1. RegistryInit => Init
  BY DEF RegistryInit
<1>2. [RegistryNext]_registryVars => [Next]_cacheVars
  <2>1. ASSUME NEW t \in Threads, NEW k \in Keys, Ask(t, k) PROVE Next
    BY <2>1 DEF Ask, Next, Request
  <2>2. ASSUME NEW t \in Threads, TakeConfig(t) PROVE Next
    BY <2>2 DEF TakeConfig, Next
  <2>3. ASSUME NEW t \in Threads, CacheStep(t) PROVE Next
    BY <2>3 DEF CacheStep, Next
  <2>4. ASSUME NEW t \in Threads, LookUp(t) \/ Build(t) \/ Store(t) \/ Answered(t)
        PROVE  UNCHANGED cacheVars
    BY <2>4 DEF LookUp, Build, Store, Answered
  <2> QED
    BY <2>1, <2>2, <2>3, <2>4 DEF RegistryNext, Next, registryVars
<1> QED
  BY <1>1, <1>2, PTL DEF RegistrySpec, CacheSpec

\* The call of t goes on, with what it was asked, and no other call moves.
GoesOn(t) ==
  /\ threads'[t].pc # "idle" /\ threads'[t].op = threads[t].op
  /\ threads'[t].floor = threads[t].floor
  /\ \A u \in Threads \ {t} : threads'[u] = threads[u]

LEMMA AdvanceKeeps ==
  ASSUME TypeOK, NEW t \in Threads, Advance(t)
  PROVE  GoesOn(t)
<1>1. ASSUME NEW stage \in Stages \ {"idle"}, To(t, stage) PROVE GoesOn(t)
  <2> DEFINE next == [threads[t] EXCEPT !.pc = stage]
  <2>1. /\ next.pc # "idle" /\ next.op = threads[t].op /\ next.floor = threads[t].floor
        /\ threads' = [threads EXCEPT ![t] = next]
    BY <1>1, ToTyped DEF To, Step
  <2> HIDE DEF next
  <2> QED
    BY <2>1 DEF TypeOK, GoesOn
<1>2. ASSUME NEW doc, NEW result, NEW stage \in Stages \ {"idle"},
             Step(t, [threads[t] EXCEPT !.pc = stage, !.doc = doc])
               \/ Step(t, [threads[t] EXCEPT !.pc = stage, !.result = result])
      PROVE  GoesOn(t)
  <2> DEFINE first  == [threads[t] EXCEPT !.pc = stage, !.doc = doc]
             second == [threads[t] EXCEPT !.pc = stage, !.result = result]
  <2>1. /\ first.pc # "idle" /\ first.op = threads[t].op /\ first.floor = threads[t].floor
        /\ second.pc # "idle" /\ second.op = threads[t].op /\ second.floor = threads[t].floor
    BY DEF TypeOK, Thread
  <2>2. PICK next \in {first, second} : threads' = [threads EXCEPT ![t] = next]
    BY <1>2 DEF Step
  <2> HIDE DEF first, second
  <2> QED
    BY <2>1, <2>2 DEF TypeOK, GoesOn
<1>3. Return(t) \in Stages \ {"idle"}
      /\ {"verify", "admit", "done", "failed", "succeeded"} \subseteq Stages \ {"idle"}
  BY DEF Return, Stages
<1>4. CASE Fetch(t)
  BY <1>1, <1>2, <1>3, <1>4 DEF Fetch
<1>5. CASE Verify(t)
  BY <1>1, <1>3, <1>5 DEF Verify
<1>6. CASE Admit(t)
  BY <1>1, <1>3, <1>6 DEF Admit
<1>7. CASE RecordSuccess(t) \/ RecordFailure(t)
  BY <1>1, <1>3, <1>7 DEF RecordSuccess, RecordFailure
<1>8. CASE ReadBack(t)
  BY <1>2, <1>3, <1>8 DEF ReadBack
<1> QED
  BY <1>4, <1>5, <1>6, <1>7, <1>8 DEF Advance

LEMMA RequestTyped ==
  ASSUME RegistryTypeOK, NEW t \in Threads
  PROVE  /\ requests[t] \in RequestType
         /\ requests[t].key \in Keys \cup {None}
         /\ requests[t].config \in Document \cup {None}
         /\ requests[t].registry \in Document \cup {None}
         /\ requests[t].floor \in Document \cup {None}
         /\ requests[t].late \in BOOLEAN
BY DEF RegistryTypeOK, RequestType

\* A step of one request that leaves the memo alone, or writes a document to it.
LEMMA MoveInv ==
  ASSUME RegistryInv, NEW t \in Threads, NEW request \in RequestType, Move(t, request),
         TypeOK', memo' \in [Keys -> Document \cup {None}],
         \A u \in Threads \ {t} : threads'[u] = threads[u],
         RequestOK(t)'
  PROVE  RegistryInv'
<1>1. /\ RegistryTypeOK /\ requests \in [Threads -> RequestType]
      /\ requests' = [requests EXCEPT ![t] = request]
  BY DEF RegistryInv, RegistryTypeOK, Move
<1>2. ASSUME NEW u \in Threads, u # t PROVE RequestOK(u)'
  <2>1. requests'[u] = requests[u] /\ threads'[u] = threads[u] /\ RequestOK(u)
    BY <1>1, <1>2 DEF RegistryInv
  <2> QED
    BY <2>1 DEF RequestOK, AtLeastAsNew
<1>3. RegistryTypeOK'
  BY <1>1 DEF RegistryTypeOK
<1> QED
  BY <1>2, <1>3 DEF RegistryInv

LEMMA AskInv ==
  ASSUME RegistryInv, CacheInv', NEW t \in Threads, NEW k \in Keys, Ask(t, k)
  PROVE  RegistryInv'
<1>1. RegistryTypeOK /\ TypeOK /\ held[k] \in Document \cup {None}
  BY DEF RegistryInv, RegistryTypeOK, TypeOK
<1> DEFINE late == held[k] \in lapsed
           floor == held[k]
           request == [Request0 EXCEPT !.pc = "config", !.key = k, !.floor = floor,
                                       !.late = late]
<1>2. Move(t, request) /\ Get(t, k) /\ memo' = memo
  BY Zenon DEF Ask
<1>3. late \in BOOLEAN /\ floor \in Document \cup {None} /\ floor = held[k]
  BY <1>1
<1> HIDE DEF late, floor
<1>4. request \in RequestType /\ request.pc = "config" /\ request.floor = floor
      /\ request.key = k /\ request.registry = None
  BY <1>3 DEF Request0, RequestType
<1> HIDE DEF request
<1>5. /\ threads'[t].pc # "idle" /\ threads'[t].op = "get" /\ threads'[t].floor = held[k]
      /\ \A u \in Threads \ {t} : threads'[u] = threads[u]
  <2> DEFINE first  == [pc |-> "done", op |-> "get", key |-> k, doc |-> None,
                        floor |-> held[k], result |-> held[k]]
             second == [pc |-> "fetch", op |-> "get", key |-> k, doc |-> None,
                        floor |-> held[k], result |-> None]
  <2>1. PICK next \in {first, second} : threads' = [threads EXCEPT ![t] = next]
    <3>1. /\ [Call("get", k, None, "done") EXCEPT !.result = held[k]] = first
          /\ Call("get", k, None, "fetch") = second
      BY DEF Call
    <3> QED
      BY <1>2, <3>1 DEF Get, Step
  <2>2. next.pc # "idle" /\ next.op = "get" /\ next.floor = held[k]
    OBVIOUS
  <2> QED
    BY <1>1, <2>1, <2>2 DEF TypeOK
<1>6. requests'[t] = request
  BY <1>1, <1>2 DEF Move, RegistryTypeOK
<1>7. RequestOK(t)'
  BY <1>3, <1>4, <1>5, <1>6 DEF RequestOK
<1> QED
  BY <1>1, <1>2, <1>4, <1>5, <1>7, MoveInv DEF RegistryTypeOK, CacheInv

LEMMA TakeConfigInv ==
  ASSUME RegistryInv, CacheInv, CacheInv', NEW t \in Threads, TakeConfig(t)
  PROVE  RegistryInv'
<1> DEFINE config == threads[t].result
           request == [requests[t] EXCEPT
                         !.pc = IF config = None THEN "done" ELSE "memo", !.config = config]
<1>1. /\ RegistryTypeOK /\ TypeOK /\ threads[t] \in Thread /\ requests[t].pc = "config"
      /\ Move(t, request) /\ Leave(t) /\ memo' = memo /\ RequestOK(t) /\ Sound(threads[t])
  BY DEF RegistryInv, RegistryTypeOK, CacheInv, TypeOK, TakeConfig
<1>2. config \in Document \cup {None} /\ AtLeastAsNew(config, requests[t].floor)
  BY <1>1 DEF Thread, Sound, Leave, RequestOK
<1> DEFINE stage == IF config = None THEN "done" ELSE "memo"
<1>3. request = [requests[t] EXCEPT !.pc = stage, !.config = config]
  OBVIOUS
<1>4. stage \in {"done", "memo"} /\ (stage = "memo" => config # None)
  OBVIOUS
<1> HIDE DEF config, stage, request
<1>5. /\ request \in RequestType /\ request.pc = stage /\ request.config = config
      /\ request.key = requests[t].key /\ request.floor = requests[t].floor
      /\ request.registry = requests[t].registry
  BY <1>1, <1>2, <1>3, <1>4 DEF RequestType, RegistryTypeOK
<1>6. requests'[t] = request
  BY <1>1 DEF Move, RegistryTypeOK
<1>7. RequestOK(t)'
  BY <1>1, <1>2, <1>4, <1>5, <1>6 DEF RequestOK, AtLeastAsNew
<1>8. \A u \in Threads \ {t} : threads'[u] = threads[u]
  BY <1>1 DEF Leave, Step, TypeOK
<1> QED
  BY <1>1, <1>5, <1>7, <1>8, MoveInv DEF RegistryTypeOK, CacheInv

LEMMA LookUpInv ==
  ASSUME RegistryInv, NEW t \in Threads, LookUp(t)
  PROVE  RegistryInv'
<1>1. /\ RegistryTypeOK /\ RequestOK(t) /\ UNCHANGED <<cacheVars, memo>>
      /\ requests[t].pc = "memo" /\ requests[t].key \in Keys
      /\ requests[t].config \in Document /\ requests[t].registry = None
      /\ AtLeastAsNew(requests[t].config, requests[t].floor)
  BY DEF RegistryInv, RequestOK, LookUp
<1>2. threads' = threads /\ TypeOK'
  BY <1>1 DEF cacheVars, issuers, store, RegistryTypeOK, TypeOK
<1>3. CASE MemoHolds(requests[t].key, requests[t].config)
  <2> DEFINE answer == memo[requests[t].key]
             request == [requests[t] EXCEPT !.pc = "done", !.registry = answer]
  <2>1. answer \in Document /\ answer.version = requests[t].config.version /\ Move(t, request)
    BY <1>1, <1>3 DEF MemoHolds, LookUp, RegistryTypeOK
  <2> HIDE DEF answer
  <2>2. /\ request \in RequestType /\ request.pc = "done" /\ request.registry = answer
        /\ request.floor = requests[t].floor
    BY ZenonT(30), <1>1, <2>1 DEF RequestType, RegistryTypeOK
  <2> HIDE DEF request
  <2>3. AtLeastAsNew(answer, requests[t].floor)
    BY <1>1, <2>1, Outside DEF AtLeastAsNew
  <2>4. requests'[t] = request
    BY <1>1, <2>1 DEF Move, RegistryTypeOK
  <2>5. RequestOK(t)'
    BY <2>2, <2>3, <2>4 DEF RequestOK, AtLeastAsNew
  <2> QED
    BY <1>1, <1>2, <2>1, <2>2, <2>5, MoveInv DEF RegistryTypeOK
<1>4. CASE ~MemoHolds(requests[t].key, requests[t].config)
  <2> DEFINE request == [requests[t] EXCEPT !.pc = "build"]
  <2>1. Move(t, request)
    BY <1>4 DEF LookUp
  <2>2. /\ request \in RequestType /\ request.pc = "build" /\ request.key = requests[t].key
        /\ request.config = requests[t].config /\ request.registry = requests[t].registry
        /\ request.floor = requests[t].floor
    BY <1>1 DEF RequestType, RegistryTypeOK
  <2> HIDE DEF request
  <2>3. requests'[t] = request
    BY <1>1, <2>1 DEF Move, RegistryTypeOK
  <2>4. RequestOK(t)'
    BY <1>1, <2>2, <2>3 DEF RequestOK, AtLeastAsNew
  <2> QED
    BY <1>1, <1>2, <2>1, <2>2, <2>4, MoveInv DEF RegistryTypeOK
<1> QED
  BY <1>3, <1>4

LEMMA BuildInv ==
  ASSUME RegistryInv, NEW t \in Threads, Build(t)
  PROVE  RegistryInv'
<1>1. /\ RegistryTypeOK /\ RequestOK(t) /\ UNCHANGED <<cacheVars, memo>>
      /\ requests[t].pc = "build" /\ requests[t].registry = None
  BY DEF RegistryInv, RequestOK, Build
<1>2. threads' = threads /\ TypeOK'
  BY <1>1 DEF cacheVars, issuers, store, RegistryTypeOK, TypeOK
<1>3. PICK stage \in {"store", "raised"} : Move(t, [requests[t] EXCEPT !.pc = stage])
  BY DEF Build
<1> DEFINE request == [requests[t] EXCEPT !.pc = stage]
<1>4. /\ request \in RequestType /\ request.pc = stage /\ request.key = requests[t].key
      /\ request.config = requests[t].config /\ request.registry = None
      /\ request.floor = requests[t].floor
  BY <1>1 DEF RequestType, RegistryTypeOK
<1>5. Move(t, request)
  BY <1>3
<1> HIDE DEF request
<1>6. requests'[t] = request
  BY <1>1, <1>5 DEF Move, RegistryTypeOK
<1>7. RequestOK(t)'
  BY <1>1, <1>4, <1>6 DEF RequestOK, AtLeastAsNew
<1> QED
  BY <1>1, <1>2, <1>4, <1>5, <1>7, MoveInv DEF RegistryTypeOK

LEMMA StoreInv ==
  ASSUME RegistryInv, NEW t \in Threads, Store(t)
  PROVE  RegistryInv'
<1> DEFINE config == requests[t].config
           request == [requests[t] EXCEPT !.pc = "done", !.registry = config]
<1>1. /\ RegistryTypeOK /\ RequestOK(t) /\ UNCHANGED cacheVars /\ Move(t, request)
      /\ requests[t].pc = "store" /\ requests[t].key \in Keys /\ config \in Document
      /\ AtLeastAsNew(config, requests[t].floor)
      /\ memo' = [memo EXCEPT ![requests[t].key] = config]
  BY DEF RegistryInv, RequestOK, Store, Derived
<1>2. threads' = threads /\ TypeOK'
  BY <1>1 DEF cacheVars, issuers, store, RegistryTypeOK, TypeOK
<1> HIDE DEF config
<1>3. /\ request \in RequestType /\ request.pc = "done" /\ request.registry = config
      /\ request.floor = requests[t].floor
  BY <1>1 DEF RequestType, RegistryTypeOK
<1> HIDE DEF request
<1>4. memo' \in [Keys -> Document \cup {None}] /\ requests'[t] = request
  BY <1>1 DEF RegistryTypeOK, Move
<1>5. RequestOK(t)'
  BY <1>1, <1>3, <1>4 DEF RequestOK, AtLeastAsNew
<1> QED
  BY <1>1, <1>2, <1>3, <1>4, <1>5, MoveInv

LEMMA AnsweredInv ==
  ASSUME RegistryInv, NEW t \in Threads, Answered(t)
  PROVE  RegistryInv'
<1>1. /\ RegistryTypeOK /\ UNCHANGED <<cacheVars, memo>> /\ Move(t, Request0)
  BY DEF RegistryInv, Answered
<1>2. threads' = threads /\ TypeOK'
  BY <1>1 DEF cacheVars, issuers, store, RegistryTypeOK, TypeOK
<1>3. Request0 \in RequestType /\ requests'[t] = Request0
  BY <1>1 DEF Request0, RequestType, Move, RegistryTypeOK
<1>4. RequestOK(t)'
  BY <1>3 DEF RequestOK, Request0
<1> QED
  BY <1>1, <1>2, <1>3, <1>4, MoveInv DEF RegistryTypeOK

\* The cache moves and no request does: a get under way goes on.
LEMMA CacheStepInv ==
  ASSUME RegistryInv, CacheInv', NEW t \in Threads, CacheStep(t), UNCHANGED <<memo, requests>>
  PROVE  RegistryInv'
<1>1. /\ RegistryTypeOK /\ TypeOK /\ TypeOK' /\ memo' = memo /\ requests' = requests
      /\ threads \in [Threads -> Thread]
  BY DEF RegistryInv, RegistryTypeOK, CacheInv, TypeOK
<1>2. \A u \in Threads : requests[u].pc = "config" =>
        /\ threads'[u].pc # "idle" \/ threads[u].pc = "idle"
        /\ threads'[u].op = threads[u].op /\ threads'[u].floor = threads[u].floor
  <2>1. CASE Advance(t)
    BY <1>1, <2>1, AdvanceKeeps DEF GoesOn
  <2>2. CASE requests[t].pc # "config" /\ Leave(t)
    BY <1>1, <2>2 DEF Leave, Step
  <2>3. CASE requests[t].pc = "idle" /\ Request(t)
    <3>1. \A u \in Threads \ {t} : threads'[u] = threads[u]
      BY <1>1, <2>3 DEF Request, Get, Refresh, Seed, Step
    <3> QED
      BY <2>3, <3>1
  <2> QED
    BY <2>1, <2>2, <2>3 DEF CacheStep
<1>3. \A u \in Threads : RequestOK(u)'
  BY <1>1, <1>2 DEF RegistryInv, RequestOK, AtLeastAsNew
<1> QED
  BY <1>1, <1>3 DEF RegistryInv, RegistryTypeOK

\* Neither the threads nor the requests move.
LEMMA StillInv ==
  ASSUME RegistryInv, TypeOK', UNCHANGED <<threads, memo, requests>>
  PROVE  RegistryInv'
BY DEF RegistryInv, RegistryTypeOK, RequestOK, AtLeastAsNew

LEMMA RegistryStarts ==
  ASSUME RegistryInit
  PROVE  RegistryInv
<1>1. Request0 \in RequestType /\ TypeOK
  BY CacheInit DEF Request0, RequestType, RegistryInit, CacheInv
<1> QED
  BY <1>1 DEF RegistryInit, RegistryInv, RegistryTypeOK, RequestOK, Request0

LEMMA RegistryStep ==
  ASSUME RegistryInv, CacheInv, CacheInv', [RegistryNext]_registryVars
  PROVE  RegistryInv'
<1>1. CASE World /\ UNCHANGED <<memo, requests>>
  <2>1. threads' = threads
    BY <1>1 DEF World, Publish, Lapse, TtlPasses
  <2> QED
    BY <1>1, <2>1, StillInv DEF CacheInv
<1>2. ASSUME NEW t \in Threads, CacheStep(t), UNCHANGED <<memo, requests>> PROVE RegistryInv'
  BY <1>2, CacheStepInv
<1>3. ASSUME NEW t \in Threads, NEW k \in Keys, Ask(t, k) PROVE RegistryInv'
  BY <1>3, AskInv
<1>4. ASSUME NEW t \in Threads,
             TakeConfig(t) \/ LookUp(t) \/ Build(t) \/ Store(t) \/ Answered(t)
      PROVE  RegistryInv'
  BY <1>4, TakeConfigInv, LookUpInv, BuildInv, StoreInv, AnsweredInv
<1>5. CASE UNCHANGED registryVars
  BY <1>5, StillInv DEF registryVars, cacheVars, CacheInv
<1> QED
  BY <1>1, <1>2, <1>3, <1>4, <1>5 DEF RegistryNext

\* TrustRegistryCache: once a config is admitted, no later request is answered with
\* the members of an earlier one, whichever thread last wrote the memo.
THEOREM OffboardedAlwaysStayOut == RegistrySpec => []OffboardedStayOut
<1>1. RegistryInit => RegistryInv
  BY RegistryStarts
<1>2. RegistryInv /\ CacheInv /\ CacheInv' /\ [RegistryNext]_registryVars => RegistryInv'
  BY RegistryStep
<1>3. RegistryInv => OffboardedStayOut
  BY DEF RegistryInv, RequestOK, AtLeastAsNew, OffboardedStayOut
<1> QED
  BY <1>1, <1>2, <1>3, RegistryUsesCache, CacheIsSound, PTL DEF RegistrySpec

\* TrustRegistryCache: the registry's cache keeps what FetchCache promises.
THEOREM RegistryCacheSound ==
  RegistrySpec => []HeldIsGenuine /\ []ReadsSeeAdmitted /\ NeverRollsBack
BY RegistryUsesCache, HeldAlwaysGenuine, ReadsAlwaysSeeAdmitted, CacheNeverRollsBack, PTL
===============================================================================
