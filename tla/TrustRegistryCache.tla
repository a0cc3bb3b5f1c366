-------------------------- MODULE TrustRegistryCache --------------------------
(***************************************************************************)
(* TrustRegistryCache of agentcreds-runtime: a FetchCache of the           *)
(* framework's signed trust config, and the registry derived from it,      *)
(* memoised by config version in a dictionary no lock protects.            *)
(*                                                                         *)
(* A request for the registry is a get of the cache (FetchCache), then a   *)
(* look at the memo, then perhaps a build and a store into the memo.       *)
(***************************************************************************)
EXTENDS FetchCache

VARIABLES
  memo,     \* _registries: the config the memoised registry was built from
  requests  \* the calls of registry() in progress, one a thread

registryVars == <<cacheVars, memo, requests>>

\* floor and late are history: the config held at the call, and had it lapsed.
\* registry is the config the answer was built from.
Request0 == [pc |-> "idle", key |-> None, config |-> None, registry |-> None,
             floor |-> None, late |-> FALSE]

RequestType ==
  [pc: {"idle", "config", "memo", "build", "store", "done", "raised"},
   key: Keys \cup {None}, config: Document \cup {None},
   registry: Document \cup {None}, floor: Document \cup {None}, late: BOOLEAN]

Move(t, request) == requests' = [requests EXCEPT ![t] = request]

Ask(t, k) ==
  /\ requests[t].pc = "idle"
  /\ Get(t, k)
  /\ Move(t, [Request0 EXCEPT !.pc = "config", !.key = k, !.floor = held[k],
                              !.late = held[k] \in lapsed])
  /\ UNCHANGED memo

\* The cache has answered: no config, no registry.
TakeConfig(t) ==
  LET config == threads[t].result IN
  /\ requests[t].pc = "config"
  /\ Leave(t)
  /\ Move(t, [requests[t] EXCEPT !.pc = IF config = None THEN "done" ELSE "memo",
                                 !.config = config])
  /\ UNCHANGED memo

\* Faulty: a registry once built is good for every later config.
AnyMemo(k, config) == memo[k] # None

MemoHolds(k, config) == memo[k] # None /\ memo[k].version = config.version

\* On a hit the memoised registry is the answer; nothing else is checked.
LookUp(t) ==
  LET request == requests[t] IN
  /\ request.pc = "memo"
  /\ Move(t, IF MemoHolds(request.key, request.config)
               THEN [request EXCEPT !.pc = "done", !.registry = memo[request.key]]
               ELSE [request EXCEPT !.pc = "build"])
  /\ UNCHANGED <<cacheVars, memo>>

\* TrustRegistry.from_config verifies the config again, and raises.
Build(t) ==
  LET request == requests[t] IN
  /\ request.pc = "build"
  /\ Move(t, IF Verifies(request.key, request.config)
               THEN [request EXCEPT !.pc = "store"]
               ELSE [request EXCEPT !.pc = "raised"])
  /\ UNCHANGED <<cacheVars, memo>>

Derived(request) == request.config

Store(t) ==
  LET request == requests[t] IN
  /\ request.pc = "store"
  /\ memo' = [memo EXCEPT ![request.key] = Derived(request)]
  /\ Move(t, [request EXCEPT !.pc = "done", !.registry = request.config])
  /\ UNCHANGED cacheVars

Answered(t) ==
  /\ requests[t].pc \in {"done", "raised"}
  /\ Move(t, Request0)
  /\ UNCHANGED <<cacheVars, memo>>

\* The threads that are not inside registry() use the cache directly.
CacheStep(t) ==
  \/ Advance(t)
  \/ requests[t].pc # "config" /\ Leave(t)
  \/ requests[t].pc = "idle" /\ Request(t)

RegistryInit ==
  /\ Init
  /\ memo = [k \in Keys |-> None]
  /\ requests = [t \in Threads |-> Request0]

RegistryNext ==
  \/ World /\ UNCHANGED <<memo, requests>>
  \/ \E t \in Threads :
       \/ CacheStep(t) /\ UNCHANGED <<memo, requests>>
       \/ \E k \in Keys : Ask(t, k)
       \/ TakeConfig(t) \/ LookUp(t) \/ Build(t) \/ Store(t) \/ Answered(t)

RegistrySpec == RegistryInit /\ [][RegistryNext]_registryVars

-------------------------------------------------------------------------------
RegistryTypeOK ==
  /\ TypeOK
  /\ memo \in [Keys -> Document \cup {None}]
  /\ requests \in [Threads -> RequestType]

(***************************************************************************)
(* Offboarding: once a config is admitted, no later request is answered    *)
(* with the members of an earlier one, whichever thread last wrote the     *)
(* memo.                                                                   *)
(***************************************************************************)
OffboardedStayOut ==
  \A t \in Threads : LET request == requests[t] IN
    request.registry # None /\ request.floor # None =>
      request.registry.version >= request.floor.version

(***************************************************************************)
(* "An authentic-but-lapsed config must be refused rather than assumed     *)
(* current, or a framework that stops re-signing silently freezes          *)
(* membership forever": no registry is served from a config that had       *)
(* lapsed when the request was made.                                       *)
(***************************************************************************)
LapsedIsRefused ==
  \A t \in Threads : LET request == requests[t] IN
    request.late /\ request.registry # None => request.config # request.floor
===============================================================================
