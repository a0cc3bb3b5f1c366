------------------------------ MODULE UsageGate ------------------------------
(***************************************************************************)
(* usage_gate of agentcreds-runtime: the rate and spend rules metered over *)
(* a counter store that concurrent calls, on several threads or replicas,  *)
(* share.                                                                  *)
(*                                                                         *)
(* The hook checks every rule, then charges every rule; each access to the *)
(* store is a step.  The clock counts the ticks windows and TTLs are       *)
(* measured in.  All calls are of one agent: counters of different keys    *)
(* never meet.                                                             *)
(***************************************************************************)
EXTENDS Integers, Sequences, FiniteSets

CONSTANTS
  Calls,      \* the calls that reach the gate
  Rules,      \* the rules, in order
  Stores,     \* the stores a deployment may choose: "memory", "redis"
  Breaks,     \* may the store fail
  Costs,      \* what a call may cost
  Horizon,    \* bound of the clock
  None        \* Python's None

\* rate_limit has a window and costs 1; spend_limit has a window or none.
\* lifetimeTtl is read of a rule without a window only.
\* budget is None when neither the rule nor the leaf hop declares one.
Rule == [kind: {"rate", "spend"}, limit: Nat \cup {None},
         per: (Nat \ {0}) \cup {None}, lifetimeTtl: Nat \ {0}]

ASSUME UsageAssumption ==
  /\ Rules \in Seq(Rule) /\ Rules # <<>>
  /\ \A i \in 1..Len(Rules) : Rules[i].kind = "rate" =>
       Rules[i].limit # None /\ Rules[i].per # None
  /\ Stores \subseteq {"memory", "redis"}
  /\ Breaks \in BOOLEAN
  /\ Costs \subseteq Int
  /\ Horizon \in Nat
  /\ None \notin Nat

VARIABLES
  now,
  store,     \* the store this deployment chose
  counters,  \* the store: each key's value and when it expires
  calls,     \* the hook's invocations
  spent,     \* history: the amount ever charged to each key
  past,      \* history: spent as it was at the end of each earlier instant
  torn,      \* history: the keys with an add cut off before it set the TTL
  charged,   \* history: the rules each call was charged under
  room       \* history: did what each check had to reckon with leave room

vars == <<now, store, counters, calls, spent, past, torn, charged, room>>
metering == <<spent, past, torn>>
history == <<metering, charged, room>>

Windows == (0..Horizon) \cup {None}
\* A storage key is a rule and the window it counts, None for a lifetime.
Key == (1..Len(Rules)) \X Windows

Absent == [value |-> 0, until |-> 0]

Idle == [pc |-> "idle", cost |-> 0, at |-> 0, rule |-> 1, reason |-> "none"]

-------------------------------------------------------------------------------
(***************************************************************************)
(* The store.                                                              *)
(***************************************************************************)
Stored(k) == IF k \in DOMAIN counters THEN counters[k] ELSE Absent

\* A key is gone once it expires; Redis keeps one that has no TTL yet.
Live(entry) == entry.until = None \/ entry.until > now

Value(k) == IF Live(Stored(k)) THEN Stored(k).value ELSE 0

Put(k, entry) ==
  counters' = [q \in DOMAIN counters \cup {k} |-> IF q = k THEN entry ELSE counters[q]]

-------------------------------------------------------------------------------
(***************************************************************************)
(* The rules: what a rule plans for a call made at an instant.             *)
(***************************************************************************)
Window(rule, at) == IF rule.per = None THEN None ELSE at \div rule.per

Amount(rule, cost) == IF rule.kind = "rate" THEN 1 ELSE cost

\* No budget anywhere, or a free call: nothing to meter.
Skips(rule, cost) == rule.limit = None \/ Amount(rule, cost) <= 0

\* Faulty: a counter is gone halfway through its window or its TTL.
HalfTtl(rule) == IF rule.per = None THEN rule.lifetimeTtl \div 2 ELSE rule.per * 2

Ttl(rule) == IF rule.per = None THEN rule.lifetimeTtl ELSE rule.per * 2

StorageKey(i, at) == <<i, Window(Rules[i], at)>>

-------------------------------------------------------------------------------
(***************************************************************************)
(* The hook.                                                               *)
(***************************************************************************)
Become(c, call) == calls' = [calls EXCEPT ![c] = call]
Deny(c, reason) == Become(c, [calls[c] EXCEPT !.pc = "denied", !.reason = reason])

\* The rule a call looks at next, in the order given.
Turn(c, i) == calls[c].rule = i

\* On to the next rule; after the last one, to the next phase.
Advance(c, call) ==
  Become(c, IF call.rule < Len(Rules)
              THEN [call EXCEPT !.rule = @ + 1]
              ELSE [call EXCEPT !.rule = 1,
                                !.pc = IF call.pc = "check" THEN "charge" ELSE "passed"])

Arrive(c, cost) ==
  /\ calls[c].pc = "idle"
  /\ Become(c, [Idle EXCEPT !.pc = "check", !.cost = cost, !.at = now])
  /\ UNCHANGED <<now, store, counters, history>>

Fits(current, amount, limit) == current + amount <= limit

\* What was charged to a key in the last span instants, this one included.
Recent(k, span) == spent[k] - IF now < span THEN 0 ELSE past[now - span + 1][k]

\* What a check made now must find counted under its key: all that was charged
\* to its own window while that is open, and to a lifetime budget all that was
\* charged within its TTL, if every add to it set the TTL it is kept by.
Reckoned(k, rule, at) ==
  CASE rule.per # None /\ Window(rule, now) = Window(rule, at) -> spent[k]
    [] rule.per = None /\ k \notin torn -> Recent(k, rule.lifetimeTtl)
    [] OTHER -> 0

\* Phase one.
Check(c, i) ==
  LET call == calls[c]
      rule == Rules[i]
      k    == StorageKey(i, call.at)
      amount == Amount(rule, call.cost)
  IN
  /\ call.pc = "check"
  /\ Turn(c, i)
  /\ \/ /\ Skips(rule, call.cost)
        /\ Advance(c, call)
        /\ UNCHANGED room
     \/ /\ ~Skips(rule, call.cost)
        /\ Fits(Value(k), amount, rule.limit)
        /\ Advance(c, call)
        /\ room' = [room EXCEPT ![c][i] =
                     Reckoned(k, rule, call.at) + amount <= rule.limit]
     \/ /\ ~Skips(rule, call.cost)
        /\ ~Fits(Value(k), amount, rule.limit)
        /\ Deny(c, "limit")
        /\ UNCHANGED room
     \/ /\ Breaks   \* an exception of the store: the enforcer denies the call
        /\ ~Skips(rule, call.cost)
        /\ Deny(c, "error")
        /\ UNCHANGED room
  /\ UNCHANGED <<now, store, counters, metering, charged>>

Added(k, amount) == Value(k) + amount

\* Phase two: add is atomic in memory; in Redis the TTL follows the increment.
Charge(c, i) ==
  LET call == calls[c]
      rule == Rules[i]
      k    == StorageKey(i, call.at)
      amount == Amount(rule, call.cost)
  IN
  /\ call.pc = "charge"
  /\ Turn(c, i)
  /\ \/ /\ Skips(rule, call.cost)
        /\ Advance(c, call)
        /\ UNCHANGED <<counters, spent, charged>>
     \/ /\ ~Skips(rule, call.cost)
        /\ spent' = [spent EXCEPT ![k] = @ + amount]
        /\ charged' = [charged EXCEPT ![c] = @ \cup {i}]
        /\ \/ /\ store = "memory"
              /\ Put(k, [value |-> Added(k, amount), until |-> now + Ttl(rule)])
              /\ Advance(c, call)
           \/ /\ store = "redis"
              /\ Put(k, [value |-> Added(k, amount),
                         until |-> IF Live(Stored(k)) THEN Stored(k).until ELSE None])
              /\ Become(c, [call EXCEPT !.pc = "expire"])
     \/ /\ Breaks
        /\ ~Skips(rule, call.cost)
        /\ Deny(c, "error")
        /\ UNCHANGED <<counters, spent, charged>>
  /\ UNCHANGED <<now, store, past, torn, room>>

\* expire after incrby; the client may fail between the two.
Expire(c, i) ==
  LET call == calls[c]
      k    == StorageKey(i, call.at)
  IN
  /\ call.pc = "expire"
  /\ Turn(c, i)
  /\ \/ /\ IF Live(Stored(k))
             THEN Put(k, [Stored(k) EXCEPT !.until = now + Ttl(Rules[i])])
             ELSE UNCHANGED counters
        /\ Advance(c, [call EXCEPT !.pc = "charge"])
        /\ UNCHANGED torn
     \/ /\ Breaks
        /\ Deny(c, "error")
        /\ torn' = torn \cup {k}
        /\ UNCHANGED counters
  /\ UNCHANGED <<now, store, spent, past, charged, room>>

\* The keys some add has incremented and not yet given their TTL.
Underway == {StorageKey(calls[c].rule, calls[c].at) : c \in {d \in Calls : calls[d].pc = "expire"}}

Tick ==
  /\ now < Horizon
  /\ now' = now + 1
  /\ past' = Append(past, spent)
  /\ torn' = torn \cup Underway
  /\ UNCHANGED <<store, counters, calls, spent, charged, room>>

Init ==
  /\ now = 0
  /\ store \in Stores
  /\ counters = <<>>
  /\ calls = [c \in Calls |-> Idle]
  /\ spent = [k \in Key |-> 0]
  /\ past = <<>>
  /\ torn = {}
  /\ charged = [c \in Calls |-> {}]
  /\ room = [c \in Calls |-> [i \in 1..Len(Rules) |-> TRUE]]

Next ==
  \/ Tick
  \/ \E c \in Calls :
       \/ \E cost \in Costs : Arrive(c, cost)
       \/ \E i \in 1..Len(Rules) : Check(c, i) \/ Charge(c, i) \/ Expire(c, i)

Spec == Init /\ [][Next]_vars

-------------------------------------------------------------------------------
(***************************************************************************)
(* Properties.                                                             *)
(***************************************************************************)
\* Counters are amounts, never below zero, under the keys of the rules.
TypeOK ==
  /\ now \in 0..Horizon
  /\ store \in Stores
  /\ DOMAIN counters \subseteq Key
  /\ \A k \in DOMAIN counters : counters[k] \in [value: Nat, until: Nat \cup {None}]
  /\ calls \in [Calls -> [pc: {"idle", "check", "charge", "expire", "passed", "denied"},
                         cost: Costs \cup {0}, at: 0..Horizon, rule: 1..Len(Rules),
                         reason: {"none", "limit", "error"}]]
  /\ spent \in [Key -> Nat]
  /\ past \in [1..now -> [Key -> Nat]]
  /\ torn \subseteq Key
  /\ charged \in [Calls -> SUBSET (1..Len(Rules))]
  /\ room \in [Calls -> [1..Len(Rules) -> BOOLEAN]]

\* A call is charged only if what had really been charged when it was checked,
\* to its own window or to a lifetime budget within its idle TTL, left room for
\* it: only calls that overlap can take a rule over its limit, whichever store
\* it is and whenever counters expire.  (An add to a lifetime budget that Redis
\* was left halfway through is counted no longer than its counter happens to
\* live.)  And a call is charged under no rule if one refuses it, whatever other
\* calls did between its checks.
NeverOverdrawn ==
  \A c \in Calls : charged[c] # {} =>
    /\ calls[c].reason # "limit"
    /\ \A i \in charged[c] : room[c][i]

\* spend_limit: "per_secs=None meters lifetime spend": a call passes the check of
\* a lifetime budget only if all that was ever charged to it leaves room.
LifetimeIsMetered ==
  [][\A c \in Calls, i \in 1..Len(Rules) :
       /\ Rules[i].per = None /\ ~Skips(Rules[i], calls[c].cost)
       /\ Check(c, i) /\ calls'[c].pc # "denied"
       => spent[StorageKey(i, calls[c].at)] + Amount(Rules[i], calls[c].cost)
            <= Rules[i].limit]_vars

\* usage_gate: "a denied call is never charged", also when the store failed.
DeniedNeverCharged ==
  \A c \in Calls : calls[c].pc = "denied" => charged[c] = {}

\* The limits, "how many calls an agent may make per window, and how much it
\* may spend" are enforced: no window and no lifetime goes over its limit.
LimitHolds ==
  \A k \in Key : Rules[k[1]].limit # None => spent[k] <= Rules[k[1]].limit

\* UsageStore: counters are held "each with a TTL", once add has returned.
EveryCounterExpires ==
  \A k \in DOMAIN counters :
    counters[k].until = None =>
      \E c \in Calls : calls[c].pc = "expire" /\ StorageKey(calls[c].rule, calls[c].at) = k
===============================================================================
