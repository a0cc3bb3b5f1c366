--------------------------- MODULE UsageGateProofs ---------------------------
(***************************************************************************)
(* Proof that a call is charged only if what had really been charged when  *)
(* it was checked left room for it.  The counter of an open window is      *)
(* complete: it cannot expire before its window ends.  The counter of a    *)
(* lifetime budget holds at least what was charged within its TTL: every   *)
(* add renews it, so it lives on for a TTL after the last one.             *)
(***************************************************************************)
EXTENDS UsageGate, TLAPS

Places == 1..Len(Rules)

Windowed(k) == Rules[k[1]].per # None

\* Something can still be counted under this key.
Counting(k) == k[2] = Window(Rules[k[1]], now)

\* The key of a window that counts holds all that was charged to it.
Complete == \A k \in Key : Windowed(k) /\ Counting(k) => Value(k) = spent[k]

\* Of a time to live that it outlives the window it is given to, by one at least.
Outlives(k, until) == Windowed(k) => until \div Rules[k[1]].per > k[2]

Lasting ==
  \A k \in DOMAIN counters : counters[k].until # None => Outlives(k, counters[k].until)

\* A window is counted once it has opened, a lifetime under no window.
Opened(k) ==
  IF Rules[k[1]].per = None THEN k[2] = None
  ELSE k[2] # None /\ k[2] <= now \div Rules[k[1]].per

NotEarly == \A k \in Key : k \in DOMAIN counters \/ spent[k] # 0 => Opened(k)

\* The idle TTL of a lifetime budget.
Span(k) == Rules[k[1]].lifetimeTtl

\* What was charged within the TTL is still counted.
Remembered(k) ==
  /\ now < Span(k) => Value(k) >= spent[k]
  /\ \A j \in 1..now : j + Span(k) > now => Value(k) + past[j][k] >= spent[k]

\* A counter lives for a TTL after the last add, once that add has set it.
Settled(k) ==
  k \in DOMAIN counters /\ counters[k].until # None =>
    /\ counters[k].until >= Span(k)
    /\ k \notin Underway =>
         \A j \in 1..now : j + Span(k) > counters[k].until => past[j][k] = spent[k]

Lifelong(k) ==
  /\ k \notin DOMAIN counters => spent[k] = 0
  /\ Remembered(k)
  /\ Settled(k)
  /\ k \in Underway => Live(Stored(k))

Renewed == \A k \in Key : ~Windowed(k) /\ k \notin torn => Lifelong(k)

CallInv(c) ==
  /\ calls[c].at <= now
  /\ calls[c].pc \in {"idle", "check"} => charged[c] = {}
  /\ calls[c].pc # "denied" => calls[c].reason = "none"
  /\ calls[c].reason = "limit" => charged[c] = {}
  /\ \A i \in Places : room[c][i]

StoreInv == Complete /\ Lasting /\ NotEarly /\ Renewed

UsageInv == TypeOK /\ StoreInv /\ \A c \in Calls : CallInv(c)

-------------------------------------------------------------------------------
(***************************************************************************)
(* Windows.                                                                *)
(***************************************************************************)
LEMMA DivNat ==
  ASSUME NEW a \in Nat, NEW p \in Nat \ {0}
  PROVE  a \div p \in Nat /\ a \div p <= a
BY SMT

LEMMA DivMonotone ==
  ASSUME NEW a \in Nat, NEW b \in Nat, a <= b, NEW p \in Nat \ {0}
  PROVE  a \div p <= b \div p
BY SMT

\* Two windows on, the window is two further on.
LEMMA DivLater ==
  ASSUME NEW a \in Nat, NEW p \in Nat \ {0}
  PROVE  (a + p * 2) \div p > a \div p
BY SMT

LEMMA RuleTyped == ASSUME NEW i \in Places PROVE Rules[i] \in Rule
BY UsageAssumption DEF Places

LEMMA KeyTyped ==
  ASSUME NEW i \in Places, NEW at \in 0..Horizon
  PROVE  /\ StorageKey(i, at) \in Key
         /\ Rules[i].per # None => at \div Rules[i].per \in Nat
<1>1. Rules[i].per \in (Nat \ {0}) \cup {None}
  BY RuleTyped DEF Rule
<1>2. CASE Rules[i].per = None
  BY <1>2 DEF StorageKey, Window, Key, Windows, Places
<1>3. CASE Rules[i].per # None
  <2>1. at \div Rules[i].per \in 0..Horizon
    BY <1>1, <1>3, DivNat, UsageAssumption, SMT
  <2> QED
    BY <1>3, <2>1 DEF StorageKey, Window, Key, Windows, Places
<1> QED
  BY <1>2, <1>3

\* The key of a call made by now counts a window that has opened.
LEMMA KeyOpened ==
  ASSUME NEW i \in Places, NEW at \in 0..Horizon, now \in 0..Horizon, at <= now
  PROVE  Opened(StorageKey(i, at))
<1>1. Rules[i].per \in (Nat \ {0}) \cup {None} /\ None \notin Nat
  BY RuleTyped, UsageAssumption DEF Rule
<1>2. StorageKey(i, at)[1] = i /\ StorageKey(i, at)[2] = Window(Rules[i], at)
  BY DEF StorageKey
<1>3. CASE Rules[i].per = None
  BY <1>2, <1>3 DEF Opened, Window
<1>4. CASE Rules[i].per # None
  <2>1. at \div Rules[i].per \in Nat /\ at \div Rules[i].per <= now \div Rules[i].per
    BY <1>1, <1>4, DivNat, DivMonotone, UsageAssumption
  <2> QED
    BY <1>1, <1>2, <1>4, <2>1 DEF Opened, Window
<1> QED
  BY <1>3, <1>4

\* The TTL a charge gives its counter is long enough, whenever the call was made.
LEMMA TtlOutlives ==
  ASSUME NEW i \in Places, NEW at \in 0..Horizon, now \in 0..Horizon, at <= now
  PROVE  /\ now + Ttl(Rules[i]) \in Nat
         /\ now + Ttl(Rules[i]) > now
         /\ Outlives(StorageKey(i, at), now + Ttl(Rules[i]))
         /\ Rules[i].per = None => Ttl(Rules[i]) = Rules[i].lifetimeTtl
<1> DEFINE per == Rules[i].per
<1>1. /\ per \in (Nat \ {0}) \cup {None} /\ None \notin Nat
      /\ Rules[i].lifetimeTtl \in Nat \ {0} /\ Horizon \in Nat
  BY RuleTyped, UsageAssumption DEF Rule
<1>2. StorageKey(i, at)[1] = i /\ StorageKey(i, at)[2] = Window(Rules[i], at)
  BY DEF StorageKey
<1>3. CASE per = None
  <2>1. Ttl(Rules[i]) = Rules[i].lifetimeTtl
    BY <1>3 DEF Ttl
  <2> QED
    BY <1>1, <1>2, <1>3, <2>1 DEF Outlives, Windowed
<1>4. CASE per # None
  <2>1. Ttl(Rules[i]) = per * 2 /\ per \in Nat \ {0} /\ at \in Nat /\ now \in Nat
    BY <1>1, <1>4 DEF Ttl
  <2>2. at \div per \in Nat /\ now \div per \in Nat /\ at \div per <= now \div per
    BY <2>1, DivNat, DivMonotone
  <2>3. (now + per * 2) \div per > now \div per
    BY <2>1, DivLater
  <2>4. now + per * 2 \in Nat /\ now + per * 2 > now
    BY <2>1, SMT
  <2>5. (now + per * 2) \div per \in Nat
    BY <2>1, <2>4, DivNat
  <2>6. (now + per * 2) \div per > at \div per
    BY <2>2, <2>3, <2>5
  <2>7. Outlives(StorageKey(i, at), now + per * 2)
    BY <1>2, <1>4, <2>6 DEF Outlives, Window
  <2> QED
    BY <1>4, <2>1, <2>4, <2>7
<1> QED
  BY <1>3, <1>4

-------------------------------------------------------------------------------
(***************************************************************************)
(* The store.                                                              *)
(***************************************************************************)
Entry == [value: Nat, until: Nat \cup {None}]

LEMMA ValueTyped == ASSUME TypeOK, NEW k \in Key PROVE Stored(k) \in Entry /\ Value(k) \in Nat
<1>1. Stored(k) \in Entry
  BY DEF TypeOK, Stored, Absent, Entry
<1> QED
  BY <1>1 DEF Value, Entry

\* An entry written with what its counter held and a sufficient TTL, or none:
\* what is known of the windows.
LEMMA PutKeeps ==
  ASSUME TypeOK, Complete, Lasting, NotEarly,
         NEW k \in Key, NEW amount \in Nat, NEW entry \in Entry,
         Opened(k), now' = now,
         entry.value = Added(k, amount),
         entry.until = None \/ (entry.until > now /\ Outlives(k, entry.until)),
         spent' = [spent EXCEPT ![k] = @ + amount],
         Put(k, entry)
  PROVE  /\ DOMAIN counters' = DOMAIN counters \cup {k}
         /\ counters'[k] = entry
         /\ \A q \in DOMAIN counters : q # k => counters'[q] = counters[q]
         /\ DOMAIN counters' \subseteq Key
         /\ \A q \in DOMAIN counters' : counters'[q] \in Entry
         /\ spent' \in [Key -> Nat]
         /\ spent'[k] = spent[k] + amount
         /\ \A q \in Key : q # k => spent'[q] = spent[q]
         /\ Value(k)' = Added(k, amount)
         /\ \A q \in Key : q # k => Value(q)' = Value(q)
         /\ Complete' /\ Lasting' /\ NotEarly'
<1>1. /\ DOMAIN counters' = DOMAIN counters \cup {k}
      /\ \A q \in DOMAIN counters : q # k => counters'[q] = counters[q]
      /\ counters'[k] = entry
  BY DEF Put
<1>2. /\ spent \in [Key -> Nat] /\ spent' \in [Key -> Nat]
      /\ spent'[k] = spent[k] + amount
      /\ \A q \in Key : q # k => spent'[q] = spent[q]
  BY DEF TypeOK
<1>3. /\ DOMAIN counters' \subseteq Key
      /\ \A q \in DOMAIN counters' : counters'[q] \in Entry
  BY <1>1 DEF TypeOK, Entry
<1>4. Value(k)' = Added(k, amount)
  BY <1>1 DEF Value, Stored, Live
<1>5. ASSUME NEW q \in Key, q # k PROVE Value(q)' = Value(q)
  BY <1>1, <1>5 DEF Value, Stored, Live
<1>6. Complete'
  <2> SUFFICES ASSUME NEW q \in Key, Windowed(q), Counting(q)' PROVE Value(q)' = spent'[q]
    BY DEF Complete, Windowed
  <2>1. Counting(q) /\ Value(q) = spent[q]
    BY DEF Counting, Complete
  <2>2. CASE q = k
    BY <1>2, <1>4, <2>1, <2>2 DEF Added
  <2>3. CASE q # k
    BY <1>2, <1>5, <2>1, <2>3
  <2> QED
    BY <2>2, <2>3
<1>7. Lasting'
  BY <1>1 DEF Lasting, Outlives, Windowed
<1>8. NotEarly'
  <2> SUFFICES ASSUME NEW q \in Key, q \in DOMAIN counters' \/ spent'[q] # 0 PROVE Opened(q)'
    BY DEF NotEarly
  <2>1. Opened(q)
    BY <1>1, <1>2 DEF NotEarly
  <2> QED
    BY <2>1 DEF Opened
<1> QED
  BY <1>1, <1>2, <1>3, <1>4, <1>5, <1>6, <1>7, <1>8

\* The keys that others than the one being charged live under.
LEMMA LifeKept ==
  ASSUME NEW k \in Key, Lifelong(k), now' = now, past' = past,
         k \in DOMAIN counters' <=> k \in DOMAIN counters,
         k \in DOMAIN counters => counters'[k] = counters[k],
         spent'[k] = spent[k], k \in Underway' <=> k \in Underway
  PROVE  Lifelong(k)'
<1>1. Stored(k)' = Stored(k) /\ Span(k)' = Span(k)
  BY DEF Stored, Span
<1>2. Value(k)' = Value(k) /\ (Live(Stored(k)))' = Live(Stored(k))
  BY <1>1 DEF Value, Live
<1>3. Remembered(k)'
  BY <1>1, <1>2 DEF Lifelong, Remembered
<1>4. Settled(k)'
  BY <1>1 DEF Lifelong, Settled
<1> QED
  BY <1>2, <1>3, <1>4 DEF Lifelong

\* Time passes: a window's counter that goes on counting has not expired, and
\* one that starts counting had nothing charged to it.
LEMMA TickKeeps ==
  ASSUME TypeOK, Complete, Lasting, NotEarly, now' \in 0..Horizon, now' = now + 1,
         counters' = counters, spent' = spent
  PROVE  Complete' /\ Lasting' /\ NotEarly'
<1>1. now \in 0..Horizon /\ Horizon \in Nat /\ now \in Nat /\ now' \in Nat /\ None \notin Nat
  BY UsageAssumption DEF TypeOK
<1>2. ASSUME NEW k \in Key
      PROVE  /\ Rules[k[1]].per \in (Nat \ {0}) \cup {None}
             /\ Rules[k[1]].per # None =>
                  /\ now \div Rules[k[1]].per \in Nat /\ now' \div Rules[k[1]].per \in Nat
                  /\ now \div Rules[k[1]].per <= now' \div Rules[k[1]].per
  <2>1. Rules[k[1]].per \in (Nat \ {0}) \cup {None}
    BY RuleTyped DEF Rule, Key, Places
  <2>2. now <= now'
    BY <1>1
  <2> QED
    BY <1>1, <2>1, <2>2, DivNat, DivMonotone
<1>3. Lasting'
  BY DEF Lasting, Outlives, Windowed
<1>4. NotEarly'
  <2> SUFFICES ASSUME NEW k \in Key, k \in DOMAIN counters \/ spent[k] # 0 PROVE Opened(k)'
    BY DEF NotEarly
  <2>1. Opened(k)
    BY DEF NotEarly
  <2>2. k[2] \in Nat \cup {None}
    BY <1>1 DEF Key, Windows
  <2> QED
    BY <1>1, <1>2, <2>1, <2>2 DEF Opened
<1>5. Complete'
  <2> SUFFICES ASSUME NEW k \in Key, Windowed(k), Counting(k)' PROVE Value(k)' = spent[k]
    BY DEF Complete, Windowed
  <2> DEFINE per == Rules[k[1]].per
  <2>1. spent[k] \in Nat /\ k[2] \in Nat \cup {None} /\ per \in Nat \ {0}
    BY <1>1, <1>2 DEF TypeOK, Key, Windows, Windowed
  <2>2. CASE ~Counting(k)
    <3>1. k[2] = now' \div per /\ k[2] # now \div per
      BY <2>1, <2>2 DEF Counting, Window, Windowed
    <3>2. ~Opened(k)
      BY <1>1, <1>2, <2>1, <3>1 DEF Opened
    <3>3. k \notin DOMAIN counters /\ spent[k] = 0
      BY <3>2 DEF NotEarly
    <3> QED
      BY <3>3 DEF Value, Stored, Absent
  <2>3. CASE Counting(k)
    <3>1. Value(k) = spent[k]
      BY <2>3 DEF Complete
    <3>2. CASE k \notin DOMAIN counters
      <4>1. Value(k)' = Value(k)
        BY <3>2 DEF Value, Stored, Absent
      <4> QED
        BY <3>1, <4>1
    <3>3. CASE k \in DOMAIN counters
      <4>1. counters[k].until \in Nat \cup {None} /\ Stored(k) = counters[k] /\ Stored(k)' = counters[k]
        BY <3>3 DEF TypeOK, Stored
      <4>2. ASSUME counters[k].until # None PROVE counters[k].until > now'
        <5>1. Outlives(k, counters[k].until) /\ counters[k].until \in Nat
          BY <3>3, <4>1, <4>2 DEF Lasting
        <5>2. k[2] = now' \div per /\ counters[k].until \div per > k[2]
          BY <2>1, <5>1 DEF Counting, Window, Outlives, Windowed
        <5>3. counters[k].until <= now' => counters[k].until \div per <= now' \div per
          BY <1>1, <2>1, <5>1, DivMonotone
        <5>4. counters[k].until \div per \in Nat /\ now' \div per \in Nat
          BY <1>1, <2>1, <5>1, DivNat
        <5> QED
          BY <1>1, <5>1, <5>2, <5>3, <5>4
      <4>3. Live(Stored(k)) /\ Live(Stored(k))'
        BY <1>1, <4>1, <4>2 DEF Live
      <4> QED
        BY <3>1, <4>1, <4>3 DEF Value
    <3> QED
      BY <3>2, <3>3
  <2> QED
    BY <2>2, <2>3
<1> QED
  BY <1>3, <1>4, <1>5

\* Time passes: a budget's counter that expires had nothing charged to it within
\* its TTL, unless an add to it is still underway.
LEMMA TickRenews ==
  ASSUME TypeOK, Renewed, Tick
  PROVE  Renewed'
<1>1. /\ now \in Nat /\ now' = now + 1 /\ past' = Append(past, spent)
      /\ past \in [1..now -> [Key -> Nat]] /\ spent \in [Key -> Nat]
      /\ counters' = counters /\ spent' = spent /\ calls' = calls
      /\ torn' = torn \cup Underway /\ None \notin Nat
  BY UsageAssumption DEF TypeOK, Tick
<1>2. past \in Seq([Key -> Nat]) /\ Len(past) = now
  BY <1>1
<1>3. /\ \A j \in 1..now : past'[j] = past[j]
      /\ past'[now + 1] = spent
  BY <1>1, <1>2
<1>4. Underway' = Underway
  BY <1>1 DEF Underway
<1> SUFFICES ASSUME NEW k \in Key, ~Windowed(k)', k \notin torn'
             PROVE  Lifelong(k)'
  BY DEF Renewed
<1>5. Lifelong(k) /\ k \notin Underway
  BY <1>1 DEF Renewed, Windowed
<1>6. Span(k) \in Nat \ {0} /\ Span(k)' = Span(k)
  BY RuleTyped DEF Span, Key, Places, Rule
<1>7. Settled(k)'
  BY <1>1, <1>3, <1>4, <1>5, <1>6 DEF Lifelong, Settled
<1>8. Value(k) \in Nat /\ spent[k] \in Nat /\ \A j \in 1..now : past[j][k] \in Nat
  BY <1>1, ValueTyped
<1>9. Remembered(k)'
  <2>1. CASE k \notin DOMAIN counters
    <3>1. Value(k)' = 0 /\ spent[k] = 0
      BY <1>1, <1>5, <2>1 DEF Value, Stored, Absent, Lifelong
    <3> QED
      BY <1>1, <1>3, <1>8, <3>1 DEF Remembered
  <2>2. CASE k \in DOMAIN counters /\ (counters[k].until = None \/ counters[k].until > now + 1)
    <3>1. counters[k].until \in Nat \cup {None}
      BY <2>2 DEF TypeOK
    <3>2. Value(k)' = Value(k)
      BY <1>1, <2>2, <3>1 DEF Value, Stored, Live
    <3>3. now + 1 < Span(k) => now < Span(k)
      BY <1>1, <1>6
    <3>4. \A j \in 1..(now + 1) : j + Span(k) > now + 1 => Value(k) + past'[j][k] >= spent[k]
      BY <1>1, <1>3, <1>5, <1>6, <1>8 DEF Lifelong, Remembered
    <3> QED
      BY <1>1, <1>5, <1>6, <3>2, <3>3, <3>4 DEF Lifelong, Remembered
  <2>3. CASE k \in DOMAIN counters /\ ~(counters[k].until = None \/ counters[k].until > now + 1)
    <3>1. counters[k].until \in Nat /\ counters[k].until <= now + 1
      BY <1>1, <2>3 DEF TypeOK
    <3>2. Value(k)' = 0
      BY <1>1, <2>3, <3>1 DEF Value, Stored, Live
    <3>3. /\ counters[k].until >= Span(k)
          /\ \A j \in 1..now : j + Span(k) > counters[k].until => past[j][k] = spent[k]
      BY <1>1, <1>5, <2>3, <3>1 DEF Lifelong, Settled
    <3>4. ~(now + 1 < Span(k))
      BY <1>1, <1>6, <3>1, <3>3
    <3>5. ASSUME NEW j \in 1..(now + 1), j + Span(k) > now + 1
          PROVE  past'[j][k] = spent[k]
      BY <1>1, <1>3, <1>6, <3>1, <3>3, <3>5
    <3> QED
      BY <1>1, <1>6, <1>8, <3>2, <3>4, <3>5 DEF Remembered
  <2> QED
    BY <2>1, <2>2, <2>3
<1> QED
  BY <1>1, <1>4, <1>5, <1>7, <1>9 DEF Lifelong

-------------------------------------------------------------------------------
(***************************************************************************)
(* The calls.                                                              *)
(***************************************************************************)
Invocation == [pc: {"idle", "check", "charge", "expire", "passed", "denied"},
               cost: Costs \cup {0}, at: 0..Horizon, rule: 1..Len(Rules),
               reason: {"none", "limit", "error"}]

LEMMA Lengths == Len(Rules) \in Nat \ {0} /\ Places = 1..Len(Rules)
BY UsageAssumption, SMT DEF Places

\* What becomes of a call whose rule is done with.
LEMMA AdvanceMoves ==
  ASSUME TypeOK, NEW c \in Calls, NEW call \in Invocation,
         call.pc \in {"check", "charge"}, Advance(c, call)
  PROVE  /\ calls' \in [Calls -> Invocation]
         /\ \A d \in Calls \ {c} : calls'[d] = calls[d]
         /\ calls'[c].cost = call.cost /\ calls'[c].at = call.at
         /\ calls'[c].reason = call.reason
         /\ \/ calls'[c].pc = call.pc /\ calls'[c].rule = call.rule + 1
            \/ /\ call.rule = Len(Rules)
               /\ calls'[c].pc = IF call.pc = "check" THEN "charge" ELSE "passed"
<1>1. CASE call.rule < Len(Rules)
  <2> DEFINE next == [call EXCEPT !.rule = @ + 1]
  <2>1. next \in Invocation /\ next.pc = call.pc /\ next.rule = call.rule + 1
        /\ next.cost = call.cost /\ next.at = call.at /\ next.reason = call.reason
    BY <1>1, Lengths DEF Invocation
  <2>2. calls' = [calls EXCEPT ![c] = next]
    BY <1>1 DEF Advance, Become
  <2> QED
    BY <2>1, <2>2 DEF TypeOK, Invocation
<1>2. CASE ~(call.rule < Len(Rules))
  <2> DEFINE next == [call EXCEPT !.rule = 1,
                                  !.pc = IF call.pc = "check" THEN "charge" ELSE "passed"]
  <2>1. /\ next.pc = IF call.pc = "check" THEN "charge" ELSE "passed"
        /\ next.rule = 1 /\ 1 \in 1..Len(Rules)
    BY Lengths DEF Invocation
  <2>5. next \in Invocation
    <3>1. CASE call.pc = "check"
      BY <2>1, <3>1 DEF Invocation
    <3>2. CASE call.pc = "charge"
      BY <2>1, <3>2 DEF Invocation
    <3> QED
      BY <3>1, <3>2
  <2>2. next.cost = call.cost /\ next.at = call.at /\ next.reason = call.reason
    BY DEF Invocation
  <2>3. calls' = [calls EXCEPT ![c] = next]
    BY <1>2 DEF Advance, Become
  <2>4. call.rule = Len(Rules)
    BY <1>2, Lengths DEF Invocation
  <2> QED
    BY <2>1, <2>2, <2>3, <2>4, <2>5 DEF TypeOK, Invocation
<1> QED
  BY <1>1, <1>2

LEMMA DenyMoves ==
  ASSUME TypeOK, NEW c \in Calls, NEW reason \in {"limit", "error"}, Deny(c, reason)
  PROVE  /\ calls' \in [Calls -> Invocation]
         /\ \A d \in Calls \ {c} : calls'[d] = calls[d]
         /\ calls'[c].cost = calls[c].cost /\ calls'[c].at = calls[c].at
         /\ calls'[c].reason = reason /\ calls'[c].pc = "denied"
<1> DEFINE denied == [calls[c] EXCEPT !.pc = "denied", !.reason = reason]
<1>1. /\ denied \in Invocation /\ denied.pc = "denied" /\ denied.reason = reason
      /\ denied.cost = calls[c].cost /\ denied.at = calls[c].at
  BY ZenonT(30) DEF TypeOK, Invocation
<1>2. calls' = [calls EXCEPT ![c] = denied]
  BY DEF Deny, Become
<1> QED
  BY <1>1, <1>2 DEF TypeOK, Invocation

\* What is known of a call stays known while others move and time passes.
LEMMA CallKept ==
  ASSUME TypeOK, NEW c \in Calls, CallInv(c), now' \in Nat, now <= now',
         calls'[c] = calls[c], charged'[c] = charged[c],
         \A i \in Places : room'[c][i] = room[c][i]
  PROVE  CallInv(c)'
<1>1. calls[c].at \in 0..Horizon /\ now \in 0..Horizon /\ Horizon \in Nat /\ calls[c].at <= now
  BY UsageAssumption DEF TypeOK, CallInv
<1>2. calls'[c].at <= now'
  BY <1>1
<1> QED
  BY <1>2 DEF CallInv

LEMMA InitInv == Init => UsageInv
<1> SUFFICES ASSUME Init PROVE UsageInv
  OBVIOUS
<1>1. Horizon \in Nat /\ Len(Rules) \in Nat \ {0} /\ None \notin Nat
  BY UsageAssumption, Lengths
<1>2. Idle \in Invocation /\ Idle.at = 0 /\ Idle.pc = "idle" /\ Idle.reason = "none"
  BY <1>1 DEF Idle, Invocation
<1>3. DOMAIN counters = {} /\ now = 0 /\ 1..now = {}
  BY DEF Init
<1>4. TypeOK
  <2>1. past \in [1..now -> [Key -> Nat]]
    BY <1>3 DEF Init
  <2> QED
    BY <1>1, <1>2, <1>3, <2>1 DEF Init, TypeOK, Invocation
<1>5. Complete /\ Lasting /\ NotEarly
  BY <1>3 DEF Init, Complete, Lasting, NotEarly, Value, Stored, Absent
<1>6. Renewed
  <2> SUFFICES ASSUME NEW k \in Key PROVE Lifelong(k)
    BY DEF Renewed
  <2>1. k \notin Underway
    BY <1>2 DEF Init, Underway
  <2>2. spent[k] = 0 /\ Value(k) = 0
    BY <1>3 DEF Init, Value, Stored, Absent
  <2> QED
    BY <1>3, <2>1, <2>2 DEF Lifelong, Remembered, Settled
<1>7. \A c \in Calls : CallInv(c)
  BY <1>2 DEF Init, CallInv, Places
<1> QED
  BY <1>4, <1>5, <1>6, <1>7 DEF UsageInv, StoreInv

LEMMA TickInv == UsageInv /\ Tick => UsageInv'
<1> SUFFICES ASSUME UsageInv, Tick PROVE UsageInv'
  OBVIOUS
<1>1. /\ now \in 0..Horizon /\ now' = now + 1 /\ now' \in 0..Horizon /\ now <= now'
      /\ now' \in Nat /\ now \in Nat
  BY UsageAssumption DEF Tick, UsageInv, TypeOK
<1>2. TypeOK'
  <2>1. past' \in [1..now' -> [Key -> Nat]]
    <3>1. past \in [1..now -> [Key -> Nat]] /\ spent \in [Key -> Nat]
      BY DEF UsageInv, TypeOK
    <3>2. past \in Seq([Key -> Nat]) /\ Len(past) = now
      BY <1>1, <3>1
    <3>3. past' = Append(past, spent)
      BY DEF Tick
    <3>4. past' \in Seq([Key -> Nat]) /\ Len(past') = now'
      BY <1>1, <3>1, <3>2, <3>3
    <3> QED
      BY <3>4
  <2>2. Underway \subseteq Key
    <3>1. ASSUME NEW c \in Calls PROVE StorageKey(calls[c].rule, calls[c].at) \in Key
      BY KeyTyped DEF UsageInv, TypeOK, Places
    <3> QED
      BY <3>1 DEF Underway
  <2> QED
    BY <1>1, <2>1, <2>2 DEF Tick, UsageInv, TypeOK
<1>3. Complete' /\ Lasting' /\ NotEarly'
  BY <1>1, TickKeeps DEF UsageInv, StoreInv, Tick
<1>4. Renewed'
  BY TickRenews DEF UsageInv, StoreInv
<1>5. ASSUME NEW c \in Calls PROVE CallInv(c)'
  BY <1>1, CallKept DEF UsageInv, Tick
<1> QED
  BY <1>2, <1>3, <1>4, <1>5 DEF UsageInv, StoreInv

\* The store is not touched, nor a call that has: what is known of it stays known.
LEMMA StoreKept ==
  ASSUME TypeOK, StoreInv, now' = now, counters' = counters, UNCHANGED metering,
         Underway' = Underway
  PROVE  StoreInv'
<1>1. Complete' /\ Lasting' /\ NotEarly'
  BY DEF StoreInv, Complete, Lasting, NotEarly, Counting, Opened, Value, Stored, Live,
         Outlives, Windowed, metering
<1>2. Renewed'
  <2> SUFFICES ASSUME NEW k \in Key, ~Windowed(k), k \notin torn PROVE Lifelong(k)'
    BY DEF Renewed, Windowed, metering
  <2> QED
    BY LifeKept DEF StoreInv, Renewed, metering
<1> QED
  BY <1>1, <1>2 DEF StoreInv

\* What is underway changes only with a call that was or becomes an add.
LEMMA UnderwayKept ==
  ASSUME NEW c \in Calls, calls[c].pc # "expire", calls'[c].pc # "expire",
         \A d \in Calls \ {c} : calls'[d] = calls[d]
  PROVE  Underway' = Underway
<1>1. {d \in Calls : calls'[d].pc = "expire"} = {d \in Calls : calls[d].pc = "expire"}
  OBVIOUS
<1>2. \A d \in {e \in Calls : calls[e].pc = "expire"} : calls'[d] = calls[d]
  OBVIOUS
<1> QED
  BY <1>1, <1>2 DEF Underway, StorageKey

LEMMA ArriveInv ==
  ASSUME UsageInv, NEW c \in Calls, NEW cost \in Costs, Arrive(c, cost)
  PROVE  UsageInv'
<1> DEFINE call == [Idle EXCEPT !.pc = "check", !.cost = cost, !.at = now]
<1>1. /\ TypeOK /\ now \in 0..Horizon /\ now' = now /\ calls' = [calls EXCEPT ![c] = call]
      /\ calls[c].pc = "idle" /\ UNCHANGED <<store, counters, metering, charged, room>>
  BY DEF UsageInv, TypeOK, Arrive, Become, history
<1>2. /\ call.pc = "check" /\ call.cost = cost /\ call.at = now
      /\ call.reason = "none" /\ call.rule = 1 /\ 1 \in 1..Len(Rules)
  BY Lengths DEF Idle
<1>7. call \in Invocation
  BY <1>1, <1>2 DEF Idle, Invocation
<1>3. calls' \in [Calls -> Invocation] /\ calls'[c] = call /\ \A d \in Calls \ {c} : calls'[d] = calls[d]
  BY <1>1, <1>7 DEF TypeOK, Invocation
<1>4. TypeOK'
  BY <1>1, <1>3 DEF TypeOK, metering, Invocation
<1>5. StoreInv'
  <2>1. Underway' = Underway
    BY <1>1, <1>2, <1>3, UnderwayKept
  <2> QED
    BY <1>1, <2>1, StoreKept DEF UsageInv
<1>6. ASSUME NEW d \in Calls PROVE CallInv(d)'
  <2>1. CASE d = c
    <3>1. charged'[c] = {} /\ \A i \in Places : room'[c][i]
      BY <1>1 DEF UsageInv, CallInv
    <3> HIDE DEF call
    <3>4. calls'[c].at <= now' /\ calls'[c].reason = "none"
      BY <1>1, <1>2, <1>3
    <3> QED
      BY <2>1, <3>1, <3>4 DEF CallInv
  <2>2. CASE d # c
    BY <1>1, <1>3, <2>2, CallKept DEF UsageInv, TypeOK
  <2> QED
    BY <2>1, <2>2
<1> QED
  BY <1>4, <1>5, <1>6 DEF UsageInv

\* A call of the hook, its rule, and the key it is counted under.
LEMMA CallFacts ==
  ASSUME UsageInv, NEW c \in Calls, NEW i \in 1..Len(Rules), Turn(c, i)
  PROVE  /\ calls[c] \in Invocation /\ calls[c].rule = i
         /\ i \in Places /\ calls[c].at \in 0..Horizon
         /\ now \in 0..Horizon /\ calls[c].at <= now
         /\ StorageKey(i, calls[c].at) \in Key
         /\ Opened(StorageKey(i, calls[c].at))
<1>1. /\ calls[c] \in Invocation /\ calls[c].rule = i
      /\ now \in 0..Horizon /\ calls[c].at <= now
  BY DEF UsageInv, TypeOK, Invocation, Turn, CallInv
<1>2. calls[c].at \in 0..Horizon /\ i \in Places
  BY <1>1 DEF Invocation, Places
<1> QED
  BY <1>1, <1>2, KeyTyped, KeyOpened

\* What a rule that is not skipped charges.
LEMMA MeteredAmount ==
  ASSUME NEW i \in Places, NEW cost \in Costs \cup {0}, ~Skips(Rules[i], cost)
  PROVE  /\ Amount(Rules[i], cost) \in Nat
         /\ Rules[i].limit \in Nat
<1>1. Rules[i] \in Rule /\ cost \in Int
  BY RuleTyped, UsageAssumption
<1> QED
  BY <1>1, SMT DEF Rule, Skips, Amount

\* A check that passes has reckoned with no more than it found.
LEMMA ReckonedFound ==
  ASSUME UsageInv, NEW i \in Places, NEW at \in 0..Horizon, at <= now
  PROVE  /\ Reckoned(StorageKey(i, at), Rules[i], at) \in Int
         /\ Reckoned(StorageKey(i, at), Rules[i], at) <= Value(StorageKey(i, at))
<1> DEFINE k == StorageKey(i, at)
           span == Rules[i].lifetimeTtl
<1>0. TypeOK /\ k \in Key /\ k[1] = i /\ k[2] = Window(Rules[i], at)
  BY KeyTyped DEF UsageInv, StorageKey
<1>1. /\ TypeOK /\ k \in Key /\ k[1] = i /\ k[2] = Window(Rules[i], at)
      /\ Value(k) \in Nat /\ spent[k] \in Nat /\ now \in Nat
      /\ \A j \in 1..now : past[j][k] \in Nat
  <2> HIDE DEF k
  <2>1. Value(k) \in Nat
    BY <1>0, ValueTyped
  <2> QED
    BY <1>0, <2>1, UsageAssumption DEF TypeOK
<1>2. CASE Rules[i].per # None /\ Window(Rules[i], now) = Window(Rules[i], at)
  <2>1. Value(k) = spent[k]
    BY <1>1, <1>2 DEF UsageInv, StoreInv, Complete, Counting, Windowed
  <2> QED
    BY <1>1, <1>2, <2>1 DEF Reckoned
<1>3. CASE Rules[i].per = None /\ k \notin torn
  <2>1. Remembered(k) /\ Span(k) = span
    BY <1>1, <1>3 DEF UsageInv, StoreInv, Renewed, Lifelong, Windowed, Span
  <2>2. span \in Nat \ {0}
    BY RuleTyped DEF Rule
  <2>3. Reckoned(k, Rules[i], at) = Recent(k, span)
    BY <1>3 DEF Reckoned
  <2>4. CASE now < span
    BY <1>1, <2>1, <2>3, <2>4 DEF Recent, Remembered
  <2>5. CASE ~(now < span)
    <3>1. /\ now - span + 1 \in 1..now /\ now - span + 1 + span > now
      BY <1>1, <2>2, <2>5
    <3>2. Value(k) + past[now - span + 1][k] >= spent[k]
      BY <2>1, <3>1 DEF Remembered
    <3> HIDE DEF k, span
    <3>3. Recent(k, span) = spent[k] - past[now - span + 1][k]
      BY <2>5 DEF Recent
    <3>4. past[now - span + 1][k] \in Nat
      BY <1>1, <3>1
    <3>5. Recent(k, span) \in Int /\ Recent(k, span) <= Value(k)
      BY <1>1, <3>2, <3>3, <3>4
    <3>6. Reckoned(k, Rules[i], at) \in Int /\ Reckoned(k, Rules[i], at) <= Value(k)
      BY <2>3, <3>5
    <3> QED
      BY <3>6 DEF k
  <2> QED
    BY <2>4, <2>5
<1>4. CASE /\ ~(Rules[i].per # None /\ Window(Rules[i], now) = Window(Rules[i], at))
           /\ ~(Rules[i].per = None /\ k \notin torn)
  BY <1>1, <1>4 DEF Reckoned
<1> QED
  BY <1>2, <1>3, <1>4

LEMMA CheckInv ==
  ASSUME UsageInv, NEW c \in Calls, NEW i \in 1..Len(Rules), Check(c, i)
  PROVE  UsageInv'
<1> DEFINE k == StorageKey(i, calls[c].at)
           amount == Amount(Rules[i], calls[c].cost)
<1>1. /\ calls[c] \in Invocation /\ calls[c].rule = i /\ calls[c].pc = "check"
      /\ i \in Places /\ calls[c].at \in 0..Horizon /\ k \in Key
      /\ now \in 0..Horizon /\ calls[c].at <= now
  BY CallFacts DEF Check
<1>2. /\ TypeOK /\ CallInv(c) /\ StoreInv
      /\ now' = now /\ store' = store /\ counters' = counters
      /\ UNCHANGED metering /\ charged' = charged
  BY DEF UsageInv, Check
<1>3. charged'[c] = {} /\ calls[c].reason = "none" /\ \A j \in Places : room[c][j]
  BY <1>1, <1>2 DEF CallInv
<1>4. ASSUME \A d \in Calls \ {c} : calls'[d] = calls[d], calls'[c].pc # "expire"
      PROVE  StoreInv'
  <2>1. Underway' = Underway
    BY <1>1, <1>4, UnderwayKept
  <2> QED
    BY <1>2, <2>1, StoreKept
<1>5. CASE \/ Deny(c, "limit") /\ UNCHANGED room
           \/ Deny(c, "error") /\ UNCHANGED room
  <2>1. PICK reason \in {"limit", "error"} : Deny(c, reason) /\ UNCHANGED room
    BY <1>5
  <2>2. /\ calls' \in [Calls -> Invocation]
        /\ \A d \in Calls \ {c} : calls'[d] = calls[d]
        /\ calls'[c].cost = calls[c].cost /\ calls'[c].at = calls[c].at
        /\ calls'[c].pc = "denied"
    BY <1>2, <2>1, DenyMoves
  <2>3. TypeOK'
    BY <1>2, <2>1, <2>2 DEF TypeOK, Invocation, metering
  <2>4. CallInv(c)'
    BY <1>1, <1>2, <1>3, <2>1, <2>2 DEF CallInv
  <2>5. ASSUME NEW d \in Calls \ {c} PROVE CallInv(d)'
    BY <1>1, <1>2, <2>1, <2>2, CallKept DEF UsageInv, TypeOK
  <2>6. StoreInv'
    BY <1>4, <2>2
  <2> QED
    BY <2>3, <2>4, <2>5, <2>6 DEF UsageInv
<1>6. CASE /\ Advance(c, calls[c])
           /\ \/ Skips(Rules[i], calls[c].cost) /\ UNCHANGED room
              \/ /\ ~Skips(Rules[i], calls[c].cost)
                 /\ Fits(Value(k), amount, Rules[i].limit)
                 /\ room' = [room EXCEPT ![c][i] =
                       Reckoned(k, Rules[i], calls[c].at) + amount <= Rules[i].limit]
  <2>1. /\ calls' \in [Calls -> Invocation]
        /\ \A d \in Calls \ {c} : calls'[d] = calls[d]
        /\ calls'[c].cost = calls[c].cost /\ calls'[c].at = calls[c].at
        /\ calls'[c].reason = "none" /\ calls'[c].pc \in {"check", "charge"}
    BY <1>1, <1>2, <1>3, <1>6, AdvanceMoves
  <2>2. /\ room' \in [Calls -> [1..Len(Rules) -> BOOLEAN]]
        /\ \A d \in Calls \ {c} : room'[d] = room[d]
        /\ \A j \in Places : room'[c][j]
    <3>0. room \in [Calls -> [1..Len(Rules) -> BOOLEAN]] /\ \A j \in 1..Len(Rules) : room[c][j]
      BY <1>2, <1>3 DEF TypeOK, Places
    <3>1. CASE UNCHANGED room
      BY <3>0, <3>1 DEF Places
    <3>2. CASE /\ ~Skips(Rules[i], calls[c].cost)
               /\ Fits(Value(k), amount, Rules[i].limit)
               /\ room' = [room EXCEPT ![c][i] =
                     Reckoned(k, Rules[i], calls[c].at) + amount <= Rules[i].limit]
      <4> DEFINE x == Reckoned(k, Rules[i], calls[c].at) + amount <= Rules[i].limit
      <4>1. /\ amount \in Nat /\ Rules[i].limit \in Nat /\ Value(k) \in Nat
            /\ Reckoned(k, Rules[i], calls[c].at) \in Int
            /\ Reckoned(k, Rules[i], calls[c].at) <= Value(k)
        BY <1>1, <1>2, <3>2, MeteredAmount, ReckonedFound, ValueTyped DEF Invocation
      <4>2. x = TRUE
        <5> HIDE DEF k, amount
        <5> QED
          BY <3>2, <4>1 DEF Fits
      <4>3. room' = [room EXCEPT ![c][i] = x]
        BY <3>2
      <4> HIDE DEF x
      <4> QED
        BY <3>0, <4>2, <4>3 DEF Places
    <3> QED
      BY <1>6, <3>1, <3>2
  <2>4. TypeOK'
    BY <1>2, <2>1, <2>2 DEF TypeOK, Invocation, metering
  <2>5. CallInv(c)'
    BY <1>1, <1>2, <1>3, <2>1, <2>2 DEF CallInv
  <2>6. ASSUME NEW d \in Calls \ {c} PROVE CallInv(d)'
    <3>1. CallInv(d) /\ calls'[d] = calls[d] /\ charged'[d] = charged[d] /\ room'[d] = room[d]
      BY <1>2, <2>1, <2>2 DEF UsageInv
    <3>2. now' \in Nat /\ now <= now'
      BY <1>1, <1>2, UsageAssumption
    <3> QED
      BY <1>2, <3>1, <3>2, CallKept
  <2>7. StoreInv'
    BY <1>4, <2>1
  <2> QED
    BY <2>4, <2>5, <2>6, <2>7 DEF UsageInv
<1> QED
  BY <1>5, <1>6 DEF Check

\* What a call's next charge, or its TTL, leaves of what is known of the calls.
LEMMA ChargedCall ==
  ASSUME UsageInv, NEW c \in Calls,
         calls[c].pc \in {"charge", "expire"}, UNCHANGED <<now, room>>,
         calls' \in [Calls -> Invocation], calls'[c].at = calls[c].at,
         calls'[c].pc \in {"charge", "expire", "passed", "denied"},
         calls'[c].reason = "none" \/ (calls'[c].pc = "denied" /\ calls'[c].reason = "error"),
         \A d \in Calls \ {c} : calls'[d] = calls[d] /\ charged'[d] = charged[d]
  PROVE  \A d \in Calls : CallInv(d)'
<1>1. TypeOK /\ CallInv(c) /\ now' = now /\ room' = room /\ now \in Nat
  BY UsageAssumption DEF UsageInv, TypeOK
<1>2. CallInv(c)'
  BY <1>1 DEF CallInv
<1>3. ASSUME NEW d \in Calls \ {c} PROVE CallInv(d)'
  BY <1>1, CallKept DEF UsageInv
<1> QED
  BY <1>2, <1>3

\* A charge to a lifetime budget leaves what is known of the budgets: its counter
\* holds the new amount too, and either has a whole TTL to live or awaits it.
LEMMA ChargeRenews ==
  ASSUME TypeOK, Renewed, NEW k \in Key, NEW amount \in Nat, NEW entry \in Entry,
         now' = now, past' = past, torn' = torn, now \in Nat,
         DOMAIN counters' = DOMAIN counters \cup {k}, counters'[k] = entry,
         \A q \in DOMAIN counters : q # k => counters'[q] = counters[q],
         spent'[k] = spent[k] + amount, spent' \in [Key -> Nat],
         \A q \in Key : q # k => spent'[q] = spent[q],
         Value(k)' = Value(k) + amount,
         \A q \in Key : q # k => (q \in Underway' <=> q \in Underway),
         entry.until = None \/ entry.until > now,
         ~Windowed(k) =>
           \/ entry.until = now + Span(k)
           \/ k \in Underway' /\ (entry.until = None \/ (k \in DOMAIN counters /\ entry.until = counters[k].until))
  PROVE  Renewed'
<1> SUFFICES ASSUME NEW q \in Key, ~Windowed(q), q \notin torn PROVE Lifelong(q)'
  BY DEF Renewed, Windowed
<1>1. Lifelong(q)
  BY DEF Renewed
<1>2. CASE q # k
  BY <1>1, <1>2, LifeKept
<1>3. CASE q = k
  <2>1. /\ Span(k) \in Nat \ {0} /\ Span(k)' = Span(k) /\ None \notin Nat
        /\ spent[k] \in Nat /\ Value(k) \in Nat /\ \A j \in 1..now : past[j][k] \in Nat
    <3>1. Span(k) \in Nat \ {0} /\ Span(k)' = Span(k)
      BY RuleTyped DEF Span, Key, Places, Rule
    <3>2. Value(k) \in Nat
      BY ValueTyped
    <3>3. spent[k] \in Nat /\ \A j \in 1..now : past[j][k] \in Nat
      BY DEF TypeOK
    <3> QED
      BY <3>1, <3>2, <3>3, UsageAssumption
  <2>2. Remembered(k)'
    BY <1>1, <1>3, <2>1 DEF Lifelong, Remembered
  <2>3. Settled(k)'
    <3>1. CASE entry.until = now + Span(k)
      BY <2>1, <3>1 DEF Settled
    <3>2. CASE k \in Underway' /\ (entry.until = None \/ (k \in DOMAIN counters /\ entry.until = counters[k].until))
      BY <1>1, <1>3, <2>1, <3>2 DEF Lifelong, Settled
    <3> QED
      BY <1>3, <3>1, <3>2
  <2>4. Live(Stored(k))'
    BY DEF Live, Stored
  <2> QED
    BY <1>3, <2>2, <2>3, <2>4 DEF Lifelong
<1> QED
  BY <1>2, <1>3

LEMMA ChargeInv ==
  ASSUME UsageInv, NEW c \in Calls, NEW i \in 1..Len(Rules), Charge(c, i)
  PROVE  UsageInv'
<1>0. PICK k : k = StorageKey(i, calls[c].at)
  OBVIOUS
<1>a. PICK amount : amount = Amount(Rules[i], calls[c].cost)
  OBVIOUS
<1>1. /\ calls[c] \in Invocation /\ calls[c].rule = i /\ calls[c].pc = "charge"
      /\ i \in Places /\ calls[c].at \in 0..Horizon /\ k \in Key /\ Opened(k)
      /\ now \in 0..Horizon /\ now \in Nat /\ calls[c].at <= now /\ Turn(c, i)
  BY <1>0, CallFacts, UsageAssumption DEF Charge
<1>2. /\ TypeOK /\ StoreInv /\ CallInv(c)
      /\ now' = now /\ store' = store /\ past' = past /\ torn' = torn /\ room' = room
  BY DEF UsageInv, Charge
<1>3. calls[c].reason = "none"
  BY <1>1, <1>2 DEF CallInv
<1>4. CASE \/ /\ Skips(Rules[i], calls[c].cost) /\ Advance(c, calls[c])
              /\ UNCHANGED <<counters, spent, charged>>
           \/ Deny(c, "error") /\ UNCHANGED <<counters, spent, charged>>
  <2>1. /\ calls' \in [Calls -> Invocation]
        /\ \A d \in Calls \ {c} : calls'[d] = calls[d]
        /\ calls'[c].cost = calls[c].cost /\ calls'[c].at = calls[c].at
        /\ calls'[c].pc \in {"charge", "passed", "denied"}
        /\ calls'[c].reason = "none" \/ (calls'[c].pc = "denied" /\ calls'[c].reason = "error")
    <3>1. CASE Advance(c, calls[c])
      BY <1>1, <1>2, <1>3, <3>1, AdvanceMoves
    <3>2. CASE Deny(c, "error")
      BY <1>2, <3>2, DenyMoves
    <3> QED
      BY <1>4, <3>1, <3>2
  <2>2. TypeOK'
    BY <1>2, <1>4, <2>1 DEF TypeOK, Invocation
  <2>3. StoreInv'
    <3>1. Underway' = Underway
      BY <1>1, <2>1, UnderwayKept
    <3> QED
      BY <1>2, <1>4, <3>1, StoreKept DEF metering
  <2>4. \A d \in Calls : CallInv(d)'
    BY <1>1, <1>2, <1>4, <2>1, ChargedCall
  <2> QED
    BY <2>2, <2>3, <2>4 DEF UsageInv
<1>6. CASE /\ ~Skips(Rules[i], calls[c].cost)
           /\ spent' = [spent EXCEPT ![k] = @ + amount]
           /\ charged' = [charged EXCEPT ![c] = @ \cup {i}]
           /\ \/ /\ Put(k, [value |-> Added(k, amount), until |-> now + Ttl(Rules[i])])
                 /\ Advance(c, calls[c])
              \/ /\ Put(k, [value |-> Added(k, amount),
                            until |-> IF Live(Stored(k)) THEN Stored(k).until ELSE None])
                 /\ Become(c, [calls[c] EXCEPT !.pc = "expire"])
  <2>1. amount \in Nat /\ Value(k) \in Nat /\ Stored(k) \in Entry
    BY <1>1, <1>2, <1>6, <1>a, MeteredAmount, ValueTyped DEF Invocation
  <2>2. Added(k, amount) \in Nat /\ Added(k, amount) = Value(k) + amount
    BY <2>1 DEF Added
  <2>3. /\ charged' \in [Calls -> SUBSET (1..Len(Rules))]
        /\ \A d \in Calls \ {c} : charged'[d] = charged[d]
    BY <1>1, <1>2, <1>6 DEF TypeOK
  <2>6. k[1] = i
    BY <1>0 DEF StorageKey
  <2>4. CASE /\ Put(k, [value |-> Added(k, amount), until |-> now + Ttl(Rules[i])])
             /\ Advance(c, calls[c])
    <3> DEFINE entry == [value |-> Added(k, amount), until |-> now + Ttl(Rules[i])]
    <3>1. /\ entry \in Entry /\ entry.value = Added(k, amount)
          /\ entry.until > now /\ Outlives(k, entry.until)
          /\ ~Windowed(k) => entry.until = now + Span(k)
      BY <1>0, <1>1, <2>2, <2>6, TtlOutlives DEF Entry, Windowed, Span
    <3>3. /\ calls' \in [Calls -> Invocation]
          /\ \A d \in Calls \ {c} : calls'[d] = calls[d]
          /\ calls'[c].cost = calls[c].cost /\ calls'[c].at = calls[c].at
          /\ calls'[c].reason = "none" /\ calls'[c].pc \in {"charge", "passed"}
      BY <1>1, <1>2, <1>3, <2>4, AdvanceMoves
    <3>6. Underway' = Underway
      BY <1>1, <3>3, UnderwayKept
    <3>2. /\ DOMAIN counters' \subseteq Key
          /\ \A q \in DOMAIN counters' : counters'[q] \in Entry
          /\ spent' \in [Key -> Nat]
          /\ StoreInv'
      <4> HIDE DEF entry
      <4>1. /\ DOMAIN counters' = DOMAIN counters \cup {k}
            /\ counters'[k] = entry
            /\ \A q \in DOMAIN counters : q # k => counters'[q] = counters[q]
            /\ DOMAIN counters' \subseteq Key
            /\ \A q \in DOMAIN counters' : counters'[q] \in Entry
            /\ spent' \in [Key -> Nat]
            /\ spent'[k] = spent[k] + amount
            /\ \A q \in Key : q # k => spent'[q] = spent[q]
            /\ Value(k)' = Added(k, amount)
            /\ Complete' /\ Lasting' /\ NotEarly'
        <5>1. Put(k, entry)
          BY <2>4 DEF entry
        <5>2. spent' = [spent EXCEPT ![k] = @ + amount]
          BY <1>6
        <5>3. TypeOK /\ Complete /\ Lasting /\ NotEarly
          BY <1>2 DEF StoreInv
        <5>4. k \in Key /\ Opened(k) /\ now' = now
          BY <1>1, <1>2
        <5>5. entry.until = None \/ (entry.until > now /\ Outlives(k, entry.until))
          BY <3>1
        <5>6. amount \in Nat /\ entry \in Entry /\ entry.value = Added(k, amount)
          BY <2>1, <3>1
        <5> QED
          BY <5>1, <5>2, <5>3, <5>4, <5>5, <5>6, PutKeeps, ZenonT(60)
      <4>2. Renewed'
        BY <1>1, <1>2, <2>1, <2>2, <3>1, <3>6, <4>1, ChargeRenews DEF StoreInv
      <4> QED
        BY <4>1, <4>2 DEF StoreInv
    <3>4. TypeOK'
      BY <1>2, <2>3, <3>2, <3>3 DEF TypeOK, Invocation, Entry
    <3>5. \A d \in Calls : CallInv(d)'
      BY <1>1, <1>2, <2>3, <3>3, ChargedCall
    <3> QED
      BY <3>2, <3>4, <3>5 DEF UsageInv
  <2>5. CASE /\ Put(k, [value |-> Added(k, amount),
                        until |-> IF Live(Stored(k)) THEN Stored(k).until ELSE None])
             /\ Become(c, [calls[c] EXCEPT !.pc = "expire"])
    <3> DEFINE until == IF Live(Stored(k)) THEN Stored(k).until ELSE None
               entry == [value |-> Added(k, amount), until |-> until]
               call == [calls[c] EXCEPT !.pc = "expire"]
    <3>1. until \in Nat \cup {None}
      BY <2>1 DEF Entry
    <3>2. until = None \/ (until > now /\ Outlives(k, until) /\ k \in DOMAIN counters /\ until = counters[k].until)
      <4> SUFFICES ASSUME until # None
                   PROVE  until > now /\ Outlives(k, until) /\ k \in DOMAIN counters /\ until = counters[k].until
        OBVIOUS
      <4>1. until = Stored(k).until /\ Live(Stored(k))
        OBVIOUS
      <4>2. until > now
        BY <4>1 DEF Live
      <4>3. k \in DOMAIN counters
        BY <1>1, <4>1, <4>2 DEF Stored, Absent
      <4>5. until = counters[k].until
        BY <4>1, <4>3 DEF Stored
      <4>4. Outlives(k, counters[k].until)
        BY <1>2, <4>1, <4>3, <4>5 DEF StoreInv, Lasting
      <4> QED
        BY <4>2, <4>3, <4>4, <4>5
    <3>3. /\ entry \in Entry /\ entry.value = Added(k, amount) /\ entry.until = until
          /\ entry.until = None \/ (entry.until > now /\ Outlives(k, entry.until))
      BY <2>2, <3>1, <3>2 DEF Entry
    <3>5. /\ call \in Invocation /\ call.pc = "expire" /\ call.cost = calls[c].cost
          /\ call.at = calls[c].at /\ call.reason = "none" /\ call.rule = i
      BY <1>1, <1>3 DEF Invocation
    <3>6. /\ calls' \in [Calls -> Invocation] /\ calls'[c] = call
          /\ \A d \in Calls \ {c} : calls'[d] = calls[d]
      BY <1>2, <2>5, <3>5 DEF TypeOK, Become, Invocation
    <3>9. Underway' = Underway \cup {k}
      <4>1. {d \in Calls : calls'[d].pc = "expire"} = {d \in Calls : calls[d].pc = "expire"} \cup {c}
        <5> HIDE DEF call
        <5> QED
          BY <3>5, <3>6
      <4>2. StorageKey(calls'[c].rule, calls'[c].at) = k
        BY <1>0, <3>5, <3>6 DEF StorageKey
      <4>3. \A d \in {e \in Calls : calls[e].pc = "expire"} : calls'[d] = calls[d]
        BY <1>1, <3>6
      <4> HIDE DEF call
      <4>4. Underway' = {StorageKey(calls'[d].rule, calls'[d].at) : d \in {e \in Calls : calls'[e].pc = "expire"}}
        BY DEF Underway, StorageKey
      <4> QED
        BY <4>1, <4>2, <4>3, <4>4 DEF Underway
    <3>4. /\ DOMAIN counters' \subseteq Key
          /\ \A q \in DOMAIN counters' : counters'[q] \in Entry
          /\ spent' \in [Key -> Nat]
          /\ StoreInv'
      <4> HIDE DEF entry, until
      <4>1. /\ DOMAIN counters' = DOMAIN counters \cup {k}
            /\ counters'[k] = entry
            /\ \A q \in DOMAIN counters : q # k => counters'[q] = counters[q]
            /\ DOMAIN counters' \subseteq Key
            /\ \A q \in DOMAIN counters' : counters'[q] \in Entry
            /\ spent' \in [Key -> Nat]
            /\ spent'[k] = spent[k] + amount
            /\ \A q \in Key : q # k => spent'[q] = spent[q]
            /\ Value(k)' = Added(k, amount)
            /\ Complete' /\ Lasting' /\ NotEarly'
        <5>1. Put(k, entry)
          BY <2>5 DEF entry, until
        <5>2. spent' = [spent EXCEPT ![k] = @ + amount]
          BY <1>6
        <5>3. TypeOK /\ Complete /\ Lasting /\ NotEarly
          BY <1>2 DEF StoreInv
        <5> QED
          <6>1. /\ entry \in Entry /\ entry.value = Added(k, amount) /\ Opened(k) /\ k \in Key
                /\ entry.until = None \/ (entry.until > now /\ Outlives(k, entry.until))
                /\ amount \in Nat /\ now' = now
            BY <1>1, <1>2, <2>1, <3>3
          <6> QED
            BY <5>1, <5>2, <5>3, <6>1, PutKeeps, ZenonT(60)
      <4>2. Renewed'
        BY <1>1, <1>2, <2>1, <2>2, <3>2, <3>3, <3>9, <4>1, ChargeRenews DEF StoreInv
      <4> QED
        BY <4>1, <4>2 DEF StoreInv
    <3>7. TypeOK'
      BY <1>2, <2>3, <3>4, <3>6 DEF TypeOK, Invocation, Entry
    <3>8. \A d \in Calls : CallInv(d)'
      <4> HIDE DEF call
      <4> QED
        BY <1>1, <1>2, <2>3, <3>5, <3>6, ChargedCall
    <3> QED
      BY <3>4, <3>7, <3>8 DEF UsageInv
  <2> QED
    BY <1>6, <2>4, <2>5
<1> QED
  BY <1>0, <1>a, <1>4, <1>6 DEF Charge

\* The add of a call is no longer underway: a key it alone had is not.
LEMMA UnderwayLeft ==
  ASSUME NEW c \in Calls, calls'[c].pc # "expire",
         \A d \in Calls \ {c} : calls'[d] = calls[d]
  PROVE  /\ Underway' \subseteq Underway
         /\ Underway \subseteq Underway' \cup {StorageKey(calls[c].rule, calls[c].at)}
<1>1. Underway' = {StorageKey(calls'[d].rule, calls'[d].at) : d \in {e \in Calls : calls'[e].pc = "expire"}}
  BY DEF Underway, StorageKey
<1>2. ASSUME NEW q \in Underway' PROVE q \in Underway
  <2>1. PICK d \in Calls : calls'[d].pc = "expire" /\ q = StorageKey(calls'[d].rule, calls'[d].at)
    BY <1>1
  <2> QED
    BY <2>1 DEF Underway
<1>3. ASSUME NEW q \in Underway, q # StorageKey(calls[c].rule, calls[c].at) PROVE q \in Underway'
  <2>1. PICK d \in Calls : calls[d].pc = "expire" /\ q = StorageKey(calls[d].rule, calls[d].at)
    BY DEF Underway
  <2>2. d # c /\ calls'[d] = calls[d]
    BY <1>3, <2>1
  <2> QED
    BY <1>1, <2>1, <2>2
<1> QED
  BY <1>2, <1>3

\* The TTL of an add gives its counter a whole TTL to live.
LEMMA ExpireRenews ==
  ASSUME TypeOK, Renewed, NEW k \in Key, k \in Underway, now \in Nat,
         now' = now, past' = past, spent' = spent, torn \subseteq torn',
         Underway' \subseteq Underway, Underway \subseteq Underway' \cup {k},
         DOMAIN counters' \subseteq DOMAIN counters \cup {k},
         DOMAIN counters \subseteq DOMAIN counters',
         \A q \in DOMAIN counters : q # k => counters'[q] = counters[q],
         ~Windowed(k) =>
           \/ k \in torn'
           \/ ~Live(Stored(k))
           \/ /\ k \in DOMAIN counters' /\ Value(k)' = Value(k)
              /\ counters'[k].until = now + Span(k)
  PROVE  Renewed'
<1> SUFFICES ASSUME NEW q \in Key, ~Windowed(q), q \notin torn' PROVE Lifelong(q)'
  BY DEF Renewed, Windowed
<1>1. Lifelong(q)
  BY DEF Renewed
<1>2. CASE q # k
  BY <1>1, <1>2, LifeKept
<1>3. CASE q = k
  <2>1. /\ Span(k) \in Nat \ {0} /\ Span(k)' = Span(k) /\ None \notin Nat
    BY RuleTyped, UsageAssumption DEF Span, Key, Places, Rule
  <2>2. k \in DOMAIN counters' /\ Value(k)' = Value(k) /\ counters'[k].until = now + Span(k)
    BY <1>1, <1>3 DEF Lifelong
  <2>3. Remembered(k)'
    BY <1>1, <1>3, <2>1, <2>2 DEF Lifelong, Remembered
  <2>4. Settled(k)'
    BY <2>1, <2>2 DEF Settled
  <2>5. Live(Stored(k))'
    BY <2>1, <2>2 DEF Live, Stored
  <2> QED
    BY <1>3, <2>2, <2>3, <2>4, <2>5 DEF Lifelong
<1> QED
  BY <1>2, <1>3

LEMMA ExpireInv ==
  ASSUME UsageInv, NEW c \in Calls, NEW i \in 1..Len(Rules), Expire(c, i)
  PROVE  UsageInv'
<1> DEFINE call == [calls[c] EXCEPT !.pc = "charge"]
<1>0. PICK k : k = StorageKey(i, calls[c].at)
  OBVIOUS
<1>1. /\ calls[c] \in Invocation /\ calls[c].rule = i /\ calls[c].pc = "expire"
      /\ i \in Places /\ calls[c].at \in 0..Horizon /\ k \in Key /\ Opened(k)
      /\ now \in 0..Horizon /\ now \in Nat /\ calls[c].at <= now /\ Turn(c, i)
  BY <1>0, CallFacts, UsageAssumption DEF Expire
<1>2. /\ TypeOK /\ StoreInv /\ CallInv(c)
      /\ now' = now /\ store' = store /\ room' = room /\ spent' = spent
      /\ past' = past /\ charged' = charged
  BY DEF UsageInv, Expire
<1>3. calls[c].reason = "none" /\ k \in Underway /\ k[1] = i
  BY <1>0, <1>1, <1>2 DEF CallInv, Underway, StorageKey
<1>5. /\ call \in Invocation /\ call.pc = "charge" /\ call.cost = calls[c].cost
      /\ call.at = calls[c].at /\ call.reason = "none"
  BY <1>1, <1>3 DEF Invocation
<1>6. /\ calls' \in [Calls -> Invocation]
      /\ \A d \in Calls \ {c} : calls'[d] = calls[d]
      /\ calls'[c].cost = calls[c].cost /\ calls'[c].at = calls[c].at
      /\ calls'[c].pc \in {"charge", "passed", "denied"}
      /\ calls'[c].reason = "none" \/ (calls'[c].pc = "denied" /\ calls'[c].reason = "error")
  <2> HIDE DEF call
  <2>1. CASE Advance(c, call)
    BY <1>2, <1>5, <2>1, AdvanceMoves
  <2>2. CASE Deny(c, "error")
    BY <1>2, <2>2, DenyMoves
  <2> QED
    BY <2>1, <2>2 DEF Expire, call
<1>9. /\ Underway' \subseteq Underway /\ Underway \subseteq Underway' \cup {k}
  BY <1>0, <1>1, <1>6, UnderwayLeft
<1>4. /\ DOMAIN counters' \subseteq Key /\ torn' \subseteq Key
      /\ \A q \in DOMAIN counters' : counters'[q] \in Entry
      /\ StoreInv'
  <2>1. CASE UNCHANGED counters /\ (torn' = torn \cup {k} \/ (torn' = torn /\ ~Live(Stored(k))))
    <3>1. Complete' /\ Lasting' /\ NotEarly'
      BY <1>2, <2>1 DEF StoreInv, Complete, Lasting, NotEarly, Counting, Opened, Value,
                        Stored, Live, Outlives, Windowed
    <3>2. Renewed'
      <4> QED
        BY <1>1, <1>2, <1>3, <1>9, <2>1, ExpireRenews DEF StoreInv
    <3>3. DOMAIN counters' \subseteq Key /\ torn' \subseteq Key
      BY <1>1, <1>2, <2>1 DEF TypeOK
    <3>4. \A q \in DOMAIN counters' : counters'[q] \in Entry
      BY <1>2, <2>1 DEF TypeOK, Entry
    <3> QED
      BY <3>1, <3>2, <3>3, <3>4 DEF StoreInv
  <2>2. CASE /\ Live(Stored(k)) /\ torn' = torn
             /\ Put(k, [Stored(k) EXCEPT !.until = now + Ttl(Rules[i])])
    <3> DEFINE entry == [Stored(k) EXCEPT !.until = now + Ttl(Rules[i])]
    <3>1. Stored(k) \in Entry /\ Value(k) = Stored(k).value /\ spent[k] \in Nat /\ Value(k) \in Nat
      BY <1>1, <1>2, <2>2, ValueTyped DEF Value, TypeOK
    <3>2. /\ entry \in Entry /\ entry.value = Added(k, 0)
          /\ entry.until > now /\ Outlives(k, entry.until)
          /\ ~Windowed(k) => entry.until = now + Span(k)
      BY <1>0, <1>1, <1>3, <3>1, TtlOutlives DEF Entry, Added, Windowed, Span
    <3>3. spent' = [spent EXCEPT ![k] = @ + 0]
      BY <1>1, <1>2, <3>1 DEF TypeOK
    <3> HIDE DEF entry
    <3>4. /\ DOMAIN counters' = DOMAIN counters \cup {k}
          /\ counters'[k] = entry
          /\ \A q \in DOMAIN counters : q # k => counters'[q] = counters[q]
          /\ DOMAIN counters' \subseteq Key
          /\ \A q \in DOMAIN counters' : counters'[q] \in Entry
          /\ Value(k)' = Added(k, 0)
          /\ Complete' /\ Lasting' /\ NotEarly'
      BY <1>1, <1>2, <2>2, <3>2, <3>3, PutKeeps DEF entry, StoreInv
    <3>5. Value(k)' = Value(k)
      BY <3>1, <3>4 DEF Added
    <3>6. Renewed'
      BY <1>1, <1>2, <1>3, <1>9, <2>2, <3>2, <3>4, <3>5, ExpireRenews DEF StoreInv
    <3>7. torn' \subseteq Key
      BY <1>2, <2>2 DEF TypeOK
    <3> QED
      BY <3>4, <3>6, <3>7 DEF StoreInv
  <2> QED
    BY <1>0, <2>1, <2>2 DEF Expire
<1>7. TypeOK'
  BY <1>2, <1>4, <1>6 DEF TypeOK, Invocation, Entry
<1>8. \A d \in Calls : CallInv(d)'
  BY <1>1, <1>2, <1>6, ChargedCall
<1> QED
  BY <1>4, <1>7, <1>8 DEF UsageInv

LEMMA NextInv == UsageInv /\ [Next]_vars => UsageInv'
<1> SUFFICES ASSUME UsageInv, [Next]_vars PROVE UsageInv'
  OBVIOUS
<1>1. CASE Tick
  BY <1>1, TickInv
<1>2. CASE \E c \in Calls, cost \in Costs : Arrive(c, cost)
  BY <1>2, ArriveInv
<1>3. CASE \E c \in Calls, i \in 1..Len(Rules) : Check(c, i)
  BY <1>3, CheckInv
<1>4. CASE \E c \in Calls, i \in 1..Len(Rules) : Charge(c, i)
  BY <1>4, ChargeInv
<1>5. CASE \E c \in Calls, i \in 1..Len(Rules) : Expire(c, i)
  BY <1>5, ExpireInv
<1>6. CASE UNCHANGED vars
  <2>1. /\ TypeOK /\ now \in Nat
        /\ UNCHANGED <<now, store, counters, calls, spent, past, torn, charged, room>>
    BY <1>6, UsageAssumption DEF UsageInv, TypeOK, vars
  <2>2. TypeOK'
    BY <2>1 DEF TypeOK
  <2>3. StoreInv'
    <3>1. Underway' = Underway
      BY <2>1 DEF Underway
    <3> QED
      BY <2>1, <3>1, StoreKept DEF UsageInv, metering
  <2>4. \A c \in Calls : CallInv(c)'
    BY <2>1, CallKept DEF UsageInv
  <2> QED
    BY <2>2, <2>3, <2>4 DEF UsageInv
<1> QED
  BY <1>1, <1>2, <1>3, <1>4, <1>5, <1>6 DEF Next

LEMMA InvEnough == UsageInv => NeverOverdrawn
BY DEF UsageInv, TypeOK, CallInv, NeverOverdrawn, Places

-------------------------------------------------------------------------------
(***************************************************************************)
(* usage_gate: a call is charged only if what had really been charged when *)
(* it was checked left room for it, however many calls race over the       *)
(* store, whichever store it is, whenever counters expire and wherever a   *)
(* client fails; and under no rule if one refused it.                      *)
(***************************************************************************)
THEOREM NeverOverdrawnAlways == Spec => []NeverOverdrawn
BY InitInv, NextInv, InvEnough, PTL DEF Spec
===============================================================================
