-------------------------- MODULE IdempotencyProofs --------------------------
(***************************************************************************)
(* Proofs about Idempotency: one delivery of an operation runs at a time,  *)
(* a key whose handler returned does not run again, and a duplicate is     *)
(* answered by a run that returned.                                        *)
(***************************************************************************)
EXTENDS Idempotency, FiniteSetTheorems, TLAPS

\* The states of a delivery whose handler returned.
Back == {"complete", "answered", "error"}

\* A delivery that uses the store has a key, its operation's or its own, and one that
\* is about to store a result has had its effect.
KeysInv ==
  \A d \in Deliveries :
    /\ calls[d].pc \in {"begin", "peek", "complete", "abandon", "drop"} => calls[d].key # None
    /\ calls[d].pc = "idle" => calls[d] = Idle
    /\ calls[d].key \in {None, <<"caller", calls[d].op>>, <<"decision", d>>}
    /\ calls[d].pc = "complete" => d \in effects

\* An entry is of a delivery with that key, and a result is of one that returned.
EntriesInv ==
  \A k \in Key : entries[k] # None =>
    LET by == entries[k].by IN
    /\ calls[by].pc # "idle" /\ calls[by].key = k
    /\ entries[k].done => by \in effects /\ calls[by].pc = "answered"

IdempotencyInv == TypeOK /\ KeysInv /\ EntriesInv

\* What a delivery that holds a key put in the store is still there, as it put it.
ClaimsHeld ==
  \A d \in Deliveries : calls[d].pc \in Holding /\ calls[d].key # None =>
    LET entry == entries[calls[d].key] IN entry # None /\ entry.by = d /\ ~entry.done

\* A key whose handler returned is still held by the one delivery that returned.
ReturnsHeld ==
  \A k \in Key : returned[k] # {} =>
    /\ entries[k] # None /\ returned[k] = {entries[k].by}
    /\ calls[entries[k].by].pc \in Back

HeldInv == ClaimsHeld /\ ReturnsHeld

-----------------------------------------------------------------------------
LEMMA EntryNotNone == ASSUME NEW e \in Entry PROVE e # None
BY IdempotencyAssumption

LEMMA PutTyped ==
  ASSUME NEW d \in Deliveries, NEW form
  PROVE  /\ Claim(d) \in Entry /\ Claim(d).by = d /\ Claim(d).done = FALSE
         /\ Result(d, form) \in Entry /\ Result(d, form).by = d /\ Result(d, form).done = TRUE
BY DEF Claim, Result, Rendered, Entry

LEMMA InitIdempotency == Init => IdempotencyInv /\ HeldInv
<1> SUFFICES ASSUME Init PROVE IdempotencyInv /\ HeldInv
  OBVIOUS
<1>1. TypeOK
  BY DEF Init, Idle, TypeOK
<1>2. KeysInv /\ EntriesInv
  BY DEF Init, Idle, KeysInv, EntriesInv
<1>3. HeldInv
  BY DEF Init, Idle, HeldInv, ClaimsHeld, ReturnsHeld, Holding
<1> QED
  BY <1>1, <1>2, <1>3 DEF IdempotencyInv

LEMMA ArriveKeeps ==
  ASSUME IdempotencyInv, NEW d \in Deliveries, NEW op \in Operations, NEW keyed \in Keyed,
         Arrive(d, op, keyed)
  PROVE  IdempotencyInv' /\ (HeldInv => HeldInv')
<1>1. PICK key : key = KeyOf(d, op, keyed)
  OBVIOUS
<1>2. PICK pc : pc = IF key # None THEN "begin"
                     ELSE IF deployment.requireKey THEN "refused" ELSE "running"
  OBVIOUS
<1>3. /\ calls[d].pc = "idle"
      /\ calls' = [calls EXCEPT ![d] = [calls[d] EXCEPT !.op = op, !.key = key, !.pc = pc]]
      /\ UNCHANGED <<deployment, entries, effects, returned>>
  BY <1>1, <1>2 DEF Arrive, Become
<1>4. key \in {None, <<"caller", op>>, <<"decision", d>>} /\ key \in Key \cup {None}
  BY <1>1 DEF KeyOf, RecordId, Key
<1>5. pc \in {"begin", "refused", "running"} /\ (pc = "begin" <=> key # None)
  BY <1>2
<1>6. /\ calls'[d].pc = pc /\ calls'[d].key = key /\ calls'[d].op = op
      /\ \A e \in Deliveries \ {d} : calls'[e] = calls[e]
  BY <1>3 DEF IdempotencyInv, TypeOK
<1>7. TypeOK'
  BY ZenonT(30), <1>3, <1>4, <1>5 DEF IdempotencyInv, TypeOK
<1>8. KeysInv'
  BY <1>3, <1>4, <1>5, <1>6 DEF IdempotencyInv, KeysInv
<1>9. \A k \in Key : entries[k] # None => entries[k].by \in Deliveries \ {d}
  BY <1>3 DEF IdempotencyInv, TypeOK, KeysInv, EntriesInv, Idle, Entry
<1>10. EntriesInv'
  BY <1>3, <1>6, <1>9 DEF IdempotencyInv, EntriesInv
<1>11. ASSUME HeldInv PROVE HeldInv'
  <2>1. ClaimsHeld'
    BY <1>3, <1>5, <1>6, <1>11 DEF HeldInv, ClaimsHeld, Holding
  <2>2. ReturnsHeld'
    BY <1>3, <1>6, <1>9, <1>11 DEF HeldInv, ReturnsHeld
  <2> QED
    BY <2>1, <2>2 DEF HeldInv
<1> QED
  BY <1>7, <1>8, <1>10, <1>11 DEF IdempotencyInv

\* A step of a delivery that has arrived, as far as the store is not concerned.
Moved(d) ==
  /\ calls[d].pc # "idle"
  /\ calls'[d].op = calls[d].op /\ calls'[d].key = calls[d].key /\ calls'[d].pc # "idle"
  /\ \A e \in Deliveries \ {d} : calls'[e] = calls[e]

LEMMA MovedKeepsKeys ==
  ASSUME IdempotencyInv, NEW d \in Deliveries, Moved(d),
         calls'[d].pc \in {"begin", "peek", "complete", "abandon", "drop"}
           => calls[d].key # None,
         effects \subseteq effects', calls'[d].pc = "complete" => d \in effects'
  PROVE  KeysInv'
BY DEF Moved, IdempotencyInv, KeysInv

LEMMA GotoMoves ==
  ASSUME IdempotencyInv, NEW d \in Deliveries, NEW pc, Goto(d, pc),
         pc \in {"begin", "peek", "running", "complete", "abandon", "drop", "answered",
                "conflict", "failed", "error"},
         calls[d].pc # "idle"
  PROVE  /\ Moved(d) /\ calls'[d].pc = pc /\ calls'[d].answer = calls[d].answer
         /\ calls' \in [Deliveries -> [pc: {"idle", "begin", "peek", "running", "complete",
                                            "abandon", "drop", "answered", "conflict",
                                            "failed", "refused", "error"},
                                       op: Operations \cup {None}, key: Key \cup {None},
                                       answer: [by: Deliveries, form: {"text", "object"}]
                                                 \cup {None}]]
BY DEF Goto, Become, Moved, IdempotencyInv, TypeOK

\* The store stays, and so does what it says of deliveries that returned.
LEMMA StoreStays ==
  ASSUME IdempotencyInv, NEW d \in Deliveries, Moved(d), UNCHANGED entries,
         effects \subseteq effects', calls[d].pc # "answered"
  PROVE  EntriesInv'
BY DEF Moved, IdempotencyInv, EntriesInv, TypeOK, Entry

LEMMA HeldStays ==
  ASSUME IdempotencyInv, HeldInv, NEW d \in Deliveries, Moved(d), UNCHANGED <<entries, returned>>,
         calls'[d].pc \in Holding => calls[d].key = None \/ calls[d].pc \in Holding,
         calls[d].pc \in Back => calls'[d].pc \in Back
  PROVE  HeldInv'
<1>1. ClaimsHeld'
  BY DEF Moved, HeldInv, ClaimsHeld
<1>2. ReturnsHeld'
  BY DEF Moved, HeldInv, ReturnsHeld, IdempotencyInv, TypeOK, Entry
<1> QED
  BY <1>1, <1>2 DEF HeldInv

\* A delivery that writes under its own key writes for itself.
LEMMA StoreSet ==
  ASSUME IdempotencyInv, NEW d \in Deliveries, Moved(d), calls[d].pc # "answered",
         NEW k \in Key, calls[d].key = k, effects \subseteq effects',
         NEW entry \in Entry \cup {None}, entries' = [entries EXCEPT ![k] = entry],
         entry # None => /\ entry.by = d
                         /\ entry.done => d \in effects' /\ calls'[d].pc = "answered"
  PROVE  /\ entries' \in [Key -> Entry \cup {None}] /\ entries'[k] = entry
         /\ \A j \in Key \ {k} : entries'[j] = entries[j]
         /\ EntriesInv'
<1>1. /\ entries' \in [Key -> Entry \cup {None}] /\ entries'[k] = entry
      /\ \A j \in Key \ {k} : entries'[j] = entries[j]
  BY DEF IdempotencyInv, TypeOK
<1>2. ASSUME NEW j \in Key, entries'[j] # None
      PROVE  /\ calls'[entries'[j].by].pc # "idle" /\ calls'[entries'[j].by].key = j
             /\ entries'[j].done => /\ entries'[j].by \in effects'
                                   /\ calls'[entries'[j].by].pc = "answered"
  <2>1. CASE j = k
    BY <1>1, <1>2, <2>1 DEF Moved
  <2>2. CASE j # k
    <3>1. entries'[j] = entries[j] /\ entries[j].by \in Deliveries
      BY <1>1, <1>2, <2>2 DEF IdempotencyInv, TypeOK, Entry
    <3>2. entries[j].by # d /\ calls'[entries[j].by] = calls[entries[j].by]
      BY <1>2, <2>2, <3>1 DEF Moved, IdempotencyInv, EntriesInv
    <3> QED
      BY <1>2, <3>1, <3>2 DEF IdempotencyInv, EntriesInv
  <2> QED
    BY <2>1, <2>2
<1> QED
  BY <1>1, <1>2 DEF EntriesInv

LEMMA ReadKeeps ==
  ASSUME IdempotencyInv, NEW d \in Deliveries, Read(d), calls[d].pc \in {"begin", "peek"},
         NEW k \in Key, calls[d].key = k, entries[k] # None,
         UNCHANGED <<deployment, entries, effects, returned>>
  PROVE  IdempotencyInv' /\ (HeldInv => HeldInv')
<1>1. entries[k] \in Entry
  BY DEF IdempotencyInv, TypeOK
<1>2. Moved(d) /\ calls'[d].pc \in {"answered", "conflict"} /\ TypeOK'
  <2>1. CASE Finished(entries[k])
    <3>1. PICK answer : answer = [by |-> entries[k].by, form |-> entries[k].form]
      OBVIOUS
    <3>2. answer \in [by: Deliveries, form: {"text", "object"}]
      BY <1>1, <3>1 DEF Entry
    <3>3. calls' = [calls EXCEPT ![d] = [calls[d] EXCEPT !.pc = "answered", !.answer = answer]]
      BY <2>1, <3>1 DEF Read, Answer, Become
    <3>4. calls'[d] = [calls[d] EXCEPT !.pc = "answered", !.answer = answer]
      BY <3>3 DEF IdempotencyInv, TypeOK
    <3>5. Moved(d) /\ calls'[d].pc = "answered"
      BY <3>3, <3>4 DEF Moved, IdempotencyInv, TypeOK
    <3>6. TypeOK'
      BY ZenonT(30), <3>2, <3>3 DEF IdempotencyInv, TypeOK
    <3> QED
      BY <3>5, <3>6
  <2>2. CASE ~Finished(entries[k])
    <3>1. Goto(d, "conflict")
      BY <2>2 DEF Read
    <3> QED
      BY <3>1, GotoMoves DEF IdempotencyInv, TypeOK
  <2> QED
    BY <2>1, <2>2
<1>3. KeysInv' /\ EntriesInv' /\ (HeldInv => HeldInv')
  BY <1>2, MovedKeepsKeys, StoreStays, HeldStays DEF Holding, Back
<1> QED
  BY <1>2, <1>3 DEF IdempotencyInv

LEMMA BeginKeeps ==
  ASSUME IdempotencyInv, NEW d \in Deliveries, Begin(d)
  PROVE  IdempotencyInv' /\ (HeldInv => HeldInv')
<1>1. PICK k \in Key : k = calls[d].key
  BY DEF Begin, IdempotencyInv, TypeOK, KeysInv
<1>2. /\ calls[d].pc = "begin" /\ k # None
      /\ UNCHANGED <<deployment, effects, returned>>
  BY <1>1 DEF Begin, IdempotencyInv, TypeOK, KeysInv
<1>3. CASE Free(k) /\ Put(k, Claim(d)) /\ Goto(d, "running")
  <2>1. Moved(d) /\ calls'[d].pc = "running"
    BY <1>2, <1>3, GotoMoves
  <2> DEFINE claim == Claim(d)
  <2>2. claim \in Entry /\ claim.by = d /\ claim.done = FALSE /\ claim # None
    BY PutTyped, EntryNotNone
  <2>3. entries[k] = None /\ entries' = [entries EXCEPT ![k] = claim]
    BY <1>3 DEF Free, Put
  <2> HIDE DEF claim
  <2>4. /\ entries' \in [Key -> Entry \cup {None}] /\ entries'[k] = claim
        /\ \A j \in Key \ {k} : entries'[j] = entries[j]
        /\ EntriesInv'
    <3>1. effects \subseteq effects' /\ calls[d].pc # "answered" /\ calls[d].key = k
      BY <1>1, <1>2
    <3>2. claim \in Entry \cup {None} /\ (claim # None => claim.by = d /\ (claim.done => FALSE))
      BY <2>2
    <3> QED
      BY ZenonT(30), <2>1, <2>3, <3>1, <3>2, StoreSet
  <2>5. TypeOK'
    BY <1>2, <1>3, <2>4, GotoMoves DEF IdempotencyInv, TypeOK
  <2>6. KeysInv'
    BY <1>1, <1>2, <2>1, MovedKeepsKeys
  <2>7. ASSUME HeldInv PROVE HeldInv'
    <3>1. ClaimsHeld'
      BY <1>1, <2>1, <2>2, <2>3, <2>4, <2>7
         DEF Moved, HeldInv, ClaimsHeld, IdempotencyInv, TypeOK
    <3>2. ReturnsHeld'
      BY <1>1, <1>2, <2>1, <2>3, <2>4, <2>7
         DEF Moved, HeldInv, ReturnsHeld, IdempotencyInv, TypeOK, Entry, Back
    <3> QED
      BY <3>1, <3>2 DEF HeldInv
  <2> QED
    BY <2>4, <2>5, <2>6, <2>7 DEF IdempotencyInv
<1>4. CASE Read(d) /\ ~Free(k) /\ UNCHANGED entries
  <2>1. entries[k] # None
    BY <1>4 DEF Free
  <2> QED
    BY <1>1, <1>2, <1>4, <2>1, ReadKeeps
<1>5. CASE Goto(d, "peek") /\ UNCHANGED entries
  <2>1. Moved(d) /\ calls'[d].pc = "peek" /\ TypeOK'
    BY <1>2, <1>5, GotoMoves DEF IdempotencyInv, TypeOK
  <2> QED
    BY <1>1, <1>2, <1>5, <2>1, MovedKeepsKeys, StoreStays, HeldStays
       DEF IdempotencyInv, Holding, Back
<1> QED
  BY <1>1, <1>3, <1>4, <1>5 DEF Begin

LEMMA PeekKeeps ==
  ASSUME IdempotencyInv, NEW d \in Deliveries, Peek(d)
  PROVE  IdempotencyInv' /\ (HeldInv => HeldInv')
<1>1. PICK k \in Key : k = calls[d].key
  BY DEF Peek, IdempotencyInv, TypeOK, KeysInv
<1>2. /\ calls[d].pc = "peek" /\ k # None
      /\ UNCHANGED <<deployment, entries, effects, returned>>
  BY <1>1 DEF Peek, IdempotencyInv, KeysInv
<1>3. CASE entries[k] = None /\ Goto(d, "begin")
  <2>1. Moved(d) /\ calls'[d].pc = "begin" /\ TypeOK'
    BY <1>2, <1>3, GotoMoves DEF IdempotencyInv, TypeOK
  <2> QED
    BY <1>1, <1>2, <1>3, <2>1, MovedKeepsKeys, StoreStays, HeldStays
       DEF IdempotencyInv, Holding, Back
<1>4. CASE entries[k] # None /\ Read(d)
  BY <1>1, <1>2, <1>4, ReadKeeps
<1> QED
  BY <1>1, <1>3, <1>4 DEF Peek

LEMMA ReturnKeeps ==
  ASSUME IdempotencyInv, NEW d \in Deliveries, NEW form \in ResultForms, Return(d, form)
  PROVE  IdempotencyInv' /\ (HeldInv => HeldInv')
<1>1. PICK k : k = calls[d].key
  OBVIOUS
<1>2. PICK answer : answer = [by |-> d, form |-> form]
  OBVIOUS
<1>3. PICK pc : pc = IF k = None THEN "answered" ELSE "complete"
  OBVIOUS
<1>4. /\ calls[d].pc = "running" /\ effects' = effects \cup {d}
      /\ calls' = [calls EXCEPT ![d] = [calls[d] EXCEPT !.pc = pc, !.answer = answer]]
      /\ returned' = IF k = None THEN returned ELSE [returned EXCEPT ![k] = @ \cup {d}]
      /\ UNCHANGED <<deployment, entries>>
  BY <1>1, <1>2, <1>3 DEF Return, Answer, Become
<1>5. answer \in [by: Deliveries, form: {"text", "object"}] /\ k \in Key \cup {None}
  BY <1>1, <1>2, IdempotencyAssumption DEF IdempotencyInv, TypeOK
<1>6. pc \in {"answered", "complete"} /\ (k # None <=> pc = "complete")
  BY <1>3
<1>7. Moved(d) /\ calls'[d].pc = pc
  BY <1>4, <1>5, <1>6 DEF Moved, IdempotencyInv, TypeOK
<1>8. returned' \in [Key -> SUBSET Deliveries]
  BY <1>4, <1>5 DEF IdempotencyInv, TypeOK
<1>9. TypeOK'
  <2>1. effects' \subseteq Deliveries /\ deployment' \in Deployments
        /\ entries' \in [Key -> Entry \cup {None}]
    BY <1>4 DEF IdempotencyInv, TypeOK
  <2>2. calls' \in [Deliveries -> [pc: {"idle", "begin", "peek", "running", "complete",
                                       "abandon", "drop", "answered", "conflict",
                                       "failed", "refused", "error"},
                                  op: Operations \cup {None}, key: Key \cup {None},
                                  answer: [by: Deliveries, form: {"text", "object"}]
                                            \cup {None}]]
    BY ZenonT(30), <1>4, <1>5, <1>6 DEF IdempotencyInv, TypeOK
  <2> QED
    BY <1>8, <2>1, <2>2 DEF TypeOK
<1>10. KeysInv' /\ EntriesInv'
  BY <1>1, <1>4, <1>6, <1>7, MovedKeepsKeys, StoreStays
<1>11. ASSUME HeldInv PROVE HeldInv'
  <2>1. ClaimsHeld'
    BY <1>1, <1>4, <1>6, <1>7, <1>11 DEF Moved, HeldInv, ClaimsHeld, Holding
  <2>2. ASSUME NEW j \in Key, returned'[j] # {}
        PROVE  /\ entries[j] # None /\ returned'[j] = {entries[j].by}
               /\ calls'[entries[j].by].pc \in Back
    <3>1. CASE j = k /\ k # None
      <4>1. entries[k] # None /\ entries[k].by = d
        BY <1>1, <1>4, <1>11, <3>1 DEF HeldInv, ClaimsHeld, Holding
      <4>2. returned[k] = {}
        BY <1>4, <1>11, <2>2, <3>1, <4>1 DEF HeldInv, ReturnsHeld, Back
      <4>3. returned'[k] = {d}
        BY <1>4, <1>5, <2>2, <3>1, <4>2 DEF IdempotencyInv, TypeOK
      <4> QED
        BY <1>6, <1>7, <3>1, <4>1, <4>3 DEF Back
    <3>2. CASE j # k \/ k = None
      <4>1. returned'[j] = returned[j]
        BY <1>4, <1>5, <2>2, <3>2 DEF IdempotencyInv, TypeOK
      <4>2. entries[j].by \in Deliveries /\ entries[j].by # d
        BY <1>4, <1>11, <2>2, <4>1 DEF HeldInv, ReturnsHeld, IdempotencyInv, TypeOK, Entry, Back
      <4> QED
        BY <1>7, <1>11, <2>2, <4>1, <4>2 DEF Moved, HeldInv, ReturnsHeld
    <3> QED
      BY <3>1, <3>2
  <2>3. ReturnsHeld'
    BY <1>4, <2>2 DEF ReturnsHeld
  <2> QED
    BY <2>1, <2>3 DEF HeldInv
<1> QED
  BY <1>9, <1>10, <1>11 DEF IdempotencyInv

LEMMA RaiseKeeps ==
  ASSUME IdempotencyInv, NEW d \in Deliveries, Raise(d)
  PROVE  IdempotencyInv' /\ (HeldInv => HeldInv')
<1>1. PICK pc : pc = IF calls[d].key = None THEN "failed" ELSE "abandon"
  OBVIOUS
<1>2. /\ calls[d].pc = "running" /\ effects' \in {effects, effects \cup {d}} /\ Goto(d, pc)
      /\ UNCHANGED <<deployment, entries, returned>>
  BY <1>1 DEF Raise
<1>3. pc \in {"failed", "abandon"} /\ (pc = "abandon" => calls[d].key # None)
  BY <1>1
<1>4. Moved(d) /\ calls'[d].pc = pc /\ TypeOK'
  BY <1>2, <1>3, GotoMoves DEF IdempotencyInv, TypeOK
<1>5. KeysInv' /\ EntriesInv' /\ (HeldInv => HeldInv')
  BY <1>2, <1>3, <1>4, MovedKeepsKeys, StoreStays, HeldStays DEF Holding, Back
<1> QED
  BY <1>4, <1>5 DEF IdempotencyInv

LEMMA CompleteKeeps ==
  ASSUME IdempotencyInv, NEW d \in Deliveries, Complete(d)
  PROVE  IdempotencyInv' /\ (HeldInv => HeldInv')
<1>1. PICK k \in Key : k = calls[d].key
  BY DEF Complete, IdempotencyInv, TypeOK, KeysInv
<1> DEFINE result == Result(d, calls[d].answer.form)
<1>2. /\ calls[d].pc = "complete" /\ k # None
      /\ entries' = [entries EXCEPT ![k] = result] /\ Goto(d, "answered")
      /\ UNCHANGED <<deployment, effects, returned>>
  BY <1>1 DEF Complete, Put, IdempotencyInv, KeysInv
<1>3. result \in Entry /\ result.by = d
  BY PutTyped
<1>4. result # None
  BY <1>3, EntryNotNone
<1> HIDE DEF result
<1>5. Moved(d) /\ calls'[d].pc = "answered"
  BY <1>2, GotoMoves
<1>6. /\ entries' \in [Key -> Entry \cup {None}] /\ entries'[k] = result
      /\ \A j \in Key \ {k} : entries'[j] = entries[j]
      /\ EntriesInv'
  BY <1>1, <1>2, <1>3, <1>4, <1>5, StoreSet DEF IdempotencyInv, KeysInv
<1>7. TypeOK'
  BY <1>2, <1>6, GotoMoves DEF IdempotencyInv, TypeOK
<1>8. KeysInv'
  BY <1>1, <1>2, <1>5, MovedKeepsKeys
<1>9. ASSUME HeldInv PROVE HeldInv'
  <2>1. entries[k] # None /\ entries[k].by = d
    BY <1>1, <1>2, <1>9 DEF HeldInv, ClaimsHeld, Holding
  <2>2. ClaimsHeld'
    BY <1>1, <1>2, <1>5, <1>6, <1>9, <2>1
       DEF Moved, HeldInv, ClaimsHeld, Holding, IdempotencyInv, TypeOK
  <2>3. ReturnsHeld'
    <3>1. ASSUME NEW j \in Key, j # k, returned[j] # {}
          PROVE  entries'[j].by \in Deliveries /\ calls'[entries'[j].by].pc \in Back
      BY <1>5, <1>6, <1>9, <3>1
         DEF Moved, HeldInv, ReturnsHeld, IdempotencyInv, TypeOK, Entry, Back
    <3> QED
      BY <1>2, <1>3, <1>4, <1>5, <1>6, <1>9, <2>1, <3>1 DEF HeldInv, ReturnsHeld, Back
  <2> QED
    BY <2>2, <2>3 DEF HeldInv
<1> QED
  BY <1>6, <1>7, <1>8, <1>9 DEF IdempotencyInv

\* Neither command of abandon asks whose claim it is; while claims do not lapse under
\* their holders it is the delivery's own.
LEMMA ReleaseKeeps ==
  ASSUME IdempotencyInv, NEW d \in Deliveries, calls[d].pc \in {"abandon", "drop"},
         NEW k \in Key, k = calls[d].key, k # None,
         entries' = [entries EXCEPT ![k] = None], Goto(d, "failed"),
         UNCHANGED <<deployment, effects, returned>>
  PROVE  IdempotencyInv' /\ (HeldInv => HeldInv')
<1>1. Moved(d) /\ calls'[d].pc = "failed"
  BY GotoMoves
<1>2. /\ entries' \in [Key -> Entry \cup {None}] /\ entries'[k] = None
      /\ \A j \in Key \ {k} : entries'[j] = entries[j]
      /\ EntriesInv'
  BY ZenonT(30), <1>1, StoreSet
<1>3. TypeOK'
  BY <1>2, GotoMoves DEF IdempotencyInv, TypeOK
<1>4. KeysInv'
  BY <1>1, MovedKeepsKeys
<1>5. ASSUME HeldInv PROVE HeldInv'
  <2>1. entries[k] # None /\ entries[k].by = d
    BY <1>5 DEF HeldInv, ClaimsHeld, Holding
  <2>2. returned[k] = {}
    BY <1>5, <2>1 DEF HeldInv, ReturnsHeld, Back
  <2>3. ClaimsHeld'
    BY <1>1, <1>2, <1>5, <2>1
       DEF Moved, HeldInv, ClaimsHeld, Holding, IdempotencyInv, TypeOK
  <2>4. ASSUME NEW j \in Key, j # k, returned[j] # {}
        PROVE  entries'[j].by \in Deliveries /\ calls'[entries'[j].by].pc \in Back
    BY <1>1, <1>2, <1>5, <2>4
       DEF Moved, HeldInv, ReturnsHeld, IdempotencyInv, TypeOK, Entry, Back
  <2>5. ReturnsHeld'
    BY <1>1, <1>2, <1>5, <2>2, <2>4 DEF HeldInv, ReturnsHeld
  <2> QED
    BY <2>3, <2>5 DEF HeldInv
<1> QED
  BY <1>2, <1>3, <1>4, <1>5 DEF IdempotencyInv

LEMMA AbandonKeeps ==
  ASSUME IdempotencyInv, NEW d \in Deliveries, Abandon(d) \/ Drop(d)
  PROVE  IdempotencyInv' /\ (HeldInv => HeldInv')
<1>1. PICK k \in Key : k = calls[d].key
  BY DEF Abandon, Drop, IdempotencyInv, TypeOK, KeysInv
<1>2. /\ calls[d].pc \in {"abandon", "drop"} /\ k # None
      /\ UNCHANGED <<deployment, effects, returned>>
  BY <1>1 DEF Abandon, Drop, IdempotencyInv, KeysInv
<1>3. CASE Put(k, None) /\ Goto(d, "failed")
  BY <1>1, <1>2, <1>3, ReleaseKeeps DEF Put
<1>4. ASSUME NEW pc \in {"failed", "drop"}, Goto(d, pc), UNCHANGED entries
      PROVE  IdempotencyInv' /\ (HeldInv => HeldInv')
  <2>1. Moved(d) /\ calls'[d].pc = pc /\ TypeOK'
    BY <1>2, <1>4, GotoMoves DEF IdempotencyInv, TypeOK
  <2>2. KeysInv' /\ EntriesInv' /\ (HeldInv => HeldInv')
    BY <1>1, <1>2, <1>4, <2>1, MovedKeepsKeys, StoreStays, HeldStays DEF Holding, Back
  <2> QED
    BY <2>1, <2>2 DEF IdempotencyInv
<1> QED
  BY <1>1, <1>3, <1>4 DEF Abandon, Drop

LEMMA StoreFailsKeeps ==
  ASSUME IdempotencyInv, NEW d \in Deliveries, StoreFails(d)
  PROVE  IdempotencyInv' /\ (HeldInv => HeldInv')
<1>1. /\ calls[d].pc \in {"begin", "peek", "complete", "abandon", "drop"}
      /\ calls' = [calls EXCEPT ![d] = [calls[d] EXCEPT !.pc = "error", !.answer = None]]
      /\ UNCHANGED <<deployment, entries, effects, returned>>
  BY DEF StoreFails, Become
<1>2. Moved(d) /\ calls'[d].pc = "error" /\ TypeOK'
  BY <1>1 DEF Moved, IdempotencyInv, TypeOK
<1>3. KeysInv' /\ EntriesInv' /\ (HeldInv => HeldInv')
  BY <1>1, <1>2, MovedKeepsKeys, StoreStays, HeldStays DEF Holding, Back
<1> QED
  BY <1>2, <1>3 DEF IdempotencyInv

\* Only here does it matter whether a claim may lapse under its holder.
LEMMA LapseKeeps ==
  ASSUME IdempotencyInv, NEW k \in Key, Lapse(k)
  PROVE  IdempotencyInv' /\ (~LapsesWhileHeld /\ HeldInv => HeldInv')
<1>1. /\ entries[k] # None /\ MayLapse(k) /\ entries' = [entries EXCEPT ![k] = None]
      /\ returned' = [returned EXCEPT ![k] = {}] /\ UNCHANGED <<deployment, calls, effects>>
  BY DEF Lapse, Put
<1>2. /\ entries'[k] = None /\ returned'[k] = {}
      /\ \A j \in Key \ {k} : entries'[j] = entries[j] /\ returned'[j] = returned[j]
  BY <1>1 DEF IdempotencyInv, TypeOK
<1>3. TypeOK'
  BY <1>1 DEF IdempotencyInv, TypeOK
<1>4. KeysInv' /\ EntriesInv'
  BY <1>1, <1>2 DEF IdempotencyInv, KeysInv, EntriesInv
<1>5. ASSUME ~LapsesWhileHeld, HeldInv PROVE HeldInv'
  <2>1. calls[entries[k].by].pc \notin Holding
    BY <1>1, <1>5 DEF MayLapse
  <2>2. ClaimsHeld'
    BY <1>1, <1>2, <1>5, <2>1 DEF HeldInv, ClaimsHeld, IdempotencyInv, TypeOK
  <2>3. ReturnsHeld'
    BY <1>1, <1>2, <1>5 DEF HeldInv, ReturnsHeld
  <2> QED
    BY <2>2, <2>3 DEF HeldInv
<1> QED
  BY <1>3, <1>4, <1>5 DEF IdempotencyInv

LEMMA NextIdempotency ==
  ASSUME IdempotencyInv, [Next]_vars
  PROVE  IdempotencyInv' /\ (~LapsesWhileHeld /\ HeldInv => HeldInv')
<1>1. CASE UNCHANGED vars
  BY <1>1 DEF vars, IdempotencyInv, TypeOK, KeysInv, EntriesInv, HeldInv, ClaimsHeld, ReturnsHeld
<1>2. ASSUME NEW d \in Deliveries, NEW op \in Operations, NEW keyed \in Keyed,
             Arrive(d, op, keyed)
      PROVE  IdempotencyInv' /\ (HeldInv => HeldInv')
  BY <1>2, ArriveKeeps
<1>3. ASSUME NEW d \in Deliveries, Proceed(d)
      PROVE  IdempotencyInv' /\ (HeldInv => HeldInv')
  BY <1>3, BeginKeeps, PeekKeeps, ReturnKeeps, RaiseKeeps, CompleteKeeps, AbandonKeeps,
     StoreFailsKeeps DEF Proceed
<1> QED
  BY <1>1, <1>2, <1>3, LapseKeeps DEF Next

-----------------------------------------------------------------------------
(***************************************************************************)
(* The theorems.                                                           *)
(***************************************************************************)
\* A store of claims and results in text, whatever fails and lapses.
THEOREM IdempotencyTyped == Spec => []TypeOK
<1>1. IdempotencyInv => TypeOK
  BY DEF IdempotencyInv
<1> QED
  BY <1>1, InitIdempotency, NextIdempotency, PTL DEF Spec

\* begin: of the deliveries of one key one runs at a time, as long as a claim does not
\* lapse before its handler is through.
THEOREM OneAlwaysRunning ==
  ASSUME ~LapsesWhileHeld PROVE Spec => []OneRunning
<1>1. IdempotencyInv /\ HeldInv => OneRunning
  BY DEF IdempotencyInv, TypeOK, HeldInv, ClaimsHeld, Holding, OneRunning
<1> QED
  BY <1>1, InitIdempotency, NextIdempotency, PTL DEF Spec

\* complete and abandon: until its TTL a key whose handler returned does not run again,
\* whether or not the result could be stored, with the same proviso.
THEOREM AlwaysReturnedOnce ==
  ASSUME ~LapsesWhileHeld PROVE Spec => []ReturnedOnce
<1>1. IdempotencyInv /\ HeldInv => ReturnedOnce
  <2>1. SUFFICES ASSUME IdempotencyInv, HeldInv, NEW k \in Key, returned[k] # {}
                 PROVE  /\ Cardinality(returned[k]) = 1
                        /\ \A d \in Deliveries : calls[d].key = k => calls[d].pc # "running"
    BY DEF ReturnedOnce
  <2>2. /\ entries[k] # None /\ returned[k] = {entries[k].by}
        /\ calls[entries[k].by].pc \in Back
    BY <2>1 DEF HeldInv, ReturnsHeld
  <2>3. Cardinality(returned[k]) = 1
    BY <2>2, FS_Singleton
  <2>4. ASSUME NEW d \in Deliveries, calls[d].key = k, calls[d].pc = "running"
        PROVE  FALSE
    BY <2>1, <2>2, <2>4, IdempotencyAssumption DEF HeldInv, ClaimsHeld, Holding, Back
  <2> QED
    BY <2>3, <2>4
<1> QED
  BY <1>1, InitIdempotency, NextIdempotency, PTL DEF Spec

\* What AnswersAreReal says of an answer of d.
Real(d, by) ==
  /\ by \in effects
  /\ calls[by].op = calls[d].op
  /\ calls[by].pc \in Back

LEMMA AnswersStay ==
  ASSUME IdempotencyInv, AnswersAreReal, NEW d \in Deliveries, Moved(d),
         effects \subseteq effects',
         calls[d].pc \in Back => calls'[d].pc \in Back,
         calls'[d].answer \notin {None, calls[d].answer} =>
           /\ calls'[d].answer.by \in Deliveries
           /\ Real(d, calls[d].answer.by)'
  PROVE  AnswersAreReal'
<1>1. ASSUME NEW e \in Deliveries, NEW by \in Deliveries, Real(e, by) PROVE Real(e, by)'
  BY <1>1 DEF Real, Moved
<1>2. ASSUME NEW e \in Deliveries, calls'[e].answer # None
      PROVE  Real(e, calls[e].answer.by)'
  <2>1. CASE calls'[e].answer = calls[e].answer
    <3>1. PICK by \in Deliveries : by = calls[e].answer.by
      BY <1>2, <2>1 DEF IdempotencyInv, TypeOK
    <3>2. Real(e, by)
      BY <1>2, <2>1, <3>1 DEF AnswersAreReal, Real, Back
    <3> QED
      BY <1>1, <2>1, <3>1, <3>2 DEF Real
  <2>2. CASE calls'[e].answer # calls[e].answer
    <3>1. e = d
      BY <2>2 DEF Moved
    <3> QED
      BY <1>2, <2>2, <3>1
  <2> QED
    BY <2>1, <2>2
<1> QED
  BY <1>2 DEF AnswersAreReal, Real, Back

\* Deliveries with one key mean the same operation.
LEMMA SameOperation ==
  ASSUME IdempotencyInv, NEW d \in Deliveries, NEW e \in Deliveries,
         calls[d].key # None, calls[d].key = calls[e].key
  PROVE  calls[d].op = calls[e].op
BY DEF IdempotencyInv, KeysInv

LEMMA NextAnswers ==
  ASSUME IdempotencyInv, AnswersAreReal, [Next]_vars
  PROVE  AnswersAreReal'
<1>1. CASE UNCHANGED vars
  BY <1>1 DEF vars, AnswersAreReal
<1>2. ASSUME NEW d \in Deliveries, NEW op \in Operations, NEW keyed \in Keyed,
             Arrive(d, op, keyed)
      PROVE  AnswersAreReal'
  <2>1. /\ calls'[d].answer = None /\ calls[d].pc = "idle"
        /\ \A e \in Deliveries \ {d} : calls'[e] = calls[e]
        /\ effects' = effects
    BY <1>2 DEF Arrive, Become, Idle, IdempotencyInv, KeysInv, TypeOK
  <2>2. ASSUME NEW e \in Deliveries, calls[e].answer # None
        PROVE  calls[e].answer.by \in Deliveries \ {d}
    BY <2>1, <2>2 DEF AnswersAreReal, IdempotencyInv, TypeOK
  <2> QED
    BY <2>1, <2>2 DEF AnswersAreReal
<1>3. ASSUME NEW d \in Deliveries, NEW pc, Goto(d, pc), calls[d].pc # "idle",
             pc \in {"begin", "peek", "running", "complete", "abandon", "drop", "answered",
                    "conflict", "failed", "error"},
             calls[d].pc \in Back => pc \in Back, effects \subseteq effects'
      PROVE  AnswersAreReal'
  BY <1>3, GotoMoves, AnswersStay
<1>4. ASSUME NEW d \in Deliveries, Read(d), calls[d].pc \in {"begin", "peek"},
             entries[calls[d].key] # None, effects' = effects
      PROVE  AnswersAreReal'
  <2>1. PICK k \in Key : k = calls[d].key /\ k # None
    BY <1>4 DEF IdempotencyInv, KeysInv, TypeOK
  <2>2. entries[k] \in Entry /\ entries[k].by \in Deliveries
    BY <1>4, <2>1 DEF IdempotencyInv, TypeOK, Entry
  <2>3. CASE ~entries[k].done
    <3>1. Goto(d, "conflict")
      BY <1>4, <2>1, <2>3 DEF Read, Finished
    <3> QED
      BY <1>3, <1>4, <3>1 DEF Back
  <2>4. CASE entries[k].done
    <3>1. PICK by \in Deliveries : by = entries[k].by
      BY <2>2
    <3>2. PICK answer : answer = [by |-> by, form |-> entries[k].form]
      OBVIOUS
    <3>3. calls' = [calls EXCEPT ![d] = [calls[d] EXCEPT !.pc = "answered", !.answer = answer]]
      BY <1>4, <2>1, <2>4, <3>1, <3>2 DEF Read, Finished, Answer, Become
    <3>4. calls'[d] = [calls[d] EXCEPT !.pc = "answered", !.answer = answer]
      BY <3>3 DEF IdempotencyInv, TypeOK
    <3>5. Moved(d) /\ calls'[d].pc = "answered" /\ calls'[d].answer = answer
      BY <1>4, <3>3, <3>4 DEF Moved, IdempotencyInv, TypeOK
    <3>6. by \in effects /\ calls[by].pc = "answered" /\ calls[by].key = k
      <4>1. entries[k] # None
        BY <1>4, <2>1
      <4> QED
        BY <2>4, <3>1, <4>1 DEF IdempotencyInv, EntriesInv
    <3>7. calls[by].op = calls[d].op
      BY <2>1, <3>6, SameOperation
    <3>8. calls'[by].op = calls'[d].op /\ calls'[by].pc = "answered"
      BY <3>5, <3>6, <3>7 DEF Moved
    <3>9. answer.by = by
      BY <3>2
    <3>10. Real(d, calls[d].answer.by)' /\ calls'[d].answer.by \in Deliveries
      BY <1>4, <3>5, <3>6, <3>8, <3>9 DEF Real, Back
    <3>11. calls'[d].pc \in Back /\ effects \subseteq effects'
      BY <1>4, <3>5 DEF Back
    <3> QED
      BY <3>5, <3>10, <3>11, AnswersStay
  <2> QED
    BY <2>3, <2>4
<1>5. ASSUME NEW d \in Deliveries, Begin(d) PROVE AnswersAreReal'
  <2>1. calls[d].pc = "begin" /\ effects' = effects
    BY <1>5 DEF Begin
  <2>2. ASSUME NEW pc \in {"running", "peek"}, Goto(d, pc) PROVE AnswersAreReal'
    BY <1>3, <2>1, <2>2 DEF Back
  <2> QED
    BY <1>4, <1>5, <2>1, <2>2 DEF Begin, Free
<1>6. ASSUME NEW d \in Deliveries, Peek(d) PROVE AnswersAreReal'
  <2>1. calls[d].pc = "peek" /\ effects' = effects
    BY <1>6 DEF Peek
  <2>2. Goto(d, "begin") => AnswersAreReal'
    BY <1>3, <2>1 DEF Back
  <2> QED
    BY <1>4, <1>6, <2>1, <2>2 DEF Peek
<1>7. ASSUME NEW d \in Deliveries, NEW form \in ResultForms, Return(d, form)
      PROVE  AnswersAreReal'
  <2>1. PICK answer : answer = [by |-> d, form |-> form]
    OBVIOUS
  <2>2. PICK pc : pc = IF calls[d].key = None THEN "answered" ELSE "complete"
    OBVIOUS
  <2>3. /\ calls[d].pc = "running" /\ effects' = effects \cup {d}
        /\ calls' = [calls EXCEPT ![d] = [calls[d] EXCEPT !.pc = pc, !.answer = answer]]
    BY <1>7, <2>1, <2>2 DEF Return, Answer, Become
  <2>4. calls'[d] = [calls[d] EXCEPT !.pc = pc, !.answer = answer]
    BY <2>3 DEF IdempotencyInv, TypeOK
  <2>5. pc \in {"answered", "complete"}
    BY <2>2
  <2>6. Moved(d) /\ calls'[d].pc = pc /\ calls'[d].answer = answer
    BY <2>3, <2>4, <2>5 DEF Moved, IdempotencyInv, TypeOK
  <2>7. answer.by = d
    BY <2>1
  <2> QED
    BY <2>3, <2>5, <2>6, <2>7, AnswersStay DEF Real, Back
<1>8. ASSUME NEW d \in Deliveries, Raise(d) \/ Complete(d) \/ Abandon(d) \/ Drop(d)
      PROVE  AnswersAreReal'
  <2>1. PICK pc \in {"failed", "abandon", "answered", "drop"} : Goto(d, pc)
    BY <1>8 DEF Raise, Complete, Abandon, Drop
  <2>2. effects \subseteq effects' /\ calls[d].pc \in {"running", "complete", "abandon", "drop"}
    BY <1>8 DEF Raise, Complete, Abandon, Drop
  <2>3. calls[d].pc = "complete" => pc = "answered"
    BY <1>8, <2>1, <2>2, GotoMoves DEF Raise, Complete, Abandon, Drop
  <2> QED
    BY <1>3, <2>1, <2>2, <2>3 DEF Back
<1>9. ASSUME NEW d \in Deliveries, StoreFails(d) PROVE AnswersAreReal'
  <2>1. /\ calls[d].pc \in {"begin", "peek", "complete", "abandon", "drop"}
        /\ calls' = [calls EXCEPT ![d] = [calls[d] EXCEPT !.pc = "error", !.answer = None]]
        /\ effects' = effects
    BY <1>9 DEF StoreFails, Become
  <2>2. Moved(d) /\ calls'[d].pc = "error" /\ calls'[d].answer = None
    BY <2>1 DEF Moved, IdempotencyInv, TypeOK
  <2> QED
    BY <2>1, <2>2, AnswersStay DEF Back
<1>10. ASSUME NEW k \in Key, Lapse(k) PROVE AnswersAreReal'
  BY <1>10 DEF Lapse, AnswersAreReal
<1> QED
  BY <1>1, <1>2, <1>5, <1>6, <1>7, <1>8, <1>9, <1>10 DEF Next, Proceed

\* idempotent: what a duplicate is answered with is the result of a run of its own
\* operation that took effect and returned, whatever lapses and fails.
THEOREM AnswersAlwaysReal == Spec => []AnswersAreReal
<1>1. Init => AnswersAreReal
  BY DEF Init, Idle, AnswersAreReal
<1> QED
  BY <1>1, InitIdempotency, NextIdempotency, NextAnswers, PTL DEF Spec
=============================================================================
