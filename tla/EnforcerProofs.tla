--------------------------- MODULE EnforcerProofs ---------------------------
(***************************************************************************)
(* Proofs about Enforcer: types; what an admission and a denial mean; that *)
(* a presentation is admitted once and an approval relied upon once, so    *)
(* that the enforcer implements Reliance.                                  *)
(***************************************************************************)
EXTENDS Enforcer, TLAPS

-----------------------------------------------------------------------------
(***************************************************************************)
(* Arithmetic of ticks and seconds.                                        *)
(***************************************************************************)
\* An instant whose second lies before k lies before k's first tick.
LEMMA SecsBefore ==
  ASSUME NEW n \in Nat, NEW k \in Nat, Secs(n) < k
  PROVE  n < k * Res
BY EnforcerAssumption, SMT DEF Secs

LEMMA SecsNat == ASSUME NEW n \in Nat PROVE Secs(n) \in Nat
BY EnforcerAssumption, SMT DEF Secs

LEMMA TicksNat == ASSUME NEW n \in Nat PROVE n * Res \in Nat
BY EnforcerAssumption, SMT

LEMMA TicksMonotone ==
  ASSUME NEW m \in Nat, NEW n \in Nat, m <= n
  PROVE  m * Res <= n * Res
BY EnforcerAssumption, SMT

\* The ledger's answers are instants.
LEMMA ForgottenNat ==
  ASSUME now \in Nat, NEW expires \in Nat
  PROVE  ForgottenAt(expires) \in Nat
<1>1. expires * Res \in Nat
  BY TicksNat
<1> DEFINE left == (expires * Res - now) \div Res
<1>2. left \in Int
  BY <1>1, EnforcerAssumption, SMT
<1>3. AtLeast(1, left) \in Nat
  BY <1>2 DEF AtLeast
<1>4. Res * AtLeast(1, left) \in Nat
  BY <1>3, EnforcerAssumption, SMT
<1>5. AtLeast(0, expires * Res - now) \in Nat
  BY <1>1 DEF AtLeast
<1> QED
  BY <1>4, <1>5, EnforcerAssumption DEF ForgottenAt

-----------------------------------------------------------------------------
(***************************************************************************)
(* Types.                                                                  *)
(***************************************************************************)
LEMMA IdleTyped == Idle \in Call
BY DEF Idle, Call, Optional, Stages, Verdicts

\* Replacing one call's record by a well-typed one keeps calls well typed.
LEMMA BecomeTyped ==
  ASSUME TypeOK, NEW c \in Calls, NEW call \in Call, Become(c, call)
  PROVE  calls' \in [Calls -> Call]
BY DEF TypeOK, Become

\* Reading a TTL entry gives a principal or nothing.
LEMMA PrincipalTyped ==
  ASSUME TypeOK, NEW s \in Sessions
  PROVE  PrincipalFor(s) \in Optional(Principals)
BY DEF TypeOK, PrincipalFor, Read, Live, Optional

LEMMA StoredTyped ==
  ASSUME now \in Nat, NEW S, NEW v \in S
  PROVE  Stored(v) \in [value: S, until: Nat]
<1>1. SessionTtl * Res \in Nat
  BY TicksNat, EnforcerAssumption
<1> QED
  BY <1>1 DEF Stored

LEMMA WorldTyped == TypeOK /\ World => TypeOK'
<1> SUFFICES ASSUME TypeOK, World PROVE TypeOK'
  OBVIOUS
<1> USE DEF TypeOK, session, external
<1>1. ASSUME NEW s \in Sessions, IssueChallenge(s) PROVE TypeOK'
  <2>1. Len(issued) + 1 \in Nat
    OBVIOUS
  <2>4. Stored(Len(issued) + 1) \in [value: Nat, until: Nat]
    BY <2>1, StoredTyped
  <2>2. issued' \in Seq([session: Sessions, at: Nat])
    BY <1>1 DEF IssueChallenge
  <2>3. challenge' \in [Sessions -> Optional([value: Nat, until: Nat])]
    BY <1>1, <2>4 DEF IssueChallenge, Optional
  <2> QED
    BY <1>1, <2>2, <2>3 DEF IssueChallenge
<1>2. ASSUME NEW s \in Sessions, ClearSession(s) PROVE TypeOK'
  BY <1>2 DEF ClearSession, Optional
<1>3. ASSUME NEW s \in Sessions, NEW p \in Principals, BindPrincipal(s, p) PROVE TypeOK'
  <2>1. Stored(p) \in [value: Principals, until: Nat]
    BY StoredTyped
  <2>2. principal' \in [Sessions -> Optional([value: Principals, until: Nat])]
    BY <1>3, <2>1 DEF BindPrincipal, Optional
  <2> QED
    BY <1>3, <2>2 DEF BindPrincipal
<1>4. ASSUME NEW t \in Tokens, Revoke(t) PROVE TypeOK'
  BY <1>4 DEF Revoke
<1>5. ASSUME NEW a \in Approvers, Offboard(a) PROVE TypeOK'
  BY <1>5 DEF Offboard
<1>6. ASSUME NEW c \in Calls, Approve(c) PROVE TypeOK'
  <2>1. Secs(now) + GrantTtl \in Nat
    BY SecsNat, EnforcerAssumption
  <2> QED
    BY <1>6, <2>1 DEF Approve
<1>7. ASSUME NEW c \in Calls, Refuse(c) PROVE TypeOK'
  BY <1>7 DEF Refuse
<1>8. ASSUME Tick PROVE TypeOK'
  <2>1. now' = now + 1
    BY <1>8 DEF Tick
  <2>2. UNCHANGED <<session, external, replayed, consumed, usage, stepup, calls>>
    BY <1>8 DEF Tick
  <2>3. now' \in Nat
    BY <2>1
  <2> QED
    BY <2>2, <2>3
<1> QED
  BY <1>1, <1>2, <1>3, <1>4, <1>5, <1>6, <1>7, <1>8 DEF World

(***************************************************************************)
(* A call that has begun knows its session and shows a proof for an issued *)
(* challenge; one that has not is still blank.                             *)
(***************************************************************************)
Begun(c) ==
  /\ calls[c].session \in Sessions
  /\ calls[c].shown \in Presentation
  /\ calls[c].shown.nonce \in DOMAIN issued

BegunOrIdle == \A c \in Calls : \/ calls[c] = Idle
                                \/ Begun(c) /\ calls[c].pc # "idle"

TypeInv == TypeOK /\ BegunOrIdle

\* Replacing one call's record by a well-typed one that has begun.
LEMMA BecomeInv ==
  ASSUME TypeInv, NEW c \in Calls, NEW call \in Call, Become(c, call),
         call.pc # "idle", call.session \in Sessions, call.shown \in Presentation,
         call.shown.nonce \in DOMAIN issued, UNCHANGED issued
  PROVE  calls' \in [Calls -> Call] /\ BegunOrIdle'
<1>1. calls' = [calls EXCEPT ![c] = call]
  BY DEF Become
<1>2. calls' \in [Calls -> Call]
  BY <1>1 DEF TypeInv, TypeOK
<1>3. ASSUME NEW d \in Calls PROVE calls'[d] = Idle \/ (Begun(d)' /\ calls'[d].pc # "idle")
  <2>1. CASE d = c
    BY <1>1, <2>1 DEF Begun, TypeInv, TypeOK
  <2>2. CASE d # c
    BY <1>1, <2>2 DEF Begun, TypeInv, TypeOK, BegunOrIdle
  <2> QED
    BY <2>1, <2>2
<1> QED
  BY <1>2, <1>3 DEF BegunOrIdle

LEMMA ArrivingTyped ==
  ASSUME NEW s \in Sessions, NEW tool \in Tools, NEW shown \in Presentation,
         NEW carried \in SUBSET Evidence, NEW tainted \in BOOLEAN
  PROVE  [Idle EXCEPT !.session = s, !.tool = tool, !.shown = shown,
                      !.carried = carried, !.tainted = tainted] \in Call
BY ZenonT(30), IdleTyped DEF Idle, Call, Optional

\* The updates the stages make keep a call well typed.
LEMMA ProceedTyped ==
  ASSUME NEW call \in Call, NEW stage \in Stages
  PROVE  [call EXCEPT !.pc = stage] \in Call
BY DEF Call

LEMMA DenyTyped ==
  ASSUME NEW call \in Call, NEW code \in Verdicts
  PROVE  [call EXCEPT !.pc = "done", !.verdict = code] \in Call
BY DEF Call, Stages

LEMMA JudgingTyped ==
  ASSUME TypeOK, NEW c \in Calls, calls[c].session \in Sessions, NEW stage \in Stages
  PROVE  Judging(c, stage) \in Call
<1>1. PrincipalFor(calls[c].session) \in Optional(Principals)
  BY PrincipalTyped
<1>2. calls[c] \in Call
  BY DEF TypeOK
<1> QED
  BY <1>1, <1>2 DEF Judging, Call
LEMMA WorldInv == TypeInv /\ World => TypeInv'
<1> SUFFICES ASSUME TypeInv, World PROVE TypeInv'
  OBVIOUS
<1>1. TypeOK'
  BY WorldTyped DEF TypeInv
<1>2. calls' = calls
  BY DEF World, IssueChallenge, ClearSession, BindPrincipal, Revoke, Offboard,
         Approve, Refuse, Tick
<1>3. \/ UNCHANGED issued
      \/ \E s \in Sessions : issued' = Append(issued, [session |-> s, at |-> now])
  BY DEF World, IssueChallenge, ClearSession, BindPrincipal, Revoke, Offboard,
         Approve, Refuse, Tick, session
<1>4. DOMAIN issued \subseteq DOMAIN issued'
  <2>1. ASSUME NEW s \in Sessions, issued' = Append(issued, [session |-> s, at |-> now])
        PROVE  DOMAIN issued \subseteq DOMAIN issued'
    <3>1. issued \in Seq([session: Sessions, at: Nat])
      BY DEF TypeInv, TypeOK
    <3>2. [session |-> s, at |-> now] \in [session: Sessions, at: Nat]
      BY DEF TypeInv, TypeOK
    <3> QED
      BY <2>1, <3>1, <3>2
  <2> QED
    BY <1>3, <2>1
<1>5. BegunOrIdle'
  BY <1>2, <1>4 DEF TypeInv, BegunOrIdle, Begun
<1> QED
  BY <1>1, <1>5 DEF TypeInv

\* What every stage of a call does to the call's own record.
Continues(c, call) ==
  /\ call \in Call
  /\ call.pc # "idle"
  /\ call.session = calls[c].session
  /\ call.shown = calls[c].shown
  /\ Become(c, call)

LEMMA StageInv ==
  ASSUME TypeInv, NEW c \in Calls, calls[c].pc # "idle", NEW call, Continues(c, call),
         UNCHANGED <<now, session, external>>,
         DOMAIN replayed' \subseteq Presentation,
         replayed' \in [DOMAIN replayed' -> Nat],
         consumed' \in [Evidence \cup Calls -> Nat],
         usage' \in [Agents -> Nat],
         stepup' \in [Calls -> [status: {"none", "pending", "approved", "denied"}, expires: Nat]]
  PROVE  TypeInv'
<1>1. Begun(c)
  BY DEF TypeInv, BegunOrIdle, Idle
<1>2. UNCHANGED issued
  BY DEF session
<1>3. calls' \in [Calls -> Call] /\ BegunOrIdle'
  BY <1>1, <1>2, BecomeInv DEF Continues, Begun
<1> QED
  BY <1>3 DEF TypeInv, TypeOK, session, external

\* A stage that only moves the call along.
LEMMA ProceedContinues ==
  ASSUME TypeOK, NEW c \in Calls, NEW stage \in Stages \ {"idle"}, Proceed(c, stage)
  PROVE  Continues(c, [calls[c] EXCEPT !.pc = stage])
<1>1. calls[c] \in Call
  BY DEF TypeOK
<1>2. [calls[c] EXCEPT !.pc = stage] \in Call
  BY <1>1, ProceedTyped
<1> QED
  BY <1>1, <1>2 DEF Proceed, Continues, Call

LEMMA DenyContinues ==
  ASSUME TypeOK, NEW c \in Calls, NEW code \in Verdicts, Deny(c, code)
  PROVE  Continues(c, [calls[c] EXCEPT !.pc = "done", !.verdict = code])
<1>1. calls[c] \in Call
  BY DEF TypeOK
<1>2. [calls[c] EXCEPT !.pc = "done", !.verdict = code] \in Call
  BY <1>1, DenyTyped
<1> QED
  BY <1>1, <1>2 DEF Deny, Continues, Call

\* A stage whose service failed.
LEMMA FaultContinues ==
  ASSUME TypeOK, NEW c \in Calls, NEW call \in Call, NEW service,
         call.session = calls[c].session, call.shown = calls[c].shown,
         NEW code \in Verdicts, NEW stage \in Stages \ {"idle"},
         Fault(c, call, service, code, stage)
  PROVE  \E next : Continues(c, next)
<1>1. CASE service \in FailOpen
  <2>1. [call EXCEPT !.pc = stage] \in Call
    BY ProceedTyped
  <2>2. Continues(c, [call EXCEPT !.pc = stage])
    BY <1>1, <2>1 DEF Fault, Continues, Call
  <2> QED
    BY <2>2
<1>2. CASE service \notin FailOpen
  <2>1. [call EXCEPT !.pc = "done", !.verdict = code] \in Call
    BY DenyTyped
  <2>2. Continues(c, [call EXCEPT !.pc = "done", !.verdict = code])
    BY <1>2, <2>1 DEF Fault, Continues, Call
  <2> QED
    BY <2>2
<1> QED
  BY <1>1, <1>2

\* A stage that reads the principal again.
LEMMA JudgingContinues ==
  ASSUME TypeOK, NEW c \in Calls, calls[c].session \in Sessions,
         NEW stage \in Stages \ {"idle"}
  PROVE  /\ Judging(c, stage) \in Call
         /\ Judging(c, stage).session = calls[c].session
         /\ Judging(c, stage).shown = calls[c].shown
         /\ Judging(c, stage).pc = stage
<1>1. Judging(c, stage) \in Call
  BY JudgingTyped
<1>2. calls[c] \in Call
  BY DEF TypeOK
<1> QED
  BY <1>1, <1>2 DEF Judging, Call
\* The stores a stage leaves alone stay well typed.
LEMMA QuietStageInv ==
  ASSUME TypeInv, NEW c \in Calls, calls[c].pc # "idle", NEW call, Continues(c, call),
         UNCHANGED <<now, session, external, replayed, consumed, usage, stepup>>
  PROVE  TypeInv'
<1>1. /\ UNCHANGED <<now, session, external>>
      /\ DOMAIN replayed' \subseteq Presentation
      /\ replayed' \in [DOMAIN replayed' -> Nat]
      /\ consumed' \in [Evidence \cup Calls -> Nat]
      /\ usage' \in [Agents -> Nat]
      /\ stepup' \in [Calls -> [status: {"none", "pending", "approved", "denied"},
                                expires: Nat]]
  BY DEF TypeInv, TypeOK
<1> QED
  BY <1>1, StageInv

LEMMA ReceiveInv ==
  ASSUME TypeInv, NEW c \in Calls, NEW s \in Sessions, NEW tool \in Tools,
         NEW shown \in Presentations, NEW carried \in Carried,
         Presented(shown), Receive(c, s, tool, shown, carried)
  PROVE  TypeInv'
<1> DEFINE call == [Idle EXCEPT !.session = s, !.tool = tool, !.shown = shown,
                                !.carried = carried, !.tainted = shown.token \in revoked]
<1>1. shown \in Presentation /\ carried \in SUBSET Evidence
  BY EnforcerAssumption DEF Presentations, Presentation
<1>2. call \in Call
  <2>1. (shown.token \in revoked) \in BOOLEAN
    OBVIOUS
  <2> QED
    BY <1>1, <2>1, ArrivingTyped, Zenon
<1>3. call.session = s /\ call.shown = shown
  BY DEF Idle
<1>4. \/ Become(c, [call EXCEPT !.pc = "done", !.verdict = "no_challenge"])
      \/ Become(c, [call EXCEPT !.pc = "done", !.verdict = "unbound"])
      \/ /\ Live(challenge[s])
         /\ Become(c, [call EXCEPT !.pc = "principal", !.challenge = challenge[s].value])
  BY DEF Receive
<1> HIDE DEF call
<1>5. PICK code \in Verdicts, nonce \in Nat, stage \in Stages \ {"idle"} :
        Become(c, [call EXCEPT !.pc = stage, !.verdict = code, !.challenge = nonce])
  <2>1. CASE Become(c, [call EXCEPT !.pc = "done", !.verdict = "no_challenge"])
    <3>1. [call EXCEPT !.pc = "done", !.verdict = "no_challenge"]
            = [call EXCEPT !.pc = "done", !.verdict = "no_challenge",
                           !.challenge = call.challenge]
      BY <1>2 DEF Call
    <3>2. call.challenge \in Nat /\ "no_challenge" \in Verdicts /\ "done" \in Stages \ {"idle"}
      BY <1>2 DEF Call, Verdicts, Stages
    <3> QED
      BY <2>1, <3>1, <3>2
  <2>2. CASE Become(c, [call EXCEPT !.pc = "done", !.verdict = "unbound"])
    <3>1. [call EXCEPT !.pc = "done", !.verdict = "unbound"]
            = [call EXCEPT !.pc = "done", !.verdict = "unbound",
                           !.challenge = call.challenge]
      BY <1>2 DEF Call
    <3>2. call.challenge \in Nat /\ "unbound" \in Verdicts /\ "done" \in Stages \ {"idle"}
      BY <1>2 DEF Call, Verdicts, Stages
    <3> QED
      BY <2>2, <3>1, <3>2
  <2>3. CASE /\ Live(challenge[s])
             /\ Become(c, [call EXCEPT !.pc = "principal", !.challenge = challenge[s].value])
    <3>1. [call EXCEPT !.pc = "principal", !.challenge = challenge[s].value]
            = [call EXCEPT !.pc = "principal", !.verdict = call.verdict,
                           !.challenge = challenge[s].value]
      BY <1>2 DEF Call
    <3>2. challenge[s].value \in Nat
      BY <2>3 DEF TypeInv, TypeOK, Live, Optional
    <3>3. call.verdict \in Verdicts /\ "principal" \in Stages \ {"idle"}
      BY <1>2 DEF Call, Stages
    <3> QED
      BY <2>3, <3>1, <3>2, <3>3
  <2> QED
    BY <1>4, <2>1, <2>2, <2>3
<1> DEFINE next == [call EXCEPT !.pc = stage, !.verdict = code, !.challenge = nonce]
<1>6. /\ next \in Call /\ next.pc # "idle"
      /\ next.session = s /\ next.shown = shown
  BY <1>2, <1>3 DEF Call
<1>7. UNCHANGED <<now, session, external, replayed, consumed, usage, stepup>>
  BY DEF Receive
<1>8. Become(c, next)
  BY <1>5
<1> HIDE DEF next
<1>9. shown.nonce \in DOMAIN issued /\ UNCHANGED issued
  BY <1>7 DEF Presented, session
<1>10. calls' \in [Calls -> Call] /\ BegunOrIdle'
  BY <1>1, <1>6, <1>8, <1>9, BecomeInv
<1> QED
  BY <1>7, <1>10 DEF TypeInv, TypeOK, session, external
LEMMA ReadPrincipalInv ==
  ASSUME TypeInv, NEW c \in Calls, ReadPrincipal(c)
  PROVE  TypeInv'
<1>1. calls[c] \in Call /\ calls[c].pc = "principal" /\ Begun(c)
  BY DEF ReadPrincipal, TypeInv, TypeOK, BegunOrIdle, Idle
<1>2. PrincipalFor(calls[c].session) \in Optional(Principals)
  BY <1>1, PrincipalTyped DEF Begun, TypeInv
<1> DEFINE call == [calls[c] EXCEPT !.pc = "verify",
                                    !.actingFor = PrincipalFor(calls[c].session)]
<1>3. Continues(c, call)
  BY <1>1, <1>2 DEF ReadPrincipal, Continues, Call, Stages
<1>4. UNCHANGED <<now, session, external, replayed, consumed, usage, stepup>>
  BY DEF ReadPrincipal
<1> HIDE DEF call
<1> QED
  BY <1>1, <1>3, <1>4, QuietStageInv

LEMMA VerifyInv ==
  ASSUME TypeInv, NEW c \in Calls, Verify(c)
  PROVE  TypeInv'
<1>1. Proceed(c, "replay") \/ Deny(c, "possession")
  BY DEF Verify
<1>2. PICK call : Continues(c, call)
  <2>1. "replay" \in Stages \ {"idle"} /\ "possession" \in Verdicts
    BY DEF Stages, Verdicts
  <2> QED
    BY <1>1, <2>1, ProceedContinues, DenyContinues DEF TypeInv
<1> QED
  BY <1>2, QuietStageInv DEF Verify

LEMMA RecordIfNewInv ==
  ASSUME TypeInv, NEW c \in Calls, RecordIfNew(c)
  PROVE  TypeInv'
<1>1. calls[c] \in Call /\ calls[c].pc = "replay" /\ Begun(c)
  BY DEF RecordIfNew, TypeInv, TypeOK, BegunOrIdle, Idle
<1>2. "revocation" \in Stages \ {"idle"} /\ "replay" \in Verdicts
  BY DEF Stages, Verdicts
<1>3. UNCHANGED <<now, session, external, consumed, usage, stepup>>
  BY DEF RecordIfNew
<1>4. CASE Proceed(c, "revocation") /\ UNCHANGED replayed
  BY <1>1, <1>2, <1>3, <1>4, ProceedContinues, QuietStageInv DEF TypeInv
<1>5. CASE Deny(c, "replay") /\ UNCHANGED replayed
  BY <1>1, <1>2, <1>3, <1>5, DenyContinues, QuietStageInv DEF TypeInv
<1>6. CASE /\ Become(c, [calls[c] EXCEPT !.pc = "revocation", !.fresh = TRUE])
           /\ replayed' = [p \in DOMAIN replayed \cup {calls[c].shown} |->
                             IF p = calls[c].shown THEN now + ReplayTtl * Res
                                                   ELSE replayed[p]]
  <2>1. Continues(c, [calls[c] EXCEPT !.pc = "revocation", !.fresh = TRUE])
    BY <1>1, <1>2, <1>6 DEF Continues, Call
  <2>2. now + ReplayTtl * Res \in Nat
    BY SMTT(30), TicksNat, EnforcerAssumption DEF TypeInv, TypeOK
  <2>3. DOMAIN replayed' \subseteq Presentation
    BY <1>1, <1>6 DEF TypeInv, TypeOK, Begun
  <2>4. replayed' \in [DOMAIN replayed' -> Nat]
    BY <1>6, <2>2 DEF TypeInv, TypeOK
  <2> QED
    BY <1>1, <1>3, <2>1, <2>3, <2>4, StageInv DEF TypeInv, TypeOK
<1> QED
  BY <1>4, <1>5, <1>6 DEF RecordIfNew

LEMMA CheckRevocationInv ==
  ASSUME TypeInv, NEW c \in Calls, CheckRevocation(c)
  PROVE  TypeInv'
<1>1. calls[c] \in Call
  BY DEF TypeInv, TypeOK
<1>2. "gates" \in Stages \ {"idle"} /\ "revoked" \in Verdicts
  BY DEF Stages, Verdicts
<1>3. \/ Deny(c, "revoked") \/ Proceed(c, "gates")
      \/ Fault(c, calls[c], "revocation", "revoked", "gates")
  BY DEF CheckRevocation
<1>4. PICK call : Continues(c, call)
  BY <1>1, <1>2, <1>3, ProceedContinues, DenyContinues, FaultContinues DEF TypeInv
<1> QED
  BY <1>4, QuietStageInv DEF CheckRevocation

LEMMA MatchedTyped ==
  ASSUME NEW call \in Call, NEW pairs \in SUBSET (GateKinds \X Evidence)
  PROVE  Matched(call, pairs) \in Call
BY DEF Matched, Call, Stages

LEMMA CheckGatesInv ==
  ASSUME TypeInv, NEW c \in Calls, CheckGates(c)
  PROVE  TypeInv'
<1>1. calls[c] \in Call /\ "approval" \in Verdicts
  BY DEF TypeInv, TypeOK, Verdicts
<1>2. CASE Deny(c, "approval")
  BY <1>1, <1>2, DenyContinues, QuietStageInv DEF TypeInv, CheckGates
<1>3. ASSUME NEW choice \in [Designating(calls[c]) -> calls[c].carried],
             Become(c, Matched(calls[c], {<<k, choice[k]>> : k \in Designating(calls[c])}))
      PROVE  TypeInv'
  <2> DEFINE pairs == {<<k, choice[k]>> : k \in Designating(calls[c])}
  <2>1. pairs \in SUBSET (GateKinds \X Evidence)
    <3>1. calls[c].carried \subseteq Evidence
      BY <1>1 DEF Call
    <3>2. Designating(calls[c]) \subseteq GateKinds
      BY DEF Designating
    <3> HIDE DEF Designating
    <3>3. ASSUME NEW k \in Designating(calls[c])
          PROVE  <<k, choice[k]>> \in GateKinds \X Evidence
      BY <3>1, <3>2
    <3> QED
      BY <3>3
  <2>2. Continues(c, Matched(calls[c], pairs))
    <3>1. Matched(calls[c], pairs) \in Call
      BY <1>1, <2>1, MatchedTyped
    <3> HIDE DEF pairs
    <3>2. /\ Matched(calls[c], pairs).pc = "policy"
          /\ Matched(calls[c], pairs).session = calls[c].session
          /\ Matched(calls[c], pairs).shown = calls[c].shown
      BY <1>1 DEF Matched, Call
    <3>3. Become(c, Matched(calls[c], pairs))
      BY <1>3 DEF pairs
    <3> QED
      BY <3>1, <3>2, <3>3 DEF Continues
  <2> QED
    BY <2>2, QuietStageInv DEF CheckGates
<1> QED
  BY <1>2, <1>3 DEF CheckGates

LEMMA CheckPolicyInv ==
  ASSUME TypeInv, NEW c \in Calls, CheckPolicy(c)
  PROVE  TypeInv'
<1>1. calls[c] \in Call /\ Begun(c)
  BY DEF CheckPolicy, TypeInv, TypeOK, BegunOrIdle, Idle
<1>2. {"usage", "policy", "done"} \subseteq Stages \ {"idle"} /\ "policy" \in Verdicts
  BY DEF Stages, Verdicts
<1>3. CASE Become(c, Judging(c, "usage"))
  <2>1. Continues(c, Judging(c, "usage"))
    BY <1>1, <1>2, <1>3, JudgingContinues DEF Continues, Begun, TypeInv
  <2> QED
    BY <2>1, QuietStageInv DEF CheckPolicy
<1>4. CASE Become(c, [Judging(c, "done") EXCEPT !.verdict = "policy"])
  <2> DEFINE call == Judging(c, "done")
  <2>1. /\ call \in Call /\ call.pc = "done"
        /\ call.session = calls[c].session /\ call.shown = calls[c].shown
    BY <1>1, <1>2, JudgingContinues DEF Begun, TypeInv
  <2> HIDE DEF call
  <2>2. Become(c, [call EXCEPT !.verdict = "policy"])
    BY <1>4 DEF call
  <2>3. Continues(c, [call EXCEPT !.verdict = "policy"])
    BY <1>2, <2>1, <2>2 DEF Continues, Call
  <2> QED
    BY <2>3, QuietStageInv DEF CheckPolicy
<1>5. CASE Fault(c, Judging(c, "policy"), "policy", "policy", "usage")
  <2>1. /\ Judging(c, "policy") \in Call
        /\ Judging(c, "policy").session = calls[c].session
        /\ Judging(c, "policy").shown = calls[c].shown
    BY <1>1, <1>2, JudgingContinues DEF Begun, TypeInv
  <2>2. PICK next : Continues(c, next)
    BY <1>2, <1>5, <2>1, FaultContinues DEF TypeInv
  <2> QED
    BY <2>2, QuietStageInv DEF CheckPolicy
<1> QED
  BY <1>3, <1>4, <1>5 DEF CheckPolicy

LEMMA CheckUsageInv ==
  ASSUME TypeInv, NEW c \in Calls, CheckUsage(c)
  PROVE  TypeInv'
<1>1. calls[c] \in Call /\ Begun(c)
  BY DEF CheckUsage, TypeInv, TypeOK, BegunOrIdle, Idle
<1>2. {"charge", "usage", "hold", "done"} \subseteq Stages \ {"idle"} /\ "quota" \in Verdicts
  BY DEF Stages, Verdicts
<1>3. CASE Become(c, Judging(c, "charge"))
  <2>1. Continues(c, Judging(c, "charge"))
    BY <1>1, <1>2, <1>3, JudgingContinues DEF Continues, Begun, TypeInv
  <2> QED
    BY <2>1, QuietStageInv DEF CheckUsage
<1>4. CASE Become(c, [Judging(c, "done") EXCEPT !.verdict = "quota"])
  <2> DEFINE call == Judging(c, "done")
  <2>1. /\ call \in Call /\ call.pc = "done"
        /\ call.session = calls[c].session /\ call.shown = calls[c].shown
    BY <1>1, <1>2, JudgingContinues DEF Begun, TypeInv
  <2> HIDE DEF call
  <2>2. Become(c, [call EXCEPT !.verdict = "quota"])
    BY <1>4 DEF call
  <2>3. Continues(c, [call EXCEPT !.verdict = "quota"])
    BY <1>2, <2>1, <2>2 DEF Continues, Call
  <2> QED
    BY <2>3, QuietStageInv DEF CheckUsage
<1>5. CASE Fault(c, Judging(c, "usage"), "usage", "quota", "hold")
  <2>1. /\ Judging(c, "usage") \in Call
        /\ Judging(c, "usage").session = calls[c].session
        /\ Judging(c, "usage").shown = calls[c].shown
    BY <1>1, <1>2, JudgingContinues DEF Begun, TypeInv
  <2>2. PICK next : Continues(c, next)
    BY <1>2, <1>5, <2>1, FaultContinues DEF TypeInv
  <2> QED
    BY <2>2, QuietStageInv DEF CheckUsage
<1> QED
  BY <1>3, <1>4, <1>5 DEF CheckUsage

LEMMA ChargeUsageInv ==
  ASSUME TypeInv, NEW c \in Calls, ChargeUsage(c)
  PROVE  TypeInv'
<1>1. calls[c] \in Call /\ calls[c].pc = "charge" /\ Begun(c)
  BY DEF ChargeUsage, TypeInv, TypeOK, BegunOrIdle, Idle
<1>2. Continues(c, [calls[c] EXCEPT !.pc = "hold", !.charged = TRUE])
  BY <1>1 DEF ChargeUsage, Continues, Call, Stages
<1>3. usage' \in [Agents -> Nat]
  <2>1. usage \in [Agents -> Nat]
    BY DEF TypeInv, TypeOK
  <2> DEFINE a == calls[c].shown.token.agent
  <2>2. usage' = [usage EXCEPT ![a] = usage[a] + 1]
    BY DEF ChargeUsage
  <2> HIDE DEF a
  <2>3. a \in Agents => usage[a] + 1 \in Nat
    BY <2>1
  <2> QED
    BY <2>1, <2>2, <2>3
<1>4. UNCHANGED <<now, session, external, replayed, consumed, stepup>>
  BY DEF ChargeUsage
<1> QED
  BY <1>1, <1>2, <1>3, <1>4, StageInv DEF TypeInv, TypeOK

LEMMA CappedNat == ASSUME NEW t \in Nat PROVE Capped(t) \in Nat
BY EnforcerAssumption DEF Capped

LEMMA HoldForApprovalInv ==
  ASSUME TypeInv, NEW c \in Calls, HoldForApproval(c)
  PROVE  TypeInv'
<1>1. calls[c] \in Call /\ calls[c].pc = "hold" /\ Begun(c)
  BY DEF HoldForApproval, TypeInv, TypeOK, BegunOrIdle, Idle
<1>2. {"commit", "wait", "hold"} \subseteq Stages \ {"idle"} /\ "approval" \in Verdicts
  BY DEF Stages, Verdicts
<1>3. UNCHANGED <<now, session, external, replayed, consumed, usage>>
  BY DEF HoldForApproval
<1>4. CASE Become(c, Judging(c, "commit")) /\ UNCHANGED stepup
  <2>1. Continues(c, Judging(c, "commit"))
    BY <1>1, <1>2, <1>4, JudgingContinues DEF Continues, Begun, TypeInv
  <2> QED
    BY <1>1, <1>3, <1>4, <2>1, QuietStageInv
<1>5. CASE /\ Become(c, [Judging(c, "wait") EXCEPT
                           !.since = Secs(now), !.deadline = Capped(now + Timeout * Res)])
           /\ stepup' = [stepup EXCEPT ![c] = [status |-> "pending", expires |-> 0]]
  <2> DEFINE call == Judging(c, "wait")
  <2> DEFINE end == Capped(now + Timeout * Res)
  <2>1. /\ call \in Call /\ call.pc = "wait"
        /\ call.session = calls[c].session /\ call.shown = calls[c].shown
    BY <1>1, <1>2, JudgingContinues DEF Begun, TypeInv
  <2>2. now \in Nat /\ Timeout \in Nat
    BY EnforcerAssumption DEF TypeInv, TypeOK
  <2>3. Secs(now) \in Nat /\ now + Timeout * Res \in Nat
    BY <2>2, SecsNat, TicksNat
  <2>4. end \in Nat
    BY <2>3, CappedNat
  <2> HIDE DEF call, end
  <2>5. Become(c, [call EXCEPT !.since = Secs(now), !.deadline = end])
    BY <1>5 DEF call, end
  <2>6. Continues(c, [call EXCEPT !.since = Secs(now), !.deadline = end])
    BY <2>1, <2>3, <2>4, <2>5 DEF Continues, Call
  <2>7. stepup' \in [Calls -> [status: {"none", "pending", "approved", "denied"},
                               expires: Nat]]
    BY <1>5 DEF TypeInv, TypeOK
  <2> QED
    BY <1>1, <1>3, <2>6, <2>7, StageInv DEF TypeInv, TypeOK
<1>6. CASE /\ Fault(c, Judging(c, "hold"), "approval", "approval", "commit")
           /\ UNCHANGED stepup
  <2>1. /\ Judging(c, "hold") \in Call
        /\ Judging(c, "hold").session = calls[c].session
        /\ Judging(c, "hold").shown = calls[c].shown
    BY <1>1, <1>2, JudgingContinues DEF Begun, TypeInv
  <2>2. PICK next : Continues(c, next)
    BY <1>2, <1>6, <2>1, FaultContinues DEF TypeInv
  <2> QED
    BY <1>1, <1>3, <1>6, <2>2, QuietStageInv
<1> QED
  BY <1>4, <1>5, <1>6 DEF HoldForApproval

LEMMA PollApprovalInv ==
  ASSUME TypeInv, NEW c \in Calls, PollApproval(c)
  PROVE  TypeInv'
<1>1. calls[c] \in Call /\ calls[c].pc = "wait"
  BY DEF PollApproval, TypeInv, TypeOK
<1>2. "commit" \in Stages \ {"idle"} /\ "approval" \in Verdicts
  BY DEF Stages, Verdicts
<1>3. UNCHANGED <<now, session, external, replayed, usage, stepup>>
  BY DEF PollApproval
<1>4. /\ \/ Proceed(c, "commit") \/ Deny(c, "approval")
         \/ Fault(c, calls[c], "approval", "approval", "commit")
      /\ \/ UNCHANGED consumed
         \/ consumed' = [consumed EXCEPT ![c] = ForgottenAt(stepup[c].expires)]
  BY DEF PollApproval, GiveUp
<1>5. PICK call : Continues(c, call)
  BY <1>1, <1>2, <1>4, ProceedContinues, DenyContinues, FaultContinues DEF TypeInv
<1>6. consumed' \in [Evidence \cup Calls -> Nat]
  <2>1. stepup[c].expires \in Nat /\ now \in Nat
    BY DEF TypeInv, TypeOK
  <2>2. ForgottenAt(stepup[c].expires) \in Nat
    BY <2>1, ForgottenNat
  <2> QED
    BY <1>4, <2>2 DEF TypeInv, TypeOK
<1> QED
  BY <1>1, <1>3, <1>5, <1>6, StageInv DEF TypeInv, TypeOK

\* Evidence a call owes expires at a natural instant.
LEMMA OwedTyped ==
  ASSUME TypeOK, NEW c \in Calls, NEW o \in calls[c].owed
  PROVE  o \in GateKinds \X Evidence /\ o[2] \in Evidence /\ o[2].expires \in Nat
<1>1. calls[c].owed \in SUBSET (GateKinds \X Evidence)
  BY DEF TypeOK, Call
<1>2. o[2] \in Evidence
  BY <1>1
<1> QED
  BY <1>1, <1>2, EnforcerAssumption DEF EvidenceType

LEMMA CommitRelianceInv ==
  ASSUME TypeInv, NEW c \in Calls, CommitReliance(c)
  PROVE  TypeInv'
<1>1. calls[c] \in Call /\ calls[c].pc = "commit"
  BY DEF CommitReliance, TypeInv, TypeOK
<1>2. UNCHANGED <<now, session, external, replayed, usage, stepup>>
  BY DEF CommitReliance
<1>3. CASE /\ Become(c, [calls[c] EXCEPT !.pc = "done", !.verdict = "allow"])
           /\ UNCHANGED consumed
  <2>1. Continues(c, [calls[c] EXCEPT !.pc = "done", !.verdict = "allow"])
    BY <1>1, <1>3 DEF Continues, Call, Stages, Verdicts
  <2> QED
    BY <1>1, <1>2, <1>3, <2>1, QuietStageInv
<1>4. ASSUME NEW o \in calls[c].owed,
             consumed' = [consumed EXCEPT ![o[2]] = ForgottenAt(o[2].expires)],
             Become(c, [calls[c] EXCEPT !.owed = @ \ {o}, !.spent = @ \cup {o}])
      PROVE  TypeInv'
  <2>1. o \in GateKinds \X Evidence /\ o[2] \in Evidence /\ o[2].expires \in Nat
    BY OwedTyped DEF TypeInv
  <2>2. ForgottenAt(o[2].expires) \in Nat
    BY <2>1, ForgottenNat DEF TypeInv, TypeOK
  <2>3. consumed' \in [Evidence \cup Calls -> Nat]
    BY <1>4, <2>2 DEF TypeInv, TypeOK
  <2>4. Continues(c, [calls[c] EXCEPT !.owed = @ \ {o}, !.spent = @ \cup {o}])
    BY <1>1, <1>4, <2>1 DEF Continues, Call
  <2> QED
    BY <1>1, <1>2, <2>3, <2>4, StageInv DEF TypeInv, TypeOK
<1>5. CASE Deny(c, "consumed") /\ UNCHANGED consumed
  <2>1. "consumed" \in Verdicts
    BY DEF Verdicts
  <2> QED
    BY <1>1, <1>2, <1>5, <2>1, DenyContinues, QuietStageInv DEF TypeInv
<1> QED
  BY <1>3, <1>4, <1>5 DEF CommitReliance

LEMMA InitInv == Init => TypeInv
<1> SUFFICES ASSUME Init PROVE TypeInv
  OBVIOUS
<1>1. calls = [c \in Calls |-> Idle] /\ \A c \in Calls : calls[c] = Idle
  BY DEF Init
<1>2. calls \in [Calls -> Call]
  BY <1>1, IdleTyped
<1>3. replayed = <<>> /\ DOMAIN replayed = {}
  BY DEF Init
<1>4. replayed \in [DOMAIN replayed -> Nat]
  BY <1>3
<1>5. issued \in Seq([session: Sessions, at: Nat])
  BY DEF Init
<1>6. /\ now \in Nat
      /\ challenge \in [Sessions -> Optional([value: Nat, until: Nat])]
      /\ principal \in [Sessions -> Optional([value: Principals, until: Nat])]
      /\ revoked \subseteq Tokens /\ directory \subseteq Approvers
  BY DEF Init, Optional
<1>7. /\ consumed \in [Evidence \cup Calls -> Nat]
      /\ usage \in [Agents -> Nat]
      /\ stepup \in [Calls -> [status: {"none", "pending", "approved", "denied"},
                               expires: Nat]]
  BY DEF Init
<1>8. BegunOrIdle
  BY <1>1, Zenon DEF BegunOrIdle
<1>9. {} \subseteq Presentation
  OBVIOUS
<1>10. DOMAIN replayed \subseteq Presentation
  BY <1>3, <1>9, Zenon
<1> QED
  BY <1>2, <1>4, <1>5, <1>6, <1>7, <1>8, <1>10 DEF TypeInv, TypeOK

LEMMA NextInv == TypeInv /\ [Next]_vars => TypeInv'
<1> SUFFICES ASSUME TypeInv, [Next]_vars PROVE TypeInv'
  OBVIOUS
<1>1. CASE World
  BY <1>1, WorldInv
<1>2. CASE Arrive
  BY <1>2, ReceiveInv DEF Arrive
<1>3. ASSUME NEW c \in Calls, Advance(c) PROVE TypeInv'
  BY <1>3, ReadPrincipalInv, VerifyInv, RecordIfNewInv, CheckRevocationInv, CheckGatesInv,
     CheckPolicyInv, CheckUsageInv, ChargeUsageInv, HoldForApprovalInv, PollApprovalInv,
     CommitRelianceInv DEF Advance
<1>4. CASE UNCHANGED vars
  BY <1>4 DEF vars, session, external, TypeInv, TypeOK, BegunOrIdle, Begun
<1> QED
  BY <1>1, <1>2, <1>3, <1>4 DEF Next

(***************************************************************************)
(* The stores and the call records keep their types, for any calls,        *)
(* sessions, tokens, evidence and settings.                                *)
(***************************************************************************)
THEOREM TypeCorrect == Spec => []TypeOK
<1>1. TypeInv => TypeOK
  BY DEF TypeInv
<1> QED
  BY <1>1, InitInv, NextInv, PTL DEF Spec

-------------------------------------------------------------------------------
(***************************************************************************)
(* Proofs of what an admission and a denial of the enforcer mean: who was  *)
(* admitted was proved, unrevoked, covered for every gate and approved by  *)
(* the operator; who was denied downstream burnt nothing; and a            *)
(* presentation is admitted once.                                          *)
(*                                                                         *)
(* The verdict is the last of a dozen steps, each of which reads stores    *)
(* other calls and operators write to.  So the invariants say, stage by    *)
(* stage, what a call has established by then and why nothing that happens *)
(* later takes it back.                                                    *)
(***************************************************************************)

\* The stages a call enters only once it was verified, found unrevoked, gated.
AfterGates == {"policy", "usage", "charge", "hold", "wait", "commit"}
AfterRevocation == AfterGates \cup {"gates"}
AfterVerify == AfterRevocation \cup {"replay", "revocation"}

IssuedTo(nonce, s) == nonce \in DOMAIN issued /\ issued[nonce].session = s

ProvedFor(call) ==
  /\ IssuedTo(call.shown.nonce, call.session)
  /\ call.tool \in call.shown.token.tools
  /\ call.shown.token.principal \in {None, call.actingFor}

\* Evidence o[2], matched for a gate of kind o[1], fits the call.
Fitting(o, k, tool, actingFor) ==
  /\ o[1] = k
  /\ o[2].tool = tool /\ o[2].principal = actingFor
  /\ k = ApprovalKey <=> o[2].approver # None

\* Every gate has its evidence, committed or owed: each commit moves one over.
Covered(call) ==
  \A k \in Designating(call) : \E o \in call.owed \cup call.spent :
    Fitting(o, k, call.tool, call.actingFor)

\* What a session's current challenge was issued for.
ChallengesIssued == \A s \in Sessions : challenge[s] # None => IssuedTo(challenge[s].value, s)

Authorized(c) ==
  /\ calls[c].pc \in {"principal", "verify"} => IssuedTo(calls[c].challenge, calls[c].session)
  /\ calls[c].pc \in AfterVerify \/ Admitted(c) => ProvedFor(calls[c])
  /\ calls[c].pc \in AfterGates \/ Admitted(c) => Covered(calls[c])
  /\ Admitted(c) => calls[c].owed = {}

\* Only the commit loop spends, and only losing it denies a call that has spent.
Frugal(c) ==
  /\ calls[c].pc # "done" => calls[c].verdict = "none"
  /\ calls[c].pc \notin {"commit", "done"} => calls[c].spent = {}
  /\ Denied(c) /\ calls[c].verdict # "consumed" => calls[c].spent = {}

\* A call with a revoked credential never gets past the status list.
Refused(c) ==
  "revocation" \notin FailOpen /\ calls[c].tainted =>
    /\ ~Admitted(c)
    /\ calls[c].pc \notin AfterRevocation
    /\ calls[c].shown.token \in revoked

\* The operator's answer stands: it can change only while the call waits for it.
Answered(c) ==
  "approval" \notin FailOpen /\ calls[c].tool \in Flagged
    /\ (calls[c].pc = "commit" \/ Admitted(c)) => stepup[c].status = "approved"

CallOK(c) == Authorized(c) /\ Frugal(c) /\ Refused(c) /\ Answered(c)

AdmissionInv == ChallengesIssued /\ \A c \in Calls : CallOK(c)

-----------------------------------------------------------------------------
(***************************************************************************)
(* What the stages do, told by the fields of the call.                     *)
(***************************************************************************)
Beside(c) ==
  /\ \A d \in Calls \ {c} : calls'[d] = calls[d] /\ stepup'[d] = stepup[d]
  /\ UNCHANGED <<now, issued, challenge, revoked>>

SameRequest(c) ==
  /\ calls'[c].session = calls[c].session
  /\ calls'[c].tool = calls[c].tool
  /\ calls'[c].shown = calls[c].shown
  /\ calls'[c].challenge = calls[c].challenge
  /\ calls'[c].tainted = calls[c].tainted
  /\ calls[c].pc # "replay" => calls'[c].fresh = calls[c].fresh

SameHoldings(c) ==
  /\ calls'[c].actingFor = calls[c].actingFor
  /\ calls'[c].owed = calls[c].owed
  /\ calls'[c].spent = calls[c].spent

Onward(c, stage) ==
  /\ Beside(c) /\ SameRequest(c) /\ SameHoldings(c)
  /\ calls'[c].pc = stage
  /\ calls'[c].verdict = calls[c].verdict

Ends(c, code) ==
  /\ Beside(c) /\ SameRequest(c) /\ SameHoldings(c)
  /\ calls'[c].pc = "done"
  /\ calls'[c].verdict = code

Quietly(c) ==
  /\ UNCHANGED <<now, issued, challenge, revoked>>
  /\ \A d \in Calls \ {c} : stepup'[d] = stepup[d]

LEMMA ProceedOnward ==
  ASSUME TypeOK, NEW c \in Calls, NEW stage, Proceed(c, stage), Quietly(c)
  PROVE  Onward(c, stage)
BY DEF TypeOK, Proceed, Become, Onward, Beside, SameRequest, SameHoldings, Call, Quietly

LEMMA DenyEnds ==
  ASSUME TypeOK, NEW c \in Calls, NEW code, Deny(c, code), Quietly(c)
  PROVE  Ends(c, code)
BY DEF TypeOK, Deny, Become, Ends, Beside, SameRequest, SameHoldings, Call, Quietly

\* The same call but for its stage and what the later gates were shown.
Like(call, c) ==
  /\ call \in Call
  /\ call.session = calls[c].session /\ call.tool = calls[c].tool
  /\ call.shown = calls[c].shown /\ call.challenge = calls[c].challenge
  /\ call.tainted = calls[c].tainted /\ call.verdict = calls[c].verdict
  /\ call.actingFor = calls[c].actingFor
  /\ call.owed = calls[c].owed /\ call.spent = calls[c].spent
  /\ calls[c].pc # "replay" => call.fresh = calls[c].fresh

LEMMA LikeOnward ==
  ASSUME TypeOK, NEW c \in Calls, NEW call, Like(call, c), Become(c, call), Quietly(c)
  PROVE  Onward(c, call.pc)
<1>1. calls'[c] = call /\ \A d \in Calls \ {c} : calls'[d] = calls[d]
  BY DEF TypeOK, Become
<1> QED
  BY <1>1 DEF Like, Onward, Beside, SameRequest, SameHoldings, Quietly

LEMMA LikeEnds ==
  ASSUME TypeOK, NEW c \in Calls, NEW call, Like(call, c), NEW code, Quietly(c),
         Become(c, [call EXCEPT !.pc = "done", !.verdict = code])
  PROVE  Ends(c, code)
<1> DEFINE next == [call EXCEPT !.pc = "done", !.verdict = code]
<1>1. calls'[c] = next /\ \A d \in Calls \ {c} : calls'[d] = calls[d]
  BY DEF TypeOK, Become
<1>2. /\ next.session = call.session /\ next.tool = call.tool /\ next.shown = call.shown
      /\ next.challenge = call.challenge /\ next.tainted = call.tainted
      /\ next.verdict = code /\ next.pc = "done" /\ next.actingFor = call.actingFor
      /\ next.owed = call.owed /\ next.spent = call.spent /\ next.fresh = call.fresh
  BY DEF Like, Call
<1> HIDE DEF next
<1> QED
  BY <1>1, <1>2 DEF Like, Ends, Beside, SameRequest, SameHoldings, Quietly

LEMMA FaultMoves ==
  ASSUME TypeOK, NEW c \in Calls, NEW call, Like(call, c), NEW service, NEW code, NEW stage,
         Fault(c, call, service, code, stage), Quietly(c)
  PROVE  Ends(c, code) \/ (service \in FailOpen /\ Onward(c, stage))
<1>1. CASE service \in FailOpen
  <2> DEFINE next == [call EXCEPT !.pc = stage]
  <2>1. /\ calls'[c] = next /\ \A d \in Calls \ {c} : calls'[d] = calls[d]
    BY <1>1 DEF TypeOK, Fault, Become
  <2>2. /\ next.session = call.session /\ next.tool = call.tool /\ next.shown = call.shown
        /\ next.challenge = call.challenge /\ next.tainted = call.tainted
        /\ next.verdict = call.verdict /\ next.pc = stage /\ next.actingFor = call.actingFor
        /\ next.owed = call.owed /\ next.spent = call.spent /\ next.fresh = call.fresh
    BY DEF Like, Call
  <2> HIDE DEF next
  <2> QED
    BY <1>1, <2>1, <2>2 DEF Like, Onward, Beside, SameRequest, SameHoldings, Quietly
<1>2. CASE service \notin FailOpen
  BY <1>2, LikeEnds DEF Fault
<1> QED
  BY <1>1, <1>2

LEMMA LikeItself == ASSUME TypeOK, NEW c \in Calls PROVE Like(calls[c], c)
BY DEF TypeOK, Like

\* The call as it is told to a later gate.
LEMMA JudgingLike ==
  ASSUME TypeInv, NEW c \in Calls, calls[c].pc # "idle", NEW stage \in Stages \ {"idle"}
  PROVE  Like(Judging(c, stage), c) /\ Judging(c, stage).pc = stage
<1>1. TypeOK /\ calls[c] \in Call /\ calls[c].session \in Sessions
  <2>1. calls[c] # Idle
    BY DEF Idle
  <2> QED
    BY <2>1 DEF TypeInv, TypeOK, BegunOrIdle, Begun
<1>2. Judging(c, stage) \in Call /\ Judging(c, stage).pc = stage
  BY <1>1, JudgingContinues
<1> DEFINE judged == calls[c].judged \cup {PrincipalFor(calls[c].session)}
<1>3. Judging(c, stage) = [calls[c] EXCEPT !.pc = stage, !.judged = judged]
  BY DEF Judging
<1> HIDE DEF judged
<1> QED
  BY <1>1, <1>2, <1>3 DEF Like, Call

-----------------------------------------------------------------------------
(***************************************************************************)
(* The moves of a call: every stage is one of these.                       *)
(***************************************************************************)
\* A stage denies the call, before anything was committed.
Turned(c) ==
  /\ calls[c].pc \notin {"idle", "commit", "done"}
  /\ \E code \in Verdicts \ {"none", "allow", "consumed"} : Ends(c, code)

\* A stage that established something about the call, or nothing at all.
Passed(c) ==
  \/ calls[c].pc = "verify" /\ Verified(calls[c]) /\ Onward(c, "replay")
  \/ calls[c].pc = "replay" /\ Onward(c, "revocation")
  \/ /\ calls[c].pc = "revocation"
     /\ calls[c].shown.token \notin revoked \/ "revocation" \in FailOpen
     /\ Onward(c, "gates")
  \/ calls[c].pc = "policy" /\ Onward(c, "usage")
  \/ calls[c].pc = "usage" /\ (Onward(c, "charge") \/ Onward(c, "hold"))
  \/ calls[c].pc = "charge" /\ Onward(c, "hold")
  \/ calls[c].pc = "hold" /\ Onward(c, "wait")

\* The call goes on to the commit loop: unflagged, approved, or failing open.
Released(c) ==
  /\ calls[c].pc \in {"hold", "wait"}
  /\ \/ calls[c].pc = "hold" /\ calls[c].tool \notin Flagged
     \/ calls[c].pc = "wait" /\ stepup[c].status = "approved" /\ stepup' = stepup
     \/ "approval" \in FailOpen
  /\ Onward(c, "commit")

LEMMA VerifyMoves ==
  ASSUME TypeInv, NEW c \in Calls, Verify(c) \/ RecordIfNew(c) \/ CheckRevocation(c)
  PROVE  Turned(c) \/ Passed(c)
<1>1. TypeOK /\ Quietly(c) /\ Like(calls[c], c)
  BY LikeItself DEF TypeInv, Verify, RecordIfNew, CheckRevocation, Quietly, session, external
<1>2. {"possession", "replay", "revoked"} \subseteq Verdicts \ {"none", "allow", "consumed"}
  BY DEF Verdicts
<1>3. CASE Verify(c)
  BY <1>1, <1>2, <1>3, ProceedOnward, DenyEnds DEF Verify, Turned, Passed
<1>4. CASE RecordIfNew(c)
  <2>1. CASE Become(c, [calls[c] EXCEPT !.pc = "revocation", !.fresh = TRUE])
    <3> DEFINE next == [calls[c] EXCEPT !.pc = "revocation", !.fresh = TRUE]
    <3>1. Like(next, c) /\ next.pc = "revocation"
      <4>1. calls[c] \in Call /\ "revocation" \in Stages /\ calls[c].pc = "replay"
        BY <1>1, <1>4 DEF TypeOK, Stages, RecordIfNew
      <4> QED
        BY <4>1 DEF Like, Call
    <3> HIDE DEF next
    <3>2. Onward(c, "revocation")
      BY <1>1, <2>1, <3>1, LikeOnward DEF next
    <3> QED
      BY <1>4, <3>2 DEF Passed, RecordIfNew
  <2>2. CASE Proceed(c, "revocation") \/ Deny(c, "replay")
    BY <1>1, <1>2, <1>4, <2>2, ProceedOnward, DenyEnds DEF RecordIfNew, Turned, Passed
  <2> QED
    BY <1>4, <2>1, <2>2 DEF RecordIfNew
<1>5. CASE CheckRevocation(c)
  <2>1. CASE Fault(c, calls[c], "revocation", "revoked", "gates")
    BY <1>1, <1>2, <1>5, <2>1, FaultMoves DEF CheckRevocation, Turned, Passed
  <2>2. CASE Deny(c, "revoked")
    BY <1>1, <1>2, <1>5, <2>2, DenyEnds DEF CheckRevocation, Turned
  <2>3. CASE ~IsRevoked(calls[c].shown.token) /\ Proceed(c, "gates")
    BY <1>1, <1>5, <2>3, ProceedOnward DEF CheckRevocation, Passed, IsRevoked
  <2> QED
    BY <1>5, <2>1, <2>2, <2>3 DEF CheckRevocation
<1> QED
  BY <1>3, <1>4, <1>5

LEMMA JudgedMoves ==
  ASSUME TypeInv, NEW c \in Calls, CheckPolicy(c) \/ CheckUsage(c)
  PROVE  Turned(c) \/ Passed(c)
<1>1. TypeOK /\ Quietly(c)
  BY DEF TypeInv, CheckPolicy, CheckUsage, Quietly, session, external
<1>2. {"policy", "quota"} \subseteq Verdicts \ {"none", "allow", "consumed"}
  BY DEF Verdicts
<1>3. \A stage \in {"policy", "usage", "charge", "hold", "done"} :
        Like(Judging(c, stage), c) /\ Judging(c, stage).pc = stage
  <2>1. calls[c].pc # "idle"
    BY DEF CheckPolicy, CheckUsage
  <2>2. {"policy", "usage", "charge", "hold", "done"} \subseteq Stages \ {"idle"}
    BY DEF Stages
  <2> QED
    BY <2>1, <2>2, JudgingLike
\* Denied by the gate itself: the record is the one LikeEnds speaks of.
<1>4. ASSUME NEW code, Become(c, [Judging(c, "done") EXCEPT !.verdict = code])
      PROVE  Ends(c, code)
  <2> DEFINE call == Judging(c, "done")
  <2>1. call \in Call /\ call.pc = "done"
    BY <1>3 DEF Like
  <2> HIDE DEF call
  <2>2. [call EXCEPT !.verdict = code] = [call EXCEPT !.pc = "done", !.verdict = code]
    BY <2>1 DEF Call
  <2>3. Become(c, [call EXCEPT !.pc = "done", !.verdict = code])
    BY <1>4, <2>2 DEF call
  <2> QED
    BY <1>1, <1>3, <2>3, LikeEnds DEF call
<1>5. CASE CheckPolicy(c)
  <2>1. CASE Become(c, Judging(c, "usage"))
    <3>1. Onward(c, "usage")
      BY <1>1, <1>3, <2>1, LikeOnward
    <3> QED
      BY <1>5, <3>1 DEF CheckPolicy, Passed
  <2>2. CASE Become(c, [Judging(c, "done") EXCEPT !.verdict = "policy"])
    BY <1>2, <1>4, <1>5, <2>2 DEF CheckPolicy, Turned
  <2>3. CASE Fault(c, Judging(c, "policy"), "policy", "policy", "usage")
    BY <1>1, <1>2, <1>3, <1>5, <2>3, FaultMoves DEF CheckPolicy, Turned, Passed
  <2> QED
    BY <1>5, <2>1, <2>2, <2>3 DEF CheckPolicy
<1>6. CASE CheckUsage(c)
  <2>1. CASE Become(c, Judging(c, "charge"))
    <3>1. Onward(c, "charge")
      BY <1>1, <1>3, <2>1, LikeOnward
    <3> QED
      BY <1>6, <3>1 DEF CheckUsage, Passed
  <2>2. CASE Become(c, [Judging(c, "done") EXCEPT !.verdict = "quota"])
    BY <1>2, <1>4, <1>6, <2>2 DEF CheckUsage, Turned
  <2>3. CASE Fault(c, Judging(c, "usage"), "usage", "quota", "hold")
    BY <1>1, <1>2, <1>3, <1>6, <2>3, FaultMoves DEF CheckUsage, Turned, Passed
  <2> QED
    BY <1>6, <2>1, <2>2, <2>3 DEF CheckUsage
<1> QED
  BY <1>5, <1>6

LEMMA ChargeMoves ==
  ASSUME TypeInv, NEW c \in Calls, ChargeUsage(c)
  PROVE  Passed(c)
<1>1. /\ TypeOK /\ Quietly(c) /\ calls[c] \in Call /\ calls[c].pc = "charge"
      /\ "hold" \in Stages
  BY DEF TypeInv, TypeOK, ChargeUsage, Quietly, session, external, Stages
<1> DEFINE next == [calls[c] EXCEPT !.pc = "hold", !.charged = TRUE]
<1>2. Like(next, c) /\ next.pc = "hold"
  BY <1>1 DEF Like, Call
<1>3. Become(c, next)
  BY DEF ChargeUsage
<1> HIDE DEF next
<1> QED
  BY <1>1, <1>2, <1>3, LikeOnward DEF Passed

LEMMA HoldMoves ==
  ASSUME TypeInv, NEW c \in Calls, HoldForApproval(c)
  PROVE  Turned(c) \/ Passed(c) \/ Released(c)
<1>1. TypeOK /\ Quietly(c) /\ calls[c].pc = "hold"
  BY DEF TypeInv, TypeOK, HoldForApproval, Quietly, session, external
<1>2. "approval" \in Verdicts \ {"none", "allow", "consumed"}
  BY DEF Verdicts
<1>3. \A stage \in {"hold", "wait", "commit"} :
        Like(Judging(c, stage), c) /\ Judging(c, stage).pc = stage
  <2>1. {"hold", "wait", "commit"} \subseteq Stages \ {"idle"}
    BY DEF Stages
  <2> QED
    BY <1>1, <2>1, JudgingLike
<1>4. CASE calls[c].tool \notin Flagged /\ Become(c, Judging(c, "commit"))
  <2>1. Onward(c, "commit")
    BY <1>1, <1>3, <1>4, LikeOnward
  <2> QED
    BY <1>1, <1>4, <2>1 DEF Released
<1>5. CASE Become(c, [Judging(c, "wait") EXCEPT !.since = Secs(now),
                                              !.deadline = Capped(now + Timeout * Res)])
  <2> DEFINE call == Judging(c, "wait")
             since == Secs(now)
             deadline == Capped(now + Timeout * Res)
             next == [call EXCEPT !.since = since, !.deadline = deadline]
  <2>1. Become(c, next) /\ Like(call, c) /\ call.pc = "wait"
    BY <1>3, <1>5
  <2>2. /\ next.session = call.session /\ next.tool = call.tool /\ next.shown = call.shown
        /\ next.challenge = call.challenge /\ next.tainted = call.tainted
        /\ next.verdict = call.verdict /\ next.pc = call.pc /\ next.actingFor = call.actingFor
        /\ next.owed = call.owed /\ next.spent = call.spent /\ next.fresh = call.fresh
    <3> HIDE DEF call, since, deadline
    <3> QED
      BY <2>1 DEF Like, Call
  <2> HIDE DEF call, next
  <2>3. calls'[c] = next /\ \A d \in Calls \ {c} : calls'[d] = calls[d]
    BY <1>1, <2>1 DEF TypeOK, Become
  <2>4. Onward(c, "wait")
    BY <1>1, <2>1, <2>2, <2>3 DEF Like, Onward, Beside, SameRequest, SameHoldings, Quietly
  <2> QED
    BY <1>1, <2>4 DEF Passed
<1>6. CASE Fault(c, Judging(c, "hold"), "approval", "approval", "commit")
  BY <1>1, <1>2, <1>3, <1>6, FaultMoves DEF Turned, Released
<1> QED
  BY <1>4, <1>5, <1>6 DEF HoldForApproval

LEMMA PollMoves ==
  ASSUME TypeInv, NEW c \in Calls, PollApproval(c)
  PROVE  Turned(c) \/ Released(c)
<1>1. TypeOK /\ Quietly(c) /\ calls[c].pc = "wait" /\ stepup' = stepup /\ Like(calls[c], c)
  BY LikeItself DEF TypeInv, PollApproval, Quietly, session, external
<1>2. "approval" \in Verdicts \ {"none", "allow", "consumed"}
  BY DEF Verdicts
<1>3. CASE stepup[c].status = "approved" /\ Proceed(c, "commit")
  BY <1>1, <1>3, ProceedOnward DEF Released
<1>4. CASE Deny(c, "approval")
  BY <1>1, <1>2, <1>4, DenyEnds DEF Turned
<1>5. CASE Fault(c, calls[c], "approval", "approval", "commit")
  BY <1>1, <1>2, <1>5, FaultMoves DEF Turned, Released
<1> QED
  BY <1>3, <1>4, <1>5 DEF PollApproval, GiveUp

-----------------------------------------------------------------------------
(***************************************************************************)
(* The invariant, move by move.                                            *)
(***************************************************************************)
LEMMA OthersOK ==
  ASSUME AdmissionInv, NEW c \in Calls, Beside(c), NEW d \in Calls \ {c}
  PROVE  CallOK(d)'
<1>1. CallOK(d) /\ calls'[d] = calls[d] /\ stepup'[d] = stepup[d]
      /\ issued' = issued /\ revoked' = revoked
  BY DEF AdmissionInv, Beside
<1>2. Authorized(d)'
  BY <1>1 DEF CallOK, Authorized, IssuedTo, ProvedFor, Covered, Designating, Admitted
<1>3. Frugal(d)' /\ Refused(d)' /\ Answered(d)'
  BY <1>1 DEF CallOK, Frugal, Refused, Answered, Admitted, Denied
<1> QED
  BY <1>2, <1>3 DEF CallOK

\* What a move of c leaves of the invariant, once c itself is seen to.
LEMMA MoveInv ==
  ASSUME AdmissionInv, NEW c \in Calls, Beside(c), CallOK(c)'
  PROVE  AdmissionInv'
<1>1. ChallengesIssued'
  BY DEF AdmissionInv, Beside, ChallengesIssued, IssuedTo
<1>2. \A d \in Calls : CallOK(d)'
  BY OthersOK
<1> QED
  BY <1>1, <1>2 DEF AdmissionInv

LEMMA TurnedInv ==
  ASSUME AdmissionInv, NEW c \in Calls, Turned(c)
  PROVE  AdmissionInv'
<1>1. PICK code \in Verdicts \ {"none", "allow", "consumed"} : Ends(c, code)
  BY DEF Turned
<1>2. CallOK(c) /\ calls[c].spent = {} /\ ~Admitted(c)'
  BY <1>1 DEF AdmissionInv, CallOK, Frugal, Turned, Ends, Admitted
<1>3. Authorized(c)' /\ Refused(c)' /\ Answered(c)'
  BY <1>1, <1>2 DEF Ends, Authorized, Refused, Answered, CallOK, SameRequest, Beside,
     AfterVerify, AfterRevocation, AfterGates
<1>4. Frugal(c)'
  BY <1>1, <1>2 DEF Ends, Frugal, SameHoldings
<1> QED
  BY <1>1, <1>3, <1>4, MoveInv DEF CallOK, Ends

\* A call that keeps its request and its holdings keeps what they cover.
LEMMA OnwardKeeps ==
  ASSUME NEW c \in Calls, NEW stage, Onward(c, stage)
  PROVE  /\ ProvedFor(calls[c]) => ProvedFor(calls[c])'
         /\ Covered(calls[c]) => Covered(calls[c])'
<1>1. /\ calls'[c].session = calls[c].session /\ calls'[c].tool = calls[c].tool
      /\ calls'[c].shown = calls[c].shown /\ calls'[c].actingFor = calls[c].actingFor
      /\ calls'[c].owed = calls[c].owed /\ calls'[c].spent = calls[c].spent
      /\ issued' = issued
  BY DEF Onward, Beside, SameRequest, SameHoldings
<1>2. ProvedFor(calls[c]) => ProvedFor(calls[c])'
  BY <1>1 DEF ProvedFor, IssuedTo
<1>3. Covered(calls[c]) => Covered(calls[c])'
  BY <1>1 DEF Covered, Designating
<1> QED
  BY <1>2, <1>3

LEMMA VerifiedProves ==
  ASSUME NEW c \in Calls, IssuedTo(calls[c].challenge, calls[c].session), Verified(calls[c]),
         calls[c] \in Call
  PROVE  ProvedFor(calls[c])
BY DEF Verified, Possesses, TokenGrants, ProvedFor, IssuedTo

LEMMA PassedInv ==
  ASSUME TypeInv, AdmissionInv, NEW c \in Calls, Passed(c)
  PROVE  AdmissionInv'
<1>1. PICK stage : Onward(c, stage)
  BY DEF Passed
<1>2. CallOK(c) /\ calls[c] \in Call /\ calls[c].pc # "done" /\ calls[c].verdict = "none"
  BY DEF AdmissionInv, TypeInv, TypeOK, Passed, CallOK, Frugal
<1>3. /\ calls'[c].pc = stage /\ calls'[c].verdict = "none" /\ ~Admitted(c)'
      /\ calls'[c].spent = {} /\ stage \notin {"idle", "principal", "verify", "commit", "done"}
  BY <1>1, <1>2 DEF Passed, Onward, SameHoldings, Admitted, CallOK, Frugal
<1>4. ProvedFor(calls[c])'
  <2>1. ProvedFor(calls[c])
    <3>1. CASE calls[c].pc = "verify" /\ Verified(calls[c])
      BY <1>2, <3>1, VerifiedProves DEF CallOK, Authorized
    <3>2. CASE calls[c].pc # "verify"
      BY <1>2, <3>2 DEF Passed, CallOK, Authorized, AfterVerify, AfterRevocation, AfterGates
    <3> QED
      BY <3>1, <3>2 DEF Passed
  <2> QED
    BY <1>1, <2>1, OnwardKeeps
<1>5. calls'[c].pc \in AfterGates => Covered(calls[c])'
  <2> SUFFICES ASSUME calls'[c].pc \in AfterGates PROVE Covered(calls[c])
    BY <1>1, OnwardKeeps
  <2>1. calls[c].pc \in AfterGates
    BY DEF Passed, Onward, AfterGates
  <2> QED
    BY <1>2, <2>1 DEF CallOK, Authorized
<1>6. Authorized(c)'
  BY <1>3, <1>4, <1>5 DEF Authorized
<1>7. Frugal(c)'
  BY <1>3 DEF Frugal, Denied
<1>8. Refused(c)'
  <2> SUFFICES ASSUME "revocation" \notin FailOpen, calls[c].tainted
               PROVE  calls'[c].pc \notin AfterRevocation /\ calls'[c].shown.token \in revoked'
    BY <1>1, <1>3 DEF Refused, Onward, SameRequest
  <2>1. calls[c].pc \notin AfterRevocation /\ calls[c].shown.token \in revoked
    BY <1>2 DEF CallOK, Refused
  <2>2. calls'[c].pc \notin AfterRevocation
    BY <2>1 DEF Passed, Onward, AfterRevocation, AfterGates
  <2> QED
    BY <1>1, <2>1, <2>2 DEF Onward, SameRequest, Beside
<1>9. Answered(c)'
  BY <1>3 DEF Answered
<1> QED
  BY <1>1, <1>6, <1>7, <1>8, <1>9, MoveInv DEF CallOK, Onward

LEMMA ReleasedInv ==
  ASSUME TypeInv, AdmissionInv, NEW c \in Calls, Released(c)
  PROVE  AdmissionInv'
<1>1. Onward(c, "commit") /\ CallOK(c) /\ calls[c].pc \in {"hold", "wait"}
  BY DEF Released, AdmissionInv
<1>2. /\ calls'[c].pc = "commit" /\ calls'[c].verdict = "none" /\ ~Admitted(c)'
      /\ calls'[c].spent = {}
  BY <1>1 DEF Onward, SameHoldings, Admitted, CallOK, Frugal
<1>3. ProvedFor(calls[c])' /\ Covered(calls[c])'
  BY <1>1, OnwardKeeps DEF CallOK, Authorized, AfterVerify, AfterRevocation, AfterGates
<1>4. Authorized(c)' /\ Frugal(c)'
  BY <1>2, <1>3 DEF Authorized, Frugal, Denied
<1>5. Refused(c)'
  BY <1>1, <1>2 DEF Refused, CallOK, Onward, SameRequest, Beside, AfterRevocation, AfterGates
<1>6. Answered(c)'
  <2> SUFFICES ASSUME "approval" \notin FailOpen, calls'[c].tool \in Flagged
               PROVE  stepup'[c].status = "approved"
    BY DEF Answered
  <2>1. calls[c].tool \in Flagged
    BY <1>1 DEF Onward, SameRequest
  <2> QED
    BY <2>1 DEF Released
<1> QED
  BY <1>1, <1>4, <1>5, <1>6, MoveInv DEF CallOK, Onward

LEMMA ReadPrincipalOK ==
  ASSUME TypeInv, AdmissionInv, NEW c \in Calls, ReadPrincipal(c)
  PROVE  AdmissionInv'
<1> DEFINE p == PrincipalFor(calls[c].session)
           next == [calls[c] EXCEPT !.pc = "verify", !.actingFor = p]
<1>1. /\ calls[c] \in Call /\ calls[c].pc = "principal" /\ CallOK(c)
      /\ calls'[c] = next /\ Beside(c)
  BY DEF ReadPrincipal, TypeInv, TypeOK, AdmissionInv, Become, Beside, session, external
<1>2. /\ next.session = calls[c].session /\ next.challenge = calls[c].challenge
      /\ next.tainted = calls[c].tainted /\ next.verdict = calls[c].verdict
      /\ next.pc = "verify" /\ next.spent = calls[c].spent
      /\ next.shown = calls[c].shown /\ next.tool = calls[c].tool
  <2> HIDE DEF p
  <2> QED
    BY <1>1 DEF Call
<1> HIDE DEF next
<1>3. Authorized(c)'
  BY <1>1, <1>2 DEF CallOK, Authorized, Frugal, Admitted, Beside, IssuedTo,
     AfterVerify, AfterRevocation, AfterGates
<1>4. Frugal(c)' /\ Refused(c)' /\ Answered(c)'
  BY <1>1, <1>2 DEF CallOK, Frugal, Refused, Answered, Admitted, Denied, Beside,
     AfterRevocation, AfterGates
<1> QED
  BY <1>1, <1>3, <1>4, MoveInv DEF CallOK

\* Evidence the gates accept fits the call they accept it for.
LEMMA MatchesFit ==
  ASSUME TypeOK, NEW e, NEW k, NEW call, Matches(e, k, call)
  PROVE  Fitting(<<k, e>>, k, call.tool, call.actingFor)
<1>1. directory \subseteq Approvers /\ None \notin Approvers
  BY EnforcerAssumption DEF TypeOK
<1> QED
  BY <1>1 DEF Matches, Fitting

LEMMA CheckGatesOK ==
  ASSUME TypeInv, AdmissionInv, NEW c \in Calls, CheckGates(c)
  PROVE  AdmissionInv'
<1>1. /\ TypeOK /\ calls[c] \in Call /\ calls[c].pc = "gates" /\ CallOK(c)
      /\ Quietly(c) /\ "approval" \in Verdicts \ {"none", "allow", "consumed"}
  BY DEF CheckGates, TypeInv, TypeOK, AdmissionInv, Quietly, session, external, Verdicts
<1>2. CASE Deny(c, "approval")
  BY <1>1, <1>2, DenyEnds, TurnedInv DEF Turned
<1>3. ASSUME NEW choice \in [Designating(calls[c]) -> calls[c].carried],
             \A k \in Designating(calls[c]) : Matches(choice[k], k, calls[c]),
             Become(c, Matched(calls[c], {<<k, choice[k]>> : k \in Designating(calls[c])}))
      PROVE  AdmissionInv'
  <2> DEFINE pairs == {<<k, choice[k]>> : k \in Designating(calls[c])}
             next == [calls[c] EXCEPT !.pc = "policy", !.owed = pairs]
  <2>1. \A k \in Designating(calls[c]) :
          \E o \in pairs : Fitting(o, k, calls[c].tool, calls[c].actingFor)
    <3> SUFFICES ASSUME NEW k \in Designating(calls[c])
                 PROVE  \E o \in pairs : Fitting(o, k, calls[c].tool, calls[c].actingFor)
      OBVIOUS
    <3>1. Fitting(<<k, choice[k]>>, k, calls[c].tool, calls[c].actingFor)
      BY <1>1, <1>3, MatchesFit
    <3>2. <<k, choice[k]>> \in pairs
      OBVIOUS
    <3> QED
      BY <3>1, <3>2
  <2>2. calls'[c] = next /\ Beside(c)
    BY <1>1, <1>3 DEF TypeOK, Become, Matched, Quietly, Beside
  <2> HIDE DEF pairs
  <2>3. /\ next.session = calls[c].session /\ next.tool = calls[c].tool
        /\ next.shown = calls[c].shown /\ next.actingFor = calls[c].actingFor
        /\ next.tainted = calls[c].tainted /\ next.verdict = calls[c].verdict
        /\ next.pc = "policy" /\ next.spent = calls[c].spent /\ next.owed = pairs
    BY <1>1 DEF Call
  <2> HIDE DEF next
  <2>4. calls[c].verdict = "none" /\ calls[c].spent = {} /\ ~Admitted(c)'
    BY <1>1, <2>2, <2>3 DEF CallOK, Frugal, Admitted
  <2>5. Covered(calls[c])'
    <3>1. Designating(calls[c])' = Designating(calls[c])
      BY <2>2, <2>3 DEF Designating
    <3> QED
      BY <2>1, <2>2, <2>3, <3>1 DEF Covered
  <2>6. ProvedFor(calls[c])'
    BY <1>1, <2>2, <2>3 DEF CallOK, Authorized, ProvedFor, IssuedTo, Beside,
       AfterVerify, AfterRevocation
  <2>7. Authorized(c)'
    BY <2>2, <2>3, <2>4, <2>5, <2>6 DEF Authorized
  <2>8. Frugal(c)' /\ Refused(c)' /\ Answered(c)'
    BY <1>1, <2>2, <2>3, <2>4 DEF CallOK, Frugal, Refused, Answered, Denied, Beside,
       AfterRevocation, AfterGates
  <2> QED
    BY <2>2, <2>7, <2>8, MoveInv DEF CallOK
<1> QED
  BY <1>2, <1>3 DEF CheckGates

LEMMA CommitOK ==
  ASSUME TypeInv, AdmissionInv, NEW c \in Calls, CommitReliance(c)
  PROVE  AdmissionInv'
<1>1. /\ TypeOK /\ calls[c] \in Call /\ calls[c].pc = "commit" /\ CallOK(c)
      /\ Quietly(c) /\ stepup' = stepup
  BY DEF CommitReliance, TypeInv, TypeOK, AdmissionInv, Quietly, session, external
<1>2. /\ ProvedFor(calls[c]) /\ Covered(calls[c]) /\ calls[c].verdict = "none"
  BY <1>1 DEF CallOK, Authorized, Frugal, AfterVerify, AfterRevocation, AfterGates
<1>3. CASE calls[c].owed = {} /\ Become(c, [calls[c] EXCEPT !.pc = "done", !.verdict = "allow"])
  <2>1. Ends(c, "allow")
    BY <1>1, <1>3, LikeItself, LikeEnds
  <2>2. /\ calls'[c].pc = "done" /\ calls'[c].verdict = "allow" /\ calls'[c].owed = {}
        /\ calls'[c].spent = calls[c].spent /\ calls'[c].actingFor = calls[c].actingFor
        /\ SameRequest(c) /\ Beside(c)
    BY <1>3, <2>1 DEF Ends, SameHoldings
  <2>3. Authorized(c)'
    BY <1>2, <1>3, <2>2 DEF Authorized, ProvedFor, IssuedTo, Covered, Designating,
       SameRequest, Beside, AfterVerify, AfterRevocation, AfterGates
  <2>4. Frugal(c)'
    BY <2>2 DEF Frugal, Denied
  <2>5. Refused(c)'
    BY <1>1, <2>2 DEF CallOK, Refused, SameRequest, AfterRevocation, AfterGates
  <2>6. Answered(c)'
    BY <1>1, <2>2 DEF CallOK, Answered, SameRequest
  <2> QED
    BY <2>2, <2>3, <2>4, <2>5, <2>6, MoveInv DEF CallOK
<1>4. ASSUME NEW o \in calls[c].owed,
             Become(c, [calls[c] EXCEPT !.owed = @ \ {o}, !.spent = @ \cup {o}])
      PROVE  AdmissionInv'
  <2> DEFINE next == [calls[c] EXCEPT !.owed = @ \ {o}, !.spent = @ \cup {o}]
  <2>1. calls'[c] = next /\ Beside(c)
    BY <1>1, <1>4 DEF TypeOK, Become, Quietly, Beside
  <2>2. /\ next.session = calls[c].session /\ next.tool = calls[c].tool
        /\ next.shown = calls[c].shown /\ next.actingFor = calls[c].actingFor
        /\ next.tainted = calls[c].tainted /\ next.verdict = calls[c].verdict
        /\ next.pc = "commit" /\ next.spent = calls[c].spent \cup {o}
        /\ next.owed = calls[c].owed \ {o}
    BY <1>1 DEF Call
  <2> HIDE DEF next
  <2>3. next.owed \cup next.spent = calls[c].owed \cup calls[c].spent
    BY <2>2
  <2>4. Covered(calls[c])'
    <3>1. Designating(calls[c])' = Designating(calls[c])
      BY <2>1, <2>2 DEF Designating
    <3> QED
      BY <1>2, <2>1, <2>2, <2>3, <3>1 DEF Covered
  <2>5. Authorized(c)'
    BY <1>2, <2>1, <2>2, <2>4 DEF Authorized, ProvedFor, IssuedTo, Beside, Admitted
  <2>6. Frugal(c)' /\ Refused(c)' /\ Answered(c)'
    BY <1>1, <1>2, <2>1, <2>2 DEF CallOK, Frugal, Refused, Answered, Admitted, Denied, Beside
  <2> QED
    BY <2>1, <2>5, <2>6, MoveInv DEF CallOK
<1>5. CASE Deny(c, "consumed")
  <2>1. Ends(c, "consumed")
    BY <1>1, <1>5, DenyEnds
  <2>2. /\ calls'[c].pc = "done" /\ calls'[c].verdict = "consumed" /\ SameRequest(c) /\ Beside(c)
    BY <2>1 DEF Ends
  <2>3. Authorized(c)' /\ Frugal(c)' /\ Answered(c)'
    BY <2>2 DEF Authorized, Frugal, Answered, Admitted, AfterVerify, AfterRevocation, AfterGates
  <2>4. Refused(c)'
    BY <1>1, <2>2 DEF CallOK, Refused, Admitted, SameRequest, Beside, AfterRevocation, AfterGates
  <2> QED
    BY <2>2, <2>3, <2>4, MoveInv DEF CallOK
<1> QED
  BY <1>3, <1>4, <1>5 DEF CommitReliance

LEMMA ReceiveOK ==
  ASSUME TypeInv, AdmissionInv, NEW c \in Calls, NEW s \in Sessions, NEW tool \in Tools,
         NEW shown \in Presentations, NEW carried \in Carried, Receive(c, s, tool, shown, carried)
  PROVE  AdmissionInv'
<1> DEFINE late == shown.token \in revoked
           call == [Idle EXCEPT !.session = s, !.tool = tool, !.shown = shown,
                                !.carried = carried, !.tainted = late]
<1>1. /\ call.session = s /\ call.shown = shown /\ call.tainted = late
      /\ call.verdict = "none" /\ call.spent = {} /\ call.pc = "idle"
      /\ DOMAIN call = DOMAIN Idle
  BY DEF Idle
<1>2. /\ calls[c] = Idle /\ Beside(c)
      /\ \/ calls'[c] = [call EXCEPT !.pc = "done", !.verdict = "no_challenge"]
         \/ calls'[c] = [call EXCEPT !.pc = "done", !.verdict = "unbound"]
         \/ /\ Live(challenge[s])
            /\ calls'[c] = [call EXCEPT !.pc = "principal", !.challenge = challenge[s].value]
  <2>1. calls[c] = Idle
    BY DEF Receive, TypeInv, BegunOrIdle
  <2>2. UNCHANGED <<now, issued, challenge, revoked, stepup>>
    BY DEF Receive, session, external
  <2>3. \/ Become(c, [call EXCEPT !.pc = "done", !.verdict = "no_challenge"])
        \/ Become(c, [call EXCEPT !.pc = "done", !.verdict = "unbound"])
        \/ /\ Live(challenge[s])
           /\ Become(c, [call EXCEPT !.pc = "principal", !.challenge = challenge[s].value])
    BY DEF Receive
  <2> HIDE DEF call
  <2> QED
    BY <2>1, <2>2, <2>3 DEF Become, Beside, TypeInv, TypeOK
<1> HIDE DEF late
<1>3. ASSUME NEW code \in {"no_challenge", "unbound"},
             calls'[c] = [call EXCEPT !.pc = "done", !.verdict = code]
      PROVE  CallOK(c)'
  <2>1. /\ calls'[c].pc = "done" /\ calls'[c].verdict = code /\ calls'[c].spent = {}
        /\ calls'[c].shown = shown /\ calls'[c].tainted = late
    BY <1>3 DEF Idle
  <2> HIDE DEF call
  <2>2. Authorized(c)' /\ Frugal(c)' /\ Answered(c)'
    BY <2>1 DEF Authorized, Frugal, Answered, Admitted, AfterVerify, AfterRevocation, AfterGates
  <2>3. Refused(c)'
    BY <1>2, <2>1 DEF Refused, Admitted, AfterRevocation, AfterGates, Beside, late
  <2> QED
    BY <2>2, <2>3 DEF CallOK
<1>4. ASSUME Live(challenge[s]),
             calls'[c] = [call EXCEPT !.pc = "principal", !.challenge = challenge[s].value]
      PROVE  CallOK(c)'
  <2>1. /\ calls'[c].pc = "principal" /\ calls'[c].verdict = "none" /\ calls'[c].spent = {}
        /\ calls'[c].shown = shown /\ calls'[c].tainted = late
        /\ calls'[c].session = s /\ calls'[c].challenge = challenge[s].value
    BY <1>4 DEF Idle
  <2> HIDE DEF call
  <2>2. IssuedTo(challenge[s].value, s)
    BY <1>4 DEF AdmissionInv, ChallengesIssued, Live
  <2>3. Authorized(c)' /\ Frugal(c)' /\ Answered(c)'
    BY <1>2, <2>1, <2>2 DEF Authorized, Frugal, Answered, Admitted, Denied, IssuedTo, Beside,
       AfterVerify, AfterRevocation, AfterGates
  <2>4. Refused(c)'
    BY <1>2, <2>1 DEF Refused, Admitted, AfterRevocation, AfterGates, Beside, late
  <2> QED
    BY <2>3, <2>4 DEF CallOK
<1> HIDE DEF call
<1> QED
  BY <1>2, <1>3, <1>4, MoveInv

\* The world outside takes nothing back: challenges are only added, revocations
\* only grow, and an answer changes only while its call waits.
LEMMA WorldOK ==
  ASSUME TypeInv, AdmissionInv, World
  PROVE  AdmissionInv'
<1>1. calls' = calls /\ revoked \subseteq revoked'
  BY DEF World, IssueChallenge, ClearSession, BindPrincipal, Revoke, Offboard,
         Approve, Refuse, Tick, external
<1>2. \A c \in Calls : calls[c].pc # "wait" => stepup'[c] = stepup[c]
  <2>1. CASE \E c \in Calls : Approve(c) \/ Refuse(c)
    BY <2>1 DEF Approve, Refuse, TypeInv, TypeOK
  <2>2. CASE stepup' = stepup
    BY <2>2
  <2>3. stepup' = stepup \/ \E c \in Calls : Approve(c) \/ Refuse(c)
    BY DEF World, IssueChallenge, ClearSession, BindPrincipal, Revoke, Offboard, Tick
  <2> QED
    BY <2>1, <2>2, <2>3
<1>3. \A n \in DOMAIN issued : n \in DOMAIN issued' /\ issued'[n] = issued[n]
  <2>1. ASSUME NEW s \in Sessions, IssueChallenge(s)
        PROVE  \A n \in DOMAIN issued : n \in DOMAIN issued' /\ issued'[n] = issued[n]
    BY <2>1 DEF IssueChallenge, TypeInv, TypeOK
  <2>2. issued' = issued \/ \E s \in Sessions : IssueChallenge(s)
    BY DEF World, ClearSession, BindPrincipal, Revoke, Offboard, Approve, Refuse, Tick, session
  <2> QED
    BY <2>1, <2>2
<1>4. ChallengesIssued'
  <2>1. ASSUME NEW s \in Sessions, IssueChallenge(s) PROVE ChallengesIssued'
    <3> DEFINE entry == [session |-> s, at |-> now]
               n == Len(issued) + 1
    <3>1. issued' = Append(issued, entry) /\ issued \in Seq([session: Sessions, at: Nat])
      BY <2>1 DEF IssueChallenge, TypeInv, TypeOK
    <3>2. n \in DOMAIN issued' /\ issued'[n].session = s
      BY <3>1
    <3>3. challenge' = [challenge EXCEPT ![s] = Stored(n)] /\ Stored(n).value = n
      BY <2>1 DEF IssueChallenge, Stored
    <3> HIDE DEF n
    <3> QED
      BY <1>3, <3>2, <3>3 DEF ChallengesIssued, IssuedTo, AdmissionInv, TypeInv, TypeOK
  <2>2. ASSUME NEW s \in Sessions, ClearSession(s) PROVE ChallengesIssued'
    BY <2>2 DEF ClearSession, ChallengesIssued, IssuedTo, AdmissionInv, TypeInv, TypeOK
  <2>3. CASE challenge' = challenge
    BY <1>3, <2>3 DEF ChallengesIssued, IssuedTo, AdmissionInv
  <2>4. \/ challenge' = challenge
        \/ \E s \in Sessions : IssueChallenge(s) \/ ClearSession(s)
    BY DEF World, BindPrincipal, Revoke, Offboard, Approve, Refuse, Tick, session
  <2> QED
    BY <2>1, <2>2, <2>3, <2>4
<1>5. ASSUME NEW c \in Calls PROVE CallOK(c)'
  <2>1. CallOK(c)
    BY DEF AdmissionInv
  <2>2. Authorized(c)'
    BY <1>1, <1>3, <2>1 DEF CallOK, Authorized, IssuedTo, ProvedFor, Covered, Designating, Admitted
  <2>3. Answered(c)'
    <3>1. calls[c].pc = "commit" \/ Admitted(c) => calls[c].pc # "wait"
      BY <2>1 DEF CallOK, Frugal, Admitted
    <3> QED
      BY <1>1, <1>2, <2>1, <3>1 DEF CallOK, Answered, Admitted
  <2>4. Frugal(c)' /\ Refused(c)'
    BY <1>1, <2>1 DEF CallOK, Frugal, Refused, Admitted, Denied
  <2> QED
    BY <2>2, <2>3, <2>4 DEF CallOK
<1> QED
  BY <1>4, <1>5 DEF AdmissionInv

LEMMA AdmissionInit == Init => AdmissionInv
<1> SUFFICES ASSUME Init PROVE AdmissionInv
  OBVIOUS
<1>1. ChallengesIssued
  BY DEF Init, ChallengesIssued
<1>2. ASSUME NEW c \in Calls PROVE CallOK(c)
  <2>1. /\ calls[c].pc = "idle" /\ calls[c].verdict = "none" /\ calls[c].spent = {}
        /\ calls[c].tainted = FALSE
    BY DEF Init, Idle
  <2> QED
    BY <2>1 DEF CallOK, Authorized, Frugal, Refused, Answered, Admitted, Denied,
       AfterVerify, AfterRevocation, AfterGates
<1> QED
  BY <1>1, <1>2 DEF AdmissionInv

LEMMA AdmissionNext == TypeInv /\ AdmissionInv /\ [Next]_vars => AdmissionInv'
<1> SUFFICES ASSUME TypeInv, AdmissionInv, [Next]_vars PROVE AdmissionInv'
  OBVIOUS
<1>1. CASE World
  BY <1>1, WorldOK
<1>2. CASE Arrive
  BY <1>2, ReceiveOK DEF Arrive
<1>3. ASSUME NEW c \in Calls, Advance(c) PROVE AdmissionInv'
  <2>1. CASE ReadPrincipal(c)
    BY <2>1, ReadPrincipalOK
  <2>2. CASE CheckGates(c)
    BY <2>2, CheckGatesOK
  <2>3. CASE CommitReliance(c)
    BY <2>3, CommitOK
  <2>4. CASE \/ Verify(c) \/ RecordIfNew(c) \/ CheckRevocation(c) \/ CheckPolicy(c)
             \/ CheckUsage(c) \/ ChargeUsage(c) \/ HoldForApproval(c) \/ PollApproval(c)
    <3>1. Turned(c) \/ Passed(c) \/ Released(c)
      BY <2>4, VerifyMoves, JudgedMoves, ChargeMoves, HoldMoves, PollMoves
    <3> QED
      BY <3>1, TurnedInv, PassedInv, ReleasedInv
  <2> QED
    BY <1>3, <2>1, <2>2, <2>3, <2>4 DEF Advance
<1>4. CASE UNCHANGED vars
  <2>1. UNCHANGED <<issued, challenge, revoked, stepup, calls>>
    BY <1>4 DEF vars, session, external
  <2>2. ChallengesIssued'
    BY <2>1 DEF AdmissionInv, ChallengesIssued, IssuedTo
  <2>3. \A c \in Calls : CallOK(c)'
    BY <2>1 DEF AdmissionInv, CallOK, Authorized, Frugal, Refused, Answered, IssuedTo,
       ProvedFor, Covered, Designating, Admitted, Denied
  <2> QED
    BY <2>2, <2>3 DEF AdmissionInv
<1> QED
  BY <1>1, <1>2, <1>3, <1>4 DEF Next

LEMMA AdmissionAlways == Spec => [](TypeInv /\ AdmissionInv)
BY InitInv, NextInv, AdmissionInit, AdmissionNext, PTL DEF Spec

-----------------------------------------------------------------------------
(***************************************************************************)
(* Who is admitted was proved for this session and tool by a token that    *)
(* grants it for the session's principal, and spent for every gate on the  *)
(* tool evidence of its kind given for that tool and principal.            *)
(***************************************************************************)
THEOREM AdmissionAlwaysAuthorized == Spec => []AdmissionIsAuthorized
<1>1. TypeInv /\ AdmissionInv => AdmissionIsAuthorized
  <2> SUFFICES ASSUME AdmissionInv, NEW c \in Calls, Admitted(c)
               PROVE  /\ ProvedFor(calls[c])
                      /\ \A k \in Designating(calls[c]) : \E o \in calls[c].spent :
                           Fitting(o, k, calls[c].tool, calls[c].actingFor)
    BY DEF AdmissionIsAuthorized, ProvedFor, IssuedTo, Fitting
  <2>1. ProvedFor(calls[c]) /\ Covered(calls[c]) /\ calls[c].owed = {}
    BY DEF AdmissionInv, CallOK, Authorized
  <2> QED
    BY <2>1 DEF Covered
<1> QED
  BY <1>1, AdmissionAlways, PTL

(***************************************************************************)
(* A credential revoked before the call arrived never gets it admitted,    *)
(* unless the revocation service fails open.                               *)
(***************************************************************************)
THEOREM RevokedAlwaysRefused == Spec => []RevokedIsRefused
<1>1. AdmissionInv => RevokedIsRefused
  BY DEF AdmissionInv, CallOK, Refused, RevokedIsRefused
<1> QED
  BY <1>1, AdmissionAlways, PTL

(***************************************************************************)
(* A flagged call is admitted only on an operator's approval that stands,  *)
(* unless the desk fails open.                                             *)
(***************************************************************************)
THEOREM FlaggedAlwaysApproved == Spec => []FlaggedNeedsApproval
<1>1. AdmissionInv => FlaggedNeedsApproval
  BY DEF AdmissionInv, CallOK, Answered, FlaggedNeedsApproval
<1> QED
  BY <1>1, AdmissionAlways, PTL

(***************************************************************************)
(* A denial by any gate, however late, leaves no evidence spent: only a    *)
(* call that lost the commit itself has spent any.                         *)
(***************************************************************************)
THEOREM DownstreamDenialNeverBurns == Spec => []DownstreamDenialBurnsNothing
<1>1. AdmissionInv => DownstreamDenialBurnsNothing
  BY DEF AdmissionInv, CallOK, Frugal, DownstreamDenialBurnsNothing
<1> QED
  BY <1>1, AdmissionAlways, PTL

-----------------------------------------------------------------------------
(***************************************************************************)
(* Single use of a presentation.  The guard forgets, so the argument is    *)
(* about time: what it recorded it remembers until the presentation is too *)
(* old to be verified, and a call records what it verified before then.    *)
(***************************************************************************)
\* InMemoryReplayGuard: "The TTL should be at least the verifier's max_age_secs",
\* by the second the age is rounded down to; and no call outlasts its own check.
GuardOutlasts == MaxAge < ReplayTtl /\ ~Stalls

IssuedByNow == \A n \in DOMAIN issued : issued[n].at <= now

FreshToRecord ==
  \A c \in Calls : calls[c].pc = "replay" => Age(calls[c].shown.nonce) <= MaxAge

RecordedLong(c) ==
  calls[c].fresh =>
    /\ calls[c].shown \in DOMAIN replayed
    /\ replayed[calls[c].shown] >= issued[calls[c].shown.nonce].at + ReplayTtl * Res

OnceInv == IssuedByNow /\ FreshToRecord /\ (\A c \in Calls : RecordedLong(c)) /\ SingleUse

LEMMA IssuedTyped ==
  ASSUME TypeInv, NEW n \in DOMAIN issued
  PROVE  issued[n] \in [session: Sessions, at: Nat] /\ issued[n].at \in Nat
<1> DEFINE S == [session: Sessions, at: Nat]
<1>1. issued \in Seq(S)
  BY DEF TypeInv, TypeOK
<1>2. issued[n] \in S
  <2> HIDE DEF S
  <2>1. DOMAIN issued = 1..Len(issued)
    BY <1>1
  <2> QED
    BY <1>1, <2>1
<1> QED
  BY <1>2

LEMMA BegunNonce ==
  ASSUME TypeInv, NEW c \in Calls, calls[c].pc # "idle"
  PROVE  /\ calls[c] \in Call /\ calls[c].shown \in Presentation
         /\ calls[c].shown.nonce \in DOMAIN issued
         /\ issued[calls[c].shown.nonce].at \in Nat
<1>1. calls[c] # Idle
  BY DEF Idle
<1>2. Begun(c) /\ calls[c] \in Call
  BY <1>1 DEF TypeInv, TypeOK, BegunOrIdle
<1> QED
  BY <1>2, IssuedTyped DEF Begun

\* No stage but the replay guard's decides that a presentation is fresh, and
\* none but Verify leads to it.
LEMMA FreshKept ==
  ASSUME TypeInv, AdmissionInv, NEW c \in Calls, Advance(c), ~RecordIfNew(c)
  PROVE  /\ calls'[c].fresh = calls[c].fresh /\ calls'[c].shown = calls[c].shown
         /\ replayed' = replayed /\ now' = now /\ issued' = issued
         /\ \A d \in Calls \ {c} : calls'[d] = calls[d]
         /\ calls'[c].pc = "replay" => Verified(calls[c]) /\ calls[c].pc = "verify"
<1>1. calls[c] \in Call /\ calls \in [Calls -> Call] /\ TypeOK
  BY DEF TypeInv, TypeOK
<1>2. CASE ReadPrincipal(c)
  <2> DEFINE p == PrincipalFor(calls[c].session)
  <2>1. calls' = [calls EXCEPT ![c] = [calls[c] EXCEPT !.pc = "verify", !.actingFor = p]]
    BY <1>2 DEF ReadPrincipal, Become
  <2> HIDE DEF p
  <2>2. calls'[c].fresh = calls[c].fresh /\ calls'[c].shown = calls[c].shown /\ calls'[c].pc = "verify"
    BY <1>1, <2>1 DEF Call
  <2> QED
    BY <1>1, <1>2, <2>1, <2>2 DEF ReadPrincipal, session
<1>3. CASE CheckGates(c)
  <2>1. Deny(c, "approval") \/ \E pairs : Become(c, Matched(calls[c], pairs))
    BY <1>3 DEF CheckGates
  <2>2. /\ calls'[c].fresh = calls[c].fresh /\ calls'[c].shown = calls[c].shown
        /\ calls'[c].pc # "replay" /\ \A d \in Calls \ {c} : calls'[d] = calls[d]
    <3>1. CASE Deny(c, "approval")
      BY <1>1, <3>1 DEF Deny, Become, Call
    <3>2. ASSUME NEW pairs, calls' = [calls EXCEPT ![c] =
                                        [calls[c] EXCEPT !.pc = "policy", !.owed = pairs]]
          PROVE  <2>2!:
      BY <1>1, <3>2 DEF Call
    <3> QED
      BY <2>1, <3>1, <3>2 DEF Become, Matched
  <2> QED
    BY <1>3, <2>2 DEF CheckGates, session
<1>4. CASE CommitReliance(c)
  <2>1. \/ Become(c, [calls[c] EXCEPT !.pc = "done", !.verdict = "allow"])
        \/ \E o : Become(c, [calls[c] EXCEPT !.owed = @ \ {o}, !.spent = @ \cup {o}])
        \/ Deny(c, "consumed")
    BY <1>4 DEF CommitReliance
  <2>2. /\ calls'[c].fresh = calls[c].fresh /\ calls'[c].shown = calls[c].shown
        /\ calls'[c].pc # "replay" /\ \A d \in Calls \ {c} : calls'[d] = calls[d]
    <3>1. CASE Become(c, [calls[c] EXCEPT !.pc = "done", !.verdict = "allow"])
      BY <1>1, <3>1 DEF Become, Call
    <3>2. ASSUME NEW o, calls' = [calls EXCEPT ![c] =
                                    [calls[c] EXCEPT !.owed = @ \ {o}, !.spent = @ \cup {o}]]
          PROVE  <2>2!:
      BY <1>1, <1>4, <3>2 DEF Call, CommitReliance
    <3>3. CASE Deny(c, "consumed")
      BY <1>1, <3>3 DEF Deny, Become, Call
    <3> QED
      BY <2>1, <3>1, <3>2, <3>3 DEF Become
  <2> QED
    BY <1>4, <2>2 DEF CommitReliance, session
<1>5. CASE \/ Verify(c) \/ CheckRevocation(c) \/ CheckPolicy(c) \/ CheckUsage(c)
           \/ ChargeUsage(c) \/ HoldForApproval(c) \/ PollApproval(c)
  <2>1. Turned(c) \/ Passed(c) \/ Released(c)
    BY <1>5, VerifyMoves, JudgedMoves, ChargeMoves, HoldMoves, PollMoves
  <2>2. replayed' = replayed /\ now' = now /\ issued' = issued /\ calls[c].pc # "replay"
    BY <1>5 DEF Verify, CheckRevocation, CheckPolicy, CheckUsage, ChargeUsage,
       HoldForApproval, PollApproval, session
  <2>3. CASE Turned(c)
    BY <2>2, <2>3 DEF Turned, Ends, Beside, SameRequest
  <2>4. CASE Passed(c) \/ Released(c)
    <3>1. PICK stage : /\ Onward(c, stage)
                       /\ stage = "replay" => calls[c].pc = "verify" /\ Verified(calls[c])
      BY <2>4 DEF Passed, Released
    <3> QED
      BY <2>2, <3>1 DEF Onward, Beside, SameRequest
  <2> QED
    BY <2>1, <2>3, <2>4
<1> QED
  BY <1>2, <1>3, <1>4, <1>5 DEF Advance

LEMMA OnceInit == Init => OnceInv
<1> SUFFICES ASSUME Init PROVE OnceInv
  OBVIOUS
<1>1. \A c \in Calls : calls[c].pc = "idle" /\ calls[c].fresh = FALSE
  BY DEF Init, Idle
<1>2. DOMAIN issued = {}
  BY DEF Init
<1> QED
  BY <1>1, <1>2 DEF OnceInv, IssuedByNow, FreshToRecord, RecordedLong, SingleUse

\* The step that records a presentation, and the only one that calls it fresh.
LEMMA RecordOnce ==
  ASSUME GuardOutlasts, TypeInv, OnceInv, NEW c \in Calls, RecordIfNew(c)
  PROVE  OnceInv'
<1> DEFINE shown == calls[c].shown
<1>1. /\ calls[c] \in Call /\ calls[c].pc = "replay" /\ shown \in Presentation
      /\ shown.nonce \in DOMAIN issued /\ issued[shown.nonce].at \in Nat
      /\ now \in Nat /\ issued[shown.nonce].at <= now
      /\ ReplayTtl * Res \in Nat /\ calls \in [Calls -> Call]
      /\ replayed \in [DOMAIN replayed -> Nat]
  BY BegunNonce, TicksNat, EnforcerAssumption
     DEF RecordIfNew, OnceInv, IssuedByNow, TypeInv, TypeOK
<1>2. now' = now /\ issued' = issued
  BY DEF RecordIfNew, session
<1>3. IssuedByNow'
  BY <1>2 DEF OnceInv, IssuedByNow
\* Recorded now, it was not recorded before: that would not be forgotten yet.
<1>4. ASSUME ~Seen(shown), NEW d \in Calls, calls[d].fresh PROVE calls[d].shown # shown
  <2> SUFFICES ASSUME calls[d].shown = shown PROVE FALSE
    OBVIOUS
  <2> DEFINE at == issued[shown.nonce].at
  <2>1. /\ shown \in DOMAIN replayed /\ replayed[shown] \in Nat
        /\ replayed[shown] >= at + ReplayTtl * Res
    BY <1>1, <1>4 DEF OnceInv, RecordedLong
  <2>2. replayed[shown] <= now
    BY <1>1, <1>4, <2>1 DEF Seen
  <2>3. Secs(now - at) <= MaxAge
    BY <1>1 DEF OnceInv, FreshToRecord, Age
  <2>4. now - at \in Nat /\ at \in Nat
    BY <1>1
  <2> HIDE DEF at, shown
  <2>5. Secs(now - at) < ReplayTtl
    BY <2>3, <2>4, SecsNat, EnforcerAssumption DEF GuardOutlasts
  <2>6. now - at < ReplayTtl * Res
    BY <2>4, <2>5, SecsBefore, EnforcerAssumption
  <2> QED
    BY <1>1, <2>1, <2>2, <2>4, <2>6
<1>5. ASSUME UNCHANGED replayed, NEW stage, stage # "replay", NEW code,
             calls' = [calls EXCEPT ![c] = [calls[c] EXCEPT !.pc = stage, !.verdict = code]]
      PROVE  OnceInv'
  <2>2. \A d \in Calls : /\ calls'[d].fresh = calls[d].fresh
                         /\ calls'[d].shown = calls[d].shown
                         /\ calls'[d].pc = "replay" => calls'[d] = calls[d]
    BY <1>1, <1>5 DEF Call
  <2> QED
    BY <1>2, <1>3, <1>5, <2>2 DEF OnceInv, FreshToRecord, RecordedLong, SingleUse, Age
<1>6. CASE /\ ~Seen(shown)
           /\ Become(c, [calls[c] EXCEPT !.pc = "revocation", !.fresh = TRUE])
           /\ replayed' = [p \in DOMAIN replayed \cup {shown} |->
                             IF p = shown THEN now + ReplayTtl * Res ELSE replayed[p]]
  <2>1. /\ calls'[c].pc = "revocation" /\ calls'[c].shown = shown
        /\ \A d \in Calls \ {c} : calls'[d] = calls[d]
    BY <1>1, <1>6 DEF Become, Call
  <2>2. FreshToRecord'
    BY <1>2, <2>1 DEF OnceInv, FreshToRecord, Age
  <2>3. ASSUME NEW d \in Calls PROVE RecordedLong(d)'
    <3>1. CASE d = c
      <4>1. shown \in DOMAIN replayed' /\ replayed'[shown] = now + ReplayTtl * Res
        BY <1>6
      <4> HIDE DEF shown
      <4> QED
        BY <1>1, <1>2, <2>1, <3>1, <4>1 DEF RecordedLong
    <3>2. CASE d # c
      <4>1. CASE calls[d].fresh
        <5>1. calls[d].shown # shown
          BY <1>4, <1>6, <4>1
        <5>2. RecordedLong(d) /\ calls'[d] = calls[d]
          BY <2>1, <3>2 DEF OnceInv
        <5> QED
          BY <1>2, <1>6, <4>1, <5>1, <5>2 DEF RecordedLong
      <4>2. CASE ~calls[d].fresh
        BY <2>1, <3>2, <4>2 DEF RecordedLong
      <4> QED
        BY <4>1, <4>2
    <3> QED
      BY <3>1, <3>2
  <2>4. SingleUse'
    <3> SUFFICES ASSUME NEW a \in Calls, NEW b \in Calls, a # b,
                        calls'[a].fresh, calls'[b].fresh
                 PROVE  calls'[a].shown # calls'[b].shown
      BY DEF SingleUse
    <3>1. CASE a # c /\ b # c
      BY <2>1, <3>1 DEF OnceInv, SingleUse
    <3>2. CASE a = c
      BY <1>4, <1>6, <2>1, <3>2
    <3>3. CASE b = c
      BY <1>4, <1>6, <2>1, <3>3
    <3> QED
      BY <3>1, <3>2, <3>3
  <2> QED
    BY <1>3, <2>2, <2>3, <2>4 DEF OnceInv
<1>7. \/ Proceed(c, "revocation") /\ UNCHANGED replayed
      \/ Deny(c, "replay") /\ UNCHANGED replayed
      \/ /\ ~Seen(shown)
         /\ Become(c, [calls[c] EXCEPT !.pc = "revocation", !.fresh = TRUE])
         /\ replayed' = [p \in DOMAIN replayed \cup {shown} |->
                           IF p = shown THEN now + ReplayTtl * Res ELSE replayed[p]]
  BY DEF RecordIfNew
<1>8. CASE Proceed(c, "revocation") /\ UNCHANGED replayed
  <2>1. [calls[c] EXCEPT !.pc = "revocation"]
          = [calls[c] EXCEPT !.pc = "revocation", !.verdict = calls[c].verdict]
    BY <1>1 DEF Call
  <2> DEFINE code == calls[c].verdict
  <2>2. calls' = [calls EXCEPT ![c] = [calls[c] EXCEPT !.pc = "revocation", !.verdict = code]]
    BY <1>8, <2>1 DEF Proceed, Become
  <2> HIDE DEF code
  <2> QED
    BY <1>5, <1>8, <2>2
<1>9. CASE Deny(c, "replay") /\ UNCHANGED replayed
  <2>1. calls' = [calls EXCEPT ![c] = [calls[c] EXCEPT !.pc = "done", !.verdict = "replay"]]
    BY <1>9 DEF Deny, Become
  <2> QED
    BY <1>5, <1>9, <2>1
<1> QED
  BY <1>6, <1>7, <1>8, <1>9

LEMMA StageOnce ==
  ASSUME TypeInv, AdmissionInv, OnceInv, NEW c \in Calls, Advance(c), ~RecordIfNew(c)
  PROVE  OnceInv'
<1>1. /\ calls'[c].fresh = calls[c].fresh /\ calls'[c].shown = calls[c].shown
      /\ replayed' = replayed /\ now' = now /\ issued' = issued
      /\ \A d \in Calls \ {c} : calls'[d] = calls[d]
      /\ calls'[c].pc = "replay" => Verified(calls[c]) /\ calls[c].pc = "verify"
  BY FreshKept
<1>2. FreshToRecord'
  <2> SUFFICES ASSUME NEW d \in Calls, calls'[d].pc = "replay"
               PROVE  Age(calls[d].shown.nonce) <= MaxAge
    BY <1>1 DEF FreshToRecord, Age, Secs
  <2>2. CASE d = c
    BY <1>1, <2>2 DEF Verified, Possesses
  <2>3. CASE d # c
    BY <1>1, <2>3 DEF OnceInv, FreshToRecord
  <2> QED
    BY <2>2, <2>3
<1>3. \A d \in Calls : calls'[d].fresh = calls[d].fresh /\ calls'[d].shown = calls[d].shown
  BY <1>1
<1>4. IssuedByNow' /\ SingleUse' /\ \A d \in Calls : RecordedLong(d)'
  BY <1>1, <1>3 DEF OnceInv, IssuedByNow, SingleUse, RecordedLong
<1> QED
  BY <1>2, <1>4 DEF OnceInv

LEMMA ArriveOnce ==
  ASSUME TypeInv, OnceInv, Arrive
  PROVE  OnceInv'
<1>1. PICK c \in Calls, s \in Sessions, tool \in Tools, shown \in Presentations,
           carried \in Carried : Receive(c, s, tool, shown, carried)
  BY DEF Arrive
<1> DEFINE late == shown.token \in revoked
           call == [Idle EXCEPT !.session = s, !.tool = tool, !.shown = shown,
                                !.carried = carried, !.tainted = late]
<1>2. call.fresh = FALSE /\ DOMAIN call = DOMAIN Idle
  BY DEF Idle
<1>3. \/ Become(c, [call EXCEPT !.pc = "done", !.verdict = "no_challenge"])
      \/ Become(c, [call EXCEPT !.pc = "done", !.verdict = "unbound"])
      \/ Become(c, [call EXCEPT !.pc = "principal", !.challenge = challenge[s].value])
  BY <1>1 DEF Receive
<1>4. /\ calls'[c].fresh = FALSE /\ calls'[c].pc # "replay"
      /\ \A d \in Calls \ {c} : calls'[d] = calls[d]
  <2>1. calls \in [Calls -> Call]
    BY DEF TypeInv, TypeOK
  <2> HIDE DEF late
  <2> QED
    BY ZenonT(30), <1>3, <2>1 DEF Become, Idle
<1>5. replayed' = replayed /\ now' = now /\ issued' = issued
  BY <1>1 DEF Receive, session
<1> HIDE DEF call
<1>6. FreshToRecord'
  BY <1>4, <1>5 DEF OnceInv, FreshToRecord, Age
<1>7. IssuedByNow' /\ SingleUse' /\ \A d \in Calls : RecordedLong(d)'
  BY <1>4, <1>5 DEF OnceInv, IssuedByNow, SingleUse, RecordedLong
<1> QED
  BY <1>6, <1>7 DEF OnceInv

LEMMA WorldOnce ==
  ASSUME GuardOutlasts, TypeInv, OnceInv, World
  PROVE  OnceInv'
<1>1. calls' = calls /\ replayed' = replayed
  BY DEF World, IssueChallenge, ClearSession, BindPrincipal, Revoke, Offboard,
         Approve, Refuse, Tick
<1>2. now \in Nat /\ issued \in Seq([session: Sessions, at: Nat])
  BY DEF TypeInv, TypeOK
<1>3. ASSUME NEW c \in Calls, calls[c].pc # "idle" \/ calls[c].fresh
      PROVE  calls[c].shown.nonce \in DOMAIN issued
  <2>1. calls[c] # Idle
    BY <1>3 DEF Idle
  <2> QED
    BY <2>1 DEF TypeInv, BegunOrIdle, Begun
<1>4. SingleUse'
  BY <1>1 DEF OnceInv, SingleUse
<1>5. CASE Tick
  <2>1. now' = now + 1 /\ issued' = issued /\ \A c \in Calls : StillGood(c, now')
    BY <1>5 DEF Tick, GuardOutlasts, session
  <2>2. IssuedByNow'
    <3> SUFFICES ASSUME NEW n \in DOMAIN issued PROVE issued[n].at <= now + 1
      BY <2>1 DEF IssuedByNow
    <3>1. issued[n].at \in Nat /\ issued[n].at <= now
      BY IssuedTyped DEF OnceInv, IssuedByNow
    <3> QED
      BY <1>2, <3>1
  <2>3. FreshToRecord'
    BY <1>1, <2>1 DEF FreshToRecord, StillGood, Age, Secs
  <2> QED
    BY <1>1, <1>4, <2>1, <2>2, <2>3 DEF OnceInv, RecordedLong
<1>6. ASSUME NEW s \in Sessions, IssueChallenge(s) PROVE OnceInv'
  <2> DEFINE entry == [session |-> s, at |-> now]
  <2>1. issued' = Append(issued, entry) /\ now' = now /\ entry.at = now
    BY <1>6 DEF IssueChallenge
  <2> HIDE DEF entry
  <2>2. /\ \A n \in DOMAIN issued : n \in DOMAIN issued' /\ issued'[n] = issued[n]
        /\ \A n \in DOMAIN issued' : n \in DOMAIN issued \/ issued'[n] = entry
    BY <1>2, <2>1
  <2>3. IssuedByNow'
    BY <1>2, <2>1, <2>2 DEF OnceInv, IssuedByNow
  <2>4. FreshToRecord'
    BY <1>1, <1>3, <2>1, <2>2 DEF OnceInv, FreshToRecord, Age, Secs
  <2>5. \A c \in Calls : RecordedLong(c)'
    BY <1>1, <1>3, <2>2 DEF OnceInv, RecordedLong
  <2> QED
    BY <1>4, <2>3, <2>4, <2>5 DEF OnceInv
<1>7. CASE UNCHANGED <<now, issued>>
  BY <1>1, <1>4, <1>7 DEF OnceInv, IssuedByNow, FreshToRecord, RecordedLong, Age, Secs
<1>8. UNCHANGED <<now, issued>> \/ Tick \/ \E s \in Sessions : IssueChallenge(s)
  BY DEF World, ClearSession, BindPrincipal, Revoke, Offboard, Approve, Refuse, session
<1> QED
  BY <1>5, <1>6, <1>7, <1>8

LEMMA OnceNext ==
  GuardOutlasts /\ TypeInv /\ AdmissionInv /\ OnceInv /\ [Next]_vars => OnceInv'
<1> SUFFICES ASSUME GuardOutlasts, TypeInv, AdmissionInv, OnceInv, [Next]_vars PROVE OnceInv'
  OBVIOUS
<1>1. CASE World
  BY <1>1, WorldOnce
<1>2. CASE Arrive
  BY <1>2, ArriveOnce
<1>3. ASSUME NEW c \in Calls, Advance(c) PROVE OnceInv'
  BY <1>3, RecordOnce, StageOnce
<1>4. CASE UNCHANGED vars
  BY <1>4 DEF vars, session, OnceInv, IssuedByNow, FreshToRecord, RecordedLong, SingleUse, Age, Secs
<1> QED
  BY <1>1, <1>2, <1>3, <1>4 DEF Next

(***************************************************************************)
(* ReplayGuard: the same bytes are let past it once, whichever calls carry *)
(* them, if the guard remembers them longer than their proof stays fresh.  *)
(***************************************************************************)
THEOREM BytesUsedOnce == ASSUME GuardOutlasts PROVE Spec => []SingleUse
<1>1. OnceInv => SingleUse
  BY DEF OnceInv
<1> QED
  BY <1>1, AdmissionAlways, OnceInit, OnceNext, PTL DEF Spec

-------------------------------------------------------------------------------
(***************************************************************************)
(* Proofs that an approval is relied upon at most once: the ledger         *)
(* remembers it for as long as any call could still commit it, so the      *)
(* enforcer implements Reliance.                                           *)
(*                                                                         *)
(* The argument needs more than AtMostOnceRelied itself.  A call commits   *)
(* evidence some stages after it checked its expiry, so OwedLive: what is  *)
(* still owed has not expired.  Nothing else stops a second commit but the *)
(* ledger, so SpentKept: what is spent stays remembered until it expires.  *)
(***************************************************************************)

OwedLive ==
  \A c \in Calls : calls[c].pc # "done" =>
    \A o \in calls[c].owed : Secs(now) < o[2].expires

SpentKept ==
  \A c \in Calls : \A e \in Spent(c) :
    \/ consumed[e] > Horizon
    \/ consumed[e] >= e.expires * Res

RelianceInv ==
  /\ now <= Horizon
  /\ OwedLive
  /\ SpentKept
  /\ AtMostOnceRelied

-----------------------------------------------------------------------------
LEMMA ExpiryNat == ASSUME NEW e \in Evidence PROVE e.expires \in Nat
BY EnforcerAssumption DEF EvidenceType

\* Evidence in circulation is not a step-up approval.
LEMMA SpentTyped ==
  ASSUME TypeOK, NEW c \in Calls
  PROVE  Spent(c) \subseteq Evidence
<1>1. calls[c].spent \in SUBSET (GateKinds \X Evidence)
  BY DEF TypeOK, Call
<1> QED
  BY <1>1 DEF Spent

\* A second reliance would be on evidence that is spent and still live: the
\* ledger refuses it.
LEMMA SpentNotConsumable ==
  ASSUME TypeOK, RelianceInv, NEW c \in Calls, NEW e \in Spent(c), Secs(now) < e.expires
  PROVE  Remembers(e) /\ ~Consumable(e)
<1>1. e \in Evidence /\ e.expires \in Nat /\ now \in Nat
  BY SpentTyped, ExpiryNat DEF TypeOK
<1>2. now < e.expires * Res /\ e.expires * Res \in Nat
  BY <1>1, SecsBefore, TicksNat
<1>3. consumed[e] \in Nat
  BY <1>1 DEF TypeOK
<1>4. consumed[e] > Horizon \/ consumed[e] >= e.expires * Res
  BY DEF RelianceInv, SpentKept
<1>5. consumed[e] > now
  BY <1>1, <1>2, <1>3, <1>4, EnforcerAssumption DEF RelianceInv
<1> QED
  BY <1>5 DEF Remembers, Consumable

\* The ledgers of one process and of the core keep what they are told to.
LEMMA ForgottenAfterExpiry ==
  ASSUME Ledger \in {"memory", "core"}, now \in Nat, NEW expires \in Nat
  PROVE  ForgottenAt(expires) > Horizon \/ ForgottenAt(expires) >= expires * Res
<1>1. expires * Res \in Nat
  BY TicksNat
<1>2. CASE Ledger = "memory"
  <2>1. ForgottenAt(expires) = now + AtLeast(0, expires * Res - now)
    BY <1>2 DEF ForgottenAt
  <2> QED
    BY <1>1, <2>1 DEF AtLeast
<1>3. CASE Ledger = "core"
  <2>1. ForgottenAt(expires) = Horizon + 1
    BY <1>3 DEF ForgottenAt
  <2> QED
    BY <2>1, EnforcerAssumption
<1> QED
  BY <1>2, <1>3

-----------------------------------------------------------------------------
(***************************************************************************)
(* Every stage but a commit leaves reliance as it was: nothing more is     *)
(* spent, and what it comes to owe it has just found unexpired.            *)
(***************************************************************************)
Quiet(c, call) ==
  /\ Become(c, call)
  /\ calls[c].pc # "done"
  /\ call.spent = calls[c].spent
  /\ call.pc # "done" => \A o \in call.owed : o \in calls[c].owed \/ Secs(now) < o[2].expires
  /\ now' = now
  /\ \A e \in Evidence : consumed'[e] = consumed[e]

LEMMA QuietReliance ==
  ASSUME TypeOK, RelianceInv, NEW c \in Calls, NEW call, Quiet(c, call)
  PROVE  RelianceInv'
<1>1. calls' = [calls EXCEPT ![c] = call] /\ calls \in [Calls -> Call]
  BY DEF Quiet, Become, TypeOK
<1>2. ASSUME NEW d \in Calls PROVE Spent(d)' = Spent(d)
  BY <1>1 DEF Quiet, Spent
<1>3. OwedLive'
  <2> SUFFICES ASSUME NEW d \in Calls, calls'[d].pc # "done", NEW o \in calls'[d].owed
               PROVE  Secs(now)' < o[2].expires
    BY DEF OwedLive
  <2>1. Secs(now)' = Secs(now)
    BY DEF Quiet, Secs
  <2>2. CASE d = c
    <3>1. calls'[d] = call
      BY <1>1, <2>2
    <3> QED
      BY <2>1, <2>2, <3>1 DEF Quiet, RelianceInv, OwedLive
  <2>3. CASE d # c
    <3>1. calls'[d] = calls[d]
      BY <1>1, <2>3
    <3> QED
      BY <2>1, <3>1 DEF RelianceInv, OwedLive
  <2> QED
    BY <2>2, <2>3
<1>4. SpentKept'
  <2> SUFFICES ASSUME NEW d \in Calls, NEW e \in Spent(d)
               PROVE  consumed'[e] > Horizon \/ consumed'[e] >= e.expires * Res
    BY <1>2 DEF SpentKept
  <2>1. e \in Evidence
    BY SpentTyped
  <2>2. consumed'[e] = consumed[e]
    BY <2>1 DEF Quiet
  <2> QED
    BY <2>2 DEF RelianceInv, SpentKept
<1>5. AtMostOnceRelied'
  BY <1>2 DEF RelianceInv, AtMostOnceRelied
<1> QED
  BY <1>3, <1>4, <1>5 DEF Quiet, RelianceInv

\* The two ways most stages end.
LEMMA ProceedQuiet ==
  ASSUME TypeOK, NEW c \in Calls, calls[c].pc # "done", NEW stage, Proceed(c, stage),
         now' = now, \A e \in Evidence : consumed'[e] = consumed[e]
  PROVE  \E call : Quiet(c, call)
<1>1. calls[c] \in Call
  BY DEF TypeOK
<1>2. Quiet(c, [calls[c] EXCEPT !.pc = stage])
  BY <1>1 DEF Quiet, Proceed, Call
<1> QED
  BY <1>2

LEMMA DenyQuiet ==
  ASSUME TypeOK, NEW c \in Calls, calls[c].pc # "done", NEW code, Deny(c, code),
         now' = now, \A e \in Evidence : consumed'[e] = consumed[e]
  PROVE  \E call : Quiet(c, call)
<1>1. calls[c] \in Call
  BY DEF TypeOK
<1>2. Quiet(c, [calls[c] EXCEPT !.pc = "done", !.verdict = code])
  BY <1>1 DEF Quiet, Deny, Call
<1> QED
  BY <1>2

LEMMA FaultQuiet ==
  ASSUME TypeOK, NEW c \in Calls, calls[c].pc # "done", NEW call \in Call,
         call.spent = calls[c].spent, call.owed = calls[c].owed,
         NEW service, NEW code, NEW stage, Fault(c, call, service, code, stage),
         now' = now, \A e \in Evidence : consumed'[e] = consumed[e]
  PROVE  \E next : Quiet(c, next)
<1>1. CASE service \in FailOpen
  <2>1. Quiet(c, [call EXCEPT !.pc = stage])
    BY <1>1 DEF Quiet, Fault, Call
  <2> QED
    BY <2>1
<1>2. CASE service \notin FailOpen
  <2>1. Quiet(c, [call EXCEPT !.pc = "done", !.verdict = code])
    BY <1>2 DEF Quiet, Fault, Call
  <2> QED
    BY <2>1
<1> QED
  BY <1>1, <1>2

\* Reading the principal again changes neither what is owed nor what is spent.
LEMMA JudgingQuiet ==
  ASSUME TypeOK, NEW c \in Calls, calls[c].session \in Sessions,
         NEW stage \in Stages \ {"idle"}
  PROVE  /\ Judging(c, stage) \in Call
         /\ Judging(c, stage).owed = calls[c].owed
         /\ Judging(c, stage).spent = calls[c].spent
<1>1. Judging(c, stage) \in Call
  BY JudgingTyped
<1>2. calls[c] \in Call
  BY DEF TypeOK
<1> QED
  BY <1>1, <1>2 DEF Judging, Call

LEMMA CheckGatesQuiet ==
  ASSUME TypeInv, NEW c \in Calls, CheckGates(c)
  PROVE  \E call : Quiet(c, call)
<1>1. /\ TypeOK /\ calls[c] \in Call /\ calls[c].pc # "done"
      /\ now' = now /\ \A e \in Evidence : consumed'[e] = consumed[e]
  BY DEF CheckGates, TypeInv, TypeOK
<1>2. CASE Deny(c, "approval")
  BY <1>1, <1>2, DenyQuiet
<1>3. ASSUME NEW choice \in [Designating(calls[c]) -> calls[c].carried],
             \A k \in Designating(calls[c]) : Matches(choice[k], k, calls[c]),
             Become(c, Matched(calls[c], {<<k, choice[k]>> : k \in Designating(calls[c])}))
      PROVE  \E call : Quiet(c, call)
  <2> DEFINE pairs == {<<k, choice[k]>> : k \in Designating(calls[c])}
  <2>1. \A o \in pairs : Secs(now) < o[2].expires
    <3>1. ASSUME NEW k \in Designating(calls[c]) PROVE Secs(now) < choice[k].expires
      BY <1>3 DEF Matches
    <3> HIDE DEF Designating
    <3> QED
      BY <3>1
  <2>2. Become(c, Matched(calls[c], pairs))
    BY <1>3
  <2> HIDE DEF pairs
  <2>3. Quiet(c, Matched(calls[c], pairs))
    BY <1>1, <2>1, <2>2 DEF Quiet, Matched, Call
  <2> QED
    BY <2>3
<1> QED
  BY <1>2, <1>3 DEF CheckGates

\* The three gates that are shown the principal again.
LEMMA JudgedQuiet ==
  ASSUME TypeInv, NEW c \in Calls, CheckPolicy(c) \/ CheckUsage(c) \/ HoldForApproval(c)
  PROVE  \E call : Quiet(c, call)
<1>1. /\ TypeOK /\ Begun(c) /\ calls[c].pc # "done" /\ calls[c].session \in Sessions
      /\ now' = now /\ \A e \in Evidence : consumed'[e] = consumed[e]
  BY DEF CheckPolicy, CheckUsage, HoldForApproval, TypeInv, BegunOrIdle, Begun, Idle
<1>2. PICK stage \in Stages \ {"idle"} :
        \/ Become(c, Judging(c, stage))
        \/ \E code : Become(c, [Judging(c, stage) EXCEPT !.verdict = code])
        \/ \E since, deadline :
             Become(c, [Judging(c, stage) EXCEPT !.since = since, !.deadline = deadline])
        \/ \E service, code, next : Fault(c, Judging(c, stage), service, code, next)
  <2>1. {"policy", "usage", "done", "charge", "hold", "commit", "wait"} \subseteq Stages \ {"idle"}
    BY DEF Stages
  <2>2. CASE CheckPolicy(c)
    BY <2>1, <2>2 DEF CheckPolicy
  <2>3. CASE CheckUsage(c)
    BY <2>1, <2>3 DEF CheckUsage
  <2>4. CASE HoldForApproval(c)
    BY <2>1, <2>4 DEF HoldForApproval
  <2> QED
    BY <2>2, <2>3, <2>4
<1> DEFINE call == Judging(c, stage)
<1>3. call \in Call /\ call.owed = calls[c].owed /\ call.spent = calls[c].spent
  BY <1>1, JudgingQuiet
<1>4. \/ Become(c, call)
      \/ \E code : Become(c, [call EXCEPT !.verdict = code])
      \/ \E since, deadline : Become(c, [call EXCEPT !.since = since, !.deadline = deadline])
      \/ \E service, code, next : Fault(c, call, service, code, next)
  BY <1>2
<1> HIDE DEF call
<1>5. CASE Become(c, call)
  BY <1>1, <1>3, <1>5 DEF Quiet
<1>6. ASSUME NEW code, Become(c, [call EXCEPT !.verdict = code])
      PROVE  Quiet(c, [call EXCEPT !.verdict = code])
  BY <1>1, <1>3, <1>6 DEF Quiet, Call
<1>7. ASSUME NEW since, NEW deadline,
             Become(c, [call EXCEPT !.since = since, !.deadline = deadline])
      PROVE  Quiet(c, [call EXCEPT !.since = since, !.deadline = deadline])
  BY <1>1, <1>3, <1>7 DEF Quiet, Call
<1>8. ASSUME NEW service, NEW code, NEW next, Fault(c, call, service, code, next)
      PROVE  \E quiet : Quiet(c, quiet)
  BY <1>1, <1>3, <1>8, FaultQuiet
<1> QED
  BY <1>4, <1>5, <1>6, <1>7, <1>8

\* Polling spends a step-up approval, whose ledger entry is no evidence's.
LEMMA PollQuiet ==
  ASSUME TypeInv, NEW c \in Calls, PollApproval(c)
  PROVE  \E call : Quiet(c, call)
<1>1. TypeOK /\ calls[c] \in Call /\ calls[c].pc # "done" /\ now' = now
  BY DEF PollApproval, TypeInv, TypeOK
<1>2. \A e \in Evidence : consumed'[e] = consumed[e]
  <2>1. \/ consumed' = consumed
        \/ consumed' = [consumed EXCEPT ![c] = ForgottenAt(stepup[c].expires)]
    BY DEF PollApproval
  <2> QED
    BY <1>1, <2>1, EnforcerAssumption DEF TypeOK
<1>3. \/ Proceed(c, "commit") \/ Deny(c, "approval")
      \/ Fault(c, calls[c], "approval", "approval", "commit")
  BY DEF PollApproval, GiveUp
<1> QED
  BY <1>1, <1>2, <1>3, ProceedQuiet, DenyQuiet, FaultQuiet

\* The stages before the gates, and the charge.
LEMMA OtherStageQuiet ==
  ASSUME TypeInv, NEW c \in Calls,
         \/ ReadPrincipal(c) \/ Verify(c) \/ RecordIfNew(c)
         \/ CheckRevocation(c) \/ ChargeUsage(c)
  PROVE  \E call : Quiet(c, call)
<1>1. /\ TypeOK /\ calls[c] \in Call /\ calls[c].pc # "done"
      /\ now' = now /\ \A e \in Evidence : consumed'[e] = consumed[e]
  BY DEF ReadPrincipal, Verify, RecordIfNew, CheckRevocation, ChargeUsage, TypeInv, TypeOK
<1>2. CASE ReadPrincipal(c)
  <2> DEFINE p == PrincipalFor(calls[c].session)
  <2>1. Become(c, [calls[c] EXCEPT !.pc = "verify", !.actingFor = p])
    BY <1>2 DEF ReadPrincipal
  <2> HIDE DEF p
  <2>2. Quiet(c, [calls[c] EXCEPT !.pc = "verify", !.actingFor = p])
    BY <1>1, <2>1 DEF Quiet, Call
  <2> QED
    BY <2>2
<1>3. CASE Verify(c)
  BY <1>1, <1>3, ProceedQuiet, DenyQuiet DEF Verify
<1>4. CASE RecordIfNew(c)
  <2>1. \/ Proceed(c, "revocation") \/ Deny(c, "replay")
        \/ Become(c, [calls[c] EXCEPT !.pc = "revocation", !.fresh = TRUE])
    BY <1>4 DEF RecordIfNew
  <2>2. ASSUME Become(c, [calls[c] EXCEPT !.pc = "revocation", !.fresh = TRUE])
        PROVE  Quiet(c, [calls[c] EXCEPT !.pc = "revocation", !.fresh = TRUE])
    BY <1>1, <2>2 DEF Quiet, Call
  <2> QED
    BY <1>1, <2>1, <2>2, ProceedQuiet, DenyQuiet
<1>5. CASE CheckRevocation(c)
  BY <1>1, <1>5, ProceedQuiet, DenyQuiet, FaultQuiet DEF CheckRevocation
<1>6. CASE ChargeUsage(c)
  <2>1. Become(c, [calls[c] EXCEPT !.pc = "hold", !.charged = TRUE])
    BY <1>6 DEF ChargeUsage
  <2>2. Quiet(c, [calls[c] EXCEPT !.pc = "hold", !.charged = TRUE])
    BY <1>1, <2>1 DEF Quiet, Call
  <2> QED
    BY <2>2
<1> QED
  BY <1>2, <1>3, <1>4, <1>5, <1>6

\* A call that arrives owes nothing and has spent nothing.
LEMMA ArriveQuiet ==
  ASSUME TypeInv, NEW c \in Calls, NEW s \in Sessions, NEW tool \in Tools, NEW shown,
         NEW carried, Receive(c, s, tool, shown, carried)
  PROVE  \E call : Quiet(c, call)
<1>1. calls[c] = Idle
  BY DEF Receive, TypeInv, BegunOrIdle
<1> DEFINE late == shown.token \in revoked
<1> DEFINE call == [Idle EXCEPT !.session = s, !.tool = tool, !.shown = shown,
                                !.carried = carried, !.tainted = late]
<1>2. call.spent = {} /\ call.owed = {} /\ Idle.spent = {} /\ Idle.pc # "done"
  BY DEF Idle
<1>3. \/ Become(c, [call EXCEPT !.pc = "done", !.verdict = "no_challenge"])
      \/ Become(c, [call EXCEPT !.pc = "done", !.verdict = "unbound"])
      \/ Become(c, [call EXCEPT !.pc = "principal", !.challenge = challenge[s].value])
  BY DEF Receive
<1> HIDE DEF late
<1>4. now' = now /\ \A e \in Evidence : consumed'[e] = consumed[e]
  BY DEF Receive
<1>5. PICK next : Become(c, next) /\ next.spent = {} /\ next.owed = {}
  <2>1. \A stage, code : /\ [call EXCEPT !.pc = stage, !.verdict = code].spent = {}
                         /\ [call EXCEPT !.pc = stage, !.verdict = code].owed = {}
    BY DEF Idle
  <2>2. \A stage, nonce : /\ [call EXCEPT !.pc = stage, !.challenge = nonce].spent = {}
                          /\ [call EXCEPT !.pc = stage, !.challenge = nonce].owed = {}
    BY DEF Idle
  <2> HIDE DEF call
  <2>3. CASE Become(c, [call EXCEPT !.pc = "done", !.verdict = "no_challenge"])
    BY <2>1, <2>3, Zenon
  <2>4. CASE Become(c, [call EXCEPT !.pc = "done", !.verdict = "unbound"])
    BY <2>1, <2>4, Zenon
  <2>5. CASE Become(c, [call EXCEPT !.pc = "principal", !.challenge = challenge[s].value])
    <3> DEFINE nonce == challenge[s].value
    <3> DEFINE next == [call EXCEPT !.pc = "principal", !.challenge = nonce]
    <3>1. Become(c, next)
      BY <2>5
    <3>2. next.spent = {} /\ next.owed = {}
      BY <2>2
    <3> HIDE DEF next
    <3> QED
      BY <3>1, <3>2
  <2> QED
    BY <1>3, <2>3, <2>4, <2>5
<1>6. Quiet(c, next)
  BY <1>1, <1>2, <1>4, <1>5 DEF Quiet
<1> QED
  BY <1>6

-----------------------------------------------------------------------------
(***************************************************************************)
(* The commit of one approval.                                             *)
(***************************************************************************)
Commits(c, o) ==
  /\ calls[c].pc = "commit"
  /\ o \in calls[c].owed
  /\ Consumable(o[2])
  /\ consumed' = [consumed EXCEPT ![o[2]] = ForgottenAt(o[2].expires)]
  /\ Become(c, [calls[c] EXCEPT !.owed = @ \ {o}, !.spent = @ \cup {o}])
  /\ now' = now

LEMMA AdvanceCases ==
  ASSUME TypeInv, NEW c \in Calls, Advance(c)
  PROVE  \/ \E call : Quiet(c, call)
         \/ \E o : Commits(c, o)
<1>1. CASE CommitReliance(c)
  <2>1. /\ TypeOK /\ calls[c] \in Call /\ calls[c].pc # "done" /\ now' = now
    BY <1>1 DEF CommitReliance, TypeInv, TypeOK
  <2>2. CASE /\ Become(c, [calls[c] EXCEPT !.pc = "done", !.verdict = "allow"])
             /\ UNCHANGED consumed
    <3>1. Quiet(c, [calls[c] EXCEPT !.pc = "done", !.verdict = "allow"])
      BY <2>1, <2>2 DEF Quiet, Call
    <3> QED
      BY <3>1
  <2>3. CASE Deny(c, "consumed") /\ UNCHANGED consumed
    BY <2>1, <2>3, DenyQuiet
  <2> QED
    BY <1>1, <2>1, <2>2, <2>3 DEF CommitReliance, Commits
<1> QED
  BY <1>1, OtherStageQuiet, CheckGatesQuiet, JudgedQuiet, PollQuiet DEF Advance

LEMMA CommitsOnce ==
  ASSUME TypeOK, RelianceInv, NEW c \in Calls, NEW o, Commits(c, o)
  PROVE  /\ o[2] \in Evidence
         /\ \A d \in Calls : o[2] \notin Spent(d)
         /\ Spent(c)' = Spent(c) \cup {o[2]}
         /\ \A d \in Calls : d # c => Spent(d)' = Spent(d)
<1>1. o[2] \in Evidence /\ o \in calls[c].owed
  BY OwedTyped DEF Commits
<1>2. Secs(now) < o[2].expires
  BY <1>1 DEF Commits, RelianceInv, OwedLive
<1>3. \A d \in Calls : o[2] \notin Spent(d)
  BY <1>2, SpentNotConsumable DEF Commits
<1>4. /\ calls[c] \in Call
      /\ calls' = [calls EXCEPT ![c] = [calls[c] EXCEPT !.owed = @ \ {o}, !.spent = @ \cup {o}]]
  BY DEF Commits, Become, TypeOK
<1>5. calls'[c].spent = calls[c].spent \cup {o}
  BY <1>4 DEF TypeOK, Call
<1>6. Spent(c)' = Spent(c) \cup {o[2]}
  BY <1>5 DEF Spent
<1>7. \A d \in Calls : d # c => Spent(d)' = Spent(d)
  BY <1>4 DEF Spent, TypeOK
<1> QED
  BY <1>1, <1>3, <1>6, <1>7

LEMMA CommitsInv ==
  ASSUME Ledger \in {"memory", "core"}, TypeOK, RelianceInv,
         NEW c \in Calls, NEW o, Commits(c, o)
  PROVE  RelianceInv'
<1>1. /\ o[2] \in Evidence
      /\ \A d \in Calls : o[2] \notin Spent(d)
      /\ Spent(c)' = Spent(c) \cup {o[2]}
      /\ \A d \in Calls : d # c => Spent(d)' = Spent(d)
  BY CommitsOnce
<1>2. now' = now /\ now \in Nat
  BY DEF Commits, TypeOK
<1>3. /\ calls[c] \in Call /\ calls \in [Calls -> Call]
      /\ calls' = [calls EXCEPT ![c] = [calls[c] EXCEPT !.owed = @ \ {o}, !.spent = @ \cup {o}]]
  BY DEF Commits, Become, TypeOK
<1>4. OwedLive'
  <2>1. \A d \in Calls : calls'[d].owed \subseteq calls[d].owed /\ calls'[d].pc = calls[d].pc
    BY <1>3 DEF Call
  <2>2. Secs(now)' = Secs(now)
    BY <1>2 DEF Secs
  <2> QED
    BY <2>1, <2>2 DEF RelianceInv, OwedLive
<1>5. SpentKept'
  <2> SUFFICES ASSUME NEW d \in Calls, NEW e \in Spent(d)'
               PROVE  consumed'[e] > Horizon \/ consumed'[e] >= e.expires * Res
    BY DEF SpentKept
  <2>1. consumed' = [consumed EXCEPT ![o[2]] = ForgottenAt(o[2].expires)]
    BY DEF Commits
  <2>2. CASE e = o[2]
    <3>1. consumed'[e] = ForgottenAt(e.expires)
      BY <1>1, <2>1, <2>2 DEF TypeOK
    <3>2. e.expires \in Nat
      BY <1>1, <2>2, ExpiryNat
    <3> QED
      BY <1>2, <3>1, <3>2, ForgottenAfterExpiry
  <2>3. CASE e # o[2]
    <3>1. e \in Spent(d)
      BY <1>1, <2>3
    <3>2. consumed'[e] = consumed[e]
      BY <2>1, <2>3, <3>1, SpentTyped DEF TypeOK
    <3> QED
      BY <3>1, <3>2 DEF RelianceInv, SpentKept
  <2> QED
    BY <2>2, <2>3
<1>6. AtMostOnceRelied'
  BY <1>1 DEF RelianceInv, AtMostOnceRelied
<1> QED
  BY <1>2, <1>4, <1>5, <1>6 DEF RelianceInv

\* The clock moves no further than what is owed is good for.
LEMMA WorldReliance ==
  ASSUME Stalls = FALSE, TypeInv, RelianceInv, World
  PROVE  RelianceInv' /\ calls' = calls
<1>1. calls' = calls /\ consumed' = consumed
  BY DEF World, IssueChallenge, ClearSession, BindPrincipal, Revoke, Offboard,
         Approve, Refuse, Tick
<1>2. SpentKept' /\ AtMostOnceRelied'
  BY <1>1 DEF RelianceInv, SpentKept, AtMostOnceRelied, Spent
<1>3. CASE Tick
  <2>1. now' = now + 1 /\ now < Horizon /\ now \in Nat
    BY <1>3 DEF Tick, TypeInv, TypeOK
  <2>2. now' <= Horizon
    BY <2>1, EnforcerAssumption
  <2>3. \A c \in Calls : StillGood(c, now + 1)
    BY <1>3 DEF Tick
  <2>4. OwedLive'
    BY <1>1, <2>1, <2>3 DEF OwedLive, StillGood, Secs
  <2> QED
    BY <1>1, <1>2, <2>2, <2>4 DEF RelianceInv
<1>4. CASE now' = now
  <2>1. OwedLive'
    BY <1>1, <1>4 DEF RelianceInv, OwedLive, Secs
  <2> QED
    BY <1>1, <1>2, <1>4, <2>1 DEF RelianceInv
<1> QED
  BY <1>3, <1>4 DEF World, IssueChallenge, ClearSession, BindPrincipal, Revoke, Offboard,
                    Approve, Refuse

-----------------------------------------------------------------------------
LEMMA RelianceInit == Init => RelianceInv
<1> SUFFICES ASSUME Init PROVE RelianceInv
  OBVIOUS
<1>1. \A c \in Calls : calls[c] = Idle
  BY DEF Init
<1>2. \A c \in Calls : Spent(c) = {} /\ calls[c].owed = {}
  BY <1>1 DEF Spent, Idle
<1> QED
  BY <1>2, EnforcerAssumption DEF Init, RelianceInv, OwedLive, SpentKept, AtMostOnceRelied

\* Every step is one of these, and each keeps the invariant.
LEMMA StepCases ==
  ASSUME Stalls = FALSE, TypeInv, RelianceInv, [Next]_vars
  PROVE  \/ \E c \in Calls : \E call : Quiet(c, call)
         \/ \E c \in Calls : \E o : Commits(c, o)
         \/ RelianceInv' /\ calls' = calls
<1>1. CASE World
  BY <1>1, WorldReliance
<1>2. CASE Arrive
  BY <1>2, ArriveQuiet DEF Arrive
<1>3. ASSUME NEW c \in Calls, Advance(c)
      PROVE  \/ \E call : Quiet(c, call)
             \/ \E o : Commits(c, o)
  BY <1>3, AdvanceCases
<1>4. CASE UNCHANGED vars
  <2>1. calls' = calls /\ consumed' = consumed /\ now' = now
    BY <1>4 DEF vars
  <2>2. RelianceInv'
    BY <2>1 DEF RelianceInv, OwedLive, SpentKept, AtMostOnceRelied, Spent, Secs
  <2> QED
    BY <2>1, <2>2
<1> QED
  BY <1>1, <1>2, <1>3, <1>4 DEF Next

LEMMA RelianceNext ==
  ASSUME Stalls = FALSE, Ledger \in {"memory", "core"}
  PROVE  TypeInv /\ RelianceInv /\ [Next]_vars => RelianceInv'
<1> SUFFICES ASSUME TypeInv, RelianceInv, [Next]_vars PROVE RelianceInv'
  OBVIOUS
<1>1. TypeOK
  BY DEF TypeInv
<1> QED
  BY <1>1, StepCases, QuietReliance, CommitsInv

LEMMA RelianceAlways ==
  ASSUME Stalls = FALSE, Ledger \in {"memory", "core"}
  PROVE  Spec => [](TypeInv /\ RelianceInv)
<1>1. TypeInv /\ RelianceInv /\ [Next]_vars => RelianceInv'
  BY RelianceNext
<1> QED
  BY <1>1, InitInv, NextInv, RelianceInit, PTL DEF Spec

(***************************************************************************)
(* R10 for any number of calls, approvals and gates, and any interleaving  *)
(* of their stages: no approval is relied upon by two calls.  It assumes   *)
(* the ledger of one process (or the core's) and calls that do not outlast *)
(* the expiry they checked.                                                *)
(***************************************************************************)
THEOREM OnceOnly ==
  ASSUME Stalls = FALSE, Ledger \in {"memory", "core"}
  PROVE  Spec => []AtMostOnceRelied
<1>1. RelianceInv => AtMostOnceRelied
  BY DEF RelianceInv
<1> QED
  BY <1>1, RelianceAlways, PTL

(***************************************************************************)
(* An id the ledger was given is not forgotten while its evidence could    *)
(* still be verified.                                                      *)
(***************************************************************************)
THEOREM LedgerRemembers ==
  ASSUME Stalls = FALSE, Ledger \in {"memory", "core"}
  PROVE  Spec => []RememberedWhileVerifiable
<1>1. TypeInv /\ RelianceInv => RememberedWhileVerifiable
  BY SpentNotConsumable DEF TypeInv, RememberedWhileVerifiable
<1> QED
  BY <1>1, RelianceAlways, PTL

-----------------------------------------------------------------------------
(***************************************************************************)
(* The refinement of Reliance, step by step.                               *)
(***************************************************************************)
LEMMA PromiseInit == Init => Promise!Init
<1> SUFFICES ASSUME Init PROVE Promise!Init
  OBVIOUS
<1>1. \A c \in Calls : calls[c] = Idle
  BY DEF Init
<1>2. \A c \in Calls : Spent(c) = {} /\ calls[c].pc # "done"
  BY <1>1 DEF Spent, Idle
<1> QED
  BY <1>2 DEF Promise!Init

\* A stage settles the call or changes nothing the promise speaks of.
LEMMA QuietKeeps ==
  ASSUME TypeOK, NEW c \in Calls, NEW call, Quiet(c, call)
  PROVE  [Promise!Next]_(Promise!vars)
<1>1. calls' = [calls EXCEPT ![c] = call] /\ calls \in [Calls -> Call]
  BY DEF Quiet, Become, TypeOK
<1>2. \A d \in Calls : Spent(d)' = Spent(d)
  BY <1>1 DEF Quiet, Spent
<1> DEFINE settled == {d \in Calls : calls[d].pc = "done"}
<1>3. settled' = IF call.pc = "done" THEN settled \cup {c} ELSE settled
  <2>1. calls[c].pc # "done" /\ calls'[c] = call /\ \A d \in Calls : d # c => calls'[d] = calls[d]
    BY <1>1 DEF Quiet
  <2> QED
    BY <2>1
<1>4. [d \in Calls |-> Spent(d)]' = [d \in Calls |-> Spent(d)]
  BY <1>2
<1>5. c \notin settled
  BY DEF Quiet
<1>6. CASE call.pc = "done"
  <2>1. Promise!Settle(c)
    BY <1>3, <1>4, <1>5, <1>6 DEF Promise!Settle
  <2> QED
    BY <2>1 DEF Promise!Next
<1>7. CASE call.pc # "done"
  BY <1>3, <1>4, <1>7 DEF Promise!vars
<1> QED
  BY <1>6, <1>7

\* A commit is the abstract Rely.
LEMMA CommitKeeps ==
  ASSUME TypeOK, RelianceInv, NEW c \in Calls, NEW o, Commits(c, o)
  PROVE  Promise!Next
<1>1. /\ o[2] \in Evidence
      /\ \A d \in Calls : o[2] \notin Spent(d)
      /\ Spent(c)' = Spent(c) \cup {o[2]}
      /\ \A d \in Calls : d # c => Spent(d)' = Spent(d)
  BY CommitsOnce
<1>2. /\ calls[c].pc = "commit" /\ calls \in [Calls -> Call]
      /\ calls' = [calls EXCEPT ![c] = [calls[c] EXCEPT !.owed = @ \ {o}, !.spent = @ \cup {o}]]
  BY DEF Commits, Become, TypeOK
<1>3. \A d \in Calls : calls'[d].pc = calls[d].pc
  BY <1>2 DEF Call
<1>4. {d \in Calls : calls[d].pc = "done"}' = {d \in Calls : calls[d].pc = "done"}
  BY <1>3
<1>5. [d \in Calls |-> Spent(d)]'
        = [[d \in Calls |-> Spent(d)] EXCEPT ![c] = @ \cup {o[2]}]
  BY <1>1
<1>6. c \notin {d \in Calls : calls[d].pc = "done"}
  BY <1>2
<1>7. Promise!Rely(c, o[2])
  BY <1>1, <1>4, <1>5, <1>6 DEF Promise!Rely
<1> QED
  BY <1>1, <1>7 DEF Promise!Next

LEMMA StepKeeps ==
  ASSUME Stalls = FALSE
  PROVE  TypeInv /\ RelianceInv /\ [Next]_vars => [Promise!Next]_(Promise!vars)
<1> SUFFICES ASSUME TypeInv, RelianceInv, [Next]_vars PROVE [Promise!Next]_(Promise!vars)
  OBVIOUS
<1>1. TypeOK
  BY DEF TypeInv
<1>2. ASSUME calls' = calls PROVE UNCHANGED Promise!vars
  BY <1>2 DEF Promise!vars, Spent
<1> QED
  BY <1>1, <1>2, StepCases, QuietKeeps, CommitKeeps

(***************************************************************************)
(* The enforcement pipeline implements the abstract promise about human    *)
(* approvals: each commit is one Rely, each verdict one Settle.            *)
(***************************************************************************)
THEOREM Refinement ==
  ASSUME Stalls = FALSE, Ledger \in {"memory", "core"}
  PROVE  Spec => KeepsPromise
<1>1. TypeInv /\ RelianceInv /\ [Next]_vars => [Promise!Next]_(Promise!vars)
  BY StepKeeps
<1> QED
  BY <1>1, RelianceAlways, PromiseInit, PTL DEF Spec, KeepsPromise, Promise!Spec
=============================================================================
