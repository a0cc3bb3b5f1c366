------------------------------ MODULE Enforcer ------------------------------
(***************************************************************************)
(* The MCP policy enforcement point of agentcreds-runtime: what            *)
(* Enforcer.authorize does with concurrent calls, the stores it shares     *)
(* with other threads and replicas (session, replay guard, ledger of       *)
(* approvals, usage counters, step-up desk), and the clock they expire by. *)
(*                                                                         *)
(* Each access to a store is one step of a call; what lies between two     *)
(* accesses uses the call's own data only.  pc names the stage a call      *)
(* enters next.  One clock stands for wall and monotonic time: now counts  *)
(* ticks, Res of them to a second.                                         *)
(***************************************************************************)
EXTENDS Integers, Sequences, FiniteSets

CONSTANTS
  Calls,        \* the invocations of authorize, each used once
  Sessions, Principals, Agents, Tools, Approvers,
  Tokens,       \* the delegation tokens in circulation
  Evidence,     \* the approval evidence in circulation
  Encodings,    \* the byte strings that decode to one presentation
  Carried,      \* the bundles of evidence clients carry
  GateKinds,    \* gate kinds tokens designate
  Recognized,   \* recognized_gate_kinds
  Flagged,      \* tools the approval policy holds for a human
  RequireBinding, \* require_argument_binding
  Guarded,      \* a replay guard is configured
  ReplayTtl,    \* its ttl_secs
  MaxAge,       \* max_age_secs
  SessionTtl,   \* session_ttl_secs
  Ledger,       \* "memory", "redis" or "core": which consumed_approvals
  Limit,        \* calls an agent is allowed (one lifetime usage rule)
  Timeout,      \* approval_timeout_secs
  GrantTtl,     \* grant_ttl_secs of the step-up desk
  MayFail,      \* the services that may fail
  FailOpen,     \* those configured to fail open
  Stalls,       \* may a call outlast what it has already checked
  Res,          \* ticks per second
  Horizon,      \* bound of the clock, in ticks
  MaxNonces,    \* bound on the challenges issued
  None          \* Python's None

Optional(S) == S \cup {None}
ApprovalKey == "approval-key"
Services == {"revocation", "directory", "policy", "usage", "approval"}

Token == [agent: Agents, tools: SUBSET Tools, principal: Optional(Principals),
          gates: SUBSET (GateKinds \X Tools), expires: Nat]

\* approver is None for evidence the organization's anchor signed.
EvidenceType == [id: Nat, tool: Tools, principal: Optional(Principals),
                 approver: Optional(Approvers), expires: Nat]

\* A presentation as it is received: tool is the request the proof is bound to,
\* None for an unbound proof; encoding tells apart the byte strings that carry
\* this proof (trailing bytes, unknown fields and the hop view are not signed).
Presentation == [nonce: Nat, tool: Optional(Tools), token: Tokens, encoding: Encodings]

ASSUME EnforcerAssumption ==
  /\ Tokens \subseteq Token
  /\ Evidence \subseteq EvidenceType
  /\ Carried \subseteq SUBSET Evidence
  /\ \A c \in Calls : c \notin Evidence
  /\ None \notin Principals \cup Tools \cup Approvers \cup Nat
  /\ RequireBinding \in BOOLEAN /\ Guarded \in BOOLEAN /\ Stalls \in BOOLEAN
  /\ {ReplayTtl, MaxAge, SessionTtl, Limit, Timeout, GrantTtl} \subseteq Nat
  /\ Ledger \in {"memory", "redis", "core"}
  /\ Res \in Nat \ {0} /\ Horizon \in Nat /\ MaxNonces \in Nat
  /\ FailOpen \subseteq MayFail /\ MayFail \subseteq Services

VARIABLES
  now,
  issued,     \* every challenge: its session and when it was issued
  challenge,  \* the session store: the session's current challenge
  principal,  \* the session store: the principal bound to the session
  revoked,    \* tokens whose credential is revoked
  directory,  \* the approvers enrolled now
  replayed,   \* the replay guard: byte strings and when they are forgotten
  consumed,   \* the ledger: when each relied-upon approval is forgotten
  usage,      \* the usage store: calls counted per agent
  stepup,     \* the step-up desk: what became of each held call
  calls       \* the authorize invocations

session == <<issued, challenge, principal>>
external == <<revoked, directory>>
vars == <<now, session, external, replayed, consumed, usage, stepup, calls>>

Stages == {"idle", "principal", "verify", "replay", "revocation", "gates",
           "policy", "usage", "charge", "hold", "wait", "commit", "done"}
Verdicts == {"none", "allow", "no_challenge", "unbound", "possession", "replay",
             "revoked", "approval", "policy", "quota", "consumed"}

\* owed: the evidence gates matched and still to be committed; spent: the
\* evidence committed.  judged, charged and tainted are history: the principals
\* the later gates were shown, whether usage was counted, and whether the
\* credential was revoked when the call arrived.
Call == [pc: Stages, session: Optional(Sessions), tool: Optional(Tools),
         shown: Optional(Presentation), carried: SUBSET Evidence,
         challenge: Nat, actingFor: Optional(Principals),
         owed: SUBSET (GateKinds \X Evidence), spent: SUBSET (GateKinds \X Evidence),
         since: Nat, deadline: Nat, verdict: Verdicts,
         judged: SUBSET Optional(Principals), fresh: BOOLEAN,
         charged: BOOLEAN, tainted: BOOLEAN]

Idle == [pc |-> "idle", session |-> None, tool |-> None, shown |-> None,
         carried |-> {}, challenge |-> 0, actingFor |-> None, owed |-> {},
         spent |-> {}, since |-> 0, deadline |-> 0, verdict |-> "none",
         judged |-> {}, fresh |-> FALSE, charged |-> FALSE, tainted |-> FALSE]

-------------------------------------------------------------------------------
(***************************************************************************)
(* Time and the stores.                                                    *)
(***************************************************************************)
Secs(t) == t \div Res
AtLeast(a, b) == IF a >= b THEN a ELSE b
Capped(t) == IF t <= Horizon THEN t ELSE Horizon

\* An entry of a TTL store is gone from the instant it expires.
Live(entry) == entry # None /\ now < entry.until

Stored(value) == [value |-> value, until |-> now + SessionTtl * Res]
Read(entry) == IF Live(entry) THEN entry.value ELSE None

PrincipalFor(s) == Read(principal[s])

\* Faulty: every approval is remembered for one second.
FixedTtl(expires) == now + Res

\* When the ledger forgets an approval committed now: InMemoryConsumedApprovals
\* at the evidence's expiry, RedisConsumedApprovals after whole seconds (at
\* least one), the core's ConsumedApprovals never.
ForgottenAt(expires) ==
  CASE Ledger = "memory" -> now + AtLeast(0, expires * Res - now)
    [] Ledger = "redis"  -> now + Res * AtLeast(1, (expires * Res - now) \div Res)
    [] Ledger = "core"   -> Horizon + 1

Remembers(id) == consumed[id] > now

\* Faulty: the ledger's answer is not looked at.
AlwaysFresh(id) == TRUE

Consumable(id) == ~Remembers(id)

-------------------------------------------------------------------------------
(***************************************************************************)
(* The session lifecycle and the world outside a call.                     *)
(***************************************************************************)
\* issue_challenge, and rotate_challenge, its alias.
IssueChallenge(s) ==
  /\ Len(issued) < MaxNonces
  /\ issued' = Append(issued, [session |-> s, at |-> now])
  /\ challenge' = [challenge EXCEPT ![s] = Stored(Len(issued) + 1)]
  /\ UNCHANGED <<now, principal, external, replayed, consumed, usage, stepup, calls>>

BindPrincipal(s, p) ==
  /\ principal' = [principal EXCEPT ![s] = Stored(p)]
  /\ UNCHANGED <<now, issued, challenge, external, replayed, consumed, usage, stepup, calls>>

ClearSession(s) ==
  /\ challenge' = [challenge EXCEPT ![s] = None]
  /\ principal' = [principal EXCEPT ![s] = None]
  /\ UNCHANGED <<now, issued, external, replayed, consumed, usage, stepup, calls>>

Revoke(t) ==
  /\ revoked' = revoked \cup {t}
  /\ UNCHANGED <<now, session, directory, replayed, consumed, usage, stepup, calls>>

\* An approver leaves, and the directory source serves the new directory.
Offboard(a) ==
  /\ a \in directory
  /\ directory' = directory \ {a}
  /\ UNCHANGED <<now, session, revoked, replayed, consumed, usage, stepup, calls>>

\* The operator, through the step-up desk; either answer may replace the other.
Approve(c) ==
  /\ calls[c].pc = "wait"
  /\ stepup' = [stepup EXCEPT ![c] =
                  [status |-> "approved", expires |-> Secs(now) + GrantTtl]]
  /\ UNCHANGED <<now, session, external, replayed, consumed, usage, calls>>

Refuse(c) ==
  /\ calls[c].pc = "wait"
  /\ stepup' = [stepup EXCEPT ![c] = [status |-> "denied", expires |-> 0]]
  /\ UNCHANGED <<now, session, external, replayed, consumed, usage, calls>>

\* What a call has checked and not yet recorded is still good at time t: the
\* proof it showed is fresh, the evidence it was gated on has not expired.
StillGood(c, t) ==
  /\ calls[c].pc = "replay" => Secs(t - issued[calls[c].shown.nonce].at) <= MaxAge
  /\ calls[c].pc # "done" => \A o \in calls[c].owed : Secs(t) < o[2].expires

\* Unless Stalls, no call takes so long that the clock overtakes its checks.
Tick ==
  /\ now < Horizon
  /\ Stalls \/ \A c \in Calls : StillGood(c, now + 1)
  /\ now' = now + 1
  /\ UNCHANGED <<session, external, replayed, consumed, usage, stepup, calls>>

-------------------------------------------------------------------------------
(***************************************************************************)
(* authorize, one stage at a time.                                         *)
(***************************************************************************)
Become(c, call) == calls' = [calls EXCEPT ![c] = call]
Proceed(c, stage) == Become(c, [calls[c] EXCEPT !.pc = stage])
\* _finish with a denying Decision.
Deny(c, code) == Become(c, [calls[c] EXCEPT !.pc = "done", !.verdict = code])

\* A service call of this stage raises: deny, or carry on if it fails open.
Fault(c, call, service, code, stage) ==
  /\ service \in MayFail
  /\ Become(c, IF service \in FailOpen
                 THEN [call EXCEPT !.pc = stage]
                 ELSE [call EXCEPT !.pc = "done", !.verdict = code])

Receive(c, s, tool, shown, carried) ==
  LET call == [Idle EXCEPT !.session = s, !.tool = tool, !.shown = shown,
                           !.carried = carried, !.tainted = shown.token \in revoked]
  IN
  /\ calls[c].pc = "idle"
  /\ \/ /\ ~Live(challenge[s])
        /\ Become(c, [call EXCEPT !.pc = "done", !.verdict = "no_challenge"])
     \/ /\ Live(challenge[s])
        /\ RequireBinding /\ shown.tool = None
        /\ Become(c, [call EXCEPT !.pc = "done", !.verdict = "unbound"])
     \/ /\ Live(challenge[s])
        /\ RequireBinding => shown.tool # None
        /\ Become(c, [call EXCEPT !.pc = "principal", !.challenge = challenge[s].value])
  /\ UNCHANGED <<now, session, external, replayed, consumed, usage, stepup>>

ReadPrincipal(c) ==
  /\ calls[c].pc = "principal"
  /\ Become(c, [calls[c] EXCEPT !.pc = "verify",
                                !.actingFor = PrincipalFor(calls[c].session)])
  /\ UNCHANGED <<now, session, external, replayed, consumed, usage, stepup>>

\* The delegation token's own verdict on the action (module Delegation).
TokenGrants(token, tool, actingFor) ==
  /\ tool \in token.tools
  /\ Secs(now) <= token.expires
  /\ token.principal # None => actingFor = token.principal

Age(nonce) == Secs(now - issued[nonce].at)

\* ProofOfPossession::verify_at: the challenge is the one issued, and fresh.
Possesses(shown, nonce) ==
  /\ shown.nonce = nonce
  /\ Age(nonce) <= MaxAge

\* Presentation::verify.
Verified(call) ==
  /\ TokenGrants(call.shown.token, call.tool, call.actingFor)
  /\ Possesses(call.shown, call.challenge)
  /\ call.shown.tool # None => call.shown.tool = call.tool

Verify(c) ==
  /\ calls[c].pc = "verify"
  /\ IF Verified(calls[c]) THEN Proceed(c, "replay") ELSE Deny(c, "possession")
  /\ UNCHANGED <<now, session, external, replayed, consumed, usage, stepup>>

\* Faulty: forgets a second early.
SeenBriefly(shown) == shown \in DOMAIN replayed /\ replayed[shown] > now + Res

Seen(shown) == shown \in DOMAIN replayed /\ replayed[shown] > now

\* Recorded after verify, before revocation and the gates.  The key is a hash of
\* the bytes received, so another encoding of the same proof is another key.
RecordIfNew(c) ==
  LET shown == calls[c].shown IN
  /\ calls[c].pc = "replay"
  /\ \/ /\ ~Guarded
        /\ Proceed(c, "revocation")
        /\ UNCHANGED replayed
     \/ /\ Guarded
        /\ Seen(shown)
        /\ Deny(c, "replay")
        /\ UNCHANGED replayed
     \/ /\ Guarded
        /\ ~Seen(shown)
        /\ Become(c, [calls[c] EXCEPT !.pc = "revocation", !.fresh = TRUE])
        /\ replayed' = [p \in DOMAIN replayed \cup {shown} |->
                          IF p = shown THEN now + ReplayTtl * Res ELSE replayed[p]]
  /\ UNCHANGED <<now, session, external, consumed, usage, stepup>>

\* Faulty: the status list is not consulted.
NeverRevoked(token) == FALSE

IsRevoked(token) == token \in revoked

CheckRevocation(c) ==
  /\ calls[c].pc = "revocation"
  /\ \/ IF IsRevoked(calls[c].shown.token) THEN Deny(c, "revoked") ELSE Proceed(c, "gates")
     \/ Fault(c, calls[c], "revocation", "revoked", "gates")
  /\ UNCHANGED <<now, session, external, replayed, consumed, usage, stepup>>

\* Faulty: evidence for the right tool will do, whoever it was given for.
MatchesTool(e, kind, call) ==
  /\ e.tool = call.tool
  /\ Secs(now) < e.expires
  /\ IF kind = ApprovalKey THEN e.approver \in directory ELSE e.approver = None

\* ApprovalEvidence::verify and verify_with_directory: bound to this action and
\* principal, unexpired, signed by the anchor or by an enrolled approver.
Matches(e, kind, call) ==
  /\ e.tool = call.tool
  /\ e.principal = call.actingFor
  /\ Secs(now) < e.expires
  /\ IF kind = ApprovalKey THEN e.approver \in directory ELSE e.approver = None

Designating(call) == {k \in GateKinds : <<k, call.tool>> \in call.shown.token.gates}

\* Faulty: matching evidence already counts as relying on it.
MatchedAndSpent(call, pairs) == [call EXCEPT !.pc = "policy", !.spent = pairs]

Matched(call, pairs) == [call EXCEPT !.pc = "policy", !.owed = pairs]

\* _deny_if_gated: every gate designating the tool takes some evidence it
\* accepts; nothing is committed yet.
CheckGates(c) ==
  LET call == calls[c]
      kinds == Designating(call)
      accepted(k) == {e \in call.carried : Matches(e, k, call)}
  IN
  /\ call.pc = "gates"
  /\ \/ /\ \E k \in kinds : k \notin Recognized \/ accepted(k) = {}
        /\ Deny(c, "approval")
     \/ /\ "directory" \in MayFail
        /\ ApprovalKey \in kinds
        /\ Deny(c, "approval")
     \/ /\ kinds \subseteq Recognized
        /\ \E choice \in [kinds -> call.carried] :
             /\ \A k \in kinds : choice[k] \in accepted(k)
             /\ Become(c, Matched(call, {<<k, choice[k]>> : k \in kinds}))
  /\ UNCHANGED <<now, session, external, replayed, consumed, usage, stepup>>

\* The principal is read from the session again for each later gate.
Judging(c, stage) ==
  [calls[c] EXCEPT !.pc = stage,
                   !.judged = @ \cup {PrincipalFor(calls[c].session)}]

\* The policy hook may refuse any call.
CheckPolicy(c) ==
  /\ calls[c].pc = "policy"
  /\ \/ Become(c, Judging(c, "usage"))
     \/ Become(c, [Judging(c, "done") EXCEPT !.verdict = "policy"])
     \/ Fault(c, Judging(c, "policy"), "policy", "policy", "usage")
  /\ UNCHANGED <<now, session, external, replayed, consumed, usage, stepup>>

\* usage_gate, phase one: compare the counter with the limit.
CheckUsage(c) ==
  /\ calls[c].pc = "usage"
  /\ \/ IF usage[calls[c].shown.token.agent] + 1 <= Limit
          THEN Become(c, Judging(c, "charge"))
          ELSE Become(c, [Judging(c, "done") EXCEPT !.verdict = "quota"])
     \/ Fault(c, Judging(c, "usage"), "usage", "quota", "hold")
  /\ UNCHANGED <<now, session, external, replayed, consumed, usage, stepup>>

\* usage_gate, phase two: add.
ChargeUsage(c) ==
  /\ calls[c].pc = "charge"
  /\ Become(c, [calls[c] EXCEPT !.pc = "hold", !.charged = TRUE])
  /\ usage' = [usage EXCEPT ![calls[c].shown.token.agent] = @ + 1]
  /\ UNCHANGED <<now, session, external, replayed, consumed, stepup>>

\* _hold_for_approval: a flagged call is registered with the desk and waits.
\* since is the `now` its evidence will be judged at.
HoldForApproval(c) ==
  /\ calls[c].pc = "hold"
  /\ \/ /\ calls[c].tool \notin Flagged
        /\ Become(c, Judging(c, "commit"))
        /\ UNCHANGED stepup
     \/ /\ calls[c].tool \in Flagged
        /\ Become(c, [Judging(c, "wait") EXCEPT !.since = Secs(now),
                                                !.deadline = Capped(now + Timeout * Res)])
        /\ stepup' = [stepup EXCEPT ![c] = [status |-> "pending", expires |-> 0]]
     \/ /\ Fault(c, Judging(c, "hold"), "approval", "approval", "commit")
        /\ UNCHANGED stepup
  /\ UNCHANGED <<now, session, external, replayed, consumed, usage>>

\* Faulty: the loop goes on past its deadline.
NeverTimesOut(c) == FALSE

TimedOut(c) == now >= calls[c].deadline

\* Faulty: a call nobody answered goes ahead.
GoAhead(c) == Proceed(c, "commit")

GiveUp(c) == Deny(c, "approval")

\* One turn of the poll loop; a pending call before its deadline sleeps.
PollApproval(c) ==
  LET answer == stepup[c] IN
  /\ calls[c].pc = "wait"
  /\ \/ /\ answer.status = "approved"
        /\ calls[c].since < answer.expires
        /\ Consumable(c)
        /\ consumed' = [consumed EXCEPT ![c] = ForgottenAt(answer.expires)]
        /\ Proceed(c, "commit")
     \/ /\ answer.status = "approved"
        /\ calls[c].since >= answer.expires \/ ~Consumable(c)
        /\ Deny(c, "approval")
        /\ UNCHANGED consumed
     \/ /\ answer.status = "denied"
        /\ Deny(c, "approval")
        /\ UNCHANGED consumed
     \/ /\ answer.status = "pending"
        /\ TimedOut(c)
        /\ GiveUp(c)
        /\ UNCHANGED consumed
     \/ /\ Fault(c, calls[c], "approval", "approval", "commit")
        /\ UNCHANGED consumed
  /\ UNCHANGED <<now, session, external, replayed, usage, stepup>>

\* The commit loop: one approval a step, then the allowing Decision.
CommitReliance(c) ==
  /\ calls[c].pc = "commit"
  /\ \/ /\ calls[c].owed = {}
        /\ Become(c, [calls[c] EXCEPT !.pc = "done", !.verdict = "allow"])
        /\ UNCHANGED consumed
     \/ \E o \in calls[c].owed :
          /\ Consumable(o[2])
          /\ consumed' = [consumed EXCEPT ![o[2]] = ForgottenAt(o[2].expires)]
          /\ Become(c, [calls[c] EXCEPT !.owed = @ \ {o}, !.spent = @ \cup {o}])
     \/ \E o \in calls[c].owed :
          /\ ~Consumable(o[2])
          /\ Deny(c, "consumed")
          /\ UNCHANGED consumed
  /\ UNCHANGED <<now, session, external, replayed, usage, stepup>>

Advance(c) ==
  \/ ReadPrincipal(c) \/ Verify(c) \/ RecordIfNew(c) \/ CheckRevocation(c)
  \/ CheckGates(c) \/ CheckPolicy(c) \/ CheckUsage(c) \/ ChargeUsage(c)
  \/ HoldForApproval(c) \/ PollApproval(c) \/ CommitReliance(c)

\* Any holder can prove possession for any challenge it was handed.
Presented(shown) == shown.nonce \in DOMAIN issued

Presentations ==
  [nonce: 1..MaxNonces, tool: Optional(Tools), token: Tokens, encoding: Encodings]

Init ==
  /\ now = 0
  /\ issued = <<>>
  /\ challenge = [s \in Sessions |-> None]
  /\ principal = [s \in Sessions |-> None]
  /\ revoked = {}
  /\ directory = Approvers
  /\ replayed = <<>>
  /\ consumed = [id \in Evidence \cup Calls |-> 0]
  /\ usage = [a \in Agents |-> 0]
  /\ stepup = [c \in Calls |-> [status |-> "none", expires |-> 0]]
  /\ calls = [c \in Calls |-> Idle]

World ==
  \/ \E s \in Sessions : IssueChallenge(s) \/ ClearSession(s)
  \/ \E s \in Sessions, p \in Principals : BindPrincipal(s, p)
  \/ \E t \in Tokens : Revoke(t)
  \/ \E a \in Approvers : Offboard(a)
  \/ \E c \in Calls : Approve(c) \/ Refuse(c)
  \/ Tick

Arrive ==
  \E c \in Calls, s \in Sessions, tool \in Tools, shown \in Presentations, carried \in Carried :
    Presented(shown) /\ Receive(c, s, tool, shown, carried)

Next == World \/ Arrive \/ \E c \in Calls : Advance(c)

Spec == Init /\ [][Next]_vars

\* Threads run, the poll loop polls, and the clock does not stop.
Fairness == WF_vars(Tick) /\ \A c \in Calls : WF_vars(Advance(c))

FairSpec == Spec /\ Fairness

-------------------------------------------------------------------------------
TypeOK ==
  /\ now \in Nat
  /\ issued \in Seq([session: Sessions, at: Nat])
  /\ challenge \in [Sessions -> Optional([value: Nat, until: Nat])]
  /\ principal \in [Sessions -> Optional([value: Principals, until: Nat])]
  /\ revoked \subseteq Tokens
  /\ directory \subseteq Approvers
  /\ DOMAIN replayed \subseteq Presentation
  /\ replayed \in [DOMAIN replayed -> Nat]
  /\ consumed \in [Evidence \cup Calls -> Nat]
  /\ usage \in [Agents -> Nat]
  /\ stepup \in [Calls -> [status: {"none", "pending", "approved", "denied"}, expires: Nat]]
  /\ calls \in [Calls -> Call]

Spent(c) == {o[2] : o \in calls[c].spent}
Admitted(c) == calls[c].verdict = "allow"
Denied(c) == calls[c].verdict \notin {"none", "allow"}

(***************************************************************************)
(* R10: an approval is relied upon "at most once", whatever calls race for *)
(* it and however their stages interleave.                                 *)
(***************************************************************************)
AtMostOnceRelied ==
  \A c, d \in Calls : c # d => Spent(c) \cap Spent(d) = {}

(***************************************************************************)
(* _commit_reliance: an id is "never forgotten while the evidence is still *)
(* verifiable".                                                            *)
(***************************************************************************)
RememberedWhileVerifiable ==
  \A c \in Calls : \A e \in Spent(c) : Secs(now) < e.expires => Remembers(e)

(***************************************************************************)
(* An admitted call was proved for this session and this tool, by a token  *)
(* that grants it for the session's principal, and for every gate on the   *)
(* tool it spent evidence of that kind given for that tool and principal.  *)
(***************************************************************************)
AdmissionIsAuthorized ==
  \A c \in Calls : LET call == calls[c] IN
    Admitted(c) =>
      /\ issued[call.shown.nonce].session = call.session
      /\ call.tool \in call.shown.token.tools
      /\ call.shown.token.principal \in {None, call.actingFor}
      /\ \A k \in Designating(call) : \E o \in call.spent :
           /\ o[1] = k
           /\ o[2].tool = call.tool /\ o[2].principal = call.actingFor
           /\ k = ApprovalKey <=> o[2].approver # None

(***************************************************************************)
(* "a downstream denial (policy, usage, step-up) cannot burn valid         *)
(* evidence": only losing the commit itself leaves evidence spent.         *)
(***************************************************************************)
DownstreamDenialBurnsNothing ==
  \A c \in Calls : Denied(c) /\ calls[c].verdict # "consumed" => calls[c].spent = {}

(***************************************************************************)
(* _deny_if_gated: one-time reliance is committed "only after every gate   *)
(* has passed, so a downstream denial never consumes valid evidence".      *)
(***************************************************************************)
DenialBurnsNothing == \A c \in Calls : Denied(c) => calls[c].spent = {}

(***************************************************************************)
(* The replay guard: whichever calls carry them, the same bytes are let    *)
(* past it once for as long as the proof in them is fresh.                 *)
(***************************************************************************)
SingleUse ==
  \A c, d \in Calls :
    c # d /\ calls[c].fresh /\ calls[d].fresh => calls[c].shown # calls[d].shown

(***************************************************************************)
(* "a verified presentation may be admitted only once", said of the proof  *)
(* and not of the bytes it came in.                                        *)
(***************************************************************************)
Proof(shown) == <<shown.nonce, shown.tool, shown.token>>

ProofSingleUse ==
  \A c, d \in Calls :
    c # d /\ calls[c].fresh /\ calls[d].fresh =>
      Proof(calls[c].shown) # Proof(calls[d].shown)

(***************************************************************************)
(* A credential revoked before the call arrived is refused, whatever the   *)
(* other gates do, unless revocation fails open.                           *)
(***************************************************************************)
RevokedIsRefused ==
  "revocation" \notin FailOpen => \A c \in Calls : calls[c].tainted => ~Admitted(c)

(***************************************************************************)
(* No call is admitted on a credential that is revoked by then, however    *)
(* long it was held after revocation was asked about.                      *)
(***************************************************************************)
AdmittedIsUnrevoked ==
  [][\A c \in Calls : Admitted(c)' /\ ~Admitted(c) =>
       calls[c].shown.token \notin revoked]_vars

(***************************************************************************)
(* The step-up hold: a flagged call is admitted only on an operator's      *)
(* standing approval, unless the desk's failures fail open.                *)
(***************************************************************************)
FlaggedNeedsApproval ==
  "approval" \notin FailOpen => \A c \in Calls :
    Admitted(c) /\ calls[c].tool \in Flagged => stepup[c].status = "approved"

(***************************************************************************)
(* Every call gets a verdict, although a flagged call blocks on a human.   *)
(***************************************************************************)
EveryCallDecided ==
  \A c \in Calls : calls[c].pc # "idle" ~> calls[c].pc = "done"

(***************************************************************************)
(* usage_gate "runs as the final gate" and "a denied call is never         *)
(* charged".                                                               *)
(***************************************************************************)
DeniedNeverCharged == \A c \in Calls : Denied(c) => ~calls[c].charged

(***************************************************************************)
(* PolicyInput.principal is the "OIDC-bound acting_for DID": what the      *)
(* policy, usage and step-up gates judge is what the token was verified    *)
(* for.                                                                    *)
(***************************************************************************)
GatesJudgeActingFor == \A c \in Calls : calls[c].judged \subseteq {calls[c].actingFor}

(***************************************************************************)
(* "Evidence at or after this instant is refused": no step-up approval is  *)
(* accepted once it has expired.                                           *)
(***************************************************************************)
StepUpEvidenceIsLive ==
  [][\A c \in Calls :
       calls[c].pc = "wait" /\ calls'[c].pc = "commit" => Secs(now) < stepup[c].expires]_vars

(***************************************************************************)
(* The enforcer keeps the abstract promise about approvals.                *)
(***************************************************************************)
Promise == INSTANCE Reliance WITH
  Callers <- Calls, Approvals <- Evidence,
  reliance <- [c \in Calls |-> Spent(c)],
  settled <- {c \in Calls : calls[c].pc = "done"}

KeepsPromise == Promise!Spec
===============================================================================
