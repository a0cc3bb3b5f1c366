----------------------------- MODULE A2AVerifier -----------------------------
(***************************************************************************)
(* The receiver of agent-to-agent messages (a2a.py, a2a.rs).  The sender   *)
(* is not called back: it makes its own challenge, so a header is fresh    *)
(* for max_age_secs and single use rests on the replay guard alone.  The   *)
(* human behind a message is whoever an OIDC provider says (oidc.rs), not  *)
(* whoever the sender says.                                                *)
(*                                                                         *)
(* A call decides everything that needs only the envelope, the keys and    *)
(* the clock in one step; each store it then asks, and each hook it calls  *)
(* with its decision, is a step of its own, and a hook may raise.          *)
(* The clock counts ticks, Res of them to a second.                        *)
(***************************************************************************)
EXTENDS AdrStream, Oidc, FiniteSets

CONSTANTS
  Calls,        \* invocations of authorize_envelope
  Audience,     \* this receiver
  Issuers,      \* whose credentials it trusts
  Envelopes,    \* what senders send
  Encodings,    \* texts that decode to one header: a base64 body, CBOR with a tail
  Configs,      \* verifier configurations
  MaxAge, FutureSkew,      \* freshness of a challenge, in seconds
  Margin, Floor,           \* of the default guard's memory, in seconds
  Delay,                   \* ticks a call may take from its checks to the guard
  Res, Horizon, MaxLives   \* bounds: ticks per second, the clock, processes

\* A proof covers the token, the audience, the time in whole seconds and, if
\* bound, the tool and one spelling of the arguments.  A header is a token with a
\* proof; None stands for an envelope in which one is missing or does not decode.
Text == [args: STRING, profile: STRING]
Proof == [token: STRING, signer: STRING, audience: STRING, at: Nat,
          tool: STRING, bound: Text \cup {None}]

\* The codes of a decision.
Verdicts == {"allow", "malformed", "canon_profile", "bound_args", "args_mismatch", "unbound",
             "untrusted_issuer", "possession", "not_authorized", "principal", "replay", "gates"}

ASSUME A2AAssumption ==
  /\ Configs \subseteq [octets: BOOLEAN, binding: BOOLEAN, declare: BOOLEAN,
                        guard: {"memory", "shared"}]
  /\ {MaxAge, FutureSkew, Margin, Floor, Delay, Horizon, MaxLives} \subseteq Nat
  /\ Res \in Nat \ {0}
  /\ None \notin Verdicts
  /\ \A e \in Envelopes : e.header # None => e.header.proof \in Proof

VARIABLES
  now,
  config,     \* chosen once
  life,       \* how many times the receiver has been started
  seen,       \* the replay guard: when it forgets a header
  stream,     \* the decision stream of this process
  delivered,  \* the records its sink took, in that order
  calls

vars == <<now, config, life, seen, stream, delivered, calls>>

Headers == {e.header : e \in {f \in Envelopes : f.header # None}}

\* Faulty: one message for each token.
KeyOfToken(h, x) == h.token

\* The fingerprint of the header's text, not of what it decodes to.
GuardKey(h, x) == <<h, x>>

NothingSeen == [k \in {GuardKey(h, x) : h \in Headers, x \in Encodings} |-> 0]
Profile == IF config.octets THEN "octets" ELSE "jcs"

Idle == [pc |-> "idle", env |-> None, encoding |-> None, at |-> 0, acting |-> None, life |-> 0,
         counted |-> FALSE, verdict |-> None, record |-> None, bound |-> None]

-------------------------------------------------------------------------------
(***************************************************************************)
(* The human: principal_resolver_from_oidc.                                *)
(***************************************************************************)
\* Faulty: the human is the one the token names, whoever signed it.
NamedPrincipal(t) == t.sub

PrincipalResolver(t) == IF ValidateIdToken(t, now \div Res, None) THEN t.sub ELSE None

-------------------------------------------------------------------------------
(***************************************************************************)
(* What the envelope alone decides.  A denial is its code, None is none.   *)
(***************************************************************************)
\* num_seconds truncates towards zero.
NumSeconds(d) == IF d >= 0 THEN d \div Res ELSE -((-d) \div Res)
Fresh(p) == NumSeconds(now - p.at) \in -FutureSkew..MaxAge

\* The text the receiver computes the binding over: its own, or the carried one.
BindingText(e) == IF config.octets THEN e.carried ELSE [args |-> e.args, profile |-> "jcs"]

Unbound(h) == h.proof.bound = None

CanonMismatch(e) ==
  /\ ~Unbound(e.header)
  /\ e.declared # Profile
  /\ e.declared = None => config.declare

ProofVerifies(h) ==
  /\ Fresh(h.proof)
  /\ h.proof.token = h.token.id
  /\ h.proof.signer = h.token.leaf

Bound(e) == ~Unbound(e.header)
               => <<e.header.proof.tool, e.header.proof.bound>> = <<e.tool, BindingText(e)>>

\* The token's principal, if it has one, is the human that was verified.
PrincipalMatches(h, acting) == h.token.principal # None => h.token.principal = acting

\* authorize up to the replay guard, in the order of its early returns.
LocalDenial(e, acting) ==
  IF e.header = None                               THEN "malformed"
  ELSE IF CanonMismatch(e)                         THEN "canon_profile"
  ELSE IF config.octets /\ e.carried = None        THEN "bound_args"
  ELSE IF config.octets /\ e.carried.args # e.args THEN "args_mismatch"
  ELSE IF config.binding /\ Unbound(e.header)      THEN "unbound"
  ELSE IF e.header.token.issuer \notin Issuers     THEN "untrusted_issuer"
  ELSE IF e.header.proof.audience # Audience       THEN "possession"
  ELSE IF e.tool \notin e.header.token.tools       THEN "not_authorized"
  ELSE IF ~PrincipalMatches(e.header, acting)      THEN "principal"
  ELSE IF ~ProofVerifies(e.header) \/ ~Bound(e)    THEN "possession"
  ELSE None

-------------------------------------------------------------------------------
\* authorize_envelope: the headers are looked up before anything is verified; a
\* principal header sends the message through authorize_obo.
Arrive(c, e, x) ==
  LET acting == IF e.human = None THEN None ELSE PrincipalResolver(e.human)
      denial == IF e.human # None /\ e.header # None /\ acting = None
                THEN "principal" ELSE LocalDenial(e, acting)
  IN
  /\ calls[c].pc = "idle"
  /\ calls' = [calls EXCEPT ![c] =
       [Idle EXCEPT !.pc = IF denial = None THEN "guard" ELSE "finish", !.env = e,
                    !.encoding = x, !.at = now, !.acting = acting, !.life = life, !.verdict = denial]]
  /\ UNCHANGED <<now, config, life, seen, stream, delivered>>

Deny(c, code) == calls' = [calls EXCEPT ![c].pc = "finish", ![c].verdict = code]

\* The default guard of the verifier; a shared one is given the same memory.
Ttl == IF MaxAge + Margin >= Floor THEN MaxAge + Margin ELSE Floor

\* record_if_new: an entry is gone from the instant it expires.
Guard(c) ==
  LET key == GuardKey(calls[c].env.header, calls[c].encoding) IN
  /\ calls[c].pc = "guard"
  /\ IF seen[key] > now
     THEN /\ Deny(c, "replay")
          /\ UNCHANGED seen
     ELSE /\ seen' = [seen EXCEPT ![key] = now + Ttl * Res]
          /\ calls' = [calls EXCEPT ![c].pc = "gates", ![c].counted = TRUE]
  /\ UNCHANGED <<now, config, life, stream, delivered>>

\* The revocation check and the policy, usage and step-up gates the verifier
\* shares with the MCP path (Enforcer models them): each may refuse.
Gates(c) ==
  /\ calls[c].pc = "gates"
  /\ \/ Deny(c, "gates")
     \/ calls' = [calls EXCEPT ![c].pc = "finish"]
  /\ UNCHANGED <<now, config, life, seen, stream, delivered>>

\* Faulty: a call that was admitted leaves no record.
RecordDenials(c, verdict) ==
  IF verdict = "allow" THEN stream ELSE Recorded(stream, [call |-> c, verdict |-> verdict])

EmitAdr(c, verdict) == Recorded(stream, [call |-> c, verdict |-> verdict])

\* A hook of the host that is called on the way to the answer: what it raises, the
\* call raises.
Hook(c, from, to) ==
  /\ calls[c].pc = from
  /\ \E pc \in {to, "raised"} : calls' = [calls EXCEPT ![c].pc = pc]

\* _finish: the audit hook is told the decision,
Audit(c) == Hook(c, "finish", "audited") /\ UNCHANGED <<now, config, life, seen, stream, delivered>>

\* it is recorded in the stream,
Record(c) ==
  LET verdict == IF calls[c].verdict = None THEN "allow" ELSE calls[c].verdict IN
  /\ calls[c].pc = "audited"
  /\ stream' = EmitAdr(c, verdict)
  /\ calls' = [calls EXCEPT ![c].pc = "recorded", ![c].verdict = verdict,
                            ![c].record = Stamped(stream, [call |-> c, verdict |-> verdict])]
  /\ UNCHANGED <<now, config, life, seen, delivered>>

\* the sink is handed the record,
Deliver(c) ==
  /\ Hook(c, "recorded", "delivered")
  /\ delivered' = IF calls'[c].pc = "raised" THEN delivered
                  ELSE Append(delivered, calls[c].record)
  /\ UNCHANGED <<now, config, life, seen, stream>>

\* and it is returned.  Under the octets profile an admitted call is handed the
\* arguments that were carried.
Answer(c) ==
  /\ calls[c].pc = "delivered"
  /\ calls' = [calls EXCEPT ![c].pc = "done",
                 ![c].bound = IF calls[c].verdict = "allow" /\ config.octets
                              THEN calls[c].env.carried.args ELSE None]
  /\ UNCHANGED <<now, config, life, seen, stream, delivered>>

\* What a call checked against the clock it hands to the guard within Delay.
Tick ==
  /\ now < Horizon
  /\ \A c \in Calls : calls[c].pc = "guard" => now - calls[c].at < Delay
  /\ now' = now + 1
  /\ UNCHANGED <<config, life, seen, stream, delivered, calls>>

\* A new process: an in-memory guard and the stream start empty, and nobody is
\* answered any more.
Restart ==
  /\ life < MaxLives
  /\ life' = life + 1
  /\ seen' = IF config.guard = "memory" THEN NothingSeen ELSE seen
  /\ stream' = NewStream /\ delivered' = <<>>
  /\ calls' = [c \in Calls |-> IF calls[c].pc \in {"idle", "done", "raised", "lost"}
                               THEN calls[c] ELSE [calls[c] EXCEPT !.pc = "lost"]]
  /\ UNCHANGED <<now, config>>

Init ==
  /\ now = 0 /\ life = 1
  /\ config \in Configs
  /\ seen = NothingSeen
  /\ stream = NewStream /\ delivered = <<>>
  /\ calls = [c \in Calls |-> Idle]

Next ==
  \/ \E c \in Calls : \/ \E e \in Envelopes, x \in Encodings : Arrive(c, e, x)
                      \/ Guard(c) \/ Gates(c)
                      \/ Audit(c) \/ Record(c) \/ Deliver(c) \/ Answer(c)
  \/ Tick \/ Restart

Spec == Init /\ [][Next]_vars

-------------------------------------------------------------------------------
Admitted == {c \in Calls : calls[c].pc = "done" /\ calls[c].verdict = "allow"}

TypeOK ==
  /\ now \in 0..Horizon /\ life \in 1..MaxLives /\ config \in Configs
  /\ seen \in [DOMAIN NothingSeen -> Nat]
  /\ stream.count = Len(stream.head)
  /\ \A c \in Calls : calls[c].pc \in {"idle", "guard", "gates", "finish", "audited", "recorded",
                                  "delivered", "done", "raised", "lost"}

\* No header is spent twice: not by two messages at once, not at the edge of its
\* freshness window, where truncated ages and a sender's fast clock make it
\* valid for longer than max_age_secs.  Only a restart of a receiver that keeps
\* its guard in memory lets one through again.  (a2a.py: "Makes each header
\* single-use": a header is its text.)
HeaderSingleUse ==
  \A c, d \in Admitted :
    c # d /\ calls[c].env.header = calls[d].env.header /\ calls[c].encoding = calls[d].encoding
      => config.guard = "memory" /\ calls[c].life # calls[d].life

\* A header is refused as used only if a message that proved possession of it
\* was counted before; what fails to verify cannot poison the guard.
ReplayMeansUsed ==
  \A c \in Calls : calls[c].verdict = "replay" =>
    \E d \in Calls \ {c} :
      /\ calls[d].counted
      /\ calls[d].env.header = calls[c].env.header /\ calls[d].encoding = calls[c].encoding
      /\ config.guard = "memory" => calls[d].life = calls[c].life

\* Between receiver and sender the text of a header counts once: it admits one message
\* per life of the guard, and until it counted it is not refused as used.
HeaderCountsOnce == HeaderSingleUse /\ ReplayMeansUsed

\* "closing the residual same-request replay window" (a2a.py): what a header says is
\* admitted once, however it is spelt.
ProofCountsOnce ==
  \A c, d \in Admitted :
    c # d /\ calls[c].env.header = calls[d].env.header
      => config.guard = "memory" /\ calls[c].life # calls[d].life

Vouched(t, at) ==
  /\ t.signer \in {key.signer : key \in Provider.keys}
  /\ Provider.audience \in t.aud /\ t.iss = Provider.issuer
  /\ at \div Res <= t.exp + Provider.leeway

\* The confused deputy: a message admitted under a token that acts for a human
\* carried that human's own token from the provider, live when it arrived, and
\* was meant for this receiver; if the sender bound it to a request, the tool
\* and the arguments that run are the ones it signed.
AdmittedIsMeant ==
  \A c \in Admitted :
    LET e == calls[c].env  p == e.header.proof IN
    /\ p.audience = Audience /\ p.signer = e.header.token.leaf
    /\ e.header.token.principal # None =>
         /\ e.human # None /\ e.human.sub = e.header.token.principal
         /\ Vouched(e.human, calls[c].at)
    /\ p.bound # None =>
         /\ p.tool = e.tool
         /\ p.bound.args = IF calls[c].bound = None THEN e.args ELSE calls[c].bound

\* The numbers of the records the sink did not take.
Missing == {i \in 1..stream.count : stream.head[i] \notin ToSet(delivered)}

\* Nobody is answered ahead of the records: however calls overlap and hooks raise,
\* whoever was answered by this process is in its stream, once and with the answer
\* they got, and the sink has that record; and what the sink lacks of the stream is
\* of a call that was not answered, because its sink raised or has yet to be called.
EveryAnswerIsRecorded ==
  /\ \A c \in Calls : calls[c].pc = "done" /\ calls[c].life = life =>
       \E i \in 1..stream.count :
         /\ stream.head[i].digest = [call |-> c, verdict |-> calls[c].verdict]
         /\ i \notin Missing
         /\ \A j \in 1..stream.count : stream.head[j].digest.call = c => j = i
  /\ \A i \in Missing : \E c \in Calls :
       calls[c].record = stream.head[i] /\ calls[c].pc \in {"recorded", "raised"}

\* The sink has the records in the order of the stream.
SinkInOrder == \A i, j \in DOMAIN delivered : i < j => delivered[i].seq < delivered[j].seq

\* Every decision is recorded, those too whose audit hook raised.
EveryDecisionIsRecorded ==
  \A c \in Calls : calls[c].pc = "raised" => calls[c].record # None

\* What a credential says of its own use (vc.rs: a gated credential "cannot be
\* spent ungated"), over A2A.
GatedIsNotSpent ==
  \A c \in Admitted : calls[c].env.tool \notin calls[c].env.header.token.gates

\* "Freshness scaled to consequence class" (policy.py), over A2A: a call under a
\* credential of the narrower class is made within its narrower window.
FreshnessFollowsClass ==
  \A c \in Admitted :
    NumSeconds(calls[c].at - calls[c].env.header.proof.at) <= calls[c].env.header.token.class

\* The arguments handed over as "identical to what was signed" were signed.
HandedOverIsSigned ==
  \A c \in Admitted : calls[c].bound # None => calls[c].env.header.proof.bound # None
===============================================================================
