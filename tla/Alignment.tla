------------------------------ MODULE Alignment ------------------------------
(***************************************************************************)
(* Intent statements and the evidence that an action is aligned with one   *)
(* (intent.rs).  The anchor signs an intent about an agent on behalf of    *)
(* somebody else, evaluators judge actions against it out of band, and a   *)
(* relying party relies on a quorum of judgements, now or later, with the  *)
(* evidence it happens to be given.                                        *)
(***************************************************************************)
EXTENDS Integers, Sequences, FiniteSets

CONSTANTS
  Intents,     \* what may be declared: subject, declared_by, issued_at, expires_at, signer
  Judgements,  \* what evaluators say: of which intent and action, and how sure
  Actions, Agents,
  Org,         \* the anchor a relying party trusts
  Policy,      \* quorum, max_distance, min_confidence
  EndOfTime, MaxEvidence  \* bounds: the clock, the items presented

ASSUME AlignmentAssumption ==
  /\ Policy \in [quorum: Nat, max_distance: 0..100, min_confidence: 0..100]
  /\ {EndOfTime, MaxEvidence} \subseteq Nat
  /\ \A i \in Intents : {i.issued_at, i.expires_at} \subseteq Nat

VARIABLES
  date,
  declared,   \* intents that were signed
  attested,   \* evidence that was signed
  relied      \* the last reliance: what was presented, for what and when

alignmentVars == <<date, declared, attested, relied>>

\* declare: an agent may not state its own intent.
Declare(i) ==
  /\ i.declared_by # i.subject
  /\ i.expires_at > i.issued_at
  /\ declared' = declared \cup {i}
  /\ UNCHANGED <<date, attested, relied>>

\* attest: the judgement is bound to the intent's and the action's digests.
Attest(j) ==
  /\ j.intent \in declared
  /\ j.distance <= 100 /\ j.confidence <= 100 /\ j.evaluator # "" /\ j.version # ""
  /\ attested' = attested \cup {j}
  /\ UNCHANGED <<date, declared, relied>>

IntentVerifies(i) == i.signer = Org /\ date \in i.issued_at..(i.expires_at - 1)

\* AlignmentEvidence.verify.
EvidenceVerifies(j, i, a, agent) ==
  /\ IntentVerifies(i)
  /\ i.subject = agent
  /\ j.signer = Org /\ date < j.expires_at
  /\ j.intent = i /\ j.action = a
  /\ j.distance <= Policy.max_distance

\* Faulty: another version of an evaluator is another evaluator.
Attribution(j) == <<j.evaluator, j.version>>

Judge(j) == j.evaluator

\* verify_quorum: every item verifies, and no evaluator is counted twice.
QuorumVerifies(evidence, i, a, agent) ==
  /\ Policy.quorum # 0
  /\ \A n \in DOMAIN evidence :
       /\ EvidenceVerifies(evidence[n], i, a, agent)
       /\ evidence[n].confidence >= Policy.min_confidence
       /\ \A m \in 1..(n - 1) : Judge(evidence[m]) # Judge(evidence[n])
  /\ Len(evidence) >= Policy.quorum

Rely(evidence, i, a, agent) ==
  /\ QuorumVerifies(evidence, i, a, agent)
  /\ relied' = {[evidence |-> evidence, intent |-> i, action |-> a, agent |-> agent, at |-> date]}
  /\ UNCHANGED <<date, declared, attested>>

Pass ==
  /\ date < EndOfTime
  /\ date' = date + 1
  /\ UNCHANGED <<declared, attested, relied>>

Presented == UNION {[1..n -> attested] : n \in 0..MaxEvidence}

AlignmentInit == date = 0 /\ declared = {} /\ attested = {} /\ relied = {}

AlignmentNext ==
  \/ \E i \in Intents : Declare(i)
  \/ \E j \in Judgements : Attest(j)
  \/ \E evidence \in Presented, i \in declared, a \in Actions, agent \in Agents :
       Rely(evidence, i, a, agent)
  \/ Pass

AlignmentSpec == AlignmentInit /\ [][AlignmentNext]_alignmentVars

-------------------------------------------------------------------------------
\* An action relied upon as aligned was judged so, of this action against this
\* intent, by as many different evaluators as the quorum asks for; the intent
\* was the organization's own word about this very agent and not the agent's,
\* and both it and the judgements were live at that moment.
AlignedIsJudged ==
  \A r \in relied :
    LET sound == {j \in attested : /\ j.intent = r.intent /\ j.action = r.action
                                   /\ j.signer = Org /\ r.at < j.expires_at
                                   /\ j.distance <= Policy.max_distance
                                   /\ j.confidence >= Policy.min_confidence}
    IN
    /\ Cardinality({j.evaluator : j \in sound \cap {r.evidence[n] : n \in DOMAIN r.evidence}})
         >= IF Policy.quorum = 0 THEN 1 ELSE Policy.quorum
    /\ r.intent \in declared /\ r.intent.subject = r.agent /\ r.intent.declared_by # r.agent
    /\ r.intent.signer = Org /\ r.intent.issued_at <= r.at /\ r.at < r.intent.expires_at
===============================================================================
