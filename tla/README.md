# agentcreds in TLA+

TLA+ models of the parts of agentcreds that decide, with the TLC runs that check
them on small instances and the TLAPS proofs that hold for every instance. Paths
below are relative to the repository; `runtime/` abbreviates
`agentcreds-runtime/src/agentcreds_runtime/` and `core/` abbreviates
`agentcreds-core/src/`.

## 1. Inventory

| component | source | state | operations | what makes it hard | correct when |
|---|---|---|---|---|---|
| Delegation tokens | `core/delegation/mod.rs` | append-only signed blocks, an editable hop view beside them | mint, attenuate, verify_at, verify_rooted(_gated) | long chains of legal steps, absent bounds, facts a query does not reach | a chain never grants more than its credential, at any depth |
| MCP enforcer | `runtime/enforcer.py`, `policy.py`, `session.py`, `replay.py`, `gates.py`, `approval.py`; `core/pop.rs`, `approval.rs` | sessions with TTL, replay fingerprints, the ledger of consumed approvals, pending approvals | issue/rotate challenge, bind principal, authorize (a dozen stages), approve/refuse | calls interleave at every stage, are held for minutes, TTLs pass, services fail | evidence is relied on once, an admitted call was authorized, a denied one burned nothing |
| Approver directory | `core/approval.rs`, `runtime/approverdir.py` | the directory held, the organization's directories | seal, fetch, look up an approver, judge evidence | departed approvers, rotated signers, replayed directories | only who the newest directory names approves |
| Fetch cache | `runtime/fetchcache.py`, `keyhistory.py`, `approverdir.py` | per source: the held document, freshness, whether a fetch ever succeeded | seed, get, refresh, status | concurrent refreshes, an adversarial or stale endpoint | versions never go back, documents are genuine, updates converge |
| Trust registry and its cache | `core/registry.rs`, `runtime/trustregistry.py` | entries, sealed configs; the cache and a memo of the derived registry | register, resolve, export, import, registry | a memo without a lock, expiry, configs of any age | nobody is believed beyond what a framework sealed or a DID publishes; who was taken off stays off |
| DID resolution | `core/did.rs`, `did/resolver.rs`, `agentcreds-resolvers/` | a chain of resolvers, prefetched documents | resolve, find the primary key | hosts that answer with old, partial or foreign documents | a key is one the controller of the DID published |
| Usage gate | `runtime/usage.py` | counters with TTL, in process or in Redis | usage_gate: check all rules, then charge all | get and add are separate, stores fail and forget | limits hold, refused calls are free |
| Idempotent handlers | `runtime/idempotency.py`, `fastmcp.py` | claims and results with TTL | begin, complete, abandon around a handler | duplicates race, handlers and stores fail, TTLs pass | an operation runs once and duplicates get its result |
| Key rotation | `core/rotation.rs`, `runtime/keyhistory.py` | statements, repudiations, a seal | push, repudiate, seal, verify, authorize_issuer | order of rotation and repudiation, replayed histories | only active keys sign, and a rotation costs no credential |
| Revocation lists | `core/revocation.rs`, `runtime/policy.py` | a signed bit string | revoke, unrevoke, resign, check_fresh | stale but authentic lists | a revoked credential is refused within the bound |
| Decision records | `core/adr.rs`, `compliance.rs`, `runtime/reporter.py` | a hash chain; a bounded queue | record, checkpoint, report, bundle, verify | concurrent recording, restarts, a full queue, edited logs | no record is lost or reordered unnoticed, and each says who answers |
| Chain of custody | `core/audit.rs` | a log per organization; the entries of a compositor | record, export, ingest, reveal | commitments in any order and number, logs restored from copies | two parties with the same commitments agree |
| A2A verifier | `runtime/a2a.py`, `core/a2a.rs` | replay guard, decision stream | authorize, authorize_obo, authorize_envelope | replay TTL against freshness, skewed clocks, three names of one human | a message is accepted once, for the human and the arguments it was meant for |
| Intent and accountability | `core/intent.rs`, `accountability.rs` | intents, alignment evidence, ownership records | declare, attest, verify a quorum; revise, erase, commit | evidence that is not of this action; parties that change and are erased | an aligned action was judged by a quorum; an answer is as issued |
| Credentials and disclosures | `core/vc.rs`, `sd_jwt.rs`, `bbs.rs`, `interop.rs`, `binding.rs`, `principal.rs` | none: signed texts | issue, present, derive, verify | what a text does not sign, parts put together anew | what is accepted was signed, and shown for this verifier |
| Federation | `core/wimse.rs`, `spiffe.rs`, `oidc.rs` | the bundle and level of each trust domain, validated identities | import, validate, issue on behalf | bundles chosen by an unverified claim, evidence of two sources | an identity is vouched for by its own domain, a delegate stays within consent |
| Argument profiles | `core/jcs.rs`, `binding.rs`, `runtime/jcs.py`, `octets.py`, the Node runtime | none | canonicalize, bind, carry, compare | two languages hold and print numbers differently | a tool gets what the holder bound |
| Errors and denials | `core/error.rs`, the bindings, both runtimes | none | map, classify, signal | one error named in four places | the names agree |

How they meet: the issuer mints a token from a credential and holders attenuate
it (Delegation). A holder answers the enforcer's challenge with a presentation of
that token, and `authorize` runs its stages (Enforcer): it reads the session, calls
the core to verify the chain, the replay guard, the revocation predicate, the
gates with their approvals, the policy hook, the usage gate and the step-up
client. Key histories, directories and registries come from fetch caches; the anchor of a
credential comes from them or from a registry that resolves it (IssuerTrust,
CrossOrg). The permitted call reaches a handler that may be idempotent. Python threads and
replicas share the session, replay, ledger, usage and idempotency stores. An agent of
another organization sends an envelope instead (A2AVerifier). Every answer is recorded in
the decision stream, and what is recorded leaves through sinks, a reporter, checkpoints,
bundles and commitments.

## 2. Modules

| module | models | extends / uses |
|---|---|---|
| `Options` | the absent value, one declaration for modules checked together | |
| `Delegation` | one token's chain, its view, the clock, the verifiers as operators | |
| `Reliance` | what the pipeline promises about approvals: each is relied on at most once, and a decided call stays decided | |
| `Enforcer` | the pipeline: every stage of `authorize` an action of a concurrent call | `INSTANCE Reliance` (`Promise`) |
| `FetchCache` | one generic cache over concurrent threads | |
| `TrustRegistryCache` | the derived registry and its memo, interleaved with the cache | `FetchCache` |
| `UsageGate` | check and charge over a shared counter store | |
| `Idempotency` | the wrapper over a shared claim store | |
| `IssuerTrust` | key histories, revocation lists and the two credential formats, as a relying party sees them | |
| `Approvers` | directories of approvers and the evidence they support | `IssuerTrust` |
| `AdrStream` | the hash chain and its checkpoints, as operators | |
| `DecisionTrail` | concurrent recorders, reporter, restarts, checkpoints, bundles | `AdrStream`, `Sorting` |
| `Custody` | logs, commitments and compositors | `Sorting` |
| `Alignment` | intents, evidence, quorum | |
| `Refusals` | errors, classes, codes and signals, as operators | |
| `Accountability` | ownership records, what a credential and a decision say of them, edited logs | `AdrStream`, `Refusals` |
| `Oidc` | validation of an ID token, as an operator | |
| `A2AVerifier` | the receiver of envelopes, with its guard and stream | `AdrStream`, `Oidc` |
| `ArgBinding` | arguments from holder to tool, over two profiles and three runtimes | `Sorting` |
| `Sorting` | what a stable sort of a slice leaves, by the place of each element | |
| `CrossOrg` | DID documents, resolver chains, registries and sealed configs | |
| `Federation` | trust domains, SVIDs, humans, credentials issued for them | `Oidc` |
| `Presentation` | what holders show of credentials and what verifiers conclude | |
| `DelegationProofs`, `EnforcerProofs`, `UsageGateProofs`, `IdempotencyProofs` | theorems (section 4) | the module of that name |
| `TrustRegistryProofs` | theorems about the cache and the registry | `TrustRegistryCache` |
| `IssuerTrustProofs` | theorems about histories, lists, formats and approvers | `Approvers` |
| `CrossOrgProofs` | theorems about resolution, federation, presentation and the A2A receiver | `CrossOrg`, `Federation`, `Presentation`, `A2AVerifier` |
| `RecordsProofs` | theorems about the trail, custody, alignment, accountability and arguments | `DecisionTrail`, `Custody`, `Alignment`, `Accountability`, `ArgBinding` |
| `MC*` | the constants of the runs, the symmetry sets and the compositions | the modules checked |

Definitions marked `Faulty` are single-point errors a change to the code could
introduce; every checked property is known to break under one of them, so none
holds for lack of behaviour.

A signature is a record of who made it and over what; it verifies when that is the
content now. A hash is the value it is of, and of no more than the code hashes: one proof
has several byte strings (`Encodings`), which replay guards tell apart, and a time is
hashed as its second. What anybody may send (evidence, SVIDs,
tokens, edited documents) is a value in a set and not state; what only a key's owner
can make is state or history.

### Delegation
`blocks` is the Biscuit chain, `view` the JSON hop list beside it, `credential`
and `root` what the authority block states. `Mint` and `Attenuate` carry every
early return of the functions; `EditView` lets a holder rewrite the unsigned view.
`Verify`, `VerifyRooted` and `VerifyRootedGated` are operators over the state and
an action. `QueryReadsEveryBlock` is the one assumption about the Biscuit library:
FALSE is its rule (a plain query reads the authority block), TRUE the reading the
comments describe; the runs use FALSE.

### Enforcer
A call has a program counter, one value per stage, and local variables for what
it read before: this is what makes stale reads visible. `Fault` is any service
that raises, with the fail-open switches. One integer clock stands for both the
wall clock and the monotonic clock; a deadline past `Horizon` stands for every
later instant. `Stalls = FALSE` is the environment assumption that no undecided
call outlives what it has already checked; the configuration `EnforcerLongHold` drops it.
The policy hook and the approver are nondeterministic. The order of the gates of one
token is free. The replay guard keys on the bytes that came (`runtime/enforcer.py:300`);
`encoding` says which of the strings that decode to a presentation they were.

### FetchCache and TrustRegistryCache
Time is a set of events: a TTL passes (`TtlPasses`), a document lapses (`Lapse`),
an issuer publishes (`Publish`). `Fetch` may return any document at all: what
the issuer published earlier, what another issuer signed, or a failure. Each lock
region and each access outside it is a step.

### UsageGate
`Check` is one `store.get`, `Charge` one `store.add` (in Redis, `incrby`, with
`expire` as a step after it). `store` is the backend this deployment chose: a
variable that never changes, so that one run covers both. All calls are of one agent,
since counters of different keys never meet. `spent`, `past`, `torn`, `charged` and `room`
are history: what was really charged to a key and when, the keys of which an `add` was cut
off before `expire`, and whether what had been charged to an open window, or to a lifetime
budget within its idle TTL, left room when a call was checked.

### Idempotency
`Begin` is the in-process `begin` or the `SET NX`, `Peek` the `GET` after a lost
one; `Abandon` and `Drop` are the Redis `GET` and `DELETE`. The handler returns
(`Return`) or raises before or after its effect (`Raise`). A TTL is the event
`Lapse`. `deployment` (the store, `require_key`, `fall_back_to_decision`, and
whether decisions are recorded) is chosen once. `RecordId` is the decision record
`guard_tool` passes on, one for each authorization the enforcer makes.

### IssuerTrust and Approvers
The organization changes `history` (`Push`, `Repudiate`, `Seal`) and `list` (`Revoke`,
`Unrevoke`, `Heartbeat`, `Resign`); copies go to `published` and `lists`. `Fetch` hands
the relying party any copy, edited or not, or a rival history that holders of `lost`
keys signed from the root (`Served`, `Rivals`), as its cache would admit it. The organization
keeps more than one list, and a relying party may be handed any of them, whichever the
credential names: the check does not compare the two.
Credentials are values: `Issued` is every credential any key may have issued by now,
`Presentations` those and their edits, and `Believes` and `Accepts` are the verdicts of
`verify`, `anchor_for_issuer` and the revocation check. `withdrawn` and `since` are history.
`SealsForward` says that the organization never reuses a version number.
`Approvers` adds the directories (`SealDirectory`, `FetchDirectory`) and the two gates of
`enforcer.py`, by a key that a directory names (`KeyGate`) and by the anchor itself
(`AnchorGate`). Roles are left out: the enforcer never passes `required_role`.

### DecisionTrail, Custody, Alignment, Accountability
`Decide` is one `record`, under its lock; a durable sink writes the record down later
(`Persist`, off the hot path). `Report` and `Tally` are what the thread does after it
(`dropped += 1` is a read and a write), `Take` and `Post` the reporter's thread, whose
failed post may have arrived. `RestartTrail` may come between any two of them, and takes
the chain up from what was written down or starts a new one, as a Python process
must (`agentcreds-py/src/adr.rs` has no `resume`); `began` is where each process started.
A head is the sequence that was folded into it. `Seal` and `BundleVerifies` are the
evidence bundle.
`Custody` has one log per organization; `Restore` starts it again from an older copy,
`HandOn` passes a commitment on with another time, which still verifies within the
second, and `Ingest` is one batch, which keeps what came before a refusal, unsorted.
`Alignment` presents any sequence of judgements; `Rely` is `verify_alignment_quorum` at
that moment. `Accountability` keeps ownership records (`Revise`, `Erase`), copies their
commitments into credentials and decisions, and lets somebody edit the stored log;
`Digest` is what the record's digest covers: times to the second, and not the sequence
number, which the chain folds beside it.

### A2AVerifier and Oidc
`Arrive` decides all that needs the envelope, the keys and the clock; `Guard` is the
replay store, by the text of the header, of which one header has several; `Gates` are the
gates shared with the MCP path. `Audit`, `Record`, `Deliver` and `Answer` are the steps
of `_finish`, and what a hook of the host raises the call raises. `Restart`
empties a guard held in memory and loses the calls under way. Clocks of senders are
ahead by up to `FutureSkew`, ticks are finer than seconds, and ages are truncated as
`num_seconds` does.

### ArgBinding
A value is a function from paths to scalars, a text a sequence of pairs: a name may
occur twice and order matters. Doubles are scaled: 4 stands for 2^53 (`Limit`) and
above it only even numbers are doubles; 6 stands for the largest integer `serde_json`
keeps. `Bind`, `Relay` (a transport that parses and writes again), `Alter` and `Receive` follow one
call; `Written` and `Parsed` are what Python, Node and Rust do to a number.

### CrossOrg, Federation, Presentation
`CrossOrg`: `ResolveWith` is what each resolver takes of a host's answer, `Resolutions`
the chain (the first that handles a DID is the only one asked), `Resolve` the
registry's memo; `Universal` leaves out the methods it cannot read, so that a subkey may come
first, and `Hostile` is an endpoint that answers with a key of its own
(`agentcreds-resolvers/src/universal.rs:221`); `SealConfig` and `Load` are `export`,
`import` and `from_config`.
`Federation`: `AddDomain` replaces the bundle and level of a domain by any export it ever
made, `ValidateSvid` and `SignIn` add to the identities held, and three actions issue
credentials on them. `Presentation`: texts are [credential, disclosures, proof];
`Deliverable` is whatever can be put together from the parts of texts that were shown.
Disclosures are a set, so their order in a text is abstracted; a BBS+ nonce names no
audience, as in the code.

### Compositions
`MCRecords`, `MCCrossOrg` and `MCIssuerTrust` hold several subsystems that share no
state. A violation of a property of one needs no step of the others, so TLC explores
only behaviours that stay within one (the `focus` variable, or the guards `No...`): the
reachable states of each are all there, their products are not. What does interact is
composed for real: `TrustRegistryCache` with `FetchCache`, `Approvers` with the key
histories of `IssuerTrust`, `A2AVerifier` with the stream and the provider,
`Accountability` with the stream and the refusals, `Federation` with the provider.

## 3. Runs

Passing runs. Bounds are in each `.cfg`; all are chosen so that the hazard the
property is about occurs within them, which the faulty variants confirm.

| run | shows | bounds and why they suffice |
|---|---|---|
| `delegation_chain` | tools, tiers, resources, gates, budgets, edited views: `AuthorityWithinCredential`, `AutonomyCeilingHolds`, `EvidenceOnlyGrows`, `LeafViewIsEffective`, `AttenuationOnlyNarrows` | chains of up to three blocks: root, parent and leaf are all the roles a block has |
| `enforcer_reliance` | `SingleUse`, `AtMostOnceRelied`, and `KeepsPromise`: the pipeline implements `Reliance` | two calls, with one proof in one or two encodings, race for the same two approvals; the clock passes their expiry; the replay TTL is one above the freshness window |
| `enforcer_admission` | `AdmissionIsAuthorized`, `RevokedIsRefused` | one call against rebinding, rotation, revocation, offboarding and failing services at any point; the second tool is held for approval |
| `enforcer_step_up` | `FlaggedNeedsApproval`, `DownstreamDenialBurnsNothing`, `EveryCallDecided` | a held call with approval, refusal and timeout; see fairness |
| `fetch_cache` | `UpdatesConverge`, under fairness | two threads, two versions; nothing is seeded once the cache runs: a seed may outrank what the issuer publishes |
| `trust_registry` | `ReadsSeeAdmitted`, `NeverRollsBack` of the cache, `OffboardedStayOut` of the registry | two requests, two issuers, two versions of each: old and new, own and foreign |
| `usage` | `NeverOverdrawn` | three concurrent calls, a rate limit of one and a budget of two, whose counters both expire within the horizon, either store, failures (490 thousand states) |
| `idempotency` | `OneRunning`, `ReturnedOnce`, `ClaimsReleased` | three deliveries of two operations: two duplicates and one stranger; keys optional, absent or required; either store, failing at any access |
| `issuer_trust` | `RepudiationSticks`, `RevocationBites`, `BelievedIsSigned`, `RotationKeepsTrust`, `ApproverIsEnrolled` | two rotations, two sealed versions, two own keys, either of which others may hold, and a peer's; two lists, rival histories; two directories (78 thousand states) |
| `cross_org` | `HeaderCountsOnce`, `AdmittedIsMeant`, `EveryAnswerIsRecorded` (messages); `BoundIsDelivered` (arguments); `BelievedIsGrounded` (resolution); `VouchedByItsDomain`, `OnBehalfIsConsented` (federation); `PresentedIsMeant` (presentation) | two messages with one header in one or two texts or with two headers, hooks that raise, a restart, ticks of half a second to past the end of the window, a call that reaches the guard a tick after it was verified; numbers on both sides of 2^53; a controller that rotates to a key no resolver reads and one that does not, an endpoint that answers untruly; two domains with one key id; two credentials and two presentations of them, the least that can be mixed (1,883 thousand states) |
| `records` | `CheckpointsAgree`, `LossIsCounted`, `BundleFollowsStream` (trail); `RootsAgree` (custody); `AlignedIsJudged` (intent); `AnswersAreAsIssued` (accountability) | two threads, a queue of one, three records, a sink that lags by any of them, one restart that resumes or starts anew; two compositors with batches of two, three times of which two share a second; a quorum of two; two revisions, two decisions and one edit (629 thousand states) |

`a2a_gates` ends in a violation and is the one finding listed: `verify_rooted_gated`
"enforces them from the credential even if a token omits them - so a gated credential
cannot be spent ungated" (`core/vc.rs:432`), and the receiver of an A2A message verifies
without the gates (`GatedIsNotSpent`).

### Where the guarantees end
More counterexamples, run by hand (`tlc -config X.cfg MCModule`; the configuration has
the property, or the property takes the place of those in it). The passing runs
state what does hold there.

| configuration | property | what happens |
|---|---|---|
| `DelegationBudget` | `BudgetOnlyDecreases` | a child that names no budget drops its parent's |
| `DelegationBudget` | `AssertedCapIsEnforced` | two hops down, attenuation accepts a cap the verifier refuses |
| `DelegationChain` | `HopDepthHonoured` | only the root's depth is compared: "C cannot delegate further (max_depth = 0)" |
| `DelegationChain` | `ResourceCeilingHolds` | a scope that names no resources is not bounded by the ones its credential names |
| `DelegationChain` | `AddedGatesDesignate` | a gate added by a sub-delegator designates nothing, if a query reads the authority block only |
| `EnforcerLongHold` | `AtMostOnceRelied` | evidence committed after its expiry is remembered for no time |
| `EnforcerRedis` | `RememberedWhileVerifiable` | the hold is truncated to whole seconds |
| `EnforcerReliance`, `ReplayTtl = 1` | `SingleUse` | a replay TTL equal to `max_age_secs` is one instant short |
| `EnforcerReliance` | `ProofSingleUse` | a proof in other bytes is let past again: "a verified presentation may be admitted only once" (`runtime/enforcer.py:297`) |
| `EnforcerReliance` | `DenialBurnsNothing` | the first of two commits stays after the second is refused: a denial "cannot burn valid evidence" |
| `EnforcerStepUp` | `DeniedNeverCharged` | charged, held, refused |
| `EnforcerStepUp` | `StepUpEvidenceIsLive` (a PROPERTY) | the clock is read before the hold |
| `EnforcerAdmission` | `AdmittedIsUnrevoked` (a PROPERTY) | a credential revoked while the call is held is not asked about again |
| `EnforcerAdmission` | `GatesJudgeActingFor` | the principal is read again and may be another |
| `TrustRegistry` | `LapsedIsRefused` | the memo is not verified again: "must be refused rather than assumed current" |
| `Usage` | `LimitHolds` | two calls are checked before either is charged |
| `Usage` | `DeniedNeverCharged` | a store that fails between two charges |
| `Usage` | `EveryCounterExpires` | a failure between `incrby` and `expire` |
| `UsageForgotten` | `LifetimeIsMetered` (a PROPERTY) | an idle lifetime counter expires: "`per_secs=None` meters lifetime spend" (`runtime/usage.py:211`) |
| `Idempotency`, `LapsesWhileHeld = TRUE` | `OneRunning` | a claim lapses under its handler |
| `Idempotency` | `FirstResultBack`, `NoBlindRetry` | duplicates get `str(result)`; each authorization mints a new record id |
| `IssuerTrust` | `RepudiationIsFinal` | a rival history of who holds a lost key is admitted and believes it again: the "KNOWN LIMIT" of `runtime/policy.py:431` |
| `IssuerTrust` | `AnyListTells` | a list of the same issuer, but not the one the credential names, lets a revoked index through |
| `IssuerTrust` | `ExpiredIsRefused` | the JSON form of an SD-JWT VC carries an expiry nobody compares with the signed one |
| `IssuerTrust` | `StatusIsSigned` | a W3C credential does not sign its status entry |
| `IssuerTrust`, `SealsForward = FALSE` | `RotationKeepsTrust` | a second document under a version already used is admitted |
| `IssuerTrust` | `RotationKeepsApprovals` | a directory sealed after a rotation is admitted by the cache and refused under the anchor of an older credential; `runtime/fetchcache.py:335` wants the opposite |
| `IssuerTrust` | `ApproverIsAccountable` | the name in the evidence is not compared with the directory's |
| `A2AGates` | `FreshnessFollowsClass` | the class of the credential does not narrow the window |
| `A2AHandedOver` | `HandedOverIsSigned` | under octets an unbound header hands over the carried text (`runtime/policy.py:631`) |
| `CrossOrg` | `ProofCountsOnce` | a header in another text counts again: "closing the residual same-request replay window" |
| `CrossOrg` | `SinkInOrder`, `EveryDecisionIsRecorded` | calls reach the sink in another order than the stream; an audit hook that raises leaves no record |
| `CrossOrg` | `PrimaryIsBelieved` | the primary key is skipped and a delegation subkey believed (`core/did.rs:314`) |
| `CrossOrg` | `SealedAreAdmitted` | a config seals what its framework only resolved |
| `CrossOrg`, `MaxConfigs = 2` | `NewestPrevails` | `import` compares no versions |
| `CrossOrg` | `ShapeIsBound` | a canonical text given as a string passes for the object it spells |
| `CrossOrg` | `UnreportedIsDelivered` | a NaN under octets from Node is signed as `null`; a double from 2^53 on is no hazard to `precision_hazards` |
| `CrossOrg` | `DeclarationOnlyDiagnoses` | a call bound under one profile is refused by a verifier of the other, and admitted once its declaration is changed, where both spell the arguments alike (`runtime/policy.py:537`: "never whether the call is admitted") |
| `Records` | `OneLog`, `BundleIsOneStream` | numbers given after the last record written down are given again by the next process, and a bundle of both verifies |
| `Records` | `SameRoot` | copies of a commitment that differ within the second verify and sort differently (`core/audit.rs:343`) |
| `Records` | `RootsAlwaysAgree` | a batch refused in the middle leaves entries unsorted: `core/audit.rs:345` "get the same root" |
| `Records` | `DeliveredInOrder` | threads reach the reporter in another order than the chain |
| `Records` | `EditsAreNoticed` | an absent action and an empty one have one digest (`core/adr.rs:557`) |
| `Records` | `SignalsMirror`, `CodesMirror` | `runtime/policy.py:279` "mirrors agentcreds_core::adr::Signal" and `index.js:12` "Denial codes (mirror agentcreds_runtime.errors)": the two differ, above all for `ConsentViolation` |

Of the same configurations these hold as well and are in no run: the `TypeOK`s,
`RememberedWhileVerifiable` (`EnforcerReliance`), `HeldIsGenuine` and
`SeedOnlyIsVisible` (the fetch cache), `AnswersAreReal` (`Idempotency`); most of
them are proved (section 4).

`CHECK_DEADLOCK FALSE` is set where the system may really stop: all calls decided
and the clock, or a count of what may be made, at its bound.

### Fairness
`Enforcer!FairSpec`: each call's next stage and the clock are weakly fair; a
thread that can run does, and time passes. The approver owes nothing: the timeout
decides. `FetchCache!FairSpec`: threads go on, TTLs pass, requests keep coming,
and the endpoint answers honestly again and again (strong fairness on the honest
answer: without it no cache can converge). `Idempotency!FairSpec`: a handler ends,
a thread goes on, and a TTL passes.

## 4. Proofs

Every theorem below is about the component's specification for every value of its
constants that its named assumption (`...Assumption`, checked by TLC in the runs) allows.
A hypothesis beyond those is named in the table and explained after it.

| theorem | states | rests on |
|---|---|---|
| `DelegationProofs!TypeCorrect`, `ChainSound` | types; every block within its parent and credential | induction over the steps; `IsSubsetOf` is transitive where it matters |
| `AuthoritySafe`, `CeilingSafe` | the first two invariants of `delegation_chain` | `ChainSound`: the verifiers read blocks, never the view |
| `EvidenceAlwaysGrows` | no attenuation or edit sheds a gate, whatever a query can see | `ChainSound`; per-action frame lemmas |
| `NarrowingSafe` | attenuation never widens (`QueryReadsEveryBlock = FALSE`) | per-action frame lemmas |
| `LeafSafe` | while nobody has edited the view, the leaf hop states the effective authority | `ChainSound` and equality of view and blocks |
| `EnforcerProofs!TypeCorrect` | types of the whole pipeline | one lemma per action |
| `AdmissionAlwaysAuthorized`, `RevokedAlwaysRefused`, `FlaggedAlwaysApproved`, `DownstreamDenialNeverBurns` | the four invariants of `enforcer_admission` and `enforcer_step_up` | `AdmissionInv` |
| `BytesUsedOnce` | `SingleUse` | `OnceInv`; hypothesis `GuardOutlasts` |
| `OnceOnly`, `LedgerRemembers`, `Refinement` | one-time reliance, memory of the ledger, the pipeline implements `Reliance` | `RelianceInv`; hypotheses `Stalls = FALSE` and the ledger `memory` or `core` |
| `UsageGateProofs!NeverOverdrawnAlways` | `NeverOverdrawn` | an invariant on counters, what was charged when, and calls |
| `TrustRegistryProofs!CacheIsSound`, `HeldAlwaysGenuine`, `CacheNeverRollsBack`, `ReadsAlwaysSeeAdmitted` | what the cache holds, keeps and answers | `CacheInv` |
| `RegistryUsesCache`, `RegistryCacheSound` | the registry and its memo implement the cache they are built on | the frame of each action |
| `OffboardedAlwaysStayOut` | `OffboardedStayOut` | `RegistryInv`, `CacheInv` through the refinement |
| `IssuerTrustProofs!OrgInvariant` | the histories and lists an organization publishes and a relying party holds | induction over the steps |
| `RevocationAlwaysBites`, `BelievedAlwaysSigned` | two invariants of `issuer_trust` | `OrgInv` |
| `RepudiationAlwaysSticks`, `RotationAlwaysKeepsTrust`, `ApproverAlwaysEnrolled` | the other two and the action property | `OrgInv`, `RosterInv`; hypotheses `SealsForward`, and `RootOutranks` for the second. What others may hold (`lost`) is in the properties |
| `CrossOrgProofs!IdentityVouched`, `OnBehalf` | federation | `BridgeKnown`, `PeopleSignedIn` |
| `Presented` | `PresentedIsMeant` | `Made` and `Identified` |
| `BelievedAlwaysGrounded` | `BelievedIsGrounded` | `CrossInv`, `GroundsLast` |
| `AdmittedAlwaysMeant`, `EveryAnswerAlwaysRecorded` | the A2A receiver admits what was meant and answers nobody ahead of the records | `CallsInv`, `RecordsInv` |
| `HeaderAlwaysCountsOnce` | `HeaderCountsOnce` | `GuardInv`; hypothesis `GuardOutlasts`, with both skews and a delay |
| `RecordsProofs!CheckpointsAlwaysAgree` | checkpoints are of one log as far as restarts took it up | `LogInv` |
| `LossAlwaysCounted` | no record is lost uncounted | `ReporterInv` |
| `AlignedAlwaysJudged` | a quorum is of different evaluators | `AlignmentInv`, and `DistinctCount`: a sequence without repetitions is as long as the set of its elements |
| `AnswersAlwaysAsIssued` | `AnswersAreAsIssued` | `AccountInv`; `DigestTells`: what a digest leaves out is not what is claimed |
| `BundleAlwaysFollowsStream` | `BundleFollowsStream` | `BundleInv`, `ChainInv`, `InSeqOrderHolds` |
| `PartiesAlwaysAgree` | `RootsAgree` | `CustodyInv`, `SortedHolds`, `SameOrder`, `ConsideredHolds` |
| `BoundAlwaysDelivered` | `BoundIsDelivered` | `ArgInv`, `InOrderTells`, `ReadBack`, `DoubleHolds` |
| `IdempotencyProofs!IdempotencyTyped`, `AnswersAlwaysReal` | types; a duplicate gets the answer of a run of its own operation | `IdempotencyInv` |
| `OneAlwaysRunning`, `AlwaysReturnedOnce` | `OneRunning`, `ReturnedOnce` | `HeldInv`; hypothesis `~LapsesWhileHeld` |

### The arguments
*Approvals.* `AtMostOnceRelied` alone is not inductive: a second commit is refused only if
the ledger still remembers the first, which holds only while the second call's
evidence is unexpired. `RelianceInv` adds that: a call that owes a commit holds
unexpired evidence (`OwedLive`, what `Stalls = FALSE` maintains), and spent
evidence that is unexpired is in the ledger (`SpentKept`).

*Admission.* `AdmissionInv` says of every call what it has established by the stage its
program counter is at, in the terms of the facts that do not change afterwards: what it
proved, which gates are covered and for whom, what it was refused. Later stages add to
it and no other call can take from it. `OnceInv` adds what the guard recorded, until when,
and that a call records the bytes of a presentation before that grows too old.

*Gates.* `EvidenceOnlyGrows` compares two states: the evidence that lets an action through
after an attenuation, or an edit of the view, let it through before. An attenuation keeps every
block, and the gates the verifier finds in them are then among those it finds afterwards; the view is
not among what it reads.

*Counters.* A counter may have been forgotten, and it may have been charged by calls that
were checked before this one. `NeverOverdrawn` compares with what had really been charged
when the call was checked (`room`). `Lasting` says that the counter of a window outlives
it, and `Complete` that while it lives it holds what was charged in it. A lifetime budget has no
window, and does expire: `Lifelong` says that it holds what was charged within its idle TTL
(`Remembered`, by the history `past`), and that its own expiry is a TTL after the last `add`
(`Settled`), once that has come to its `expire`. A client that ends between the two leaves
the key in `torn`.

*Caches.* `CacheInv` ranges over the threads: what each fetched, verified and is about to
admit was sealed by the pinned issuer, and a reader's floor, the version held when it
called, is below what is held. The registry adds its memo: which config it was derived from, and
that a request holds a config no older than those admitted before it began.

*Histories.* A statement that is in a history stays in its successors (`HistoryInv`), a held
history is one that was published, and the higher version holds the more. Then a repudiated key
stays repudiated in whatever is held later, unless it is a rival history, and then a key
of its chain is one that others hold (`HeldInv`). Nothing in the code makes an
organization count upwards; with two documents under one version the cache admits either.
A list is judged by what the organization had revoked on the list of that name when it was
signed (`ListInv`), which is why `RevocationBites` is about the list a credential names.

*Resolution.* `CrossInv` says of each registry entry where its key may come from (`Grounded`);
what a controller published stays published and whom a DID is asked of does not change, so
what was grounded once is so for ever (`GroundsLast`). Of the methods of a document the
universal resolver keeps the first it can read: `Least` finds it.

*Presentations.* `PresentedIsMeant` is about everything that can be put together from parts.
The invariant says of each presentation how it was made (`Made`: by whom, of which
credential, disclosing what), and of credentials that no two have one identifier
(`Identified`). A deliverable text has its proof from some presentation; the
proof is over a credential and disclosures, which are then those of the text; hence the
text is that presentation's. The assumption about `BbsKeys` is soundness of signatures: an
attestation that is of the organization's anchor over a key is of the organization's own key.

*A2A.* `GuardInv` relates the guard to the calls that counted: it remembers each for as long
as another call with that text of a header can still come to it, and what it remembers some call did
count. The arithmetic is that of `a2a.rs`: ages are truncated to seconds, a sender is ahead
by up to `FutureSkew`, and a call that was verified may reach the guard `Delay` ticks
later. The default guard of `a2a.py:234` remembers for `max(max_age + 60, 120)` seconds, which
is enough while a call takes less than about 53 seconds from one to the other. `RecordsInv` says
of every entry of the stream that its call holds it and has gone past it (`EntryHeld`), and of
every call that went past the stream, or the sink, that it is in it (`RecordHeld`).

*Records.* `ReporterInv` says where every record of this process is: not yet handed over,
queued, being posted, received, in a thread's half-done count, or in a counter. `LogInv` says of every
checkpoint that the running stream still has its first records, as many as each restart since
took up (`Upheld`), and that the durable log is a start of that stream: what a restart takes up
is what was there.
`AccountInv` says that a commitment in a claim is to a revision there was (`Traced`), that two
revisions of a party have two numbers, that a decision claims what its credential does
(`AsGranted`), and that the stream is the fold of the digests of the decisions (`TapeOf`).

*Order.* What a sort leaves is defined by places: the place of an element is the number of
those up to it. `Ranking` shows once that in a total order of a finite set the places
are 1 to its cardinality, each taken once; bundles, chains of custody and canonical texts
cite it, each for the order of its own code. For a bundle the order is that of the
numbers, which restarts give again; the records of one process have different ones
(`ChainInv`), each is in one place at a time and whatever is on its way was made
(`BundleInv`), so that two records an auditor reads reversed are of two processes and
the later began at or before the number of the earlier. For a chain of custody it is time,
organization, number, total because an organization does not use a number twice
(`Numbered`); two sequences in that order with the same elements are one
(`SortedUnique`), and two whose elements differ only in the times of entries that are alone in
their second are in one order (`SameOrder`). What a batch leaves is a recursive function, about which
`ConsideredHolds` argues by a least counterexample.

*Arguments.* Paths are compared as `write_value` orders keys, step by step. A text that is written
has each path once, so what is read back is what was written (`ReadBack`) and two values with one
text are one (`InOrderTells`). `Alike` relates scalars that are one number in two kinds; every
runtime that reads or writes arguments keeps them alike (`ScalarHolds`), below 2^53 because there a
double is the integer, and a number from 2^53 on is read as no number below it
(`DoubleHolds`). `ArgInv` says that what is on its way is a text of one value, and what it says if
nobody altered it.

*Claims.* `HeldInv`: the claim under a key is owned by the call that runs (`ClaimsHeld`), and
a key whose handler returned is held by a call that is back from it (`ReturnsHeld`).

### The hypotheses
Each is necessary: TLC finds the property violated without it (in most cases section 3
names the configuration).

| hypothesis | means | without it |
|---|---|---|
| `Stalls = FALSE` | no undecided call outlives what it has checked | `EnforcerLongHold` |
| ledger `memory` or `core` | the hold is not truncated | `EnforcerRedis` |
| `GuardOutlasts` (enforcer) | `max_age_secs` is below the TTL of the guard, and no call stalls | `EnforcerReliance` with `ReplayTtl = 1` |
| `GuardOutlasts` (A2A) | the TTL of the guard exceeds the window, the skew and the delay | `CrossOrg` with a smaller `Ttl` |
| `SealsForward` | no version number is used twice | `IssuerTrust` with `SealsForward = FALSE` |
| `RootOutranks` | no successor is registered above its root | a rotation to a key of a higher level is judged by the root's (`core/registry.rs:501`) |
| `~LapsesWhileHeld` | no claim lapses under its handler | `Idempotency` with `LapsesWhileHeld = TRUE` |

`MCRecords`, `MCCrossOrg` and `MCIssuerTrust` check compositions whose specifications interleave
several subsystems; projected on its own variables each is the component's specification,
which is what the theorems are about.

### What is only model-checked
Liveness: `UpdatesConverge`, `ClaimsReleased` and `EveryCallDecided` rest on fairness and ENABLED,
which are beyond the prover. Every safety property of a passing run is proved.

## 5. Not modelled

Cryptography and key material, HTTP and the building of requests, the CBOR and JSON
forms, the compressed bit string of a status list, the rendering of reports, the policy
text of `cedar.py`, and the bindings' plumbing: pure functions, I/O or wrappers, with no
state or order to go wrong. `core/config.rs` parses a configuration no path modelled here
reads. Listing and removing entries of a registry, and the audit hook and logging of
the enforcer, are left out.

Details a reader of the models should know of the code: a credential issued on an SVID is
bounded neither by the SVID's expiry nor by the level of its domain; the `act` claim is
compared only when the token has one; a BBS+ nonce names no audience;
`verify_presentation` accepts an SD-JWT VC without disclosures; an SD-JWT VC signed by a
P-256 key carries a DER signature, which a JOSE verifier refuses (`JoseSigned`); the
digest of a registry config leaves `key_history_url` out; `revocationCheckFromList` of
the Node runtime has no freshness bound, so `RevocationBites` is about the Python one.

## 6. Plan

1. The enforcer of the Node runtime where it differs from the Python one; removal of
   registry entries; roles of approvers, once an enforcement point asks for them.
2. Weaker hypotheses, where section 4 has one that more of the code could discharge.
