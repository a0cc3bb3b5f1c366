---------------------------- MODULE DecisionTrail ----------------------------
(***************************************************************************)
(* What is left of a decision once it is made: the record in the stream,   *)
(* its copy at the control plane, the checkpoints and the bundles made of  *)
(* them (adr.rs, reporter.py, compliance.rs).                              *)
(*                                                                         *)
(* Threads that decide share one stream and one reporter.  record folds    *)
(* the decision and hands it to the stream's own sinks before it returns;  *)
(* the reporter is called after that, by the thread (policy.py _emit_adr), *)
(* so what it sees may be in another order.  A durable sink writes later,  *)
(* off the hot path, and a process that dies leaves it behind the stream:  *)
(* the next one takes up the chain where the sink has it, or starts anew.  *)
(***************************************************************************)
EXTENDS AdrStream, FiniteSets, TLC, Options, Sorting

CONSTANTS
  Threads,
  Flows,       \* credentials: the vc_id of a decision
  QueueMax,    \* of the reporter's queue
  Anchor,
  MaxRecords, MaxSigned, MaxLives   \* bounds: decisions, checkpoints, processes

\* A digest covers a decision's own id and its time: the process that made it
\* stands for both, and tells it from any other of the same number.
DecisionRecord == [seq: Nat, digest: [flow: Flows, life: Nat]]

ASSUME TrailAssumption ==
  /\ {QueueMax, MaxRecords, MaxSigned, MaxLives} \subseteq Nat
  /\ None \notin DecisionRecord \cup Nat

VARIABLES
  life,        \* how many times the process has been started
  began,       \* the count at which each of them took up the chain
  stream,
  saved,       \* the (count, head) the durable sink has
  chain,       \* every record ever made, in the order they were made
  pending,     \* a thread's record on its way to the reporter
  tallying,    \* the value of dropped a thread has read, before it writes it
  queue, body, \* the reporter's queue and what its thread is posting
  received,    \* what the control plane got, in the order it got it
  dropped, errors,
  signed       \* every checkpoint, with the process that signed it

reporter == <<pending, tallying, queue, body, dropped, errors>>
trailVars == <<life, began, stream, saved, chain, reporter, received, signed>>

Ran(s) == {s[i] : i \in 1..Len(s)}
Reported == {r \in Ran(chain) : r.digest.life = life}

-------------------------------------------------------------------------------
\* AdrStream.record: fold, then emit to the stream's sinks, then return.
Decide(t, f) ==
  /\ Len(chain) < MaxRecords
  /\ pending[t] = None /\ tallying[t] = None
  /\ LET digest == [flow |-> f, life |-> life]  record == Stamped(stream, digest) IN
     /\ stream' = Recorded(stream, digest)
     /\ chain' = Append(chain, record)
     /\ pending' = [pending EXCEPT ![t] = record]
  /\ UNCHANGED <<life, began, saved, tallying, queue, body, dropped, errors, received, signed>>

\* The durable sink writes down the next record it was given.
Persist ==
  /\ saved.count < stream.count
  /\ saved' = Recorded(saved, stream.head[saved.count + 1].digest)
  /\ UNCHANGED <<life, began, stream, chain, reporter, received, signed>>

\* Faulty: a record that does not fit is dropped in silence.
Uncounted(n) == n

Counted(n) == n + 1

\* DecisionReporter.__call__: put_nowait, or count what does not fit.
Report(t) ==
  /\ pending[t] # None
  /\ pending' = [pending EXCEPT ![t] = None]
  /\ IF Len(queue) < QueueMax
     THEN queue' = Append(queue, pending[t]) /\ UNCHANGED tallying
     ELSE tallying' = [tallying EXCEPT ![t] = dropped] /\ UNCHANGED queue
  /\ UNCHANGED <<life, began, stream, saved, chain, body, dropped, errors, received, signed>>

\* dropped += 1 reads and writes: two threads may write the same value.
Tally(t) ==
  /\ tallying[t] # None
  /\ dropped' = Counted(tallying[t])
  /\ tallying' = [tallying EXCEPT ![t] = None]
  /\ UNCHANGED <<life, began, stream, saved, chain, pending, queue, body, errors, received, signed>>

\* The reporter's thread.  A post that fails may have been received: the answer
\* can be what timed out.
Take ==
  /\ body = None /\ queue # <<>>
  /\ body' = Head(queue) /\ queue' = Tail(queue)
  /\ UNCHANGED <<life, began, stream, saved, chain, pending, tallying, dropped, errors, received, signed>>

Post ==
  /\ body # None
  /\ body' = None
  /\ \/ received' = Append(received, body) /\ UNCHANGED errors
     \/ /\ errors' = errors + 1
        /\ received' \in {received, Append(received, body)}
  /\ UNCHANGED <<life, began, stream, saved, chain, pending, tallying, queue, dropped, signed>>

Sign ==
  /\ Cardinality(signed) < MaxSigned
  /\ signed' = signed \cup {[checkpoint |-> SignCheckpoint(stream, Anchor), life |-> life]}
  /\ UNCHANGED <<life, began, stream, saved, chain, reporter, received>>

Empty(S) == [t \in S |-> None]

\* The reporter is a daemon thread: its queue dies with the process.  A new one may
\* resume the chain; a Python one can only start its own.
RestartTrail ==
  /\ life < MaxLives
  /\ life' = life + 1
  /\ \E start \in {Resume(saved.count, saved.head), NewStream} :
       stream' = start /\ saved' = start /\ began' = Append(began, start.count)
  /\ pending' = Empty(Threads) /\ tallying' = Empty(Threads)
  /\ queue' = <<>> /\ body' = None /\ dropped' = 0 /\ errors' = 0
  /\ UNCHANGED <<chain, received, signed>>

TrailInit ==
  /\ life = 1 /\ began = <<0>> /\ stream = NewStream /\ saved = NewStream /\ chain = <<>>
  /\ pending = Empty(Threads) /\ tallying = Empty(Threads)
  /\ queue = <<>> /\ body = None /\ dropped = 0 /\ errors = 0
  /\ received = <<>> /\ signed = {}

TrailNext ==
  \/ \E t \in Threads : (\E f \in Flows : Decide(t, f)) \/ Report(t) \/ Tally(t)
  \/ Persist \/ Take \/ Post \/ Sign \/ RestartTrail

TrailSpec == TrailInit /\ [][TrailNext]_trailVars

-------------------------------------------------------------------------------
(***************************************************************************)
(* Evidence bundles.                                                       *)
(***************************************************************************)
\* Faulty: in the order the control plane happened to get them.
AsReceived(f, records) == SelectSeq(records, LAMBDA r : r.digest.flow = f)

BySeq(a, b) == a.seq < b.seq

\* decisions_matching.
InSeqOrder(f, records) ==
  Arranged(records, {i \in DOMAIN records : records[i].digest.flow = f}, BySeq)

Seal(f, records, checkpoint) ==
  LET mine == InSeqOrder(f, records)
      content == <<f, mine, Replay(mine), checkpoint>>
  IN [flow |-> f, decisions |-> mine, head |-> Replay(mine), checkpoint |-> checkpoint,
      issuer |-> Anchor, signature |-> [by |-> Anchor, over |-> content]]

BundleVerifies(b) ==
  /\ b.issuer = Anchor
  /\ b.signature = [by |-> Anchor, over |-> <<b.flow, b.decisions, b.head, b.checkpoint>>]
  /\ Replay(b.decisions) = b.head
  /\ b.checkpoint # None => CheckpointVerifies(b.checkpoint, Anchor)

-------------------------------------------------------------------------------
\* Restarts between two processes that took up the chain beyond the first n records.
Kept(n, older, newer) == \A k \in older + 1..newer : n <= began[k]

\* Any two checkpoints an anchor ever signed are of one log as far as both go and
\* every restart between them went on from there: whatever was recorded, written
\* down late or lost in between, a restart changes nothing of what it takes up
\* (adr.rs resume: "continues the same hash-chain").
CheckpointsAgree ==
  \A a, b \in signed : a.life <= b.life =>
    \A i \in 1..a.checkpoint.count :
      i <= b.checkpoint.count /\ Kept(i, a.life, b.life) =>
        /\ i \in DOMAIN b.checkpoint.head
        /\ a.checkpoint.head[i] = b.checkpoint.head[i]

\* The same without the exception: the log of an anchor is one.
OneLog ==
  \A a, b \in signed : a.checkpoint.count <= b.checkpoint.count =>
    IsPrefix(a.checkpoint.head, b.checkpoint.head)

\* The reporter may lose a record, never without a trace: once no thread is
\* between its attempt and its count, a record of this process that is neither
\* queued nor with the control plane has left a nonzero counter.
LossIsCounted ==
  (\A t \in Threads : pending[t] = None /\ tallying[t] = None) =>
    \/ Reported \subseteq Ran(queue) \cup {body} \cup Ran(received)
    \/ dropped + errors > 0

MadeBefore(x, y) ==
  \E m, n \in 1..Len(chain) : m < n /\ chain[m] = x /\ chain[n] = y

\* A bundle made of what the control plane got, in whatever order and with whatever
\* gaps, has records that were made, each once, and an auditor reads two of them
\* reversed only if a process between them took up the chain before the earlier one
\* (EvidenceBundleBuilder sorts by number, and numbers start again).
BundleFollowsStream ==
  \A f \in Flows :
    LET mine == InSeqOrder(f, received) IN
    \A i, j \in 1..Len(mine) :
      /\ mine[i] \in Ran(chain)
      /\ i < j =>
           /\ mine[i] # mine[j]
           /\ MadeBefore(mine[j], mine[i]) =>
                ~Kept(mine[j].seq + 1, mine[j].digest.life, mine[i].digest.life)

\* The same without the exception: a bundle that verifies is not reordered.
BundleIsOneStream ==
  \A f \in Flows, cp \in {x.checkpoint : x \in signed} \cup {None} :
    LET b == Seal(f, received, cp) IN
    BundleVerifies(b) =>
      \A i, j \in 1..Len(b.decisions) :
        i < j => ~MadeBefore(b.decisions[j], b.decisions[i])

\* What the reporter's thread delivers is in the order of the stream.
DeliveredInOrder ==
  \A i, j \in 1..Len(received) : i < j => received[i].seq < received[j].seq
===============================================================================
