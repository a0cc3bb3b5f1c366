------------------------------ MODULE AdrStream ------------------------------
(***************************************************************************)
(* The decision stream of adr.rs as operators on its value: a running      *)
(* count and the head of a hash chain.  A head stands for everything that  *)
(* was folded into it, so it is modelled by that sequence: two heads are   *)
(* equal exactly when the same records were folded in the same order.      *)
(***************************************************************************)
EXTENDS Integers, Sequences, SequencesExt

Genesis == <<>>
Fold(head, seq, digest) == Append(head, [seq |-> seq, digest |-> digest])

NewStream == [count |-> 0, head |-> Genesis]

\* Faulty: the saved count is taken up and the saved head is not.
ResumeAtGenesis(count, head) == [count |-> count, head |-> Genesis]

Resume(count, head) == [count |-> count, head |-> head]

\* record: the decision as it is handed to the sinks, and the stream after it.
Stamped(stream, digest) == [seq |-> stream.count, digest |-> digest]
Recorded(stream, digest) ==
  [count |-> stream.count + 1, head |-> Fold(stream.head, stream.count, digest)]

\* replay: the head over records, folded in the order they are given.
Replay(records) ==
  [i \in DOMAIN records |-> [seq |-> records[i].seq, digest |-> records[i].digest]]

\* A signature is who made it and over what.
SignCheckpoint(stream, anchor) ==
  [count |-> stream.count, head |-> stream.head, issuer |-> anchor,
   signature |-> [by |-> anchor, over |-> <<stream.count, stream.head, anchor>>]]

CheckpointVerifies(cp, anchor) ==
  /\ cp.issuer = anchor
  /\ cp.signature = [by |-> anchor, over |-> <<cp.count, cp.head, cp.issuer>>]
===============================================================================
