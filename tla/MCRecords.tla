------------------------------ MODULE MCRecords ------------------------------
(***************************************************************************)
(* The four kinds of record an organization can show afterwards.   They    *)
(* share no state, so a violation in one needs no step of the others: TLC  *)
(* explores the behaviours that stay within one of them.                   *)
(***************************************************************************)
EXTENDS DecisionTrail, Custody, Alignment, Accountability

vars == <<trailVars, custodyVars, alignmentVars, accountabilityVars>>

Init == TrailInit /\ CustodyInit /\ AlignmentInit /\ AccountabilityInit

NoTrail == life = 1 /\ chain = <<>> /\ signed = {}
NoCustody == salts = 0
NoAlignment == declared = {} /\ date = 0
NoAccount == revisions = {} /\ granted = <<>> /\ decided = <<>>

Next ==
  \/ NoCustody /\ NoAlignment /\ NoAccount
     /\ TrailNext /\ UNCHANGED <<custodyVars, alignmentVars, accountabilityVars>>
  \/ NoTrail /\ NoAlignment /\ NoAccount
     /\ CustodyNext /\ UNCHANGED <<trailVars, alignmentVars, accountabilityVars>>
  \/ NoTrail /\ NoCustody /\ NoAccount
     /\ AlignmentNext /\ UNCHANGED <<trailVars, custodyVars, accountabilityVars>>
  \/ NoTrail /\ NoCustody /\ NoAlignment
     /\ AccountabilityNext /\ UNCHANGED <<trailVars, custodyVars, alignmentVars>>

Spec == Init /\ [][Next]_vars

Perms == Permutations(Threads) \cup Permutations(Parties)

MCRosters == {<<"alice", "bob">>, <<"bob", "alice", "bob">>, <<"carol">>}

MCRank == ("orgA" :> 1) @@ ("orgB" :> 2)

Intent(subject, by, expires) ==
  [subject |-> subject, declared_by |-> by, issued_at |-> 0, expires_at |-> expires,
   signer |-> "org"]
Task == Intent("agent", "alice", 2)
Other == Intent("agent", "bob", 1)
MCIntents == {Task, Other, Intent("agent", "agent", 2), Intent("agent", "alice", 0)}

Verdict(intent, action, evaluator, version, distance, confidence, expires) ==
  [intent |-> intent, action |-> action, evaluator |-> evaluator, version |-> version,
   distance |-> distance, confidence |-> confidence, expires_at |-> expires,
   signer |-> "org"]
MCJudgements ==
  {Verdict(Task, "pay", "e1", "v1", 10, 90, 2), Verdict(Task, "pay", "e1", "v2", 10, 90, 2),
   Verdict(Task, "pay", "e2", "v1", 20, 80, 1), Verdict(Task, "pay", "e2", "v2", 60, 95, 2),
   Verdict(Task, "pay", "e3", "v1", 0, 50, 2), Verdict(Task, "read", "e2", "v1", 0, 90, 2),
   Verdict(Other, "pay", "e2", "v1", 0, 90, 2),
   [Verdict(Task, "pay", "e2", "v1", 0, 100, 2) EXCEPT !.signer = "elsewhere"]}
MCPolicy == [quorum |-> 2, max_distance |-> 30, min_confidence |-> 80]
===============================================================================
