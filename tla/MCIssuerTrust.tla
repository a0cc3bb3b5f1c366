---------------------------- MODULE MCIssuerTrust ----------------------------
(***************************************************************************)
(* The organization and its relying party.  Histories, status lists and    *)
(* directories hardly meet: TLC explores the behaviours with all histories,*)
(* those with rival ones, those with lists, and those with directories, the*)
(* three latter with histories that are sealed without an end and served as*)
(* they are, the two last with one rotation, and the last with a pinned    *)
(* root.                                                                   *)
(***************************************************************************)
EXTENDS Approvers

CONSTANTS a0, a1, peer, alice, bob, pen1, pen2, home, other

VARIABLE focus

MCInit ==
  /\ Init /\ ApproversInit
  /\ focus \in {"histories", "rivals", "lists", "directories"}
  /\ (focus \in {"lists", "directories"} => pinned)
  /\ Cardinality(lost) <= 1 /\ (focus = "rivals" <=> lost # {}) /\ (lost # {} => minimum = 1)

Histories(rotations) ==
  /\ Maintain
  /\ Len(history'.rotations) <= rotations /\ history'.not_after = None

MCNext ==
  /\ UNCHANGED focus
  /\ \/ /\ focus = "histories" /\ UNCHANGED approverVars
        /\ Tick \/ Maintain \/ \E h \in Served : Fetch(h)
     \/ /\ focus = "rivals" /\ UNCHANGED approverVars
        /\ Histories(2) \/ \E h \in Rivals \cup published : Fetch(h)
     \/ /\ focus = "lists" /\ UNCHANGED approverVars
        /\ Tick \/ Histories(1) \/ Publish \/ \E h \in published : Fetch(h)
     \/ /\ focus = "directories" /\ UNCHANGED approverVars
        /\ Tick \/ Histories(1) \/ \E h \in published : Fetch(h)
     \/ focus = "directories" /\ ApproversNext

allVars == <<vars, approverVars, focus>>
MCSpec == MCInit /\ [][MCNext]_allVars

MCLevels == (a0 :> 2) @@ (a1 :> 0) @@ (peer :> 1)

MCClaims ==
  {[tools |-> {"read"}, model |-> "m1", valid_for |-> 1, consent |-> None],
   [tools |-> {"read"}, model |-> None, valid_for |-> 2,
    consent |-> [authorized |-> 0, expires |-> 1, tools |-> {"read"}]],
   [tools |-> {"read", "pay"}, model |-> None, valid_for |-> 2,
    consent |-> [authorized |-> 0, expires |-> 1, tools |-> {"read"}]]}

Entry(who, pen, end) == [approver_id |-> who, approver_did |-> pen, not_after |-> end]
MCStaffs == {{Entry(alice, pen1, None)}, {Entry(bob, pen2, 1)}}
===============================================================================
