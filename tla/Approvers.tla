------------------------------ MODULE Approvers ------------------------------
(***************************************************************************)
(* Who may approve a gated action.  The organization seals directories of  *)
(* the keys of its people (approval.rs), by the key of the moment; the     *)
(* enforcement point fetches them on a TTL (approverdir.py), follows the   *)
(* key history of IssuerTrust to their signer, and judges evidence by the  *)
(* directory it holds, under the anchor of the credential presented        *)
(* (enforcer.py).                                                          *)
(*                                                                         *)
(* Anybody signs whatever evidence at any time, so evidence is a value.    *)
(***************************************************************************)
EXTENDS IssuerTrust

CONSTANTS
  People,        \* identities of the approvers
  Pens,          \* the did:keys they sign with
  Staffs,        \* sets of entries [approver_id, approver_did, not_after]
  Actions,       \* bindings: an operation and on whose behalf
  Ends,          \* when directories and evidence end
  MaxDirectories \* bound

VARIABLES
  directories,   \* every directory the organization sealed
  roster,        \* the one the cache of the enforcement point holds
  admitted       \* history: every one it ever held

approverVars == <<directories, roster, admitted>>

-------------------------------------------------------------------------------
ApproverDirectory ==
  [version: Nat, issuer: Own, entries: SUBSET UNION Staffs, not_after: Ends \cup {None},
   seal: [by: Own, over: Nat \X Own \X (SUBSET UNION Staffs) \X (Ends \cup {None})]]

ASSUME ApproversAssumption == None \notin ApproverDirectory

DirectoryContent(d) == <<d.version, d.issuer, d.entries, d.not_after>>

SealDirectory(by, entries, version, notAfter) ==
  LET d == [version |-> version, issuer |-> by, entries |-> entries, not_after |-> notAfter,
            seal |-> None] IN
  /\ Cardinality(directories) < MaxDirectories
  /\ by = CurrentDid(history)
  /\ \A e \in directories : e.version < version
  /\ directories' = directories \cup {[d EXCEPT !.seal = [by |-> by, over |-> DirectoryContent(d)]]}
  /\ UNCHANGED <<vars, roster, admitted>>

\* verify_anchor_signed, of the directory and the instant.
VerifyDirectory(d, anchor) ==
  /\ anchor # None /\ d.issuer = anchor
  /\ d.seal = [by |-> anchor, over |-> DirectoryContent(d)]
  /\ d.not_after # None => clock <= d.not_after

\* A history of the pinned root decides; without one only the root may sign.
SigningAnchor(issuer) ==
  IF held # None THEN AuthorizeIssuer(held, Root, issuer)
  ELSE IF issuer = Root THEN Root ELSE None

ServedDirectories ==
  UNION {{d, [d EXCEPT !.entries = UNION Staffs], [d EXCEPT !.not_after = None],
          [d EXCEPT !.version = MaxVersion]} : d \in directories}

\* Faulty: what verifies is taken, whatever its age.
AnyDirectory(d) == VerifyDirectory(d, SigningAnchor(d.issuer))

Admissible(d) ==
  /\ VerifyDirectory(d, SigningAnchor(d.issuer))
  /\ roster # None => d.version >= roster.version

FetchDirectory(d) ==
  /\ d \in ServedDirectories /\ Admissible(d)
  /\ roster' = d /\ admitted' = admitted \cup {d}
  /\ UNCHANGED <<vars, directories>>

-------------------------------------------------------------------------------
EvidenceContent(e) == <<e.approver, e.approver_did, e.binding, e.expires_at>>

\* approve and approve_by_key: of an anchor, or of a person's own key.
Sealed(e, by) == e @@ [signature |-> [by |-> by, over |-> EvidenceContent(e)]]
Approve(action, approver, end, anchor) ==
  Sealed([approver |-> approver, approver_did |-> None, binding |-> action,
          expires_at |-> end], anchor)
ApproveByKey(action, approver, end, pen) ==
  Sealed([approver |-> approver, approver_did |-> pen, binding |-> action,
          expires_at |-> end], pen)

\* What may be presented: evidence anybody signed, or signed and then edited.
Evidence ==
  LET signed == {Approve(a, who, end, k) : a \in Actions, who \in People, end \in Ends \ {None}, k \in Keys}
                \cup {ApproveByKey(a, who, end, pen) :
                        a \in Actions, who \in People, end \in Ends \ {None}, pen \in Pens}
  IN signed \cup {[e EXCEPT !.binding = a] : e \in signed, a \in Actions}
            \cup {[e EXCEPT !.approver_did = pen] : e \in signed, pen \in Pens}

Supports(e, action, signer) ==
  /\ e.binding = action /\ clock < e.expires_at
  /\ e.signature = [by |-> signer, over |-> EvidenceContent(e)]

\* lookup, of an entry that has not ended.
Lookup(d, pen) ==
  {x \in d.entries : x.approver_did = pen /\ (x.not_after # None => clock <= x.not_after)}

\* ApprovalEvidence::verify and verify_with_directory.
VerifyEvidence(e, action, anchor) == e.approver_did = None /\ Supports(e, action, anchor)

VerifyWithDirectory(e, action, d, anchor) ==
  /\ VerifyDirectory(d, anchor)
  /\ e.approver_did # None /\ Lookup(d, e.approver_did) # {}
  /\ Supports(e, action, e.approver_did)

\* The anchors of the credentials that are believed now.
Anchors == {k \in Keys : \E p \in Presentations : p.issuer = k /\ Believes(p)}

\* _deny_if_gated: a gate asks for a person's key, or for the anchor's.
KeyGate(e, action, anchor) == roster # None /\ VerifyWithDirectory(e, action, roster, anchor)
AnchorGate(e, action, anchor) == VerifyEvidence(e, action, anchor)

-------------------------------------------------------------------------------
ApproversInit == directories = {} /\ roster = None /\ admitted = {}

ApproversNext ==
  \/ \E by \in Own, entries \in Staffs, v \in 1..MaxVersion, end \in Ends :
       SealDirectory(by, entries, v, end)
  \/ \E d \in ServedDirectories : FetchDirectory(d)

ApproversSpec ==
  /\ Init /\ ApproversInit
  /\ [][(Next /\ UNCHANGED approverVars) \/ ApproversNext]_<<vars, approverVars>>

-------------------------------------------------------------------------------
(***************************************************************************)
(* "A departed employee stays an authorized approver until someone         *)
(* re-signs": a key satisfies a gate only while a directory names it that  *)
(* the organization sealed, as it sealed it, with a key not known to be    *)
(* repudiated, that has not ended, and newer than which none was ever      *)
(* held; and only for the action it signed.  Evidence of the anchor's own  *)
(* key is of the organization, by a key that is not known to be repudiated.*)
(* For an organization that alone holds its keys.                          *)
(***************************************************************************)
ApproverIsEnrolled ==
  lost = {} =>
  \A anchor \in Anchors, action \in Actions, e \in Evidence :
    /\ KeyGate(e, action, anchor) =>
         /\ roster \in directories /\ roster.issuer \in Own \ withdrawn
         /\ roster.not_after # None => clock <= roster.not_after
         /\ \A d \in admitted : d.version <= roster.version
         /\ \E x \in roster.entries : x.approver_did = e.signature.by
         /\ e.signature.over = <<e.approver, e.signature.by, action, e.expires_at>>
    /\ AnchorGate(e, action, anchor) => e.signature.by = anchor /\ anchor \notin withdrawn

(***************************************************************************)
(* "Without it, rotation silently breaks every artifact except             *)
(* credentials": what the cache admits can satisfy the gate of a           *)
(* credential that is believed.                                            *)
(***************************************************************************)
RotationKeepsApprovals ==
  \A anchor \in Anchors, action \in Actions, e \in Evidence :
    /\ roster # None /\ VerifyDirectory(roster, SigningAnchor(roster.issuer))
    /\ e.approver_did # None /\ Lookup(roster, e.approver_did) # {}
    /\ Supports(e, action, e.approver_did) /\ anchor \in Own
    => KeyGate(e, action, anchor)

\* "Identifier of the accountable human approver": the one the directory names.
ApproverIsAccountable ==
  \A anchor \in Anchors, action \in Actions, e \in Evidence :
    KeyGate(e, action, anchor) =>
      \E x \in roster.entries : x.approver_did = e.approver_did /\ x.approver_id = e.approver
===============================================================================
