------------------------------ MODULE Mandates ------------------------------
(***************************************************************************)
(* Mandates (core/mandate.py): signed grants of actions, resources, spend  *)
(* and a validity window, embedded in the receipt of the action they       *)
(* authorize together with the mandate they derive from.                   *)
(*                                                                         *)
(* An empty list of actions or resources, and a missing budget, restrict   *)
(* nothing.  One budget id: the others behave alike.                       *)
(***************************************************************************)
EXTENDS Integers, FiniteSets

CONSTANT None

(* The signed envelope: key is the key id of its signature.                 *)
Envelope(id, key, terms, at) ==
    [grant_id |-> id, issuer |-> terms.issuer, key |-> key, delegate |-> terms.delegate,
     actions |-> terms.actions, resources |-> terms.resources, limit |-> terms.limit,
     issued |-> at, expires |-> at + terms.ttl, parent |-> terms.parent]

(* The issuer a mandate names is the key id of its signer.                  *)
SignerBound(m) == m.issuer = m.key

EnvelopeIssues(m) == IF SignerBound(m) THEN {} ELSE {"issuer not bound to the signer"}

WindowCovers(m, at) == m.issued <= at /\ at < m.expires

(* Any of a receipt's three names for its resource will do.                 *)
ResourceMatches(allowed, r) ==
    allowed = {} \/ allowed \cap {r.resource, r.resource_type, r.action} # {}

(* check_receipt_against_mandate.  The spend is that of this one receipt.   *)
ReceiptIssues(m, r) ==
    {v \in {"expired", "action", "resource", "budget"} :
        \/ v = "expired" /\ ~WindowCovers(m, r.at)
        \/ v = "action" /\ m.actions # {} /\ r.action \notin m.actions
        \/ v = "resource" /\ ~ResourceMatches(m.resources, r)
        \/ v = "budget" /\ m.limit # None /\ r.spend > m.limit}

\* Fault: one shared entry is enough.
ScopeSubset_Overlaps(child, parent) == parent = {} \/ child = {} \/ child \cap parent # {}

(* A parent that lists nothing allows everything; a child that lists        *)
(* nothing passes whatever its parent lists.                                *)
ScopeSubset(child, parent) == parent = {} \/ child \subseteq parent

BudgetSubset(child, parent) ==
    child.limit # None => parent.limit # None /\ child.limit <= parent.limit

(* _mandate_parent_issues: the embedded parent p of a child m, one level.   *)
ParentIssues(m, p) ==
    IF m.parent = None THEN {}
    ELSE IF p = None THEN {"not embedded"}
    ELSE IF EnvelopeIssues(p) # {} THEN {"parent invalid"}
    ELSE {v \in {"grant_id", "delegate", "earlier", "later", "actions", "resources", "budget"} :
            \/ v = "grant_id" /\ m.parent # p.grant_id
            \/ v = "delegate" /\ p.delegate # None /\ m.issuer # p.delegate
            \/ v = "earlier" /\ m.issued < p.issued
            \/ v = "later" /\ m.expires > p.expires
            \/ v = "actions" /\ ~ScopeSubset(m.actions, p.actions)
            \/ v = "resources" /\ ~ScopeSubset(m.resources, p.resources)
            \/ v = "budget" /\ ~BudgetSubset(m, p)}

(* verify_bundle_mandate, for a receipt r with the section (m, p).          *)
BundleMandateIssues(r, m, p) ==
    IF m = None THEN IF r.spend > 0 THEN {"mandate required"} ELSE {}
    ELSE IF EnvelopeIssues(m) # {} THEN EnvelopeIssues(m)
    ELSE (IF m.delegate # None /\ m.delegate \notin r.identities THEN {"delegate"} ELSE {})
         \cup ParentIssues(m, p) \cup ReceiptIssues(m, r)
=============================================================================
