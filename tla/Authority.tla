----------------------------- MODULE Authority ------------------------------
(***************************************************************************)
(* Delegations issued, signed, passed on and presented at the gateway, and *)
(* mandates issued for the receipts of the calls it lets through.          *)
(*                                                                         *)
(* Token objects are unprotected: whoever holds one can change it before   *)
(* passing it on as a parent or presenting it (Edited).  A delegate can    *)
(* also construct a child without issue_delegation and sign it with its    *)
(* own key.  Issuers are otherwise honest: they sign what issue_delegation *)
(* returned.                                                               *)
(***************************************************************************)
EXTENDS Delegation, Mandates

CONSTANTS
    CapabilityOffers,   \* sets of capabilities a caller asks for
    Ttls,               \* lifetimes a caller asks for
    Keys,               \* key ids, also the names of issuers and delegates
    MandateTerms,       \* [issuer, delegate, actions, resources, limit, ttl, parent]
    Spends,             \* amounts a call's budget effects may add up to
    MaxTokens,          \* bound: delegations issued
    MaxGrants,          \* bound: delegations and mandates issued
    MaxReceipts,        \* bound: calls let through
    MaxTime             \* bound: the clock

ASSUME BoundsAssumption ==
    /\ MaxTokens \in Nat /\ MaxGrants \in Nat /\ MaxReceipts \in Nat /\ MaxTime \in Nat
    /\ Ttls \subseteq Nat \ {0} /\ Spends \subseteq Nat
    /\ \A terms \in MandateTerms : terms.ttl \in Int /\ terms.limit \in Nat \cup {None}
    /\ \A id \in 1 .. MaxGrants, key \in Keys, terms \in MandateTerms, at \in 0 .. MaxTime :
          Envelope(id, key, terms, at) # None

VARIABLES
    mode,       \* the gateway agent's operating mode
    lineage,    \* for each delegation id: what it was issued with, from which parent
    tokens,     \* the token objects issued
    signed,     \* the delegation documents signed
    mandates,   \* the mandate envelopes signed
    receipts,   \* the receipts of the calls let through
    now
vars == <<mode, lineage, tokens, signed, mandates, receipts, now>>

Ids == 1 .. Len(lineage)
Envelopes == UNION {[1 .. n -> signed] : n \in 0 .. MaxTokens}
Verified == {e \in Envelopes : EnvelopeVerifies(e, signed)}

(* What a holder can make of a token object: keep it, drop its parents, or  *)
(* widen the capabilities of the leaf or of its parent.                     *)
Widened(b) == [b EXCEPT !.caps = UNION CapabilityOffers]
Edited(t) ==
    {t, <<Head(t)>>, <<Widened(Head(t))>> \o Tail(t)}
    \cup (IF Len(t) > 1 THEN {<<Head(t), Widened(t[2])>> \o SubSeq(t, 3, Len(t))} ELSE {})
Held == UNION {Edited(t) : t \in tokens}

Init ==
    /\ mode \in {"shadow", "enforce"}
    /\ lineage = <<>> /\ tokens = {} /\ signed = {}
    /\ mandates = {} /\ receipts = {} /\ now = 0

GrantLeft == Len(lineage) + Cardinality(mandates) < MaxGrants

AddToken(t, honest) ==
    /\ GrantLeft /\ Len(lineage) < MaxTokens
    /\ tokens' = tokens \cup {t}
    /\ lineage' = Append(lineage, [caps |-> Head(t).caps, honest |-> honest,
                                   parent |-> IF Len(t) = 1 THEN 0 ELSE t[2].id])

-----------------------------------------------------------------------------
(* issue_delegation over a parent object, which nothing verifies.           *)
IssueFromToken(parent, caps, ttl) ==
    /\ parent \in {<<>>} \cup Held
    /\ Attenuated(caps, parent)
    /\ AddToken(Child(parent, Len(lineage) + 1, caps, now, ttl), TRUE)
    /\ UNCHANGED <<mode, signed, mandates, receipts, now>>

(* issue_delegation over a parent's signed envelope.                        *)
IssueFromEnvelope(e, caps, ttl) ==
    /\ e \in Verified
    /\ Attenuated(caps, TokenOf(e))
    /\ AddToken(Child(TokenOf(e), Len(lineage) + 1, caps, now, ttl), TRUE)
    /\ UNCHANGED <<mode, signed, mandates, receipts, now>>

(* A delegate constructs the child itself, with whatever capabilities.      *)
ConstructChild(e, caps, ttl) ==
    /\ e \in Verified
    /\ ~Attenuated(caps, TokenOf(e))
    /\ AddToken(Child(TokenOf(e), Len(lineage) + 1, caps, now, ttl), FALSE)
    /\ UNCHANGED <<mode, signed, mandates, receipts, now>>

SignDelegation(t, e) ==
    /\ t \in tokens \ signed
    /\ e \in Envelopes
    /\ MaySign(t, e, signed)
    /\ signed' = signed \cup {t}
    /\ UNCHANGED <<mode, lineage, tokens, mandates, receipts, now>>

(* issue_mandate.  Nothing is checked against the parent it names, nor the  *)
(* issuer it names against the key.                                         *)
IssueMandate(key, terms) ==
    /\ GrantLeft
    /\ terms.parent \in {None} \cup {m.grant_id : m \in mandates}
    /\ mandates' = mandates \cup {Envelope(Cardinality(mandates) + 1, key, terms, now)}
    /\ UNCHANGED <<mode, lineage, tokens, signed, receipts, now>>

(* A call at the gateway under token t and envelope e: let through when the *)
(* chain has no violation, and receipted.                                   *)
Call(t, e, op, who, spend) ==
    /\ Cardinality(receipts) < MaxReceipts
    /\ t \in {<<>>} \cup Held
    /\ e \in Envelopes
    /\ ChainViolations(t, e, op, signed, now, mode # "shadow") = {}
    /\ receipts' = receipts \cup
          {[leaf |-> IF t = <<>> THEN 0 ELSE Head(t).id, identities |-> {who}, action |-> op.action,
            resource |-> op.target, resource_type |-> op.resource, spend |-> spend, at |-> now]}
    /\ UNCHANGED <<mode, lineage, tokens, signed, mandates, now>>

Tick ==
    /\ now < MaxTime
    /\ now' = now + 1
    /\ UNCHANGED <<mode, lineage, tokens, signed, mandates, receipts>>

Next ==
    \/ \E caps \in CapabilityOffers, ttl \in Ttls :
          \/ \E parent \in {<<>>} \cup Held : IssueFromToken(parent, caps, ttl)
          \/ \E e \in Verified : IssueFromEnvelope(e, caps, ttl) \/ ConstructChild(e, caps, ttl)
    \/ \E t \in tokens, e \in Envelopes : SignDelegation(t, e)
    \/ \E key \in Keys, terms \in MandateTerms : IssueMandate(key, terms)
    \/ \E t \in {<<>>} \cup Held, e \in Envelopes, op \in Operations, who \in Keys, spend \in Spends :
          Call(t, e, op, who, spend)
    \/ Tick

Spec == Init /\ [][Next]_vars

-----------------------------------------------------------------------------
(* The delegations that id descends from, itself included: those at the end *)
(* of a line of parents.                                                    *)
Ancestors(id) == {a \in Ids : \E n \in 0 .. Len(lineage) - 1 : \E line \in [0 .. n -> Ids] :
                     /\ line[0] = id /\ line[n] = a
                     /\ \A k \in 1 .. n : line[k] = lineage[line[k - 1]].parent}

(* Every token object extends its parent's, its leaf is what its id was     *)
(* issued with, and only token objects are signed.                          *)
TypeOK ==
    /\ mode \in {"shadow", "enforce"} /\ now \in 0 .. MaxTime
    /\ \A t \in tokens : Head(t).id \in Ids /\ Head(t).caps = lineage[Head(t).id].caps
    /\ Cardinality(tokens) = Len(lineage)
    /\ signed \subseteq tokens
    /\ \A r \in receipts : r.leaf \in {0} \cup Ids /\ r.spend \in Spends /\ r.at \in 0 .. MaxTime

(* delegation.py issue_delegation: "Issue a child delegation with           *)
(* monotonically reduced capabilities".  Outside shadow mode, whatever is   *)
(* dropped or widened in token objects on the way, an operation let through *)
(* is allowed by every delegation its leaf really descends from.            *)
Attenuation ==
    mode # "shadow" =>
        \A r \in receipts : r.leaf # 0 =>
            \A a \in Ancestors(r.leaf) :
                CapabilityAllows(lineage[a].caps,
                                 [resource |-> r.resource_type, action |-> r.action])

(* A chain issued and signed as the code asks for is not refused while its  *)
(* leaf is valid, for any operation the leaf allows, at any depth.          *)
HonestChainAccepted ==
    \A t \in signed, op \in Operations :
        (/\ \A a \in Ancestors(Head(t).id) : lineage[a].honest
         /\ ValidAt(Head(t), now) /\ CapabilityAllows(Head(t).caps, op)) =>
        \E e \in Envelopes : ChainViolations(t, e, op, signed, now, TRUE) = {}

(* A receipt accepted under a child mandate is one its embedded parent      *)
(* would have accepted: in its window, its actions, its resources and its   *)
(* budget - for each of the last three that the child itself states.        *)
ChildWithinParent ==
    \A r \in receipts, m \in mandates, p \in mandates :
        m.parent # None /\ BundleMandateIssues(r, m, p) = {} =>
            /\ p.grant_id = m.parent
            /\ "expired" \notin ReceiptIssues(p, r)
            /\ m.actions # {} => "action" \notin ReceiptIssues(p, r)
            /\ m.resources # {} => "resource" \notin ReceiptIssues(p, r)
            /\ m.limit # None => p.limit # None /\ "budget" \notin ReceiptIssues(p, r)

(* The state is well formed, and delegations remain usable: what honest     *)
(* holders derive with delegation.py is accepted at the gateway.            *)
DelegationsUsable == TypeOK /\ HonestChainAccepted
=============================================================================
