----------------------------- MODULE Delegation -----------------------------
(***************************************************************************)
(* Capabilities (core/operations.py) and delegation tokens                 *)
(* (core/delegation.py).                                                   *)
(*                                                                         *)
(* A commitment hashes a token together with its parent's commitment, so a *)
(* token is the sequence of the bodies from the leaf to the root, and two  *)
(* tokens have one commitment exactly when they are one sequence.  A       *)
(* signed document names its parents by that commitment: it is such a      *)
(* sequence too.  An envelope nests the parent's envelope: a sequence of   *)
(* documents.  Any key holder may sign: a signature is checked with the    *)
(* key it carries.                                                         *)
(***************************************************************************)
EXTENDS Integers, Sequences, FiniteSets

CONSTANT Operations         \* [resource, action] pairs a call may ask for

Wildcard == "*"

(* Exact resource; the action exact or the wildcard.                        *)
CapabilityAllows(caps, op) ==
    \E c \in caps : c.resource = op.resource /\ c.action \in {Wildcard, op.action}

(* The child's capabilities that the parent's do not allow.                 *)
CapabilityExtras(child, parent) == {c \in child : ~CapabilityAllows(parent, c)}

-----------------------------------------------------------------------------
Body(id, caps, depth, issued, expires) ==
    [id |-> id, caps |-> caps, depth |-> depth, issued |-> issued, expires |-> expires]

ValidAt(g, at) == g.issued <= at /\ at < g.expires

(* The capabilities issue_delegation gives to a child: those asked for, or  *)
(* a refusal when the parent's do not allow them.                           *)
Attenuated(caps, parent) ==
    parent # <<>> => CapabilityExtras(caps, Head(parent).caps) = {}

Child(parent, id, caps, at, ttl) ==
    LET depth == IF parent = <<>> THEN 0 ELSE Head(parent).depth + 1
    IN  <<Body(id, caps, depth, at, at + ttl)>> \o parent

\* Fault: the parent's parent is not rebuilt.
TokenOf_OneLevel(e) == [k \in 1 .. (IF Len(e) > 2 THEN 2 ELSE Len(e)) |-> Head(e[k])]

(* delegation_from_envelope: the token the nested documents spell.          *)
TokenOf(e) == [k \in DOMAIN e |-> Head(e[k])]

(* verify_delegation_envelope: every document is signed and names the token *)
(* that the envelope nested in it spells; the innermost names no parent.    *)
EnvelopeVerifies(e, signed) ==
    /\ e # <<>>
    /\ \A k \in DOMAIN e :
          /\ e[k] \in signed
          /\ Tail(e[k]) = TokenOf(SubSeq(e, k + 1, Len(e)))

(* sign_delegation: a child is signed only over a verified envelope of the  *)
(* parent it names, a root over none.                                       *)
MaySign(t, e, signed) ==
    IF e = <<>> THEN Tail(t) = <<>>
    ELSE EnvelopeVerifies(e, signed) /\ Tail(t) # <<>> /\ TokenOf(e) = Tail(t)

-----------------------------------------------------------------------------
(* The links of a chain that widen what their parent has.                   *)
ChainExtras(t) == UNION {CapabilityExtras(t[k].caps, t[k + 1].caps) : k \in 1 .. Len(t) - 1}

\* Fault: the envelope is verified but not compared with the token.
ChainViolations_AnyEnvelope(t, e, op, signed, now, requireSignature) ==
    IF t = <<>> THEN {}
    ELSE {v \in {"unsigned", "expired", "capability", "widened"} :
            \/ v = "unsigned" /\ requireSignature /\ ~EnvelopeVerifies(e, signed)
            \/ v = "expired" /\ ~ValidAt(Head(t), now)
            \/ v = "capability" /\ ~CapabilityAllows(Head(t).caps, op)
            \/ v = "widened" /\ ChainExtras(t) # {}}

(* verify_delegation_chain: the token a caller presents against the signed  *)
(* envelope it comes with.  Only the leaf's validity is checked.            *)
ChainViolations(t, e, op, signed, now, requireSignature) ==
    IF t = <<>> THEN {}
    ELSE {v \in {"unsigned", "envelope", "mismatch", "expired", "capability", "widened"} :
            \/ v = "unsigned" /\ requireSignature /\ e = <<>>
            \/ v = "envelope" /\ requireSignature /\ e # <<>> /\ ~EnvelopeVerifies(e, signed)
            \/ v = "mismatch" /\ requireSignature /\ e # <<>> /\ TokenOf(e) # t
            \/ v = "expired" /\ ~ValidAt(Head(t), now)
            \/ v = "capability" /\ ~CapabilityAllows(Head(t).caps, op)
            \/ v = "widened" /\ ChainExtras(t) # {}}
=============================================================================
