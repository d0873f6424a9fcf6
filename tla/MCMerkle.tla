------------------------------ MODULE MCMerkle ------------------------------
(* Both verifiers of Merkle proofs on small trees for TLC.  A behaviour is  *)
(* a run of the consistency verifier or one of the inclusion verifier; the  *)
(* other one is at rest.                                                    *)
EXTENDS ConsistencyVerifier, InclusionVerifier

ConsistencyRun ==
    /\ ConsistencyInit
    /\ log = <<>> /\ nodes = {} /\ entry = <<>> /\ index = 0 /\ size = 0
    /\ path = [i \in 1 .. MaxPath |-> <<>>]

InclusionRun ==
    /\ InclusionInit
    /\ old = <<>> /\ new = <<>> /\ honest = TRUE
    /\ roots = [old |-> EmptyRoot, new |-> EmptyRoot, nodes |-> {}]
    /\ oldSize = 0 /\ newSize = 0 /\ todo = <<>>
    /\ phase = "done" /\ fn = 0 /\ sn = 0 /\ fr = EmptyRoot /\ sr = EmptyRoot
    /\ verdict = "none"

ProofInit == ConsistencyRun \/ InclusionRun

ProofNext == \/ ConsistencyNext /\ UNCHANGED inclusionVars
             \/ InclusionNext /\ UNCHANGED consistencyVars

ProofSpec == /\ ProofInit
             /\ [][ProofNext]_<<consistencyVars, inclusionVars>>
             /\ WF_consistencyVars(ConsistencyNext)

(* What an honest log proves is accepted: growth by rfc6962_consistency_    *)
(* roots for every pair of sizes, and each entry by verify_inclusion.       *)
ProofsComplete == HonestGrowthAccepted /\ HonestInclusionAccepted

(* What is accepted is true: no consistency proof hides a rewrite, an       *)
(* inclusion proof shows the entry at its position (verify_inclusion), and  *)
(* a receipt, whose index and size are not signed, shows that its statement *)
(* is in the log (verify_receipt).                                          *)
ProofsSound == /\ NoRewriteAccepted
               /\ InclusionIsPosition
               /\ ReceiptIsMembership
=============================================================================
