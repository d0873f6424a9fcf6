----------------------------- MODULE MCReceipts -----------------------------
(* Shapes of receipts for TLC: from the bare one to one with every section  *)
(* that is compatible with it.                                              *)
EXTENDS Receipts

Bare == {}
Logged == {"composed", "session", "policy", "audit", "lineage", "approval"}
Identified == {"composed", "identity", "evidence_verified", "session", "policy", "session_proof"}
Attested == {"identity", "workload", "audit", "policy", "monitoring"}
Spending == {"budget", "mandate", "policy", "session"}
Delegated == {"composed", "delegation", "session", "audit"}
Old == {"v1", "audit", "session", "approval"}
Statement == {"scitt", "audit", "policy"}
Shadowed == {"shadow", "audit", "policy"}
Acting == {"side_effect", "policy"}

MCShapes == {Bare, Logged, Identified, Attested, Spending, Delegated, Old, Statement,
             Shadowed, Acting}
DeepShapes == {Identified}
=============================================================================
