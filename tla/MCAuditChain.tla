---------------------------- MODULE MCAuditChain ----------------------------
(* Small instances of AuditChain for TLC. *)
EXTENDS AuditChain, TLC

CONSTANTS r1, r2, t1, t2, t3, b1, b2

(* Two threads share the first replica's connection; the third thread runs  *)
(* in a second process on the same file.                                    *)
HostThree == (t1 :> r1) @@ (t2 :> r1) @@ (t3 :> r2)
=============================================================================
