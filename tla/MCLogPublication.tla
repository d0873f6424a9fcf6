-------------------------- MODULE MCLogPublication --------------------------
(* Small instances of LogPublication for TLC; see the .cfg file. *)
EXTENDS LogPublication, TLC

CONSTANTS k1, k2

(* A consumer that trusts every key and asks for one of two witnesses, and  *)
(* one that has configured witnesses only.                                  *)
TrustPolicies == {[keys |-> Keys, witnesses |-> {"w1", "w2"}, required |-> 1],
                  [keys |-> {}, witnesses |-> {"w1", "w2"}, required |-> 1]}

SymmetricKeys == Permutations(Keys)
=============================================================================
