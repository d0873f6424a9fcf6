------------------------------ MODULE MCWitness -----------------------------
(* Small instances of Witness for TLC.  The log forks at its first entry;  *)
(* two of its checkpoints put together tip, count and root of different     *)
(* states.                                                                  *)
EXTENDS Witness, TLC

CONSTANTS a, b, w1, w2, w3

Histories == {<<>>, <<a>>, <<b>>, <<b, a>>}

Proper == {[count |-> Len(h), tip |-> h, root |-> h] : h \in Histories}
OtherTip == [count |-> 1, tip |-> <<b>>, root |-> <<a>>]
Torn == [count |-> 1, tip |-> <<a>>, root |-> <<a, a>>]

ForkingLog == Proper \cup {OtherTip, Torn}

CorrectAlike == Permutations({w1, w2})
=============================================================================
