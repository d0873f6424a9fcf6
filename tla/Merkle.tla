------------------------------- MODULE Merkle -------------------------------
(***************************************************************************)
(* The RFC 6962 tree functions of agentauth/receipts/c2sp.py and their     *)
(* twins in audit.py.  A hash is the term it was computed from: a leaf     *)
(* hash is <<entry>>, a node hash <<left, right>>, so two hashes are equal *)
(* only when they hash the same data.  Entries are indices or hash terms.  *)
(* Where the code slices a list, the model keeps the list and names the    *)
(* slice: w entries, those that follow the first i.                        *)
(***************************************************************************)
EXTENDS Naturals, Sequences

LeafHash(e) == <<e>>
NodeHash(l, r) == <<l, r>>
EmptyRoot == <<>>

(* k = 1 after i doublings.                                                 *)
Doubled[i \in Nat] == IF i = 0 THEN 1 ELSE 2 * Doubled[i - 1]

(* The largest power of two strictly below n, for n >= 2: k is doubled      *)
(* while 2k < n.                                                            *)
Stops(n, i) == 2 * Doubled[i] >= n
LargestPowerOfTwoBelow(n) ==
    Doubled[CHOOSE i \in 0 .. n : Stops(n, i) /\ \A j \in 0 .. (i - 1) : ~Stops(n, j)]

IsPowerOfTwo(n) == \E i \in 0 .. n : n = Doubled[i]

TreeHashes(s) ==
    LET H[w \in Nat \ {0}] == [i \in Nat |->
            IF w = 1 THEN LeafHash(s[i + 1])
            ELSE LET k == LargestPowerOfTwoBelow(w)
                 IN NodeHash(H[k][i], H[w - k][i + k])]
    IN H

Root(s) == IF s = <<>> THEN EmptyRoot ELSE TreeHashes(s)[Len(s)][0]

(* Audit path of the leaf at (zero-based) index, nearest sibling first.     *)
Siblings(index, s) ==
    LET P[w \in Nat \ {0}] == [i \in Nat |->
            IF w = 1 THEN <<>>
            ELSE LET k == LargestPowerOfTwoBelow(w)
                 IN IF index < i + k THEN Append(P[k][i], TreeHashes(s)[w - k][i + k])
                    ELSE Append(P[w - k][i + k], TreeHashes(s)[k][i])]
    IN P

InclusionPath(index, s) == Siblings(index, s)[Len(s)][0]

(* What a verifier rebuilds for w entries from the first l nodes of the     *)
(* path: <<root>>, or <<>> for a malformed proof.                           *)
Recon(leaf, index, path) ==
    LET R[l \in Nat] == [i \in Nat |-> [w \in Nat \ {0} |->
            IF w = 1 THEN IF l = 0 THEN <<leaf>> ELSE <<>>
            ELSE IF l = 0 THEN <<>>
            ELSE LET k == LargestPowerOfTwoBelow(w)
                     left == index < i + k
                     sub == IF left THEN R[l - 1][i][k] ELSE R[l - 1][i + k][w - k]
                 IN IF sub = <<>> THEN <<>>
                    ELSE IF left THEN <<NodeHash(sub[1], path[l])>>
                    ELSE <<NodeHash(path[l], sub[1])>>]]
    IN R

RootFromPath(leaf, index, size, path) ==
    IF index < size THEN Recon(leaf, index, path)[Len(path)][0][size] ELSE <<>>

(* SUBPROOF for the first oldSize entries: it follows the last of them, so  *)
(* a run of one ends where the old tree does.  The flag b is true while no  *)
(* entry was skipped, that is while i = 0.                                  *)
SubProof(oldSize, s) ==
    LET S[w \in Nat \ {0}] == [i \in Nat |->
            IF w = 1 \/ i + w = oldSize THEN IF i = 0 THEN <<>> ELSE <<TreeHashes(s)[w][i]>>
            ELSE LET k == LargestPowerOfTwoBelow(w)
                 IN IF oldSize <= i + k THEN Append(S[k][i], TreeHashes(s)[w - k][i + k])
                    ELSE Append(S[w - k][i + k], TreeHashes(s)[k][i])]
    IN S

ConsistencyPath(oldSize, s) ==
    IF oldSize = 0 \/ oldSize = Len(s) THEN <<>> ELSE SubProof(oldSize, s)[Len(s)][0]

(* Every hash of the tree over s.                                           *)
TreeNodes(s) ==
    LET N[w \in Nat \ {0}] == [i \in Nat |->
            {TreeHashes(s)[w][i]} \cup
            IF w = 1 THEN {}
            ELSE LET k == LargestPowerOfTwoBelow(w) IN N[k][i] \cup N[w - k][i + k]]
    IN IF s = <<>> THEN {EmptyRoot} ELSE N[Len(s)][0]
=============================================================================
