------------------------- MODULE InclusionVerifier --------------------------
(***************************************************************************)
(* Inclusion proofs (verify_inclusion, scitt.verify_receipt).  The signed  *)
(* root is that of the entries 1..size.  A prover claims an index, a tree  *)
(* size and a leaf, and builds the audit path one node at a time.  An      *)
(* entry it may pass off as logged is an index, a foreign entry 0, or the  *)
(* bytes that a node hash is computed from.  Names as in the other.        *)
(***************************************************************************)
EXTENDS Merkle

CONSTANTS MaxLog,    \* bound: entries in the log
          MaxPath    \* bound: nodes in a proof

ASSUME LogBounds == MaxLog \in Nat /\ MaxPath \in Nat

VARIABLES log,       \* the logged entries
          nodes,     \* hashes the prover can use
          entry,     \* the entry it claims is logged
          index, size,   \* where, and in a tree of how many entries
          path       \* the proof so far

inclusionVars == <<log, nodes, entry, index, size, path>>

(* Ordinary entries: terms that are neither leaf nor node hashes.           *)
Plain(i) == [j \in 1..(i + 3) |-> <<>>]

InclusionInit ==
    /\ \E n \in 1..MaxLog : log = [i \in 1..n |-> Plain(i)]
    /\ nodes = TreeNodes(log) \cup {LeafHash(Plain(0))}
    /\ entry \in {Plain(i) : i \in 0..MaxLog} \cup nodes
    /\ index \in 0..MaxLog /\ size \in 0..(MaxLog + 1)
    /\ path = <<>>

ExtendProof ==
    /\ Len(path) < MaxPath
    /\ \E c \in nodes : path' = Append(path, c)
    /\ UNCHANGED <<log, nodes, entry, index, size>>

InclusionNext == ExtendProof

InclusionSpec == InclusionInit /\ [][InclusionNext]_inclusionVars

Logged(e) == \E i \in 1..Len(log) : log[i] = e

(* verify_inclusion also requires tree_size to equal the checkpoint count.  *)
VerifyInclusion ==
    /\ size = Len(log)
    /\ RootFromPath(LeafHash(entry), index, size, path) = <<Root(log)>>

(* verify_receipt takes the size from the receipt's unprotected header; the *)
(* service's signature covers only the root.                                *)
VerifyReceipt ==
    RootFromPath(LeafHash(entry), index, size, path) = <<Root(log)>>

(* The honest path for every logged entry is accepted.                      *)
HonestInclusionAccepted ==
    \A i \in 1..Len(log) :
        RootFromPath(LeafHash(log[i]), i - 1, Len(log), InclusionPath(i - 1, log))
            = <<Root(log)>>

(* verify_inclusion accepts an entry only at the position it has in the log.*)
InclusionIsPosition ==
    VerifyInclusion => index < Len(log) /\ log[index + 1] = entry

(* verify_receipt accepts only logged entries, whatever index and size the  *)
(* receipt claims: no inner node passes for an entry, because leaf and node *)
(* hashes are domain separated.                                             *)
ReceiptIsMembership == VerifyReceipt => Logged(entry)
=============================================================================
