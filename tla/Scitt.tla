------------------------------- MODULE Scitt --------------------------------
(***************************************************************************)
(* The envelopes of agentauth/receipts/scitt.py: Signed Statements, the    *)
(* COSE Receipts a Transparency Service issues for them, and Transparent   *)
(* Statements, a statement that carries receipts.                          *)
(*                                                                         *)
(* An envelope is a record.  Hashes do not collide, so the RFC 6962 root   *)
(* of a log is the sequence of its entries, the audit path of an entry is  *)
(* the sequence of the other entries, and the root rebuilt from a leaf and *)
(* a path is the path with the leaf put in its place.  The algorithms on   *)
(* node hashes are those of InclusionVerifier and ConsistencyVerifier.     *)
(***************************************************************************)
EXTENDS Naturals, Sequences, SequencesExt

(* A dict after the assignment f[x] = y.                                    *)
Put(f, x, y) == [k \in DOMAIN f \cup {x} |-> IF k = x THEN y ELSE f[k]]

(***************************************************************************)
(* Envelopes.  `form' is how the bytes decode: COSE_Sign1 under tag 18,    *)
(* the same array without its tag, or something else.  `declares' is the   *)
(* protected header, `layout' the shape of the receipts header (394): the  *)
(* array of RFC 9942, or the single raw receipt written before 0.5.        *)
(***************************************************************************)
Forms == {"tagged", "untagged", "other"}
HeaderClaims == {"alg", "issuer", "kid"}

DecodesAsSign1(envelope) == envelope.form \in {"tagged", "untagged"}

(* sign_statement: a tagged envelope with every claim and no receipts.      *)
Tagged(declares, payload, receipts) ==
    [form |-> "tagged", declares |-> declares, payload |-> payload,
     layout |-> "array", receipts |-> receipts]

SignStatement(payload) == Tagged(HeaderClaims, payload, <<>>)

(* A signature is the key and what was signed; only its owner makes one.    *)
SignCose(key, signed) == [key |-> key, over |-> signed]
VerifyCose(envelope, key, detached) == envelope.signature = SignCose(key, detached)

(***************************************************************************)
(* check_registration_policy: the title of the refusal, or "registered".   *)
(***************************************************************************)
CheckRegistrationPolicy(statement) ==
    IF ~DecodesAsSign1(statement) THEN "Invalid Signed Statement"
    ELSE IF "alg" \notin statement.declares THEN "Bad Signature Algorithm"
    ELSE IF "issuer" \notin statement.declares THEN "Issuer Missing"
    ELSE IF "kid" \notin statement.declares THEN "Key Identifier Missing"
    ELSE "registered"

(***************************************************************************)
(* Inclusion receipts.                                                     *)
(***************************************************************************)
IssueInclusionReceipt(log, index, key) ==
    [proof |-> "inclusion", tree_size |-> Len(log), leaf_index |-> index,
     path |-> RemoveAt(log, index + 1), signature |-> SignCose(key, log)]

RootFromPath(leaf, index, size, path) == InsertAt(path, index + 1, leaf)

(* Fault: the signature is checked over the root the issuer signed,         *)
(* not over the root rebuilt from the statement.                            *)
VerifyReceipt_SignatureOnly(statement, receipt, key) ==
    /\ receipt.proof = "inclusion"
    /\ receipt.leaf_index < receipt.tree_size
    /\ Len(receipt.path) = receipt.tree_size - 1
    /\ VerifyCose(receipt, key, receipt.signature.over)

VerifyReceipt(statement, receipt, key) ==
    /\ receipt.proof = "inclusion"
    /\ receipt.leaf_index < receipt.tree_size
    /\ Len(receipt.path) = receipt.tree_size - 1
    /\ VerifyCose(receipt, key, RootFromPath(statement, receipt.leaf_index,
                                             receipt.tree_size, receipt.path))

(***************************************************************************)
(* Consistency receipts.  The path is empty when there is nothing to prove *)
(* (no old entries, or no new ones), and the verifier then has no root to  *)
(* rebuild from an old size of 0.                                          *)
(***************************************************************************)
IssueConsistencyReceipt(log, old_size, key) ==
    [proof |-> "consistency", old_size |-> old_size, new_size |-> Len(log),
     path |-> IF old_size \in {0, Len(log)} THEN <<>> ELSE log,
     signature |-> SignCose(key, log)]

VerifyConsistencyReceipt(receipt, old_root, key) ==
    /\ receipt.proof = "consistency"
    /\ receipt.old_size > 0
    /\ receipt.old_size <= receipt.new_size
    /\ IF receipt.old_size = receipt.new_size
       THEN receipt.path = <<>> /\ VerifyCose(receipt, key, old_root)
       ELSE /\ Len(receipt.path) = receipt.new_size
            /\ SubSeq(receipt.path, 1, receipt.old_size) = old_root
            /\ VerifyCose(receipt, key, receipt.path)

(***************************************************************************)
(* Transparent Statements.  Both operations write the tagged form, and a   *)
(* receipt in the old raw layout is not carried over into the array.       *)
(***************************************************************************)
AttachReceipt(statement, receipt) ==
    Tagged(statement.declares, statement.payload,
           IF statement.layout = "array" THEN Append(statement.receipts, receipt)
                                         ELSE <<receipt>>)

Bare(statement) == Tagged(statement.declares, statement.payload, <<>>)

VerifyTransparentStatement(statement, key) ==
    /\ DecodesAsSign1(statement)
    /\ \E i \in DOMAIN statement.receipts :
          VerifyReceipt(Bare(statement), statement.receipts[i], key)
=============================================================================
