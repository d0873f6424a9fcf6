--------------------------- MODULE AppendOnlyLog ---------------------------
(***************************************************************************)
(* What AuditChain promises its callers: one hash-chained log that only    *)
(* ever grows by a record linked to the current tip, and acknowledgements  *)
(* that name records the log holds.  There are no threads, replicas,       *)
(* transactions or failures here; AuditChain.tla is shown to implement it. *)
(***************************************************************************)
EXTENDS Naturals, Sequences

CONSTANT Bodies        \* the hashed fields of a record other than prev_hash

VARIABLES log,         \* the durable records, oldest first
          acked        \* the (seq, record_hash) pairs append() has returned

vars == <<log, acked>>

(***************************************************************************)
(* SHA-256 over the canonical JSON of a record body is taken to be free of *)
(* collisions: the hash of (prev_hash, body) is that pair, written as the  *)
(* sequence of all bodies up to and including this one.                    *)
(***************************************************************************)
GENESIS == <<>>
Hashes == Seq(Bodies)
Hash(prev, body) == Append(prev, body)

Records == [body : Bodies, prev_hash : Hashes, record_hash : Hashes]

NewRecord(prev, b) ==
    [body |-> b, prev_hash |-> prev, record_hash |-> Hash(prev, b)]

TipHash(s) == IF Len(s) = 0 THEN GENESIS ELSE s[Len(s)].record_hash

Init == log = <<>> /\ acked = {}

Extend == \E b \in Bodies : /\ log' = Append(log, NewRecord(TipHash(log), b))
                            /\ UNCHANGED acked

Acknowledge ==
    \E i \in 1..Len(log) :
        /\ acked' = acked \cup {[seq |-> i, hash |-> log[i].record_hash]}
        /\ UNCHANGED log

Next == Extend \/ Acknowledge

Spec == Init /\ [][Next]_vars
=============================================================================
