----------------------------- MODULE AuditChain -----------------------------
(***************************************************************************)
(* The SQLite audit log (agentauth/receipts/audit.py, class AuditChain).   *)
(*                                                                         *)
(* Several replicas (processes) open the same database file; each has one  *)
(* connection and one RLock shared by its threads.  append() takes the     *)
(* RLock, opens the write transaction with BEGIN IMMEDIATE, reads the tip, *)
(* inserts the new row and commits.  The readers that publish what they    *)
(* read (signed_checkpoint, c2sp_checkpoint, rfc6962_inclusion_proof) make *)
(* several separate reads.  Every statement SQLite runs is one step, since *)
(* other threads and other processes run between any two of them.          *)
(***************************************************************************)
EXTENDS Naturals, Sequences, FiniteSets

CONSTANTS Replicas,      \* processes sharing the database file
          Threads,       \* threads, each in one replica
          Host,          \* Host[t] is the replica thread t runs in
          NoThread,      \* "the RLock is free"
          Bodies,        \* contents of records
          MaxRows,       \* bound: rows the file may hold
          MaxPublished,  \* bound: checkpoints and proofs handed out
          MaxCrashes,    \* bound: process crashes
          MaxBadCommits  \* bound: COMMITs that fail (disk full, I/O error)

ASSUME HostAssumption == Host \in [Threads -> Replicas]
ASSUME NoThreadAssumption == NoThread \notin Threads
ASSUME BoundsAssumption == /\ MaxRows \in Nat
                           /\ MaxPublished \in Nat
                           /\ MaxCrashes \in Nat
                           /\ MaxBadCommits \in Nat

VARIABLES rows,        \* committed rows of audit_records, in seq order
          tx,          \* tx[r]: the open write transaction of r's connection
          lock,        \* lock[r]: the thread holding r's RLock
          pc,          \* pc[t]: the next statement of thread t
          loc,         \* loc[t]: local variables of thread t's call
          acked,       \* what append() has returned to callers
          published,   \* checkpoints and proofs handed out
          crashes, badCommits

vars == <<rows, tx, lock, pc, loc, acked, published, crashes, badCommits>>

Log == INSTANCE AppendOnlyLog WITH log <- rows

GENESIS == Log!GENESIS
Hashes == Log!Hashes
Records == Log!Records
NewRecord(prev, b) == Log!NewRecord(prev, b)
TipHash(s) == Log!TipHash(s)

-----------------------------------------------------------------------------
(* The database as one connection sees it: committed rows and its own       *)
(* uncommitted insert.                                                      *)
NoTx == [open |-> FALSE, pend |-> <<>>]
OpenTx == [open |-> TRUE, pend |-> <<>>]
View(r) == rows \o tx[r].pend

(* The RFC 6962 root over the record hashes, as the list it commits to.     *)
MerkleRoot(s) == [i \in 1..Len(s) |-> s[i].record_hash]

(* consistency_proof(old_size, new_size), by what its path rebuilds: the    *)
(* roots of the first old_size and the first new_size of the entries that   *)
(* the connection reads.  It raises unless old_size <= new_size <= Len.     *)
ConsistencyProof(r, old, new) ==
    [old_size |-> old, new_size |-> new,
     from |-> MerkleRoot(SubSeq(View(r), 1, old)),
     to |-> MerkleRoot(SubSeq(View(r), 1, new))]

(* verify_chain: every row links to its predecessor and hashes to its       *)
(* stored record_hash.                                                      *)
VerifyChain(s) ==
    \A i \in 1..Len(s) :
        /\ s[i].prev_hash = IF i = 1 THEN GENESIS ELSE s[i - 1].record_hash
        /\ s[i].record_hash = Log!Hash(s[i].prev_hash, s[i].body)

AppendSteps == {"begin", "tip", "insert", "commit", "ret"}
ReadSteps == {"ck_tip", "ck_root", "c2sp_len", "inc_entries"}
Steps == {"idle", "down"} \cup AppendSteps \cup ReadSteps

NoLocals == [prev |-> GENESIS, seq |-> 0, hash |-> GENESIS,
             count |-> 0, tip |-> GENESIS, root |-> <<>>]

Init ==
    /\ rows = <<>>
    /\ tx = [r \in Replicas |-> NoTx]
    /\ lock = [r \in Replicas |-> NoThread]
    /\ pc = [t \in Threads |-> "idle"]
    /\ loc = [t \in Threads |-> NoLocals]
    /\ acked = {} /\ published = {}
    /\ crashes = 0 /\ badCommits = 0

Goto(t, from, to) == pc[t] = from /\ pc' = [pc EXCEPT ![t] = to]
Release(t) == lock' = [lock EXCEPT ![Host[t]] = NoThread]
LockFree(t) == lock[Host[t]] = NoThread

-----------------------------------------------------------------------------
(* append() *)

Enter(t) ==                       \* with self._lock
    /\ LockFree(t)
    /\ Len(rows) < MaxRows
    /\ Goto(t, "idle", "begin")
    /\ lock' = [lock EXCEPT ![Host[t]] = t]
    /\ UNCHANGED <<rows, tx, loc, acked, published, crashes, badCommits>>

(* Fault: a plain BEGIN, which takes no write lock.                          *)
BeginImmediate_Deferred(t) ==
    /\ Goto(t, "begin", "tip")
    /\ ~tx[Host[t]].open
    /\ tx' = [tx EXCEPT ![Host[t]] = OpenTx]
    /\ UNCHANGED <<rows, lock, loc, acked, published, crashes, badCommits>>

(* Fault: BEGIN is skipped while the connection has a transaction open.      *)
BeginImmediate_Reuses(t) ==
    /\ Goto(t, "begin", "tip")
    /\ \A r \in Replicas \ {Host[t]} : ~tx[r].open
    /\ tx' = [tx EXCEPT ![Host[t]].open = TRUE]
    /\ UNCHANGED <<rows, lock, loc, acked, published, crashes, badCommits>>

BeginImmediate(t) ==              \* BEGIN IMMEDIATE obtains the write lock
    /\ Goto(t, "begin", "tip")
    /\ \A r \in Replicas : ~tx[r].open
    /\ tx' = [tx EXCEPT ![Host[t]] = OpenTx]
    /\ UNCHANGED <<rows, lock, loc, acked, published, crashes, badCommits>>

(* BEGIN raises: another connection keeps the write lock for the 30s busy   *)
(* timeout, or this connection already has a transaction open.  The         *)
(* statement is outside the try block, so nothing is rolled back.           *)
BeginRaises(t) ==
    /\ Goto(t, "begin", "idle")
    /\ \E r \in Replicas : tx[r].open
    /\ Release(t)
    /\ loc' = [loc EXCEPT ![t] = NoLocals]
    /\ UNCHANGED <<rows, tx, acked, published, crashes, badCommits>>

ReadTip(t) ==                     \* prev_hash = self._tip_hash()
    /\ Goto(t, "tip", "insert")
    /\ loc' = [loc EXCEPT ![t].prev = TipHash(View(Host[t]))]
    /\ UNCHANGED <<rows, tx, lock, acked, published, crashes, badCommits>>

(* Fault: seq taken from a COUNT before the insert.                          *)
Insert_SeqFromCount(t) ==
    /\ Goto(t, "insert", "commit")
    /\ \E b \in Bodies :
       LET rec == NewRecord(loc[t].prev, b)
           r == Host[t]
       IN /\ tx' = [tx EXCEPT ![r].pend = Append(@, rec)]
          /\ loc' = [loc EXCEPT ![t].seq = Len(View(r)),
                                ![t].hash = rec.record_hash]
    /\ UNCHANGED <<rows, lock, acked, published, crashes, badCommits>>

Insert(t) ==                      \* hash, sign, INSERT
    /\ Goto(t, "insert", "commit")
    /\ \E b \in Bodies :
       LET rec == NewRecord(loc[t].prev, b)
           r == Host[t]
       IN /\ tx' = [tx EXCEPT ![r].pend = Append(@, rec)]
          /\ loc' = [loc EXCEPT ![t].seq = Len(View(r)) + 1,
                                ![t].hash = rec.record_hash]
    /\ UNCHANGED <<rows, lock, acked, published, crashes, badCommits>>

(* Fault: no rollback() before re-raising.                                   *)
InsertRaises_NoRollback(t) ==
    /\ pc[t] \in {"tip", "insert"}
    /\ pc' = [pc EXCEPT ![t] = "idle"]
    /\ Release(t)
    /\ loc' = [loc EXCEPT ![t] = NoLocals]
    /\ UNCHANGED <<rows, tx, acked, published, crashes, badCommits>>

(* Anything in the try block raises: roll back and re-raise.                *)
InsertRaises(t) ==
    /\ pc[t] \in {"tip", "insert"}
    /\ pc' = [pc EXCEPT ![t] = "idle"]
    /\ tx' = [tx EXCEPT ![Host[t]] = NoTx]
    /\ Release(t)
    /\ loc' = [loc EXCEPT ![t] = NoLocals]
    /\ UNCHANGED <<rows, acked, published, crashes, badCommits>>

Commit(t) ==
    /\ Goto(t, "commit", "ret")
    /\ rows' = rows \o tx[Host[t]].pend
    /\ tx' = [tx EXCEPT ![Host[t]] = NoTx]
    /\ UNCHANGED <<lock, loc, acked, published, crashes, badCommits>>

(* Fault: a failed COMMIT is rolled back and swallowed.                      *)
CommitRaises_Swallowed(t) ==
    /\ badCommits < MaxBadCommits
    /\ Goto(t, "commit", "ret")
    /\ tx' = [tx EXCEPT ![Host[t]] = NoTx]
    /\ badCommits' = badCommits + 1
    /\ UNCHANGED <<rows, lock, loc, acked, published, crashes>>

(* COMMIT raises.  It stands after the try block, so the code does not roll *)
(* back; SQLite itself may or may not have rolled the transaction back.     *)
CommitRaises(t) ==
    /\ badCommits < MaxBadCommits
    /\ Goto(t, "commit", "idle")
    /\ \/ UNCHANGED tx
       \/ tx' = [tx EXCEPT ![Host[t]] = NoTx]
    /\ Release(t)
    /\ loc' = [loc EXCEPT ![t] = NoLocals]
    /\ badCommits' = badCommits + 1
    /\ UNCHANGED <<rows, acked, published, crashes>>

Return(t) ==                      \* record.seq = lastrowid; return record
    /\ Goto(t, "ret", "idle")
    /\ acked' = acked \cup {[seq |-> loc[t].seq, hash |-> loc[t].hash]}
    /\ Release(t)
    /\ loc' = [loc EXCEPT ![t] = NoLocals]
    /\ UNCHANGED <<rows, tx, published, crashes, badCommits>>

-----------------------------------------------------------------------------
(* Readers.  len() and _record_hashes() take and release the RLock;         *)
(* _tip_hash() does not take it.                                            *)

Publish(t, artifact) ==
    /\ published' = published \cup {artifact}
    /\ loc' = [loc EXCEPT ![t] = NoLocals]
    /\ UNCHANGED <<rows, tx, lock, acked, crashes, badCommits>>

ReadInto(t, locals) ==
    /\ loc' = [loc EXCEPT ![t] = locals]
    /\ UNCHANGED <<rows, tx, lock, acked, published, crashes, badCommits>>

StartRead(t, next) ==
    /\ Cardinality(published) < MaxPublished
    /\ LockFree(t)
    /\ Goto(t, "idle", next)

CheckpointCount(t) ==             \* signed_checkpoint: "count": len(self)
    /\ StartRead(t, "ck_tip")
    /\ ReadInto(t, [NoLocals EXCEPT !.count = Len(View(Host[t]))])

CheckpointTip(t) ==               \* "tip_hash": self._tip_hash()
    /\ Goto(t, "ck_tip", "ck_root")
    /\ ReadInto(t, [loc[t] EXCEPT !.tip = TipHash(View(Host[t]))])

(* Fault: _record_hashes() without the RLock.                                *)
CheckpointRoot_Unlocked(t) ==
    /\ Goto(t, "ck_root", "idle")
    /\ Publish(t, [kind |-> "signed_checkpoint", count |-> loc[t].count,
                   tip |-> loc[t].tip, root |-> MerkleRoot(View(Host[t]))])

CheckpointRoot(t) ==              \* "merkle_root": self.merkle_root(); sign
    /\ LockFree(t)
    /\ Goto(t, "ck_root", "idle")
    /\ Publish(t, [kind |-> "signed_checkpoint", count |-> loc[t].count,
                   tip |-> loc[t].tip, root |-> MerkleRoot(View(Host[t]))])

C2spRoot(t) ==                    \* c2sp_checkpoint: root first
    /\ StartRead(t, "c2sp_len")
    /\ ReadInto(t, [NoLocals EXCEPT !.root = MerkleRoot(View(Host[t])),
                                    !.tip = TipHash(View(Host[t]))])

C2spLen(t) ==                     \* then len(self); sign the note
    /\ LockFree(t)
    /\ Goto(t, "c2sp_len", "idle")
    /\ Publish(t, [kind |-> "c2sp_checkpoint", count |-> Len(View(Host[t])),
                   tip |-> loc[t].tip, root |-> loc[t].root])

InclusionLeaves(t) ==             \* rfc6962_inclusion_proof of one record: tree_size
    /\ StartRead(t, "inc_entries")
    /\ \E i \in 1..Len(View(Host[t])) :
        ReadInto(t, [NoLocals EXCEPT !.count = Len(View(Host[t])),
                                     !.tip = View(Host[t])[i].record_hash])

InclusionEntries(t) ==            \* then the entries: path and root
    /\ LockFree(t)
    /\ Goto(t, "inc_entries", "idle")
    /\ Publish(t, [kind |-> "inclusion_proof", count |-> loc[t].count,
                   tip |-> loc[t].tip, root |-> MerkleRoot(View(Host[t]))])

-----------------------------------------------------------------------------
(* A process dies: SQLite discards its open transaction.  Opening the file  *)
(* again gives the replica a fresh connection and a free RLock.             *)

OnHost(r, f, v) == [t \in Threads |-> IF Host[t] = r THEN v ELSE f[t]]

Crash(r) ==
    /\ crashes < MaxCrashes
    /\ \E t \in Threads : Host[t] = r /\ pc[t] # "down"
    /\ crashes' = crashes + 1
    /\ pc' = OnHost(r, pc, "down")
    /\ loc' = OnHost(r, loc, NoLocals)
    /\ tx' = [tx EXCEPT ![r] = NoTx]
    /\ lock' = [lock EXCEPT ![r] = NoThread]
    /\ UNCHANGED <<rows, acked, published, badCommits>>

Open(r) ==                        \* AuditChain.__init__
    /\ \E t \in Threads : Host[t] = r /\ pc[t] = "down"
    /\ pc' = OnHost(r, pc, "idle")
    /\ UNCHANGED <<rows, tx, lock, loc, acked, published, crashes, badCommits>>

AppendStep(t) == \/ BeginImmediate(t) \/ BeginRaises(t) \/ ReadTip(t)
                 \/ Insert(t) \/ InsertRaises(t)
                 \/ Commit(t) \/ CommitRaises(t) \/ Return(t)

ReadStart(t) == CheckpointCount(t) \/ C2spRoot(t) \/ InclusionLeaves(t)

ReadStep(t) == \/ CheckpointTip(t) \/ CheckpointRoot(t)
               \/ C2spLen(t) \/ InclusionEntries(t)

Next == \/ \E t \in Threads : \/ Enter(t) \/ AppendStep(t)
                              \/ ReadStart(t) \/ ReadStep(t)
        \/ \E r \in Replicas : Crash(r) \/ Open(r)

Spec == Init /\ [][Next]_vars

(* A thread inside append() is not suspended for ever by the interpreter    *)
(* or the operating system, and a process that died is started again.       *)
Fairness == /\ \A t \in Threads : WF_vars(AppendStep(t))
            /\ \A r \in Replicas : WF_vars(Open(r))

FairSpec == Spec /\ Fairness

-----------------------------------------------------------------------------
(* Types.                                                                   *)
Locals == [prev : Hashes, seq : Nat, hash : Hashes,
           count : Nat, tip : Hashes, root : Seq(Hashes)]

Kinds == {"signed_checkpoint", "c2sp_checkpoint", "inclusion_proof"}

Artifacts == [kind : Kinds, count : Nat, tip : Hashes, root : Seq(Hashes)]

TypeOK ==
    /\ rows \in Seq(Records)
    /\ tx \in [Replicas -> [open : BOOLEAN, pend : Seq(Records)]]
    /\ lock \in [Replicas -> Threads \cup {NoThread}]
    /\ pc \in [Threads -> Steps]
    /\ loc \in [Threads -> Locals]
    /\ acked \subseteq [seq : Nat, hash : Hashes]
    /\ published \subseteq Artifacts
    /\ crashes \in Nat
    /\ badCommits \in Nat

(* Safety.  deployment.md: "many threads/processes can append to the same   *)
(* file without forking the chain".  verify_chain accepts what any replica  *)
(* reads at any moment: no interleaving of the tip reads and inserts of     *)
(* several threads and processes, no roll back and no crash leaves two rows *)
(* with one predecessor.                                                    *)
NoForkInAnyView == \A r \in Replicas : VerifyChain(View(r))

(* An append() that returned a record left it in the file, at the seq it    *)
(* reported, for good: crashes and failed commits of any replica included.  *)
AckedIsDurable ==
    \A a \in acked : a.seq \in 1..Len(rows) /\ rows[a.seq].record_hash = a.hash

(* The threads and replicas together implement the sequential log.          *)
ImplementsLog == Log!Spec

(* A root that was signed or put in a proof is the root of a state the file *)
(* has been in, as long as every COMMIT succeeds: locked readers never see  *)
(* a row that a roll back or crash then removes.                            *)
PublishedRootIsHistory ==
    \A c \in published :
        /\ Len(c.root) <= Len(rows)
        /\ c.root = MerkleRoot(SubSeq(rows, 1, Len(c.root)))

(* The reads of one artifact are ordered: signed_checkpoint reads its count *)
(* first and its root last, c2sp_checkpoint the other way round, and the    *)
(* log does not shrink in between.                                          *)
CountRootOrder ==
    \A c \in published : IF c.kind = "c2sp_checkpoint"
                           THEN Len(c.root) <= c.count
                           ELSE c.count <= Len(c.root)

(* What a publisher reads in several steps is still of one history, however *)
(* appends, roll backs and crashes fall between the reads.                  *)
PublishedFromHistory == PublishedRootIsHistory /\ CountRootOrder

(* An append() that raised has stored nothing, and no later append() stores *)
(* its row, also where its failed COMMIT left the row on the connection     *)
(* that the next append() uses: every COMMIT stores one row, the one whose  *)
(* hash the append() that runs it is about to return.                       *)
StoresOwnRow ==
    [][rows' # rows =>
         \E t \in Threads :
            /\ pc[t] = "commit" /\ pc'[t] = "ret"
            /\ Len(rows') = Len(rows) + 1
            /\ rows'[Len(rows) + 1].record_hash = loc[t].hash]_vars

(* A COMMIT that raised (it stands outside the try block) left replica r's  *)
(* transaction open with its row in it, and no thread is at work there.     *)
LeftOpen(r) ==
    /\ badCommits > 0
    /\ tx[r].open /\ tx[r].pend # <<>>
    /\ \A t \in Threads : Host[t] = r => pc[t] \notin {"tip", "insert", "commit"}

(* Liveness.  A transaction that a replica opens ends, by COMMIT, roll back *)
(* or crash, and with it the write lock that all replicas wait for.  The    *)
(* one exception is a COMMIT that raised: then no statement of the code     *)
(* ends the transaction, and only the death of the process does.            *)
WriteLockReleased ==
    \A r \in Replicas : tx[r].open ~> (~tx[r].open \/ LeftOpen(r))
=============================================================================
