-------------------------- MODULE AuditChainProofs --------------------------
(***************************************************************************)
(* Proofs about AuditChain for every number of replicas and threads and    *)
(* every bound: type correctness, no fork in any view, durability of       *)
(* acknowledged records, and that AuditChain implements AppendOnlyLog;     *)
(* about the Witness module of those that co-sign the chain's checkpoints; *)
(* and about the verifiers of the Merkle proofs over it (MCMerkle).        *)
(***************************************************************************)
EXTENDS AuditChain, Witness, MCMerkle, SequenceTheorems, FiniteSetTheorems,
        WellFoundedInduction, TLAPS

(* A new record built from a hash and a body is a record.                   *)
LEMMA NewRecordType ==
    ASSUME NEW p \in Hashes, NEW b \in Bodies
    PROVE  /\ NewRecord(p, b) \in Records
           /\ NewRecord(p, b).record_hash \in Hashes
BY AppendProperties, SMTT(30)
   DEF NewRecord, Log!NewRecord, Log!Hash, Records, Log!Records, Hashes, Log!Hashes

LEMMA RecordFields ==
    ASSUME NEW x \in Records
    PROVE  /\ x.body \in Bodies /\ x.prev_hash \in Hashes /\ x.record_hash \in Hashes
           /\ x = [body |-> x.body, prev_hash |-> x.prev_hash, record_hash |-> x.record_hash]
BY DEF Records, Log!Records, Hashes, Log!Hashes

(* _tip_hash() returns a hash on every table, the empty one included.       *)
LEMMA TipHashType ==
    ASSUME NEW s \in Seq(Records)
    PROVE  TipHash(s) \in Hashes
<1>1. CASE Len(s) = 0
  BY <1>1, EmptySeq DEF TipHash, Log!TipHash, Log!GENESIS, Hashes, Log!Hashes
<1>2. CASE Len(s) # 0
  <2>1. s[Len(s)] \in Records
    BY <1>2, LenProperties, ElementOfSeq
  <2> QED
    BY <1>2, <2>1, RecordFields DEF TipHash, Log!TipHash
<1> QED
  BY <1>1, <1>2

(* The hashes under a Merkle root form a sequence as long as the table.     *)
LEMMA MerkleRootType ==
    ASSUME NEW s \in Seq(Records)
    PROVE  MerkleRoot(s) \in Seq(Hashes) /\ Len(MerkleRoot(s)) = Len(s)
<1>1. Len(s) \in Nat /\ \A i \in 1..Len(s) : s[i].record_hash \in Hashes
  BY LenProperties, ElementOfSeq, RecordFields
<1>2. MerkleRoot(s) \in Seq(Hashes)
  BY <1>1, IsASeq DEF MerkleRoot
<1> QED
  BY <1>1, <1>2, LenProperties DEF MerkleRoot

(* What a connection sees is a sequence of records.                         *)
LEMMA ViewType ==
    ASSUME TypeOK, NEW r \in Replicas
    PROVE  /\ View(r) \in Seq(Records)
           /\ Len(View(r)) \in Nat
           /\ Len(View(r)) = Len(rows) + Len(tx[r].pend)
BY ConcatProperties, LenProperties DEF TypeOK, View

LEMMA NoLocalsType == NoLocals \in Locals
BY EmptySeq DEF NoLocals, Locals, GENESIS, Log!GENESIS, Hashes, Log!Hashes

(* TypeOK holds initially.                                                  *)
LEMMA TypeInit == Init => TypeOK
BY NoLocalsType, EmptySeq DEF Init, TypeOK, NoTx, Steps

LEMMA TypeNext == TypeOK /\ [Next]_vars => TypeOK'
<1> SUFFICES ASSUME TypeOK, [Next]_vars PROVE TypeOK'
  OBVIOUS
<1> USE HostAssumption, BoundsAssumption, NoLocalsType
<1>1. ASSUME NEW t \in Threads, Enter(t) PROVE TypeOK'
  BY <1>1 DEF Enter, Goto, TypeOK, Steps, AppendSteps
<1>2. ASSUME NEW t \in Threads, BeginImmediate(t) PROVE TypeOK'
  BY <1>2, EmptySeq DEF BeginImmediate, Goto, TypeOK, Steps, AppendSteps, OpenTx
<1>3. ASSUME NEW t \in Threads, BeginRaises(t) PROVE TypeOK'
  BY <1>3 DEF BeginRaises, Goto, Release, TypeOK, Steps, AppendSteps
<1>4. ASSUME NEW t \in Threads, ReadTip(t) PROVE TypeOK'
  <2>1. TipHash(View(Host[t])) \in Hashes
    BY ViewType, TipHashType
  <2> QED
    BY <1>4, <2>1 DEF ReadTip, Goto, TypeOK, Steps, AppendSteps, Locals
<1>5. ASSUME NEW t \in Threads, Insert(t) PROVE TypeOK'
  <2>1. PICK b \in Bodies :
           /\ tx' = [tx EXCEPT ![Host[t]].pend = Append(@, NewRecord(loc[t].prev, b))]
           /\ loc' = [loc EXCEPT ![t].seq = Len(View(Host[t])) + 1,
                                 ![t].hash = NewRecord(loc[t].prev, b).record_hash]
    BY <1>5 DEF Insert
  <2> DEFINE rec == NewRecord(loc[t].prev, b)
  <2>2. rec \in Records /\ rec.record_hash \in Hashes
    BY NewRecordType DEF TypeOK, Locals
  <2>3. Append(tx[Host[t]].pend, rec) \in Seq(Records)
    BY <2>2, AppendProperties DEF TypeOK
  <2>4. Len(View(Host[t])) + 1 \in Nat
    BY ViewType
  <2> HIDE DEF rec
  <2>5. tx' \in [Replicas -> [open : BOOLEAN, pend : Seq(Records)]]
    BY <2>1, <2>3 DEF TypeOK, rec
  <2>6. loc' \in [Threads -> Locals]
    BY <2>1, <2>2, <2>4 DEF TypeOK, Locals, rec
  <2> QED
    BY <1>5, <2>5, <2>6 DEF Insert, Goto, TypeOK, Steps, AppendSteps
<1>6. ASSUME NEW t \in Threads, InsertRaises(t) PROVE TypeOK'
  BY <1>6, EmptySeq DEF InsertRaises, Release, TypeOK, Steps, NoTx
<1>7. ASSUME NEW t \in Threads, Commit(t) PROVE TypeOK'
  <2>1. rows \o tx[Host[t]].pend \in Seq(Records)
    BY ConcatProperties DEF TypeOK
  <2> QED
    BY <1>7, <2>1, EmptySeq DEF Commit, Goto, TypeOK, Steps, AppendSteps, NoTx
<1>8. ASSUME NEW t \in Threads, CommitRaises(t) PROVE TypeOK'
  <2>1. NoTx \in [open : BOOLEAN, pend : Seq(Records)]
    BY EmptySeq DEF NoTx
  <2>2. tx' = tx \/ tx' = [tx EXCEPT ![Host[t]] = NoTx]
    BY <1>8 DEF CommitRaises
  <2>3. tx' \in [Replicas -> [open : BOOLEAN, pend : Seq(Records)]]
    BY <2>1, <2>2 DEF TypeOK
  <2>4. lock' \in [Replicas -> Threads \cup {NoThread}]
    BY <1>8 DEF CommitRaises, Release, TypeOK
  <2>5. pc' \in [Threads -> Steps] /\ loc' \in [Threads -> Locals]
    BY <1>8 DEF CommitRaises, Goto, TypeOK, Steps
  <2>6. UNCHANGED <<rows, acked, published, crashes>> /\ badCommits' = badCommits + 1
    BY <1>8 DEF CommitRaises
  <2> QED
    BY <2>3, <2>4, <2>5, <2>6 DEF TypeOK
<1>9. ASSUME NEW t \in Threads, Return(t) PROVE TypeOK'
  BY <1>9 DEF Return, Goto, Release, TypeOK, Steps, Locals
<1>10. ASSUME NEW t \in Threads, ReadStart(t) PROVE TypeOK'
  <2>1. /\ Len(View(Host[t])) \in Nat
        /\ TipHash(View(Host[t])) \in Hashes
        /\ MerkleRoot(View(Host[t])) \in Seq(Hashes)
        /\ \A i \in 1..Len(View(Host[t])) : View(Host[t])[i].record_hash \in Hashes
    BY ViewType, TipHashType, MerkleRootType, ElementOfSeq, RecordFields
  <2>2. \E l \in Locals, s \in ReadSteps : ReadInto(t, l) /\ Goto(t, "idle", s)
    BY <1>10, <2>1 DEF ReadStart, CheckpointCount, C2spRoot, InclusionLeaves,
                       StartRead, Locals, ReadSteps
  <2> QED
    BY <2>2 DEF ReadInto, Goto, TypeOK, Steps
<1>11. ASSUME NEW t \in Threads, ReadStep(t) PROVE TypeOK'
  <2>1. /\ Len(View(Host[t])) \in Nat
        /\ TipHash(View(Host[t])) \in Hashes
        /\ MerkleRoot(View(Host[t])) \in Seq(Hashes)
    BY ViewType, TipHashType, MerkleRootType
  <2>2. \/ \E l \in Locals : ReadInto(t, l) /\ Goto(t, "ck_tip", "ck_root")
        \/ \E a \in Artifacts, s \in Steps : Publish(t, a) /\ Goto(t, s, "idle")
    BY <1>11, <2>1 DEF ReadStep, CheckpointTip, CheckpointRoot, C2spLen, InclusionEntries,
                       Locals, Artifacts, Kinds, Steps, ReadSteps, TypeOK
  <2> QED
    BY <2>2, ZenonT(40) DEF ReadInto, Publish, Goto, TypeOK, Steps, ReadSteps
<1>12. ASSUME NEW r \in Replicas, Crash(r) PROVE TypeOK'
  BY <1>12, EmptySeq DEF Crash, OnHost, TypeOK, Steps, NoTx
<1>13. ASSUME NEW r \in Replicas, Open(r) PROVE TypeOK'
  BY <1>13 DEF Open, OnHost, TypeOK, Steps
<1>14. CASE UNCHANGED vars
  BY <1>14 DEF vars, TypeOK
<1> QED
  BY <1>1, <1>2, <1>3, <1>4, <1>5, <1>6, <1>7, <1>8, <1>9, <1>10, <1>11, <1>12, <1>13, <1>14
     DEF Next, AppendStep

(* Every reachable state of the log, its transactions, locks and threads is *)
(* well typed.                                                              *)
THEOREM TypeCorrect == Spec => []TypeOK
BY TypeInit, TypeNext, PTL DEF Spec

-----------------------------------------------------------------------------
(***************************************************************************)
(* The inductive invariant.  A thread inside append() holds its replica's  *)
(* RLock; at most one connection has a transaction open; a pending row,    *)
(* also one that a failed COMMIT left behind, links to the committed tip.  *)
(***************************************************************************)
LockInv == \A t \in Threads : pc[t] \in AppendSteps => lock[Host[t]] = t

TxInv ==
    /\ \A r, q \in Replicas : tx[r].open /\ tx[q].open => r = q
    /\ \A r \in Replicas : tx[r].pend # <<>> => tx[r].open
    /\ \A t \in Threads : pc[t] \in {"tip", "insert", "commit"} => tx[Host[t]].open
    /\ \A t \in Threads : pc[t] \in {"tip", "insert"} => tx[Host[t]].pend = <<>>

PendingLinks ==
    \A r \in Replicas :
        \/ tx[r].pend = <<>>
        \/ \E b \in Bodies : tx[r].pend = <<NewRecord(TipHash(rows), b)>>

LocalsInv ==
    \A t \in Threads :
        /\ pc[t] = "insert" => loc[t].prev = TipHash(rows)
        /\ pc[t] = "commit" => /\ \E b \in Bodies :
                                    /\ tx[Host[t]].pend = <<NewRecord(TipHash(rows), b)>>
                                    /\ loc[t].hash = NewRecord(TipHash(rows), b).record_hash
                               /\ loc[t].seq = Len(rows) + 1
        /\ pc[t] = "ret" => /\ loc[t].seq \in 1..Len(rows)
                            /\ rows[loc[t].seq].record_hash = loc[t].hash

ChainInv == VerifyChain(rows)

IInv == TypeOK /\ LockInv /\ TxInv /\ PendingLinks /\ LocalsInv /\ ChainInv /\ AckedIsDurable

(* Appending a record linked to the tip keeps the chain verifiable.         *)
LEMMA LinkedAppend ==
    ASSUME NEW s \in Seq(Records), VerifyChain(s), NEW b \in Bodies
    PROVE  VerifyChain(Append(s, NewRecord(TipHash(s), b)))
<1> DEFINE x == NewRecord(TipHash(s), b)
           u == Append(s, x)
<1>1. x \in Records
  BY TipHashType, NewRecordType
<1>2. /\ Len(u) = Len(s) + 1 /\ Len(s) \in Nat
      /\ \A i \in 1..Len(s) : u[i] = s[i]
      /\ u[Len(s) + 1] = x
  BY <1>1, AppendProperties, LenProperties
<1>3. /\ x.prev_hash = TipHash(s)
      /\ x.body = b
      /\ x.record_hash = Log!Hash(TipHash(s), b)
  BY DEF NewRecord, Log!NewRecord
<1>4. TipHash(s) = IF Len(s) = 0 THEN GENESIS ELSE s[Len(s)].record_hash
  BY DEF TipHash, Log!TipHash, GENESIS
<1> HIDE DEF x, u
<1>5. VerifyChain(u)
  <2> SUFFICES ASSUME NEW i \in 1..Len(u)
               PROVE  /\ u[i].prev_hash = IF i = 1 THEN GENESIS ELSE u[i - 1].record_hash
                      /\ u[i].record_hash = Log!Hash(u[i].prev_hash, u[i].body)
    BY DEF VerifyChain
  <2>1. CASE i \in 1..Len(s)
    <3>1. u[i] = s[i] /\ (i # 1 => u[i - 1] = s[i - 1])
      BY <2>1, <1>2
    <3> QED
      BY <2>1, <3>1 DEF VerifyChain
  <2>2. CASE i = Len(s) + 1
    <3>1. u[i] = x /\ (i # 1 => u[i - 1] = s[Len(s)])
      BY <2>2, <1>2
    <3> QED
      BY <2>2, <3>1, <1>2, <1>3, <1>4
  <2> QED
    BY <1>2, <2>1, <2>2
<1> QED
  BY <1>5 DEF u, x

(* While every pending row links to the tip, every view verifies.           *)
LEMMA ViewsVerify == IInv => NoForkInAnyView
<1> SUFFICES ASSUME IInv, NEW r \in Replicas PROVE VerifyChain(View(r))
  BY DEF NoForkInAnyView
<1>0. rows \in Seq(Records) /\ VerifyChain(rows)
  BY DEF IInv, TypeOK, ChainInv
<1>1. CASE tx[r].pend = <<>>
  BY <1>0, <1>1, ConcatEmptySeq DEF View
<1>2. CASE \E b \in Bodies : tx[r].pend = <<NewRecord(TipHash(rows), b)>>
  <2>1. PICK b \in Bodies : tx[r].pend = <<NewRecord(TipHash(rows), b)>>
    BY <1>2
  <2>2. NewRecord(TipHash(rows), b) \in Records
    BY <1>0, TipHashType, NewRecordType
  <2>3. View(r) = Append(rows, NewRecord(TipHash(rows), b))
    BY <1>0, <2>1, <2>2, AppendIsConcat DEF View
  <2> QED
    BY <1>0, <2>3, LinkedAppend
<1> QED
  BY <1>1, <1>2 DEF IInv, PendingLinks

LEMMA IInvInit == Init => IInv
<1> SUFFICES ASSUME Init PROVE IInv
  OBVIOUS
<1>1. TypeOK
  BY TypeInit
<1>2. LockInv /\ TxInv /\ PendingLinks /\ LocalsInv
  BY HostAssumption DEF Init, LockInv, TxInv, PendingLinks, LocalsInv, NoTx, AppendSteps
<1>3. ChainInv /\ AckedIsDurable
  BY EmptySeq DEF Init, ChainInv, VerifyChain, AckedIsDurable
<1> QED
  BY <1>1, <1>2, <1>3 DEF IInv

(* Only a commit changes the file; whatever leaves rows, acked and the      *)
(* chain alone keeps their invariants.                                      *)
LEMMA RowsUnchanged ==
    ASSUME IInv, UNCHANGED <<rows, acked>>
    PROVE  ChainInv' /\ AckedIsDurable'
BY DEF IInv, ChainInv, VerifyChain, AckedIsDurable

(* Only one thread at a time is inside the transaction of any replica.      *)
LEMMA OneInside ==
    ASSUME IInv, NEW t \in Threads, NEW u \in Threads,
           pc[t] \in {"tip", "insert", "commit"},
           pc[u] \in {"tip", "insert", "commit"}
    PROVE  t = u
<1>1. tx[Host[t]].open /\ tx[Host[u]].open
  BY DEF IInv, TxInv
<1>2. Host[t] = Host[u]
  BY <1>1, HostAssumption DEF IInv, TxInv
<1> QED
  BY <1>2 DEF IInv, LockInv, AppendSteps

LEMMA IInvNext == IInv /\ [Next]_vars => IInv'
<1> SUFFICES ASSUME IInv, [Next]_vars PROVE IInv'
  OBVIOUS
<1> USE HostAssumption
<1>0. TypeOK /\ TypeOK'
  BY TypeNext DEF IInv
<1>1. ASSUME NEW t \in Threads, Enter(t) PROVE IInv'
  <2>1. LockInv'
    BY <1>0, <1>1, NoThreadAssumption DEF IInv, LockInv, Enter, LockFree, Goto, TypeOK, AppendSteps
  <2>2. TxInv' /\ PendingLinks' /\ LocalsInv'
    BY <1>0, <1>1 DEF IInv, TxInv, PendingLinks, LocalsInv, Enter, Goto, TypeOK
  <2> QED
    BY <1>0, <1>1, <2>1, <2>2, RowsUnchanged DEF IInv, Enter
<1>2. ASSUME NEW t \in Threads, BeginImmediate(t) PROVE IInv'
  <2>1. LockInv'
    BY <1>0, <1>2 DEF IInv, LockInv, BeginImmediate, Goto, TypeOK, AppendSteps
  <2>2. \A u \in Threads : pc[u] \notin {"tip", "insert", "commit"}
    BY <1>2 DEF IInv, TxInv, BeginImmediate
  <2>3. /\ tx'[Host[t]].open /\ tx'[Host[t]].pend = <<>> /\ pc'[t] = "tip"
        /\ \A r \in Replicas : r # Host[t] => tx'[r] = tx[r] /\ ~tx[r].open /\ tx[r].pend = <<>>
        /\ \A u \in Threads : u # t => pc'[u] = pc[u]
        /\ UNCHANGED <<rows, loc>>
    <3>1. tx' = [tx EXCEPT ![Host[t]] = OpenTx] /\ \A r \in Replicas : ~tx[r].open
      BY <1>2 DEF BeginImmediate
    <3>2. \A r \in Replicas : tx[r].pend = <<>>
      BY <3>1 DEF IInv, TxInv
    <3>3. pc' = [pc EXCEPT ![t] = "tip"] /\ UNCHANGED <<rows, loc>>
      BY <1>2 DEF BeginImmediate, Goto
    <3> QED
      BY <1>0, <3>1, <3>2, <3>3 DEF TypeOK, OpenTx
  <2>4. TxInv'
    BY <2>2, <2>3 DEF TxInv
  <2>5. PendingLinks'
    BY <2>3 DEF PendingLinks
  <2>6. LocalsInv'
    BY <2>2, <2>3 DEF IInv, LocalsInv
  <2> QED
    BY <1>0, <1>2, <2>1, <2>4, <2>5, <2>6, RowsUnchanged DEF IInv, BeginImmediate
<1>3. ASSUME NEW t \in Threads, BeginRaises(t) PROVE IInv'
  <2>1. LockInv'
    BY <1>0, <1>3 DEF IInv, LockInv, BeginRaises, Release, Goto, TypeOK, AppendSteps
  <2>2. TxInv' /\ PendingLinks' /\ LocalsInv'
    BY <1>0, <1>3 DEF IInv, TxInv, PendingLinks, LocalsInv, BeginRaises, Goto, TypeOK
  <2> QED
    BY <1>0, <1>3, <2>1, <2>2, RowsUnchanged DEF IInv, BeginRaises
<1>4. ASSUME NEW t \in Threads, ReadTip(t) PROVE IInv'
  <2>1. LockInv'
    BY <1>0, <1>4 DEF IInv, LockInv, ReadTip, Goto, TypeOK, AppendSteps
  <2>2. TxInv' /\ PendingLinks'
    BY <1>0, <1>4 DEF IInv, TxInv, PendingLinks, ReadTip, Goto, TypeOK
  <2>3. View(Host[t]) = rows
    BY <1>0, <1>4, ConcatEmptySeq DEF IInv, TxInv, View, ReadTip, Goto, TypeOK
  <2>4. /\ loc'[t].prev = TipHash(rows)
        /\ \A u \in Threads : u # t => loc'[u] = loc[u] /\ pc'[u] = pc[u]
        /\ pc'[t] = "insert"
    BY <1>0, <1>4, <2>3 DEF ReadTip, Goto, TypeOK, Locals
  <2>5. LocalsInv'
    BY <1>4, <2>4 DEF IInv, LocalsInv, ReadTip
  <2> QED
    BY <1>0, <1>4, <2>1, <2>2, <2>5, RowsUnchanged DEF IInv, ReadTip
<1>5. ASSUME NEW t \in Threads, Insert(t) PROVE IInv'
  <2>0. PICK b \in Bodies :
           /\ tx' = [tx EXCEPT ![Host[t]].pend = Append(@, NewRecord(loc[t].prev, b))]
           /\ loc' = [loc EXCEPT ![t].seq = Len(View(Host[t])) + 1,
                                 ![t].hash = NewRecord(loc[t].prev, b).record_hash]
    BY <1>5 DEF Insert
  <2>1. LockInv'
    BY <1>0, <1>5 DEF IInv, LockInv, Insert, Goto, TypeOK, AppendSteps
  <2>2. /\ loc[t].prev = TipHash(rows) /\ tx[Host[t]].pend = <<>> /\ tx[Host[t]].open
        /\ View(Host[t]) = rows
    BY <1>0, <1>5, ConcatEmptySeq DEF IInv, LocalsInv, TxInv, View, Insert, Goto, TypeOK
  <2> DEFINE rec == NewRecord(TipHash(rows), b)
  <2>3. Append(<<>>, rec) = <<rec>>
    OBVIOUS
  <2> HIDE DEF rec
  <2>4. /\ tx'[Host[t]].pend = <<rec>> /\ tx'[Host[t]].open
        /\ \A r \in Replicas : r # Host[t] => tx'[r] = tx[r]
    BY <1>0, <2>0, <2>2, <2>3 DEF TypeOK, rec
  <2>5. /\ loc'[t].seq = Len(rows) + 1 /\ loc'[t].hash = rec.record_hash
        /\ \A u \in Threads : u # t => loc'[u] = loc[u]
    BY <1>0, <2>0, <2>2 DEF TypeOK, Locals, rec
  <2>6. /\ pc'[t] = "commit" /\ pc[t] = "insert" /\ rows' = rows
        /\ \A u \in Threads : u # t => pc'[u] = pc[u] /\ pc[u] \notin {"tip", "insert", "commit"}
    BY <1>0, <1>5, OneInside DEF Insert, Goto, TypeOK
  <2>7. TxInv'
    BY <1>0, <2>2, <2>4, <2>6 DEF IInv, TxInv
  <2>8. PendingLinks'
    BY <2>4, <2>6 DEF IInv, PendingLinks, rec
  <2>9. LocalsInv'
    BY <2>4, <2>5, <2>6 DEF IInv, LocalsInv, rec
  <2> QED
    BY <1>0, <1>5, <2>1, <2>7, <2>8, <2>9, RowsUnchanged DEF IInv, Insert
<1>6. ASSUME NEW t \in Threads, InsertRaises(t) PROVE IInv'
  <2>1. LockInv'
    BY <1>0, <1>6 DEF IInv, LockInv, InsertRaises, Release, TypeOK, AppendSteps
  <2>2. /\ \A u \in Threads : u # t => pc[u] \notin {"tip", "insert", "commit"}
                                       /\ pc'[u] = pc[u] /\ loc'[u] = loc[u]
        /\ pc'[t] = "idle" /\ rows' = rows
        /\ tx' = [tx EXCEPT ![Host[t]] = NoTx]
    BY <1>0, <1>6, OneInside DEF InsertRaises, TypeOK
  <2>3. /\ ~tx'[Host[t]].open /\ tx'[Host[t]].pend = <<>>
        /\ \A r \in Replicas : r # Host[t] => tx'[r] = tx[r]
    BY <1>0, <2>2 DEF TypeOK, NoTx
  <2>4. TxInv'
    BY <2>2, <2>3 DEF IInv, TxInv
  <2>5. PendingLinks'
    BY <2>2, <2>3 DEF IInv, PendingLinks
  <2>6. LocalsInv'
    BY <2>2, <2>3 DEF IInv, LocalsInv
  <2> QED
    BY <1>0, <1>6, <2>1, <2>4, <2>5, <2>6, RowsUnchanged DEF IInv, InsertRaises
<1>7. ASSUME NEW t \in Threads, Commit(t) PROVE IInv'
  <2>0. PICK b \in Bodies :
           /\ tx[Host[t]].pend = <<NewRecord(TipHash(rows), b)>>
           /\ loc[t].hash = NewRecord(TipHash(rows), b).record_hash
           /\ loc[t].seq = Len(rows) + 1
    BY <1>7 DEF IInv, LocalsInv, Commit, Goto
  <2> DEFINE rec == NewRecord(TipHash(rows), b)
  <2>1. rec \in Records /\ rows \in Seq(Records)
    BY <1>0, TipHashType, NewRecordType DEF TypeOK
  <2>2. rows' = Append(rows, rec)
    BY <1>7, <2>0, <2>1, AppendIsConcat DEF Commit
  <2>3. VerifyChain(rows')
    BY <2>1, <2>2, LinkedAppend DEF IInv, ChainInv
  <2> HIDE DEF rec
  <2>4. /\ Len(rows') = Len(rows) + 1 /\ Len(rows) \in Nat
        /\ \A i \in 1..Len(rows) : rows'[i] = rows[i]
        /\ rows'[Len(rows) + 1] = rec
    BY <2>1, <2>2, AppendProperties, LenProperties
  <2>5. LockInv'
    BY <1>0, <1>7 DEF IInv, LockInv, Commit, Goto, TypeOK, AppendSteps
  <2>6. /\ \A u \in Threads : u # t => pc'[u] = pc[u] /\ pc[u] \notin {"tip", "insert", "commit"}
        /\ pc'[t] = "ret" /\ pc[t] = "commit" /\ loc' = loc
    BY <1>0, <1>7, OneInside DEF Commit, Goto, TypeOK
  <2>7. \A r \in Replicas : tx'[r] = NoTx \/ (tx'[r].pend = <<>> /\ ~tx'[r].open)
    <3>1. tx[Host[t]].open /\ tx' = [tx EXCEPT ![Host[t]] = NoTx]
      BY <1>7, <2>6 DEF IInv, TxInv, Commit
    <3> QED
      BY <1>0, <3>1 DEF IInv, TxInv, TypeOK
  <2>8. TxInv' /\ PendingLinks'
    BY <2>6, <2>7 DEF IInv, TxInv, PendingLinks, NoTx
  <2>9. LocalsInv'
    <3>1. \A u \in Threads : u # t /\ pc'[u] = "ret" =>
             /\ loc'[u].seq \in 1..Len(rows')
             /\ rows'[loc'[u].seq].record_hash = loc'[u].hash
      BY <2>4, <2>6 DEF IInv, LocalsInv
    <3>2. /\ loc'[t].seq \in 1..Len(rows')
          /\ rows'[loc'[t].seq].record_hash = loc'[t].hash
      BY <2>0, <2>4, <2>6 DEF rec
    <3> QED
      BY <2>6, <3>1, <3>2 DEF LocalsInv
  <2>10. AckedIsDurable'
    BY <1>7, <2>4 DEF IInv, AckedIsDurable, Commit
  <2> QED
    BY <1>0, <2>3, <2>5, <2>8, <2>9, <2>10 DEF IInv, ChainInv
<1>8. ASSUME NEW t \in Threads, CommitRaises(t) PROVE IInv'
  <2>1. LockInv'
    BY <1>0, <1>8 DEF IInv, LockInv, CommitRaises, Goto, Release, TypeOK, AppendSteps
  <2>2. /\ \A u \in Threads : u # t => /\ pc[u] \notin {"tip", "insert", "commit"}
                                       /\ pc'[u] = pc[u] /\ loc'[u] = loc[u]
        /\ pc'[t] = "idle" /\ rows' = rows
        /\ tx' = tx \/ tx' = [tx EXCEPT ![Host[t]] = NoTx]
    <3>1. pc[t] = "commit" /\ pc' = [pc EXCEPT ![t] = "idle"]
      BY <1>8 DEF CommitRaises, Goto
    <3>2. loc' = [loc EXCEPT ![t] = NoLocals] /\ rows' = rows
      BY <1>8 DEF CommitRaises
    <3>3. tx' = tx \/ tx' = [tx EXCEPT ![Host[t]] = NoTx]
      BY <1>8 DEF CommitRaises
    <3> QED
      BY <1>0, <3>1, <3>2, <3>3, OneInside DEF TypeOK
  <2>3. /\ tx'[Host[t]] = tx[Host[t]] \/ (~tx'[Host[t]].open /\ tx'[Host[t]].pend = <<>>)
        /\ \A r \in Replicas : r # Host[t] => tx'[r] = tx[r]
    BY <1>0, <2>2 DEF TypeOK, NoTx
  <2>4. TxInv'
    BY <2>2, <2>3 DEF IInv, TxInv
  <2>5. PendingLinks'
    BY <2>2, <2>3 DEF IInv, PendingLinks
  <2>6. LocalsInv'
    BY <2>2, <2>3 DEF IInv, LocalsInv
  <2> QED
    BY <1>0, <1>8, <2>1, <2>4, <2>5, <2>6, RowsUnchanged DEF IInv, CommitRaises
<1>9. ASSUME NEW t \in Threads, Return(t) PROVE IInv'
  <2>1. LockInv'
    BY <1>0, <1>9 DEF IInv, LockInv, Return, Goto, Release, TypeOK, AppendSteps
  <2>2. TxInv' /\ PendingLinks' /\ LocalsInv'
    BY <1>0, <1>9 DEF IInv, TxInv, PendingLinks, LocalsInv, Return, Goto, TypeOK
  <2>3. loc[t].seq \in 1..Len(rows) /\ rows[loc[t].seq].record_hash = loc[t].hash
    BY <1>9 DEF IInv, LocalsInv, Return, Goto
  <2>4. ChainInv' /\ AckedIsDurable'
    BY <1>9, <2>3 DEF IInv, ChainInv, VerifyChain, AckedIsDurable, Return
  <2> QED
    BY <1>0, <2>1, <2>2, <2>4 DEF IInv
<1>10. ASSUME NEW t \in Threads, ReadStart(t) \/ ReadStep(t) PROVE IInv'
  <2>1. /\ pc[t] \notin AppendSteps /\ pc'[t] \notin AppendSteps
        /\ \A u \in Threads : u # t => pc'[u] = pc[u] /\ loc'[u] = loc[u]
        /\ UNCHANGED <<rows, tx, lock, acked>>
    BY <1>0, <1>10 DEF ReadStart, ReadStep, CheckpointCount, CheckpointTip, CheckpointRoot,
       C2spRoot, C2spLen, InclusionLeaves, InclusionEntries, StartRead, ReadInto, Publish,
       Goto, TypeOK, AppendSteps
  <2>2. LockInv'
    BY <2>1 DEF IInv, LockInv
  <2>3. TxInv' /\ PendingLinks' /\ LocalsInv'
    BY <2>1 DEF IInv, TxInv, PendingLinks, LocalsInv, AppendSteps
  <2> QED
    BY <1>0, <2>1, <2>2, <2>3, RowsUnchanged DEF IInv
<1>11. ASSUME NEW r \in Replicas, Crash(r) PROVE IInv'
  <2>1. /\ \A u \in Threads : /\ Host[u] = r => pc'[u] = "down"
                              /\ Host[u] # r => pc'[u] = pc[u] /\ loc'[u] = loc[u]
        /\ tx' = [tx EXCEPT ![r] = NoTx]
        /\ lock' = [lock EXCEPT ![r] = NoThread]
        /\ UNCHANGED <<rows, acked>>
    BY <1>11 DEF Crash, OnHost
  <2>2. LockInv'
    BY <1>0, <2>1 DEF IInv, LockInv, TypeOK, AppendSteps
  <2>3. /\ ~tx'[r].open /\ tx'[r].pend = <<>>
        /\ \A q \in Replicas : q # r => tx'[q] = tx[q]
    BY <1>0, <2>1 DEF TypeOK, NoTx
  <2>4. TxInv'
    BY <2>1, <2>3 DEF IInv, TxInv
  <2>5. PendingLinks'
    BY <2>1, <2>3 DEF IInv, PendingLinks
  <2>6. LocalsInv'
    BY <2>1, <2>3 DEF IInv, LocalsInv
  <2> QED
    BY <1>0, <2>1, <2>2, <2>4, <2>5, <2>6, RowsUnchanged DEF IInv
<1>12. ASSUME NEW r \in Replicas, Open(r) PROVE IInv'
  <2>1. /\ \A u \in Threads : /\ Host[u] = r => pc'[u] = "idle"
                              /\ Host[u] # r => pc'[u] = pc[u]
        /\ UNCHANGED <<rows, tx, lock, loc, acked>>
    BY <1>12 DEF Open, OnHost
  <2>2. LockInv'
    BY <2>1 DEF IInv, LockInv, AppendSteps
  <2>3. TxInv' /\ PendingLinks' /\ LocalsInv'
    BY <2>1 DEF IInv, TxInv, PendingLinks, LocalsInv
  <2> QED
    BY <1>0, <2>1, <2>2, <2>3, RowsUnchanged DEF IInv
<1>13. CASE UNCHANGED vars
  BY <1>0, <1>13, RowsUnchanged DEF vars, IInv, LockInv, TxInv, PendingLinks, LocalsInv
<1> QED
  BY <1>1, <1>2, <1>3, <1>4, <1>5, <1>6, <1>7, <1>8, <1>9, <1>10, <1>11, <1>12, <1>13
     DEF Next, AppendStep

LEMMA InvariantHolds == Spec => []IInv
BY IInvInit, IInvNext, PTL DEF Spec

(* verify_chain accepts what any replica reads, at any time: append() of    *)
(* any number of threads and processes, with roll backs, failed commits and *)
(* crashes, never forks the chain.                                          *)
THEOREM NoFork == Spec => []NoForkInAnyView
BY InvariantHolds, ViewsVerify, PTL

(* A record that append() returned is in the file, at its seq, for ever.    *)
THEOREM AckedDurable == Spec => []AckedIsDurable
<1>1. IInv => AckedIsDurable
  BY DEF IInv
<1> QED
  BY <1>1, InvariantHolds, PTL

(* A COMMIT stores the row of the append() that runs it and no other, so    *)
(* the row of an append() that raised is never stored.                      *)
THEOREM CommitStoresOwnRow == Spec => StoresOwnRow
<1> DEFINE Stores(t) == /\ pc[t] = "commit" /\ pc'[t] = "ret"
                        /\ Len(rows') = Len(rows) + 1
                        /\ rows'[Len(rows) + 1].record_hash = loc[t].hash
<1>1. ASSUME IInv, [Next]_vars, rows' # rows
      PROVE  \E t \in Threads : Stores(t)
  <2>1. PICK t \in Threads : Commit(t)
    <3>1. ASSUME NEW t \in Threads,
                 \/ Enter(t) \/ BeginImmediate(t) \/ BeginRaises(t) \/ ReadTip(t)
                 \/ Insert(t) \/ InsertRaises(t) \/ CommitRaises(t) \/ Return(t)
          PROVE  rows' = rows
      BY <3>1 DEF Enter, BeginImmediate, BeginRaises, ReadTip, Insert, InsertRaises,
                  CommitRaises, Return
    <3>2. ASSUME NEW t \in Threads, ReadStart(t) \/ ReadStep(t)
          PROVE  rows' = rows
      BY <3>2 DEF ReadStart, ReadStep, CheckpointCount, CheckpointTip, CheckpointRoot, C2spRoot,
                  C2spLen, InclusionLeaves, InclusionEntries, ReadInto, Publish
    <3>3. ASSUME NEW r \in Replicas, Crash(r) \/ Open(r)
          PROVE  rows' = rows
      BY <3>3 DEF Crash, Open
    <3> QED
      BY <1>1, <3>1, <3>2, <3>3 DEF Next, AppendStep, vars
  <2>2. pc[t] = "commit" /\ pc'[t] = "ret" /\ rows' = rows \o tx[Host[t]].pend
    BY <1>1, <2>1 DEF Commit, Goto, IInv, TypeOK
  <2>3. PICK b \in Bodies : /\ tx[Host[t]].pend = <<NewRecord(TipHash(rows), b)>>
                            /\ loc[t].hash = NewRecord(TipHash(rows), b).record_hash
    BY <1>1, <2>2 DEF IInv, LocalsInv
  <2>4. NewRecord(TipHash(rows), b) \in Records /\ rows \in Seq(Records)
    BY <1>1, TipHashType, NewRecordType DEF IInv, TypeOK
  <2>5. rows' = Append(rows, NewRecord(TipHash(rows), b))
    BY <2>2, <2>3, <2>4, AppendIsConcat
  <2>6. /\ Len(rows') = Len(rows) + 1
        /\ rows'[Len(rows) + 1] = NewRecord(TipHash(rows), b)
    BY <2>4, <2>5, AppendProperties
  <2> QED
    BY <2>2, <2>3, <2>6
<1>2. IInv /\ [Next]_vars => [rows' # rows => \E t \in Threads : Stores(t)]_vars
  BY <1>1
<1> QED
  BY <1>2, InvariantHolds, PTL DEF Spec, StoresOwnRow

(* The concurrent, crashing AuditChain implements the sequential log: every *)
(* commit is one Extend, every return of append() one Acknowledge, and      *)
(* everything else leaves the log alone.                                    *)
LEMMA StepRefines == IInv /\ [Next]_vars => [Log!Next]_(Log!vars)
<1> SUFFICES ASSUME IInv, [Next]_vars PROVE [Log!Next]_(Log!vars)
  OBVIOUS
<1> USE HostAssumption
<1>1. ASSUME NEW t \in Threads, Commit(t) PROVE Log!Extend
  <2>1. PICK b \in Bodies : tx[Host[t]].pend = <<NewRecord(TipHash(rows), b)>>
    BY <1>1 DEF IInv, LocalsInv, Commit, Goto
  <2>2. NewRecord(TipHash(rows), b) \in Records /\ rows \in Seq(Records)
    BY TipHashType, NewRecordType DEF IInv, TypeOK
  <2>3. rows' = Append(rows, NewRecord(TipHash(rows), b)) /\ acked' = acked
    BY <1>1, <2>1, <2>2, AppendIsConcat DEF Commit
  <2> QED
    BY <2>3 DEF Log!Extend, NewRecord, TipHash
<1>2. ASSUME NEW t \in Threads, Return(t) PROVE Log!Acknowledge
  <2>1. loc[t].seq \in 1..Len(rows) /\ rows[loc[t].seq].record_hash = loc[t].hash
    BY <1>2 DEF IInv, LocalsInv, Return, Goto
  <2>2. acked' = acked \cup {[seq |-> loc[t].seq, hash |-> loc[t].hash]} /\ rows' = rows
    BY <1>2 DEF Return
  <2> QED
    BY <2>1, <2>2 DEF Log!Acknowledge
<1>3. ASSUME NEW t \in Threads,
             \/ Enter(t) \/ BeginImmediate(t) \/ BeginRaises(t) \/ ReadTip(t)
             \/ Insert(t) \/ InsertRaises(t) \/ CommitRaises(t)
             \/ ReadStart(t) \/ ReadStep(t)
      PROVE  UNCHANGED Log!vars
  BY <1>3 DEF Enter, BeginImmediate, BeginRaises, ReadTip, Insert, InsertRaises, CommitRaises,
     ReadStart, ReadStep, CheckpointCount, CheckpointTip, CheckpointRoot, C2spRoot, C2spLen,
     InclusionLeaves, InclusionEntries, ReadInto, Publish, Log!vars
<1>4. ASSUME NEW r \in Replicas, Crash(r) \/ Open(r) PROVE UNCHANGED Log!vars
  BY <1>4 DEF Crash, Open, Log!vars
<1>5. CASE UNCHANGED vars
  BY <1>5 DEF vars, Log!vars
<1> QED
  BY <1>1, <1>2, <1>3, <1>4, <1>5 DEF Next, AppendStep, Log!Next

(* AuditChain implements AppendOnlyLog.                                     *)
THEOREM Refinement == Spec => ImplementsLog
<1>1. Init => Log!Init
  BY DEF Init, Log!Init
<1> QED
  BY <1>1, StepRefines, InvariantHolds, PTL DEF Spec, ImplementsLog, Log!Spec

-----------------------------------------------------------------------------
(***************************************************************************)
(* What publishers hand out.  As long as no COMMIT has failed, a row that  *)
(* is pending belongs to a thread before its commit, which has the RLock;  *)
(* so a locked reader sees the committed rows only, and these only grow.   *)
(***************************************************************************)
DownTogether ==
    \A t, u \in Threads : Host[t] = Host[u] /\ pc[t] = "down" => pc[u] = "down"

PendingOwned ==
    \A r \in Replicas : tx[r].pend # <<>> =>
        \E t \in Threads : Host[t] = r /\ pc[t] = "commit"

(* A root of a state that a table s has been in.                            *)
RootOf(root, s) == Len(root) <= Len(s) /\ root = MerkleRoot(SubSeq(s, 1, Len(root)))

ReaderInv(t) ==
    /\ pc[t] \in {"ck_tip", "ck_root", "inc_entries"} => loc[t].count <= Len(rows)
    /\ pc[t] = "c2sp_len" => RootOf(loc[t].root, rows)

ReadInv == \A t \in Threads : ReaderInv(t)

HistoryInv ==
    DownTogether /\ (badCommits = 0 => PendingOwned /\ ReadInv /\ PublishedFromHistory)

(* With the RLock free, the replica's connection has nothing pending.       *)
LEMMA LockedReader ==
    ASSUME IInv, PendingOwned, NEW t \in Threads, LockFree(t)
    PROVE  View(Host[t]) = rows
<1>1. tx[Host[t]].pend = <<>>
  BY HostAssumption, NoThreadAssumption
     DEF IInv, LockInv, PendingOwned, LockFree, AppendSteps
<1> QED
  BY <1>1, HostAssumption, ConcatEmptySeq DEF IInv, TypeOK, View

(* The root of the whole table is a root of it.                             *)
LEMMA WholeRoot ==
    ASSUME NEW s \in Seq(Records)
    PROVE  RootOf(MerkleRoot(s), s) /\ Len(MerkleRoot(s)) = Len(s)
<1>1. Len(MerkleRoot(s)) = Len(s) /\ Len(s) \in Nat
  BY MerkleRootType, LenProperties
<1>2. SubSeq(s, 1, Len(s)) = s
  BY SubSeqFull
<1> DEFINE n == Len(MerkleRoot(s))
<1>3. n = Len(s)
  BY <1>1
<1> HIDE DEF n
<1>4. MerkleRoot(s) = MerkleRoot(SubSeq(s, 1, n))
  BY <1>2, <1>3, Zenon
<1>5. n <= Len(s)
  BY <1>1, <1>3
<1> QED
  BY <1>1, <1>4, <1>5 DEF RootOf, n

(* A longer table keeps the roots of a shorter one.                         *)
LEMMA RootKept ==
    ASSUME NEW s \in Seq(Records), NEW p \in Seq(Records), NEW root \in Seq(Hashes),
           RootOf(root, s)
    PROVE  RootOf(root, s \o p)
<1> DEFINE n == Len(root)
           u == s \o p
<1>1. /\ u \in Seq(Records) /\ Len(u) = Len(s) + Len(p) /\ n \in Nat /\ n <= Len(s)
      /\ Len(s) \in Nat /\ Len(p) \in Nat
      /\ \A i \in 1 .. Len(s) : u[i] = s[i]
  BY ConcatProperties, LenProperties DEF RootOf
<1>2. root = MerkleRoot(SubSeq(s, 1, n))
  BY DEF RootOf
<1> HIDE DEF u, n
<1>3. SubSeq(u, 1, n) = SubSeq(s, 1, n)
  <2>1. /\ SubSeq(u, 1, n) \in Seq(Records) /\ SubSeq(s, 1, n) \in Seq(Records)
        /\ Len(SubSeq(u, 1, n)) = n /\ Len(SubSeq(s, 1, n)) = n
        /\ \A i \in 1 .. n : SubSeq(u, 1, n)[i] = u[i] /\ SubSeq(s, 1, n)[i] = s[i]
    BY <1>1, SubSeqProperties
  <2> QED
    BY <1>1, <2>1, SeqEqual
<1>4. n <= Len(u)
  BY <1>1
<1>5. root = MerkleRoot(SubSeq(u, 1, n))
  BY <1>2, <1>3, Zenon
<1> QED
  BY <1>4, <1>5 DEF RootOf, u, n

LEMMA HistoryInit == Init => HistoryInv
BY HostAssumption DEF Init, HistoryInv, DownTogether, PendingOwned, ReadInv, ReaderInv, NoTx,
   PublishedFromHistory, PublishedRootIsHistory, CountRootOrder

(* What holds of an artifact that is handed out.                            *)
FromHistory(c) ==
    /\ RootOf(c.root, rows)
    /\ IF c.kind = "c2sp_checkpoint" THEN Len(c.root) <= c.count
                                     ELSE c.count <= Len(c.root)

LEMMA PublishedInv == PublishedFromHistory <=> \A c \in published : FromHistory(c)
BY DEF PublishedFromHistory, PublishedRootIsHistory, CountRootOrder, FromHistory, RootOf

(* A reader moves on and writes nothing but what it publishes.              *)
LEMMA ReadersOnlyPublish ==
    ASSUME NEW t \in Threads, ReadStart(t) \/ ReadStep(t)
    PROVE  /\ \E from, to \in {"idle"} \cup ReadSteps : Goto(t, from, to)
           /\ UNCHANGED <<rows, tx, lock, acked, crashes, badCommits>>
<1>1. CASE CheckpointCount(t)
  BY <1>1 DEF CheckpointCount, StartRead, ReadInto, ReadSteps
<1>6. CASE C2spRoot(t)
  BY <1>6 DEF C2spRoot, StartRead, ReadInto, ReadSteps
<1>7. CASE InclusionLeaves(t)
  BY <1>7 DEF InclusionLeaves, StartRead, ReadInto, ReadSteps
<1>2. CASE CheckpointTip(t)
  BY <1>2 DEF CheckpointTip, ReadInto, ReadSteps
<1>3. CASE CheckpointRoot(t)
  BY <1>3 DEF CheckpointRoot, Publish, ReadSteps
<1>4. CASE C2spLen(t)
  BY <1>4 DEF C2spLen, Publish, ReadSteps
<1>5. CASE InclusionEntries(t)
  BY <1>5 DEF InclusionEntries, Publish, ReadSteps
<1> QED
  BY <1>1, <1>2, <1>3, <1>4, <1>5, <1>6, <1>7 DEF ReadStart, ReadStep

(* Only a commit changes the rows, and it keeps the roots taken of them.    *)
LEMMA RowsKeepRoots ==
    ASSUME IInv, IInv', [Next]_vars
    PROVE  /\ Len(rows) <= Len(rows')
           /\ \A root \in Seq(Hashes) : RootOf(root, rows) => RootOf(root, rows')
<1>1. rows \in Seq(Records) /\ Len(rows) \in Nat
  BY LenProperties DEF IInv, TypeOK
<1>2. ASSUME NEW t \in Threads, Commit(t)
      PROVE  \E p \in Seq(Records) : rows' = rows \o p
  BY <1>2, HostAssumption DEF Commit, IInv, TypeOK
<1>3. rows' = rows \/ \E p \in Seq(Records) : rows' = rows \o p
  <2>1. ASSUME NEW t \in Threads, Enter(t) \/ BeginImmediate(t) \/ BeginRaises(t) \/ ReadTip(t)
                                  \/ Insert(t) \/ InsertRaises(t) \/ CommitRaises(t) \/ Return(t)
        PROVE  rows' = rows
    BY <2>1 DEF Enter, BeginImmediate, BeginRaises, ReadTip, Insert, InsertRaises,
                CommitRaises, Return
  <2>2. ASSUME NEW t \in Threads, ReadStart(t) \/ ReadStep(t) PROVE rows' = rows
    BY <2>2, ReadersOnlyPublish
  <2>3. ASSUME NEW r \in Replicas, Crash(r) \/ Open(r) PROVE rows' = rows
    BY <2>3 DEF Crash, Open
  <2>4. CASE UNCHANGED vars
    BY <2>4 DEF vars
  <2> QED
    BY <1>2, <2>1, <2>2, <2>3, <2>4 DEF Next, AppendStep
<1>4. CASE rows' = rows
  BY <1>1, <1>4
<1>5. ASSUME NEW p \in Seq(Records), rows' = rows \o p
      PROVE  /\ Len(rows) <= Len(rows')
             /\ \A root \in Seq(Hashes) : RootOf(root, rows) => RootOf(root, rows')
  <2>1. Len(rows) <= Len(rows')
    BY <1>1, <1>5, ConcatProperties, LenProperties
  <2> QED
    BY <1>1, <1>5, <2>1, RootKept
<1> QED
  BY <1>3, <1>4, <1>5

LEMMA HistoryNext == IInv /\ IInv' /\ HistoryInv /\ [Next]_vars => HistoryInv'
<1> SUFFICES ASSUME IInv, IInv', HistoryInv, [Next]_vars PROVE HistoryInv'
  OBVIOUS
<1> USE HostAssumption
<1>0. TypeOK /\ DownTogether
  BY DEF IInv, HistoryInv
<1>1. DownTogether'
  <2>1. ASSUME NEW t \in Threads, Enter(t) \/ AppendStep(t)
        PROVE  pc[t] # "down" /\ pc'[t] # "down" /\ \A u \in Threads : u # t => pc'[u] = pc[u]
    BY <1>0, <2>1 DEF TypeOK, Enter, AppendStep, BeginImmediate, BeginRaises, ReadTip, Insert,
       InsertRaises, Commit, CommitRaises, Return, Goto
  <2>2. ASSUME NEW t \in Threads, ReadStart(t) \/ ReadStep(t)
        PROVE  pc[t] # "down" /\ pc'[t] # "down" /\ \A u \in Threads : u # t => pc'[u] = pc[u]
    BY <1>0, <2>2, ReadersOnlyPublish DEF TypeOK, Goto, ReadSteps
  <2>3. ASSUME NEW r \in Replicas, Crash(r) \/ Open(r) PROVE DownTogether'
    BY <1>0, <2>3 DEF DownTogether, Crash, Open, OnHost
  <2>4. CASE UNCHANGED vars
    BY <1>0, <2>4 DEF DownTogether, vars
  <2> QED
    BY <1>0, <2>1, <2>2, <2>3, <2>4 DEF Next, DownTogether
<1>2. SUFFICES ASSUME badCommits' = 0 PROVE PendingOwned' /\ ReadInv' /\ PublishedFromHistory'
  BY <1>1 DEF HistoryInv
<1>3. /\ Len(rows) <= Len(rows')
      /\ \A root \in Seq(Hashes) : RootOf(root, rows) => RootOf(root, rows')
  BY RowsKeepRoots
<1>4. ASSUME NEW t \in Threads PROVE ~CommitRaises(t)
  BY <1>0, <1>2 DEF CommitRaises, TypeOK
<1>5. badCommits = 0
  <2>1. ASSUME NEW t \in Threads, Enter(t) \/ AppendStep(t) PROVE badCommits' = badCommits
    BY <1>4, <2>1 DEF Enter, AppendStep, BeginImmediate, BeginRaises, ReadTip, Insert,
                InsertRaises, Commit, Return
  <2>2. ASSUME NEW t \in Threads, ReadStart(t) \/ ReadStep(t) PROVE badCommits' = badCommits
    BY <2>2, ReadersOnlyPublish
  <2>3. ASSUME NEW r \in Replicas, Crash(r) \/ Open(r) PROVE badCommits' = badCommits
    BY <2>3 DEF Crash, Open
  <2>4. CASE UNCHANGED vars
    BY <1>2, <2>4 DEF vars
  <2> QED
    BY <1>2, <2>1, <2>2, <2>3, <2>4 DEF Next
<1>6. PendingOwned /\ ReadInv /\ \A c \in published : FromHistory(c)
  BY <1>5, PublishedInv DEF HistoryInv
<1>7. rows \in Seq(Records) /\ published \subseteq Artifacts /\ loc \in [Threads -> Locals]
  BY <1>0 DEF TypeOK
<1>8. PendingOwned'
  <2>1. ASSUME NEW t \in Threads, Insert(t) PROVE PendingOwned'
    <3>1. pc'[t] = "commit" /\ \A r \in Replicas : r # Host[t] => tx'[r] = tx[r]
      BY <1>0, <2>1 DEF Insert, Goto, TypeOK
    <3>2. \A u \in Threads : u # t => pc'[u] = pc[u]
      BY <1>0, <2>1 DEF Insert, Goto, TypeOK
    <3> QED
      BY <1>6, <3>1, <3>2 DEF PendingOwned
  <2>2. ASSUME NEW t \in Threads, InsertRaises(t) \/ Commit(t) PROVE PendingOwned'
    <3>1. /\ tx'[Host[t]].pend = <<>>
          /\ \A r \in Replicas : r # Host[t] => tx'[r] = tx[r]
          /\ \A u \in Threads : Host[u] # Host[t] => pc'[u] = pc[u]
      BY <1>0, <2>2 DEF InsertRaises, Commit, Goto, TypeOK, NoTx
    <3> QED
      BY <1>6, <3>1 DEF PendingOwned
  <2>3. ASSUME NEW t \in Threads, BeginImmediate(t) PROVE PendingOwned'
    <3>1. /\ tx'[Host[t]].pend = <<>>
          /\ \A r \in Replicas : r # Host[t] => tx'[r] = tx[r]
          /\ \A u \in Threads : Host[u] # Host[t] => pc'[u] = pc[u]
      BY <1>0, <2>3 DEF BeginImmediate, Goto, TypeOK, OpenTx
    <3> QED
      BY <1>6, <3>1 DEF PendingOwned
  <2>4. ASSUME NEW t \in Threads, Enter(t) \/ BeginRaises(t) \/ ReadTip(t) \/ Return(t)
        PROVE  PendingOwned'
    <3>1. pc[t] # "commit" /\ tx' = tx /\ \A u \in Threads : u # t => pc'[u] = pc[u]
      BY <1>0, <2>4 DEF Enter, BeginRaises, ReadTip, Return, Goto, TypeOK
    <3> QED
      BY <1>6, <3>1 DEF PendingOwned
  <2>5. ASSUME NEW t \in Threads, ReadStart(t) \/ ReadStep(t) PROVE PendingOwned'
    <3>1. pc[t] # "commit" /\ tx' = tx /\ \A u \in Threads : u # t => pc'[u] = pc[u]
      BY <1>0, <2>5, ReadersOnlyPublish DEF Goto, TypeOK, ReadSteps
    <3> QED
      BY <1>6, <3>1 DEF PendingOwned
  <2>6. ASSUME NEW r \in Replicas, Crash(r) PROVE PendingOwned'
    <3>1. /\ tx'[r].pend = <<>>
          /\ \A q \in Replicas : q # r => tx'[q] = tx[q]
          /\ \A u \in Threads : Host[u] # r => pc'[u] = pc[u]
      BY <1>0, <2>6 DEF Crash, OnHost, TypeOK, NoTx
    <3> QED
      BY <1>6, <3>1 DEF PendingOwned
  <2>7. ASSUME NEW r \in Replicas, Open(r) PROVE PendingOwned'
    <3>1. PICK t \in Threads : Host[t] = r /\ pc[t] = "down"
      BY <2>7 DEF Open
    <3>2. \A u \in Threads : Host[u] = r => pc[u] = "down"
      BY <1>0, <3>1 DEF DownTogether
    <3>3. tx' = tx /\ \A u \in Threads : Host[u] # r => pc'[u] = pc[u]
      BY <1>0, <2>7 DEF Open, OnHost, TypeOK
    <3> QED
      BY <1>6, <3>2, <3>3 DEF PendingOwned
  <2>8. CASE UNCHANGED vars
    BY <1>6, <2>8 DEF PendingOwned, vars
  <2> QED
    BY <1>4, <2>1, <2>2, <2>3, <2>4, <2>5, <2>6, <2>7, <2>8 DEF Next, AppendStep
<1>9. ASSUME NEW u \in Threads, pc'[u] = pc[u], loc'[u] = loc[u] PROVE ReaderInv(u)'
  <2>1. ReaderInv(u) /\ loc[u].count \in Nat /\ loc[u].root \in Seq(Hashes)
    BY <1>6, <1>7 DEF ReadInv, Locals
  <2>2. Len(rows) \in Nat /\ Len(rows') \in Nat
    BY LenProperties DEF IInv, TypeOK
  <2> QED
    BY <1>3, <1>9, <2>1, <2>2 DEF ReaderInv
<1>10. ASSUME UNCHANGED published PROVE PublishedFromHistory'
  <2>1. \A c \in published : c.root \in Seq(Hashes)
    BY <1>7 DEF Artifacts
  <2> QED
    BY <1>3, <1>6, <1>10, <2>1, PublishedInv DEF FromHistory, PublishedFromHistory,
       PublishedRootIsHistory, CountRootOrder, RootOf
<1>11. ASSUME NEW t \in Threads, Enter(t) \/ AppendStep(t)
       PROVE  ReadInv' /\ PublishedFromHistory'
  <2>1. /\ pc'[t] \notin ReadSteps /\ published' = published
        /\ \A u \in Threads : u # t => pc'[u] = pc[u] /\ loc'[u] = loc[u]
    <3>1. CASE Enter(t) \/ BeginImmediate(t) \/ BeginRaises(t) \/ ReadTip(t) \/ Insert(t)
      BY <1>0, <3>1 DEF Enter, BeginImmediate, BeginRaises, ReadTip, Insert, Goto, TypeOK,
         ReadSteps
    <3>2. CASE InsertRaises(t) \/ Commit(t) \/ Return(t)
      BY <1>0, <3>2 DEF InsertRaises, Commit, Return, Goto, TypeOK, ReadSteps
    <3> QED
      BY <1>4, <1>11, <3>1, <3>2 DEF AppendStep
  <2>2. ReaderInv(t)'
    BY <2>1 DEF ReaderInv, ReadSteps
  <2> QED
    BY <1>9, <1>10, <2>1, <2>2 DEF ReadInv
<1>12. ASSUME NEW t \in Threads, ReadStart(t) \/ ReadStep(t)
       PROVE  ReadInv' /\ PublishedFromHistory'
  <2>1. rows' = rows /\ \A u \in Threads : u # t => pc'[u] = pc[u]
    BY <1>0, <1>12, ReadersOnlyPublish DEF Goto, TypeOK
  <2>2. Len(rows) \in Nat /\ (LockFree(t) => View(Host[t]) = rows)
    BY <1>6, <1>7, LockedReader, LenProperties
  <2>3. ASSUME NEW l, ReadInto(t, l), ReaderInv(t)' PROVE ReadInv' /\ PublishedFromHistory'
    <3>1. published' = published /\ \A u \in Threads : u # t => loc'[u] = loc[u]
      BY <1>7, <2>3 DEF ReadInto
    <3> QED
      BY <1>9, <1>10, <2>1, <2>3, <3>1 DEF ReadInv
  <2>4. ASSUME NEW a, Publish(t, a), pc'[t] = "idle", FromHistory(a)
        PROVE  ReadInv' /\ PublishedFromHistory'
    <3>1. published' = published \cup {a} /\ \A u \in Threads : u # t => loc'[u] = loc[u]
      BY <1>7, <2>4 DEF Publish
    <3>2. \A c \in published' : FromHistory(c)'
      BY <1>6, <2>1, <2>4, <3>1 DEF FromHistory
    <3>3. PublishedFromHistory'
      BY <3>2 DEF FromHistory, PublishedFromHistory, PublishedRootIsHistory, CountRootOrder,
         RootOf
    <3>4. ReaderInv(t)'
      BY <2>4 DEF ReaderInv
    <3> QED
      BY <1>9, <2>1, <3>1, <3>3, <3>4 DEF ReadInv
  <2>5. CASE CheckpointCount(t)
    <3> DEFINE l == [NoLocals EXCEPT !.count = Len(View(Host[t]))]
    <3>1. ReadInto(t, l) /\ l.count = Len(rows) /\ pc'[t] = "ck_tip"
      BY <1>0, <2>2, <2>5 DEF CheckpointCount, StartRead, Goto, NoLocals, TypeOK
    <3> HIDE DEF l
    <3>2. ReaderInv(t)'
      BY <1>7, <2>1, <2>2, <3>1 DEF ReadInto, ReaderInv
    <3> QED
      BY <2>3, <3>1, <3>2
  <2>6. CASE C2spRoot(t)
    <3> DEFINE l == [NoLocals EXCEPT !.root = MerkleRoot(View(Host[t])),
                                     !.tip = TipHash(View(Host[t]))]
    <3>1. ReadInto(t, l) /\ l.root = MerkleRoot(View(Host[t])) /\ pc'[t] = "c2sp_len"
      BY <1>0, <2>6 DEF C2spRoot, StartRead, Goto, NoLocals, TypeOK
    <3>2. LockFree(t)
      BY <2>6 DEF C2spRoot, StartRead
    <3> HIDE DEF l
    <3>3. RootOf(l.root, rows)
      BY <1>7, <2>2, <3>1, <3>2, WholeRoot
    <3>4. ReaderInv(t)'
      BY <1>7, <2>1, <3>1, <3>3 DEF ReadInto, ReaderInv
    <3> QED
      BY <2>3, <3>1, <3>4
  <2>7. CASE InclusionLeaves(t)
    <3>1. PICK i \in 1 .. Len(View(Host[t])) :
             ReadInto(t, [NoLocals EXCEPT !.count = Len(View(Host[t])),
                                          !.tip = View(Host[t])[i].record_hash])
      BY <2>7, Zenon DEF InclusionLeaves
    <3> DEFINE l == [NoLocals EXCEPT !.count = Len(View(Host[t])),
                                     !.tip = View(Host[t])[i].record_hash]
    <3>2. ReadInto(t, l) /\ l.count = Len(rows) /\ pc'[t] = "inc_entries"
      BY <1>0, <2>2, <2>7, <3>1 DEF InclusionLeaves, StartRead, Goto, NoLocals, TypeOK
    <3> HIDE DEF l
    <3>3. ReaderInv(t)'
      BY <1>7, <2>1, <2>2, <3>2 DEF ReadInto, ReaderInv
    <3> QED
      BY <2>3, <3>2, <3>3
  <2>8. CASE CheckpointTip(t)
    <3> DEFINE l == [loc[t] EXCEPT !.tip = TipHash(View(Host[t]))]
    <3>1. ReadInto(t, l) /\ pc[t] = "ck_tip" /\ pc'[t] = "ck_root"
      BY <1>0, <2>8 DEF CheckpointTip, Goto, TypeOK
    <3>2. l.count = loc[t].count
      BY <1>7 DEF Locals
    <3> HIDE DEF l
    <3>3. loc[t].count <= Len(rows)
      BY <1>6, <3>1 DEF ReadInv, ReaderInv
    <3>4. ReaderInv(t)'
      BY <1>7, <2>1, <3>1, <3>2, <3>3 DEF ReadInto, ReaderInv
    <3> QED
      BY <2>3, <3>1, <3>4
  <2>9. CASE CheckpointRoot(t) \/ InclusionEntries(t)
    <3>1. PICK k \in {"signed_checkpoint", "inclusion_proof"} :
             Publish(t, [kind |-> k, count |-> loc[t].count,
                         tip |-> loc[t].tip, root |-> MerkleRoot(View(Host[t]))])
      BY <2>9 DEF CheckpointRoot, InclusionEntries
    <3>2. LockFree(t) /\ pc[t] \in {"ck_root", "inc_entries"} /\ pc'[t] = "idle"
      BY <1>0, <2>9 DEF CheckpointRoot, InclusionEntries, Goto, TypeOK
    <3> DEFINE a == [kind |-> k, count |-> loc[t].count,
                     tip |-> loc[t].tip, root |-> MerkleRoot(View(Host[t]))]
    <3>3. a.kind # "c2sp_checkpoint" /\ a.count = loc[t].count /\ a.root = MerkleRoot(rows)
      BY <2>2, <3>2
    <3>4. Publish(t, a)
      BY <3>1
    <3> HIDE DEF a
    <3>5. loc[t].count <= Len(rows)
      BY <1>6, <3>2 DEF ReadInv, ReaderInv
    <3>6. FromHistory(a)
      BY <1>7, <3>3, <3>5, WholeRoot DEF FromHistory
    <3> QED
      BY <2>4, <3>2, <3>4, <3>6
  <2>10. CASE C2spLen(t)
    <3> DEFINE a == [kind |-> "c2sp_checkpoint", count |-> Len(View(Host[t])),
                     tip |-> loc[t].tip, root |-> loc[t].root]
    <3>1. LockFree(t) /\ pc[t] = "c2sp_len" /\ pc'[t] = "idle" /\ Publish(t, a)
      BY <1>0, <2>10 DEF C2spLen, Goto, TypeOK
    <3>2. a.kind = "c2sp_checkpoint" /\ a.count = Len(rows) /\ a.root = loc[t].root
      BY <2>2, <3>1
    <3> HIDE DEF a
    <3>3. RootOf(loc[t].root, rows)
      BY <1>6, <3>1 DEF ReadInv, ReaderInv
    <3>4. FromHistory(a)
      BY <3>2, <3>3 DEF FromHistory, RootOf
    <3> QED
      BY <2>4, <3>1, <3>4
  <2> QED
    BY <1>12, <2>5, <2>6, <2>7, <2>8, <2>9, <2>10 DEF ReadStart, ReadStep
<1>13. ASSUME NEW r \in Replicas, Crash(r) \/ Open(r) PROVE ReadInv' /\ PublishedFromHistory'
  <2>1. /\ published' = published
        /\ \A u \in Threads : \/ pc'[u] \in {"idle", "down"}
                              \/ pc'[u] = pc[u] /\ loc'[u] = loc[u]
    BY <1>13 DEF Crash, Open, OnHost
  <2>2. ASSUME NEW u \in Threads, pc'[u] \in {"idle", "down"} PROVE ReaderInv(u)'
    BY <2>2 DEF ReaderInv
  <2> QED
    BY <1>9, <1>10, <2>1, <2>2 DEF ReadInv
<1>14. CASE UNCHANGED vars
  <2>1. ReadInv'
    BY <1>9, <1>14 DEF vars, ReadInv
  <2> QED
    BY <1>8, <1>10, <1>14, <2>1 DEF vars
<1> QED
  BY <1>8, <1>11, <1>12, <1>13, <1>14 DEF Next

(* While no COMMIT has failed, a checkpoint or proof handed out has the     *)
(* root of a state the file was in, and its count and root were read in     *)
(* the order signed_checkpoint and c2sp_checkpoint read them in.            *)
THEOREM PublishedIsHistory == Spec => [](badCommits = 0 => PublishedFromHistory)
<1>1. Spec => []HistoryInv
  BY HistoryInit, HistoryNext, InvariantHolds, PTL DEF Spec
<1>2. HistoryInv => (badCommits = 0 => PublishedFromHistory)
  BY DEF HistoryInv
<1> QED
  BY <1>1, <1>2, PTL

(***************************************************************************)
(* The witnesses that co-sign the chain's checkpoints (Witness), for any   *)
(* set of them and any checkpoints the log can sign; at most MaxRestarts   *)
(* of them ever lose their memory.                                         *)
(***************************************************************************)
LEMMA WitnessTypeInit == WitnessInit => WitnessTypeOK
BY DEF WitnessInit, WitnessTypeOK

LEMMA WitnessTypeNext == WitnessTypeOK /\ [WitnessNext]_witnessVars => WitnessTypeOK'
<1> SUFFICES ASSUME WitnessTypeOK, [WitnessNext]_witnessVars PROVE WitnessTypeOK'
  OBVIOUS
<1>1. ASSUME NEW w \in Witnesses, NEW c \in Checkpoints, Cosign(w, c) PROVE WitnessTypeOK'
  BY <1>1 DEF Cosign, WitnessTypeOK
<1>2. ASSUME NEW w \in Witnesses, NEW c \in Checkpoints, SignAnything(w, c) PROVE WitnessTypeOK'
  BY <1>2 DEF SignAnything, WitnessTypeOK
<1>3. ASSUME NEW w \in Witnesses, Restart(w) PROVE WitnessTypeOK'
  BY <1>3 DEF Restart, WitnessTypeOK
<1>4. CASE UNCHANGED witnessVars
  BY <1>4 DEF witnessVars, WitnessTypeOK
<1> QED
  BY <1>1, <1>2, <1>3, <1>4 DEF WitnessNext

(* The witnesses' memory and signatures are well typed in every state.      *)
THEOREM WitnessTypeCorrect == WitnessSpec => []WitnessTypeOK
BY WitnessTypeInit, WitnessTypeNext, PTL DEF WitnessSpec

-----------------------------------------------------------------------------
(* Prefix is transitive.                                                    *)
LEMMA ExtendsTransitive ==
    ASSUME NEW r \in Seq(Entries), NEW s \in Seq(Entries), NEW t \in Seq(Entries),
           Extends(r, s), Extends(s, t)
    PROVE  Extends(r, t)
BY DEF Extends

(* What a running witness remembers bounds all that it has signed: every    *)
(* core it signed equals, or is a smaller prefix of, the last one.          *)
Below(c, l) ==
    \/ c = l
    \/ c.count < l.count /\ (0 < c.count => Extends(c.root, l.root))

LastBounds ==
    \A w \in Steady : \A c \in Checkpoints :
        <<w, c>> \in cosigned => last[w] # None /\ Below(c, last[w])

FewRestarts == Cardinality(restarted) <= MaxRestarts

WitnessInv == WitnessTypeOK /\ FewRestarts /\ LastBounds /\ SteadyIsLinear

LEMMA BelowLinear ==
    ASSUME NEW c \in Checkpoints, NEW l \in Checkpoints, Below(c, l)
    PROVE  OneHistory(c, l) /\ OneHistory(l, c)
BY CheckpointAssumption DEF Below, OneHistory, Cores

(* Endorsing c moves everything signed before below c.                      *)
LEMMA BelowAdvances ==
    ASSUME NEW c \in Checkpoints, NEW l \in Checkpoints, NEW d \in Checkpoints,
           Below(d, l), c.count > l.count, c \in ProvableFrom[l]
    PROVE  Below(d, c)
<1>1. c \in Cores /\ l \in Cores /\ d \in Cores
  BY CheckpointAssumption
<1>2. CASE l.count = 0
  BY <1>1, <1>2 DEF Below, Cores
<1>3. CASE l.count # 0
  <2>1. Extends(l.root, c.root)
    <3>1. \E p \in ConsistencyProofs : VerifyConsistency(l, c, p)
      BY DEF ProvableFrom
    <3> QED
      BY <1>3, <3>1 DEF ConsistencyProofs, VerifyConsistency
  <2>2. CASE d = l
    BY <2>1, <2>2, <1>1 DEF Below, Cores
  <2>3. CASE d # l
    <3>1. d.count < l.count /\ (0 < d.count => Extends(d.root, l.root))
      BY <2>3 DEF Below
    <3>2. 0 < d.count => Extends(d.root, c.root)
      BY <3>1, <2>1, <1>1, ExtendsTransitive DEF Cores
    <3> QED
      BY <3>1, <3>2, <1>1 DEF Below, Cores
  <2> QED
    BY <2>2, <2>3
<1> QED
  BY <1>2, <1>3

LEMMA WitnessInvInit == WitnessInit => WitnessInv
<1> SUFFICES ASSUME WitnessInit PROVE WitnessInv
  OBVIOUS
<1>1. FewRestarts
  BY FS_EmptySet, RestartAssumption DEF WitnessInit, FewRestarts
<1> QED
  BY <1>1, WitnessTypeInit DEF WitnessInit, WitnessInv, LastBounds, SteadyIsLinear, Linear

LEMMA WitnessInvNext == WitnessInv /\ [WitnessNext]_witnessVars => WitnessInv'
<1> SUFFICES ASSUME WitnessInv, [WitnessNext]_witnessVars PROVE WitnessInv'
  OBVIOUS
<1>0. WitnessTypeOK /\ WitnessTypeOK'
  BY WitnessTypeNext DEF WitnessInv
<1>1. ASSUME NEW w \in Witnesses, NEW c \in Checkpoints, Cosign(w, c) PROVE WitnessInv'
  <2>0. restarted' = restarted /\ FewRestarts' /\ Steady' = Steady
    BY <1>1 DEF WitnessInv, Cosign, FewRestarts, Steady
  <2>1. \A d \in Checkpoints : w \in Steady /\ <<w, d>> \in cosigned => Below(d, c)
    <3> SUFFICES ASSUME NEW d \in Checkpoints, w \in Steady, <<w, d>> \in cosigned
                 PROVE  Below(d, c)
      OBVIOUS
    <3>1. last[w] # None /\ Below(d, last[w]) /\ last[w] \in Checkpoints
      BY <1>0 DEF WitnessInv, LastBounds, WitnessTypeOK
    <3>2. CASE c = last[w]
      BY <3>1, <3>2
    <3>3. CASE c # last[w]
      <4>1. c.count > last[w].count /\ c \in ProvableFrom[last[w]]
        BY <3>1, <3>3, <1>1 DEF Cosign, WouldEndorse
      <4> QED
        BY <3>1, <4>1, BelowAdvances
    <3> QED
      BY <3>2, <3>3
  <2>2. /\ last'[w] = c /\ \A v \in Witnesses : v # w => last'[v] = last[v]
        /\ cosigned' = cosigned \cup {<<w, c>>}
    BY <1>0, <1>1 DEF Cosign, WitnessTypeOK
  <2>3. c # None
    BY CheckpointAssumption
  <2>4. LastBounds'
    <3> SUFFICES ASSUME NEW v \in Steady, NEW d \in Checkpoints,
                        <<v, d>> \in cosigned'
                 PROVE  last'[v] # None /\ Below(d, last'[v])
      BY <2>0 DEF LastBounds
    <3>1. CASE v = w
      <4>1. Below(d, c)
        BY <2>1, <2>2, <3>1 DEF Below
      <4> QED
        BY <2>2, <2>3, <3>1, <4>1
    <3>2. CASE v # w
      BY <2>2, <3>2 DEF WitnessInv, LastBounds, Steady
    <3> QED
      BY <3>1, <3>2
  <2>5. SteadyIsLinear'
    <3> SUFFICES ASSUME NEW v \in Steady, NEW d \in Checkpoints, NEW e \in Checkpoints,
                        <<v, d>> \in cosigned', <<v, e>> \in cosigned'
                 PROVE  OneHistory(d, e)
      BY <2>0 DEF SteadyIsLinear, Linear
    <3>1. CASE <<v, d>> \in cosigned /\ <<v, e>> \in cosigned
      BY <3>1 DEF WitnessInv, SteadyIsLinear, Linear
    <3>2. CASE v = w /\ d = c
      BY <2>1, <2>2, <3>2, BelowLinear DEF Below
    <3>3. CASE v = w /\ e = c
      BY <2>1, <2>2, <3>3, BelowLinear DEF Below
    <3> QED
      BY <2>2, <3>1, <3>2, <3>3
  <2> QED
    BY <1>0, <2>0, <2>4, <2>5 DEF WitnessInv
<1>2. ASSUME NEW w \in Witnesses, NEW c \in Checkpoints, SignAnything(w, c) PROVE WitnessInv'
  <2>1. /\ restarted' = restarted /\ last' = last /\ w \in Faulty
        /\ cosigned' = cosigned \cup {<<w, c>>}
    BY <1>2 DEF SignAnything
  <2>2. \A v \in Steady' : v \in Steady /\ v # w
    BY <2>1 DEF Steady
  <2> QED
    BY <1>0, <2>1, <2>2 DEF WitnessInv, FewRestarts, LastBounds, SteadyIsLinear, Linear
<1>3. ASSUME NEW w \in Witnesses, Restart(w) PROVE WitnessInv'
  <2>1. /\ restarted' = restarted \cup {w} /\ cosigned' = cosigned
        /\ \A v \in Witnesses : v # w => last'[v] = last[v]
    BY <1>0, <1>3 DEF Restart, WitnessTypeOK
  <2>2. \A v \in Steady' : v \in Steady /\ v # w
    BY <2>1 DEF Steady
  <2>3. FewRestarts'
    BY <1>3, <2>1 DEF Restart, FewRestarts
  <2>4. LastBounds'
    BY <2>1, <2>2 DEF WitnessInv, LastBounds, Steady
  <2>5. SteadyIsLinear'
    BY <2>1, <2>2 DEF WitnessInv, SteadyIsLinear, Linear
  <2> QED
    BY <1>0, <2>3, <2>4, <2>5 DEF WitnessInv
<1>4. CASE UNCHANGED witnessVars
  BY <1>0, <1>4 DEF witnessVars, WitnessInv, FewRestarts, Steady, LastBounds, SteadyIsLinear, Linear
<1> QED
  BY <1>1, <1>2, <1>3, <1>4 DEF WitnessNext

LEMMA WitnessInvHolds == WitnessSpec => []WitnessInv
BY WitnessInvInit, WitnessInvNext, PTL DEF WitnessSpec

(* Whatever the log shows it, a correct witness that was never restarted    *)
(* signs the checkpoints of one history only (Witness.cosign).              *)
THEOREM SteadyLinear == WitnessSpec => []SteadyIsLinear
<1>1. WitnessInv => SteadyIsLinear
  BY DEF WitnessInv
<1> QED
  BY <1>1, WitnessInvHolds, PTL

(* Two quorums share a witness outside Bad when Required exceeds half of    *)
(* the trusted witnesses and Bad together.                                  *)
LEMMA QuorumsShareGood ==
    ASSUME NEW Bad \in SUBSET Witnesses,
           2 * Required > Cardinality(Witnesses) + Cardinality(Bad),
           NEW S \in SUBSET Witnesses, NEW T \in SUBSET Witnesses,
           Cardinality(S) >= Required, Cardinality(T) >= Required
    PROVE  \E w \in Witnesses \ Bad : w \in S /\ w \in T
<1> DEFINE U == Witnesses \ Bad
<1>1. /\ IsFiniteSet(Witnesses) /\ IsFiniteSet(Bad) /\ IsFiniteSet(S) /\ IsFiniteSet(T)
      /\ Required \in Nat
  BY WitnessAssumption, FS_Subset
<1>2. /\ Cardinality(Witnesses) \in Nat /\ Cardinality(Bad) \in Nat
      /\ Cardinality(S) \in Nat /\ Cardinality(T) \in Nat
  BY <1>1, FS_CardinalityType
<1>3. /\ IsFiniteSet(U) /\ IsFiniteSet(S \ Bad) /\ IsFiniteSet(T \ Bad)
      /\ Cardinality(U) = Cardinality(Witnesses) - Cardinality(Witnesses \cap Bad)
      /\ Cardinality(S \ Bad) = Cardinality(S) - Cardinality(S \cap Bad)
      /\ Cardinality(T \ Bad) = Cardinality(T) - Cardinality(T \cap Bad)
  BY <1>1, FS_Difference
<1>4. Witnesses \cap Bad = Bad
  OBVIOUS
<1>5. /\ Cardinality(S \cap Bad) \in Nat /\ Cardinality(S \cap Bad) <= Cardinality(Bad)
      /\ Cardinality(T \cap Bad) \in Nat /\ Cardinality(T \cap Bad) <= Cardinality(Bad)
  <2>1. S \cap Bad \subseteq Bad /\ T \cap Bad \subseteq Bad
    OBVIOUS
  <2>2. IsFiniteSet(S \cap Bad) /\ IsFiniteSet(T \cap Bad)
    BY <1>1, <2>1, FS_Subset
  <2> QED
    BY <1>1, <2>1, <2>2, FS_Subset, FS_CardinalityType
<1>6. Cardinality(S \ Bad) + Cardinality(T \ Bad) > Cardinality(U)
  <2>1. \A n, f, k, s, t, x, y \in Nat :
           2 * k > n + f /\ s >= k /\ t >= k /\ x <= f /\ y <= f =>
               (s - x) + (t - y) > n - f
    OBVIOUS
  <2>2. Cardinality(U) = Cardinality(Witnesses) - Cardinality(Bad)
    BY <1>3, <1>4
  <2> HIDE DEF U
  <2> QED
    BY <1>1, <1>2, <1>3, <1>5, <2>1, <2>2
<1>7. S \ Bad \subseteq U /\ T \ Bad \subseteq U
  OBVIOUS
<1>8. (S \ Bad) \cap (T \ Bad) # {}
  BY <1>3, <1>6, <1>7, FS_MajoritiesIntersect
<1> QED
  BY <1>8

(* No fork reaches a consumer: with quorums that share a correct witness    *)
(* that keeps running, any two checkpoints verify_checkpoint accepts belong *)
(* to one history.                                                          *)
THEOREM NoForkedQuorum ==
    ASSUME 2 * Required > Cardinality(Witnesses) + Cardinality(Faulty) + MaxRestarts
    PROVE  WitnessSpec => []QuorumNoFork
<1>1. WitnessInv => QuorumNoFork
  <2> SUFFICES ASSUME WitnessInv, NEW c \in Checkpoints, NEW d \in Checkpoints,
                      Accepted(c), Accepted(d)
               PROVE  OneHistory(c, d)
    BY DEF QuorumNoFork
  <2> DEFINE Bad == Faulty \cup restarted
  <2>1. /\ Signers(c) \in SUBSET Witnesses /\ Signers(d) \in SUBSET Witnesses
        /\ Cardinality(Signers(c)) >= Required /\ Cardinality(Signers(d)) >= Required
    BY DEF Signers, Accepted
  <2>2. Bad \in SUBSET Witnesses /\ Faulty \subseteq Witnesses /\ restarted \subseteq Witnesses
    BY WitnessAssumption DEF WitnessInv, WitnessTypeOK
  <2>3. IsFiniteSet(Faulty) /\ IsFiniteSet(restarted)
    BY <2>2, WitnessAssumption, FS_Subset
  <2>4. 2 * Required > Cardinality(Witnesses) + Cardinality(Bad)
    <3>1. /\ Cardinality(Bad) = Cardinality(Faulty) + Cardinality(restarted)
                                 - Cardinality(Faulty \cap restarted)
          /\ IsFiniteSet(Bad)
      BY <2>3, FS_Union
    <3>2. IsFiniteSet(Faulty \cap restarted)
      BY <2>3, FS_Intersection
    <3>3. /\ Cardinality(Faulty) \in Nat /\ Cardinality(restarted) \in Nat
          /\ Cardinality(Faulty \cap restarted) \in Nat /\ Cardinality(Witnesses) \in Nat
      BY <2>3, <3>2, WitnessAssumption, FS_CardinalityType
    <3>4. Cardinality(restarted) <= MaxRestarts
      BY DEF WitnessInv, FewRestarts
    <3>5. \A n, f, r, x, k, m \in Nat :
              2 * k > n + f + m /\ r <= m => 2 * k > n + (f + r - x)
      OBVIOUS
    <3> HIDE DEF Bad
    <3> QED
      BY <3>1, <3>3, <3>4, <3>5, WitnessAssumption, RestartAssumption
  <2>5. PICK w \in Witnesses \ Bad : w \in Signers(c) /\ w \in Signers(d)
    <3> HIDE DEF Bad
    <3> QED
      BY <2>1, <2>2, <2>4, QuorumsShareGood
  <2> QED
    BY <2>5 DEF WitnessInv, SteadyIsLinear, Linear, Steady, Signers
<1> QED
  BY <1>1, WitnessInvHolds, PTL

-----------------------------------------------------------------------------
(* The hashes of a table's first rows are the first hashes of the table.    *)
LEMMA RootOfPrefix ==
    ASSUME NEW s \in Seq(Records), NEW p \in Seq(Records), NEW root \in Seq(Hashes),
           RootOf(root, s)
    PROVE  /\ Len(root) \in Nat
           /\ MerkleRoot(SubSeq(s \o p, 1, Len(root))) = root
BY RootKept, LenProperties DEF RootOf

(* A checkpoint that states the size of another state than its root.        *)
Torn(c) == c.count # Len(c.root)

(* What the log can show a witness.  While no COMMIT has failed, the proof  *)
(* it computes for the sizes that two of its checkpoints state convinces    *)
(* verify_consistency if and only if neither checkpoint is torn: reads of   *)
(* signed_checkpoint that an append falls between make one that the log's   *)
(* own proof leads neither to nor from, and nothing else does.              *)
THEOREM HonestLogConsistent ==
    Spec => [](badCommits = 0 =>
        \A r \in Replicas : \A c, d \in published :
            0 < c.count /\ c.count <= d.count /\ d.count <= Len(View(r)) =>
                (VerifyConsistency(c, d, ConsistencyProof(r, c.count, d.count))
                    <=> ~Torn(c) /\ ~Torn(d)))
<1> DEFINE Shown(r, c, d) ==
        VerifyConsistency(c, d, ConsistencyProof(r, c.count, d.count)) <=> ~Torn(c) /\ ~Torn(d)
    P == badCommits = 0 =>
        \A r \in Replicas : \A c, d \in published :
            0 < c.count /\ c.count <= d.count /\ d.count <= Len(View(r)) => Shown(r, c, d)
<1>1. IInv /\ HistoryInv => P
  <2> SUFFICES ASSUME IInv, HistoryInv, badCommits = 0, NEW r \in Replicas,
                      NEW c \in published, NEW d \in published,
                      0 < c.count, c.count <= d.count, d.count <= Len(View(r))
               PROVE  Shown(r, c, d)
    OBVIOUS
  <2>1. RootOf(c.root, rows) /\ RootOf(d.root, rows)
    BY PublishedInv DEF HistoryInv, FromHistory
  <2>2. /\ c.root \in Seq(Hashes) /\ d.root \in Seq(Hashes)
        /\ c.count \in Nat /\ d.count \in Nat
        /\ rows \in Seq(Records) /\ tx[r].pend \in Seq(Records)
        /\ View(r) \in Seq(Records) /\ Len(View(r)) \in Nat
    BY ViewType DEF IInv, TypeOK, Artifacts
  <2> DEFINE Prefix(n) == MerkleRoot(SubSeq(View(r), 1, n))
  <2>3. ASSUME NEW n \in Nat, n <= Len(View(r))
        PROVE  Len(Prefix(n)) = n
    <3>1. SubSeq(View(r), 1, n) \in Seq(Records) /\ Len(SubSeq(View(r), 1, n)) = n
      BY <2>2, <2>3, SubSeqProperties
    <3> QED
      BY <3>1, MerkleRootType
  <2>4. Prefix(Len(c.root)) = c.root /\ Prefix(Len(d.root)) = d.root
    BY <2>1, <2>2, RootOfPrefix DEF View
  <2>5. Len(Prefix(c.count)) = c.count /\ Len(Prefix(d.count)) = d.count
    BY <2>2, <2>3
  <2>6. VerifyConsistency(c, d, ConsistencyProof(r, c.count, d.count))
          <=> Prefix(c.count) = c.root /\ Prefix(d.count) = d.root
    BY <2>2 DEF VerifyConsistency, ConsistencyProof
  <2> HIDE DEF Prefix
  <2> QED
    BY <2>4, <2>5, <2>6 DEF Torn
<1>2. Spec => []HistoryInv
  BY HistoryInit, HistoryNext, InvariantHolds, PTL DEF Spec
<1> QED
  BY <1>1, <1>2, InvariantHolds, PTL

-----------------------------------------------------------------------------
(* A set of numbers that is not empty has a least one.                      *)
LEMMA LeastNumber ==
    ASSUME NEW A, A \subseteq Nat, A # {}
    PROVE  \E m \in A : \A a \in A : m <= a
<1>1. PICK m \in A : \A a \in A : ~(<<a, m>> \in OpToRel(<, Nat))
    BY NatLessThanWellFounded, WFMin
<1>2. \A a \in A : ~(a < m)
    BY <1>1 DEF OpToRel
<1> QED
    BY <1>2

(* Induction over the numbers of a set.                                     *)
LEMMA NumberInduction ==
    ASSUME NEW P, 0 \in P, \A n \in Nat : n \in P => n + 1 \in P
    PROVE  Nat \subseteq P
<1> DEFINE Bad == Nat \ P
<1> SUFFICES ASSUME Bad # {} PROVE FALSE
    OBVIOUS
<1>0. Bad \subseteq Nat
    OBVIOUS
<1>4. \A n \in Nat : n \notin P => n \in Bad
    OBVIOUS
<1>5. \A n \in Bad : n \in Nat /\ n \notin P
    OBVIOUS
<1> HIDE DEF Bad
<1>1. PICK m \in Bad : \A n \in Bad : m <= n
    BY <1>0, LeastNumber
<1>2. \A n \in Bad : ~(n < m)
    BY <1>0, <1>1
<1>3. m \in Nat /\ m # 0 /\ m \notin P
    BY <1>5
<1>6. m - 1 \in Nat /\ m - 1 < m /\ (m - 1) + 1 = m
    BY <1>3
<1>7. m - 1 \in P
    BY <1>2, <1>4, <1>6
<1> QED
    BY <1>3, <1>6, <1>7

-----------------------------------------------------------------------------
(* Powers of two.                                                           *)
(* Doubled is what its definition says.                                     *)
LEMMA DoubledIs ==
        \A w \in Nat : Doubled[w] = IF w = 0 THEN 1 ELSE 2 * Doubled[w - 1]
<1> DEFINE E(g, w) == IF w = 0 THEN 1 ELSE 2 * g[w - 1]
           Upto(n, g) == g = [w \in 0 .. n |-> E(g, w)]
           p(n) == CHOOSE g : Upto(n, g)
           G == [w \in Nat |-> p(w)[w]]
<1>1. ASSUME NEW g, NEW h, NEW w \in Nat, \A v \in 0 .. (w - 1) : g[v] = h[v]
      PROVE  E(g, w) = E(h, w)
  <2>1. CASE w = 0
    BY <2>1
  <2>2. CASE w # 0
    <3>1. w - 1 \in 0 .. (w - 1)
      BY <2>2
    <3> QED
      BY <1>1, <2>2, <3>1
  <2> QED
    BY <2>1, <2>2
<1> HIDE DEF E
<1>2. ASSUME NEW n \in Nat PROVE Upto(n, p(n))
  <2> DEFINE P == {m \in Nat : \E g : Upto(m, g)}
  <2>1. 0 \in P
    <3> DEFINE g == [w \in 0 .. 0 |-> E(<<>>, w)]
    <3>1. \A w \in 0 .. 0 : E(<<>>, w) = E(g, w)
      <4> SUFFICES ASSUME NEW w \in 0 .. 0 PROVE E(<<>>, w) = E(g, w)
        OBVIOUS
      <4>1. w \in Nat /\ 0 .. (w - 1) = {}
        OBVIOUS
      <4> QED
        BY <1>1, <4>1
    <3>2. Upto(0, g)
      BY <3>1
    <3> QED
      BY <3>2
  <2>2. ASSUME NEW m \in Nat, m \in P PROVE m + 1 \in P
    <3>1. PICK g : Upto(m, g)
      BY <2>2
    <3> DEFINE h == [w \in 0 .. (m + 1) |-> E(g, w)]
    <3>2. \A w \in 0 .. m : w \in 0 .. (m + 1) /\ h[w] = g[w]
      BY <3>1
    <3>3. ASSUME NEW w \in 0 .. (m + 1) PROVE E(g, w) = E(h, w)
      <4>1. w \in Nat /\ \A v \in 0 .. (w - 1) : v \in 0 .. m
        OBVIOUS
      <4> HIDE DEF h
      <4> QED
        BY <1>1, <3>2, <4>1
    <3>4. Upto(m + 1, h)
      BY <3>3
    <3> HIDE DEF h, Upto
    <3> QED
      BY <3>4
  <2> HIDE DEF P, Upto
  <2>3. Nat \subseteq P
    BY <2>1, <2>2, NumberInduction
  <2> USE DEF P
  <2> QED
    BY <2>3
<1> HIDE DEF p
<1>3. ASSUME NEW n \in Nat, NEW m \in Nat, n <= m
      PROVE  \A w \in 0 .. n : p(n)[w] = p(m)[w]
  <2> DEFINE P == {w \in Nat : \A v \in 0 .. w : v <= n => p(n)[v] = p(m)[v]}
  <2>1. ASSUME NEW w \in Nat, w <= n, w \in Nat, \A v \in 0 .. (w - 1) : p(n)[v] = p(m)[v]
        PROVE  p(n)[w] = p(m)[w]
    <3>1. p(n)[w] = E(p(n), w) /\ p(m)[w] = E(p(m), w)
      BY <1>2, <1>3, <2>1
    <3> QED
      BY <1>1, <2>1, <3>1
  <2>2. 0 \in P
    <3>1. \A v \in 0 .. 0 : v = 0 /\ v \in Nat /\ 0 .. (v - 1) = {}
      OBVIOUS
    <3> QED
      BY <2>1, <3>1
  <2>3. ASSUME NEW w \in Nat, w \in P PROVE w + 1 \in P
    <3> SUFFICES ASSUME NEW v \in 0 .. (w + 1), v <= n PROVE p(n)[v] = p(m)[v]
      OBVIOUS
    <3>1. CASE v \in 0 .. w
      BY <2>3, <3>1
    <3>2. CASE v = w + 1
      <4>1. v \in Nat /\ \A u \in 0 .. (v - 1) : u \in 0 .. w /\ u <= n
        BY <3>2
      <4> QED
        BY <2>1, <2>3, <4>1
    <3> QED
      BY <3>1, <3>2
  <2> HIDE DEF P
  <2>4. Nat \subseteq P
    BY <2>2, <2>3, NumberInduction
  <2>5. n \in P
    BY <2>4
  <2> QED
    BY <2>5 DEF P
<1>4. G = [w \in Nat |-> E(G, w)]
  <2> SUFFICES ASSUME NEW w \in Nat PROVE p(w)[w] = E(G, w)
    OBVIOUS
  <2>1. w \in Nat /\ w \in 0 .. w
    OBVIOUS
  <2>2. p(w)[w] = E(p(w), w)
    BY <1>2, <2>1
  <2>3. \A v \in 0 .. (w - 1) : p(w)[v] = G[v]
    <3> SUFFICES ASSUME NEW v \in 0 .. (w - 1) PROVE p(w)[v] = p(v)[v]
      OBVIOUS
    <3>1. v \in Nat /\ v <= w /\ v \in 0 .. v
      OBVIOUS
    <3> QED
      BY <1>3, <3>1
  <2> HIDE DEF G
  <2> QED
    BY <1>1, <2>2, <2>3
<1> HIDE DEF G
<1> DEFINE F == CHOOSE f : f = [w \in Nat |-> E(f, w)]
<1>5. F = [w \in Nat |-> E(F, w)]
  BY <1>4
<1>6. Doubled = F
  BY DEF Doubled, E
<1> HIDE DEF F
<1>7. \A w \in Nat : Doubled[w] = E(Doubled, w)
  BY <1>5, <1>6
<1> QED
  BY <1>7 DEF E

(* The powers of two, and that they grow.                                   *)
LEMMA DoubledProperties ==
    /\ Doubled[0] = 1
    /\ \A i \in Nat : /\ Doubled[i] \in Nat /\ Doubled[i] > i
                      /\ Doubled[i + 1] = 2 * Doubled[i]
    /\ \A i, j \in Nat : i <= j => Doubled[i] <= Doubled[j]
<1>1. Doubled[0] = 1
  BY DoubledIs
<1>2. ASSUME NEW i \in Nat PROVE Doubled[i + 1] = 2 * Doubled[i]
  <2>1. i + 1 \in Nat /\ i + 1 # 0 /\ (i + 1) - 1 = i
    OBVIOUS
  <2> QED
    BY <2>1, DoubledIs
<1> DEFINE P == {i \in Nat : Doubled[i] \in Nat /\ Doubled[i] > i}
<1>3. 0 \in P
  BY <1>1
<1>4. \A i \in Nat : i \in P => i + 1 \in P
  BY <1>2
<1>5. Nat \subseteq P
  <2> HIDE DEF P
  <2> QED
    BY <1>3, <1>4, NumberInduction
<1>6. ASSUME NEW i \in Nat, NEW j \in Nat, i <= j PROVE Doubled[i] <= Doubled[j]
  <2> DEFINE Q == {d \in Nat : Doubled[i] <= Doubled[i + d]}
  <2>1. 0 \in Q
    BY <1>5
  <2>2. ASSUME NEW d \in Nat, d \in Q PROVE d + 1 \in Q
    <3>1. i + d \in Nat /\ i + (d + 1) = (i + d) + 1 /\ i + (d + 1) \in Nat
      OBVIOUS
    <3>2. Doubled[i + (d + 1)] = 2 * Doubled[i + d]
      BY <1>2, <3>1
    <3>3. Doubled[i] \in Nat /\ Doubled[i + d] \in Nat
      BY <1>5, <3>1
    <3> QED
      BY <2>2, <3>2, <3>3
  <2> HIDE DEF Q
  <2>3. j - i \in Q
    BY <1>6, <2>1, <2>2, NumberInduction
  <2>4. i + (j - i) = j
    OBVIOUS
  <2> QED
    BY <2>3, <2>4 DEF Q
<1> QED
  BY <1>1, <1>2, <1>5, <1>6

(* The power found is the one with p < n <= 2p.                             *)
LEMMA PowerBelowIs ==
    ASSUME NEW n \in Nat, NEW i \in Nat, Doubled[i] < n, n <= 2 * Doubled[i]
    PROVE  LargestPowerOfTwoBelow(n) = Doubled[i]
<1> DEFINE First(j) == Stops(n, j) /\ \A h \in 0 .. (j - 1) : ~Stops(n, h)
<1>1. i \in 0 .. n /\ Stops(n, i)
  BY DoubledProperties DEF Stops
<1>2. ASSUME NEW j \in Nat, j < i PROVE ~Stops(n, j)
  <2>1. j + 1 \in Nat /\ j + 1 <= i
    BY <1>2
  <2>2. Doubled[j + 1] <= Doubled[i] /\ Doubled[j + 1] = 2 * Doubled[j]
    BY <2>1, DoubledProperties
  <2>3. Doubled[j] \in Nat /\ Doubled[i] \in Nat
    BY DoubledProperties
  <2> QED
    BY <2>2, <2>3 DEF Stops
<1>3. First(i)
  BY <1>1, <1>2
<1>4. ASSUME NEW j \in 0 .. n, First(j) PROVE j = i
  <2>1. ~(j < i)
    BY <1>2, <1>4
  <2>2. ~(i < j)
    BY <1>1, <1>4
  <2> QED
    BY <2>1, <2>2
<1> HIDE DEF First
<1>5. (CHOOSE j \in 0 .. n : First(j)) = i
  BY <1>1, <1>3, <1>4
<1> QED
  BY <1>5 DEF LargestPowerOfTwoBelow, First

(* The largest power of two below n is one of the powers.                   *)
LEMMA PowerBelow ==
    ASSUME NEW n \in Nat, n > 1
    PROVE  \E i \in Nat : /\ LargestPowerOfTwoBelow(n) = Doubled[i]
                          /\ Doubled[i] < n /\ n <= 2 * Doubled[i]
<1> DEFINE A == {i \in Nat : Stops(n, i)}
<1>1. n \in A
  BY DoubledProperties DEF Stops
<1>2. PICK i \in A : \A a \in A : i <= a
  <2> HIDE DEF A
  <2>1. A \subseteq Nat
    BY DEF A
  <2> QED
    BY <1>1, <2>1, LeastNumber
<1>3. Doubled[i] < n
  <2>1. CASE i = 0
    BY <2>1, DoubledProperties
  <2>2. CASE i # 0
    <3>1. i - 1 \in Nat /\ ~(i <= i - 1) /\ (i - 1) + 1 = i
      BY <2>2
    <3>2. ~Stops(n, i - 1)
      BY <1>2, <3>1
    <3>3. Doubled[i - 1] \in Nat /\ Doubled[i] = 2 * Doubled[i - 1]
      BY <3>1, DoubledProperties
    <3> QED
      BY <3>2, <3>3 DEF Stops
  <2> QED
    BY <2>1, <2>2
<1>4. i \in Nat /\ Doubled[i] \in Nat /\ n <= 2 * Doubled[i]
  BY DoubledProperties DEF Stops
<1> QED
  BY <1>3, <1>4, PowerBelowIs

(* It leaves an entry on either side.                                       *)
LEMMA SplitRange ==
    ASSUME NEW w \in Nat, w > 1
    PROVE  /\ LargestPowerOfTwoBelow(w) \in 1 .. (w - 1)
           /\ w - LargestPowerOfTwoBelow(w) \in 1 .. (w - 1)
<1>1. PICK i \in Nat : /\ LargestPowerOfTwoBelow(w) = Doubled[i]
                       /\ Doubled[i] < w /\ w <= 2 * Doubled[i]
  BY PowerBelow
<1>2. Doubled[i] \in Nat /\ Doubled[i] > 0
  BY DoubledProperties
<1> QED
  BY <1>1, <1>2

(* The hash of a run of entries, unfolded once.                             *)
LEMMA HashesIs ==
    ASSUME NEW s
    PROVE  \A w \in Nat \ {0}, i \in Nat :
               TreeHashes(s)[w][i] =
                   IF w = 1 THEN LeafHash(s[i + 1])
                   ELSE LET k == LargestPowerOfTwoBelow(w)
                        IN NodeHash(TreeHashes(s)[k][i], TreeHashes(s)[w - k][i + k])
<1> DEFINE E(g, w) == [i \in Nat |->
                          IF w = 1 THEN LeafHash(s[i + 1])
                          ELSE NodeHash(g[LargestPowerOfTwoBelow(w)][i],
                                        g[w - LargestPowerOfTwoBelow(w)][i + LargestPowerOfTwoBelow(w)])]
           Upto(n, g) == g = [w \in 1 .. n |-> E(g, w)]
           p(n) == CHOOSE g : Upto(n, g)
           G == [w \in (Nat \ {0}) |-> p(w)[w]]
<1>1. ASSUME NEW g, NEW h, NEW w \in (Nat \ {0}), \A v \in 1 .. (w - 1) : g[v] = h[v]
      PROVE  E(g, w) = E(h, w)
  <2>1. CASE w = 1
    BY <2>1
  <2>2. CASE w # 1
    <3> DEFINE k == LargestPowerOfTwoBelow(w)
    <3>1. k \in 1 .. (w - 1) /\ w - k \in 1 .. (w - 1)
      BY <2>2, SplitRange
    <3>2. g[k] = h[k] /\ g[w - k] = h[w - k]
      BY <1>1, <3>1
    <3> HIDE DEF k
    <3> QED
      BY <2>2, <3>2 DEF k
  <2> QED
    BY <2>1, <2>2
<1> HIDE DEF E
<1>2. ASSUME NEW n \in Nat PROVE Upto(n, p(n))
  <2> DEFINE P == {m \in Nat : \E g : Upto(m, g)}
  <2>1. 0 \in P
    <3> DEFINE g == [w \in 1 .. 0 |-> E(<<>>, w)]
    <3>1. \A w \in 1 .. 0 : E(<<>>, w) = E(g, w)
      <4> SUFFICES ASSUME NEW w \in 1 .. 0 PROVE E(<<>>, w) = E(g, w)
        OBVIOUS
      <4>1. w \in (Nat \ {0}) /\ 1 .. (w - 1) = {}
        OBVIOUS
      <4> QED
        BY <1>1, <4>1
    <3>2. Upto(0, g)
      BY <3>1
    <3> QED
      BY <3>2
  <2>2. ASSUME NEW m \in Nat, m \in P PROVE m + 1 \in P
    <3>1. PICK g : Upto(m, g)
      BY <2>2
    <3> DEFINE h == [w \in 1 .. (m + 1) |-> E(g, w)]
    <3>2. \A w \in 1 .. m : w \in 1 .. (m + 1) /\ h[w] = g[w]
      BY <3>1
    <3>3. ASSUME NEW w \in 1 .. (m + 1) PROVE E(g, w) = E(h, w)
      <4>1. w \in (Nat \ {0}) /\ \A v \in 1 .. (w - 1) : v \in 1 .. m
        OBVIOUS
      <4> HIDE DEF h
      <4> QED
        BY <1>1, <3>2, <4>1
    <3>4. Upto(m + 1, h)
      BY <3>3
    <3> HIDE DEF h, Upto
    <3> QED
      BY <3>4
  <2> HIDE DEF P, Upto
  <2>3. Nat \subseteq P
    BY <2>1, <2>2, NumberInduction
  <2> USE DEF P
  <2> QED
    BY <2>3
<1> HIDE DEF p
<1>3. ASSUME NEW n \in Nat, NEW m \in Nat, n <= m
      PROVE  \A w \in 1 .. n : p(n)[w] = p(m)[w]
  <2> DEFINE P == {w \in Nat : \A v \in 1 .. w : v <= n => p(n)[v] = p(m)[v]}
  <2>1. ASSUME NEW w \in Nat, w <= n, w \in (Nat \ {0}), \A v \in 1 .. (w - 1) : p(n)[v] = p(m)[v]
        PROVE  p(n)[w] = p(m)[w]
    <3>1. p(n)[w] = E(p(n), w) /\ p(m)[w] = E(p(m), w)
      BY <1>2, <1>3, <2>1
    <3> QED
      BY <1>1, <2>1, <3>1
  <2>2. 0 \in P
    <3>1. \A v \in 1 .. 0 : v = 0 /\ v \in (Nat \ {0}) /\ 1 .. (v - 1) = {}
      OBVIOUS
    <3> QED
      BY <2>1, <3>1
  <2>3. ASSUME NEW w \in Nat, w \in P PROVE w + 1 \in P
    <3> SUFFICES ASSUME NEW v \in 1 .. (w + 1), v <= n PROVE p(n)[v] = p(m)[v]
      OBVIOUS
    <3>1. CASE v \in 1 .. w
      BY <2>3, <3>1
    <3>2. CASE v = w + 1
      <4>1. v \in (Nat \ {0}) /\ \A u \in 1 .. (v - 1) : u \in 1 .. w /\ u <= n
        BY <3>2
      <4> QED
        BY <2>1, <2>3, <4>1
    <3> QED
      BY <3>1, <3>2
  <2> HIDE DEF P
  <2>4. Nat \subseteq P
    BY <2>2, <2>3, NumberInduction
  <2>5. n \in P
    BY <2>4
  <2> QED
    BY <2>5 DEF P
<1>4. G = [w \in (Nat \ {0}) |-> E(G, w)]
  <2> SUFFICES ASSUME NEW w \in (Nat \ {0}) PROVE p(w)[w] = E(G, w)
    OBVIOUS
  <2>1. w \in Nat /\ w \in 1 .. w
    OBVIOUS
  <2>2. p(w)[w] = E(p(w), w)
    BY <1>2, <2>1
  <2>3. \A v \in 1 .. (w - 1) : p(w)[v] = G[v]
    <3> SUFFICES ASSUME NEW v \in 1 .. (w - 1) PROVE p(w)[v] = p(v)[v]
      OBVIOUS
    <3>1. v \in Nat /\ v <= w /\ v \in 1 .. v
      OBVIOUS
    <3> QED
      BY <1>3, <3>1
  <2> HIDE DEF G
  <2> QED
    BY <1>1, <2>2, <2>3
<1> HIDE DEF G
<1> DEFINE F == CHOOSE f : f = [w \in (Nat \ {0}) |-> E(f, w)]
<1>5. F = [w \in (Nat \ {0}) |-> E(F, w)]
  BY <1>4
<1>6. TreeHashes(s) = F
  BY DEF TreeHashes, E
<1> HIDE DEF F
<1>7. \A w \in (Nat \ {0}) : TreeHashes(s)[w] = E(TreeHashes(s), w)
  BY <1>5, <1>6
<1> QED
  BY <1>7 DEF E

(* The siblings of a path, of w entries from those of fewer.                *)
LEMMA SiblingsIs ==
    ASSUME NEW s, NEW at
    PROVE  \A w \in Nat \ {0}, i \in Nat :
               Siblings(at, s)[w][i] =
                   IF w = 1 THEN <<>>
                   ELSE LET k == LargestPowerOfTwoBelow(w)
                        IN IF at < i + k
                           THEN Append(Siblings(at, s)[k][i], TreeHashes(s)[w - k][i + k])
                           ELSE Append(Siblings(at, s)[w - k][i + k], TreeHashes(s)[k][i])
<1> DEFINE E(g, w) == [i \in Nat |->
                          IF w = 1 THEN <<>>
                          ELSE LET k == LargestPowerOfTwoBelow(w)
                               IN IF at < i + k THEN Append(g[k][i], TreeHashes(s)[w - k][i + k])
                                  ELSE Append(g[w - k][i + k], TreeHashes(s)[k][i])]
           Upto(n, g) == g = [w \in 1 .. n |-> E(g, w)]
           p(n) == CHOOSE g : Upto(n, g)
           G == [w \in (Nat \ {0}) |-> p(w)[w]]
<1>1. ASSUME NEW g, NEW h, NEW w \in (Nat \ {0}), \A v \in 1 .. (w - 1) : g[v] = h[v]
      PROVE  E(g, w) = E(h, w)
  <2>1. CASE w = 1
    BY <2>1
  <2>2. CASE w # 1
    <3> DEFINE k == LargestPowerOfTwoBelow(w)
    <3>1. k \in 1 .. (w - 1) /\ w - k \in 1 .. (w - 1)
      BY <2>2, SplitRange
    <3>2. g[k] = h[k] /\ g[w - k] = h[w - k]
      BY <1>1, <3>1
    <3> HIDE DEF k
    <3> QED
      BY <2>2, <3>2 DEF k
  <2> QED
    BY <2>1, <2>2
<1> HIDE DEF E
<1>2. ASSUME NEW n \in Nat PROVE Upto(n, p(n))
  <2> DEFINE P == {m \in Nat : \E g : Upto(m, g)}
  <2>1. 0 \in P
    <3> DEFINE g == [w \in 1 .. 0 |-> E(<<>>, w)]
    <3>1. \A w \in 1 .. 0 : E(<<>>, w) = E(g, w)
      <4> SUFFICES ASSUME NEW w \in 1 .. 0 PROVE E(<<>>, w) = E(g, w)
        OBVIOUS
      <4>1. w \in (Nat \ {0}) /\ 1 .. (w - 1) = {}
        OBVIOUS
      <4> QED
        BY <1>1, <4>1
    <3>2. Upto(0, g)
      BY <3>1
    <3> QED
      BY <3>2
  <2>2. ASSUME NEW m \in Nat, m \in P PROVE m + 1 \in P
    <3>1. PICK g : Upto(m, g)
      BY <2>2
    <3> DEFINE h == [w \in 1 .. (m + 1) |-> E(g, w)]
    <3>2. \A w \in 1 .. m : w \in 1 .. (m + 1) /\ h[w] = g[w]
      BY <3>1
    <3>3. ASSUME NEW w \in 1 .. (m + 1) PROVE E(g, w) = E(h, w)
      <4>1. w \in (Nat \ {0}) /\ \A v \in 1 .. (w - 1) : v \in 1 .. m
        OBVIOUS
      <4> HIDE DEF h
      <4> QED
        BY <1>1, <3>2, <4>1
    <3>4. Upto(m + 1, h)
      BY <3>3
    <3> HIDE DEF h, Upto
    <3> QED
      BY <3>4
  <2> HIDE DEF P, Upto
  <2>3. Nat \subseteq P
    BY <2>1, <2>2, NumberInduction
  <2> USE DEF P
  <2> QED
    BY <2>3
<1> HIDE DEF p
<1>3. ASSUME NEW n \in Nat, NEW m \in Nat, n <= m
      PROVE  \A w \in 1 .. n : p(n)[w] = p(m)[w]
  <2> DEFINE P == {w \in Nat : \A v \in 1 .. w : v <= n => p(n)[v] = p(m)[v]}
  <2>1. ASSUME NEW w \in Nat, w <= n, w \in (Nat \ {0}), \A v \in 1 .. (w - 1) : p(n)[v] = p(m)[v]
        PROVE  p(n)[w] = p(m)[w]
    <3>1. p(n)[w] = E(p(n), w) /\ p(m)[w] = E(p(m), w)
      BY <1>2, <1>3, <2>1
    <3> QED
      BY <1>1, <2>1, <3>1
  <2>2. 0 \in P
    <3>1. \A v \in 1 .. 0 : v = 0 /\ v \in (Nat \ {0}) /\ 1 .. (v - 1) = {}
      OBVIOUS
    <3> QED
      BY <2>1, <3>1
  <2>3. ASSUME NEW w \in Nat, w \in P PROVE w + 1 \in P
    <3> SUFFICES ASSUME NEW v \in 1 .. (w + 1), v <= n PROVE p(n)[v] = p(m)[v]
      OBVIOUS
    <3>1. CASE v \in 1 .. w
      BY <2>3, <3>1
    <3>2. CASE v = w + 1
      <4>1. v \in (Nat \ {0}) /\ \A u \in 1 .. (v - 1) : u \in 1 .. w /\ u <= n
        BY <3>2
      <4> QED
        BY <2>1, <2>3, <4>1
    <3> QED
      BY <3>1, <3>2
  <2> HIDE DEF P
  <2>4. Nat \subseteq P
    BY <2>2, <2>3, NumberInduction
  <2>5. n \in P
    BY <2>4
  <2> QED
    BY <2>5 DEF P
<1>4. G = [w \in (Nat \ {0}) |-> E(G, w)]
  <2> SUFFICES ASSUME NEW w \in (Nat \ {0}) PROVE p(w)[w] = E(G, w)
    OBVIOUS
  <2>1. w \in Nat /\ w \in 1 .. w
    OBVIOUS
  <2>2. p(w)[w] = E(p(w), w)
    BY <1>2, <2>1
  <2>3. \A v \in 1 .. (w - 1) : p(w)[v] = G[v]
    <3> SUFFICES ASSUME NEW v \in 1 .. (w - 1) PROVE p(w)[v] = p(v)[v]
      OBVIOUS
    <3>1. v \in Nat /\ v <= w /\ v \in 1 .. v
      OBVIOUS
    <3> QED
      BY <1>3, <3>1
  <2> HIDE DEF G
  <2> QED
    BY <1>1, <2>2, <2>3
<1> HIDE DEF G
<1> DEFINE F == CHOOSE f : f = [w \in (Nat \ {0}) |-> E(f, w)]
<1>5. F = [w \in (Nat \ {0}) |-> E(F, w)]
  BY <1>4
<1>6. Siblings(at, s) = F
  BY DEF Siblings, E
<1> HIDE DEF F
<1>7. \A w \in (Nat \ {0}) : Siblings(at, s)[w] = E(Siblings(at, s), w)
  BY <1>5, <1>6
<1> QED
  BY <1>7 DEF E

(* The proof for w entries, from those for fewer.                           *)
LEMMA SubProofIs ==
    ASSUME NEW s, NEW a
    PROVE  \A w \in Nat \ {0}, i \in Nat :
               SubProof(a, s)[w][i] =
                   IF w = 1 \/ i + w = a THEN IF i = 0 THEN <<>> ELSE <<TreeHashes(s)[w][i]>>
                   ELSE LET k == LargestPowerOfTwoBelow(w)
                        IN IF a <= i + k
                           THEN Append(SubProof(a, s)[k][i], TreeHashes(s)[w - k][i + k])
                           ELSE Append(SubProof(a, s)[w - k][i + k], TreeHashes(s)[k][i])
<1> DEFINE E(g, w) == [i \in Nat |->
                          IF w = 1 \/ i + w = a THEN IF i = 0 THEN <<>> ELSE <<TreeHashes(s)[w][i]>>
                          ELSE LET k == LargestPowerOfTwoBelow(w)
                               IN IF a <= i + k THEN Append(g[k][i], TreeHashes(s)[w - k][i + k])
                                  ELSE Append(g[w - k][i + k], TreeHashes(s)[k][i])]
           Upto(n, g) == g = [w \in 1 .. n |-> E(g, w)]
           p(n) == CHOOSE g : Upto(n, g)
           G == [w \in (Nat \ {0}) |-> p(w)[w]]
<1>1. ASSUME NEW g, NEW h, NEW w \in (Nat \ {0}), \A v \in 1 .. (w - 1) : g[v] = h[v]
      PROVE  E(g, w) = E(h, w)
  <2>1. CASE w = 1
    BY <2>1
  <2>2. CASE w # 1
    <3> DEFINE k == LargestPowerOfTwoBelow(w)
    <3>1. k \in 1 .. (w - 1) /\ w - k \in 1 .. (w - 1)
      BY <2>2, SplitRange
    <3>2. g[k] = h[k] /\ g[w - k] = h[w - k]
      BY <1>1, <3>1
    <3> HIDE DEF k
    <3> QED
      BY <2>2, <3>2 DEF k
  <2> QED
    BY <2>1, <2>2
<1> HIDE DEF E
<1>2. ASSUME NEW n \in Nat PROVE Upto(n, p(n))
  <2> DEFINE P == {m \in Nat : \E g : Upto(m, g)}
  <2>1. 0 \in P
    <3> DEFINE g == [w \in 1 .. 0 |-> E(<<>>, w)]
    <3>1. \A w \in 1 .. 0 : E(<<>>, w) = E(g, w)
      <4> SUFFICES ASSUME NEW w \in 1 .. 0 PROVE E(<<>>, w) = E(g, w)
        OBVIOUS
      <4>1. w \in (Nat \ {0}) /\ 1 .. (w - 1) = {}
        OBVIOUS
      <4> QED
        BY <1>1, <4>1
    <3>2. Upto(0, g)
      BY <3>1
    <3> QED
      BY <3>2
  <2>2. ASSUME NEW m \in Nat, m \in P PROVE m + 1 \in P
    <3>1. PICK g : Upto(m, g)
      BY <2>2
    <3> DEFINE h == [w \in 1 .. (m + 1) |-> E(g, w)]
    <3>2. \A w \in 1 .. m : w \in 1 .. (m + 1) /\ h[w] = g[w]
      BY <3>1
    <3>3. ASSUME NEW w \in 1 .. (m + 1) PROVE E(g, w) = E(h, w)
      <4>1. w \in (Nat \ {0}) /\ \A v \in 1 .. (w - 1) : v \in 1 .. m
        OBVIOUS
      <4> HIDE DEF h
      <4> QED
        BY <1>1, <3>2, <4>1
    <3>4. Upto(m + 1, h)
      BY <3>3
    <3> HIDE DEF h, Upto
    <3> QED
      BY <3>4
  <2> HIDE DEF P, Upto
  <2>3. Nat \subseteq P
    BY <2>1, <2>2, NumberInduction
  <2> USE DEF P
  <2> QED
    BY <2>3
<1> HIDE DEF p
<1>3. ASSUME NEW n \in Nat, NEW m \in Nat, n <= m
      PROVE  \A w \in 1 .. n : p(n)[w] = p(m)[w]
  <2> DEFINE P == {w \in Nat : \A v \in 1 .. w : v <= n => p(n)[v] = p(m)[v]}
  <2>1. ASSUME NEW w \in Nat, w <= n, w \in (Nat \ {0}), \A v \in 1 .. (w - 1) : p(n)[v] = p(m)[v]
        PROVE  p(n)[w] = p(m)[w]
    <3>1. p(n)[w] = E(p(n), w) /\ p(m)[w] = E(p(m), w)
      BY <1>2, <1>3, <2>1
    <3> QED
      BY <1>1, <2>1, <3>1
  <2>2. 0 \in P
    <3>1. \A v \in 1 .. 0 : v = 0 /\ v \in (Nat \ {0}) /\ 1 .. (v - 1) = {}
      OBVIOUS
    <3> QED
      BY <2>1, <3>1
  <2>3. ASSUME NEW w \in Nat, w \in P PROVE w + 1 \in P
    <3> SUFFICES ASSUME NEW v \in 1 .. (w + 1), v <= n PROVE p(n)[v] = p(m)[v]
      OBVIOUS
    <3>1. CASE v \in 1 .. w
      BY <2>3, <3>1
    <3>2. CASE v = w + 1
      <4>1. v \in (Nat \ {0}) /\ \A u \in 1 .. (v - 1) : u \in 1 .. w /\ u <= n
        BY <3>2
      <4> QED
        BY <2>1, <2>3, <4>1
    <3> QED
      BY <3>1, <3>2
  <2> HIDE DEF P
  <2>4. Nat \subseteq P
    BY <2>2, <2>3, NumberInduction
  <2>5. n \in P
    BY <2>4
  <2> QED
    BY <2>5 DEF P
<1>4. G = [w \in (Nat \ {0}) |-> E(G, w)]
  <2> SUFFICES ASSUME NEW w \in (Nat \ {0}) PROVE p(w)[w] = E(G, w)
    OBVIOUS
  <2>1. w \in Nat /\ w \in 1 .. w
    OBVIOUS
  <2>2. p(w)[w] = E(p(w), w)
    BY <1>2, <2>1
  <2>3. \A v \in 1 .. (w - 1) : p(w)[v] = G[v]
    <3> SUFFICES ASSUME NEW v \in 1 .. (w - 1) PROVE p(w)[v] = p(v)[v]
      OBVIOUS
    <3>1. v \in Nat /\ v <= w /\ v \in 1 .. v
      OBVIOUS
    <3> QED
      BY <1>3, <3>1
  <2> HIDE DEF G
  <2> QED
    BY <1>1, <2>2, <2>3
<1> HIDE DEF G
<1> DEFINE F == CHOOSE f : f = [w \in (Nat \ {0}) |-> E(f, w)]
<1>5. F = [w \in (Nat \ {0}) |-> E(F, w)]
  BY <1>4
<1>6. SubProof(a, s) = F
  BY DEF SubProof, E
<1> HIDE DEF F
<1>7. \A w \in (Nat \ {0}) : SubProof(a, s)[w] = E(SubProof(a, s), w)
  BY <1>5, <1>6
<1> QED
  BY <1>7 DEF E

(* One call of recon, with what the calls below it returned.                *)
ReconStep(R, leaf, at, proof, l, i, w) ==
    IF w = 1 THEN IF l = 0 THEN <<leaf>> ELSE <<>>
    ELSE IF l = 0 THEN <<>>
    ELSE LET k == LargestPowerOfTwoBelow(w)
             left == at < i + k
             sub == IF left THEN R[l - 1][i][k] ELSE R[l - 1][i + k][w - k]
         IN IF sub = <<>> THEN <<>>
            ELSE IF left THEN <<NodeHash(sub[1], proof[l])>>
            ELSE <<NodeHash(proof[l], sub[1])>>

(* What a verifier rebuilds, from what it rebuilt of a shorter path.        *)
LEMMA ReconIs ==
    ASSUME NEW leaf, NEW at, NEW proof
    PROVE  \A w \in Nat, i \in Nat, v \in Nat \ {0} :
               Recon(leaf, at, proof)[w][i][v] =
                   ReconStep(Recon(leaf, at, proof), leaf, at, proof, w, i, v)
<1> DEFINE E(g, w) == [i \in Nat |-> [v \in Nat \ {0} |->
                          ReconStep(g, leaf, at, proof, w, i, v)]]
           Upto(n, g) == g = [w \in 0 .. n |-> E(g, w)]
           p(n) == CHOOSE g : Upto(n, g)
           G == [w \in Nat |-> p(w)[w]]
<1>1. ASSUME NEW g, NEW h, NEW w \in Nat, \A v \in 0 .. (w - 1) : g[v] = h[v]
      PROVE  E(g, w) = E(h, w)
  <2>1. CASE w = 0
    BY <2>1 DEF ReconStep
  <2>2. CASE w # 0
    <3>1. g[w - 1] = h[w - 1]
      BY <1>1, <2>2
    <3> QED
      BY <2>2, <3>1 DEF ReconStep
  <2> QED
    BY <2>1, <2>2
<1> HIDE DEF E
<1>2. ASSUME NEW n \in Nat PROVE Upto(n, p(n))
  <2> DEFINE P == {m \in Nat : \E g : Upto(m, g)}
  <2>1. 0 \in P
    <3> DEFINE g == [w \in 0 .. 0 |-> E(<<>>, w)]
    <3>1. \A w \in 0 .. 0 : E(<<>>, w) = E(g, w)
      <4> SUFFICES ASSUME NEW w \in 0 .. 0 PROVE E(<<>>, w) = E(g, w)
        OBVIOUS
      <4>1. w \in Nat /\ 0 .. (w - 1) = {}
        OBVIOUS
      <4> QED
        BY <1>1, <4>1
    <3>2. Upto(0, g)
      BY <3>1
    <3> QED
      BY <3>2
  <2>2. ASSUME NEW m \in Nat, m \in P PROVE m + 1 \in P
    <3>1. PICK g : Upto(m, g)
      BY <2>2
    <3> DEFINE h == [w \in 0 .. (m + 1) |-> E(g, w)]
    <3>2. \A w \in 0 .. m : w \in 0 .. (m + 1) /\ h[w] = g[w]
      BY <3>1
    <3>3. ASSUME NEW w \in 0 .. (m + 1) PROVE E(g, w) = E(h, w)
      <4>1. w \in Nat /\ \A v \in 0 .. (w - 1) : v \in 0 .. m
        OBVIOUS
      <4> HIDE DEF h
      <4> QED
        BY <1>1, <3>2, <4>1
    <3>4. Upto(m + 1, h)
      BY <3>3
    <3> HIDE DEF h, Upto
    <3> QED
      BY <3>4
  <2> HIDE DEF P, Upto
  <2>3. Nat \subseteq P
    BY <2>1, <2>2, NumberInduction
  <2> USE DEF P
  <2> QED
    BY <2>3
<1> HIDE DEF p
<1>3. ASSUME NEW n \in Nat, NEW m \in Nat, n <= m
      PROVE  \A w \in 0 .. n : p(n)[w] = p(m)[w]
  <2> DEFINE P == {w \in Nat : \A v \in 0 .. w : v <= n => p(n)[v] = p(m)[v]}
  <2>1. ASSUME NEW w \in Nat, w <= n, w \in Nat, \A v \in 0 .. (w - 1) : p(n)[v] = p(m)[v]
        PROVE  p(n)[w] = p(m)[w]
    <3>1. p(n)[w] = E(p(n), w) /\ p(m)[w] = E(p(m), w)
      BY <1>2, <1>3, <2>1
    <3> QED
      BY <1>1, <2>1, <3>1
  <2>2. 0 \in P
    <3>1. \A v \in 0 .. 0 : v = 0 /\ v \in Nat /\ 0 .. (v - 1) = {}
      OBVIOUS
    <3> QED
      BY <2>1, <3>1
  <2>3. ASSUME NEW w \in Nat, w \in P PROVE w + 1 \in P
    <3> SUFFICES ASSUME NEW v \in 0 .. (w + 1), v <= n PROVE p(n)[v] = p(m)[v]
      OBVIOUS
    <3>1. CASE v \in 0 .. w
      BY <2>3, <3>1
    <3>2. CASE v = w + 1
      <4>1. v \in Nat /\ \A u \in 0 .. (v - 1) : u \in 0 .. w /\ u <= n
        BY <3>2
      <4> QED
        BY <2>1, <2>3, <4>1
    <3> QED
      BY <3>1, <3>2
  <2> HIDE DEF P
  <2>4. Nat \subseteq P
    BY <2>2, <2>3, NumberInduction
  <2>5. n \in P
    BY <2>4
  <2> QED
    BY <2>5 DEF P
<1>4. G = [w \in Nat |-> E(G, w)]
  <2> SUFFICES ASSUME NEW w \in Nat PROVE p(w)[w] = E(G, w)
    OBVIOUS
  <2>1. w \in Nat /\ w \in 0 .. w
    OBVIOUS
  <2>2. p(w)[w] = E(p(w), w)
    BY <1>2, <2>1
  <2>3. \A v \in 0 .. (w - 1) : p(w)[v] = G[v]
    <3> SUFFICES ASSUME NEW v \in 0 .. (w - 1) PROVE p(w)[v] = p(v)[v]
      OBVIOUS
    <3>1. v \in Nat /\ v <= w /\ v \in 0 .. v
      OBVIOUS
    <3> QED
      BY <1>3, <3>1
  <2> HIDE DEF G
  <2> QED
    BY <1>1, <2>2, <2>3
<1> HIDE DEF G
<1> DEFINE F == CHOOSE f : f = [w \in Nat |-> E(f, w)]
<1>5. F = [w \in Nat |-> E(F, w)]
  BY <1>4
<1>6. Recon(leaf, at, proof) = F
  BY DEF Recon, ReconStep, E
<1> HIDE DEF F
<1>7. \A w \in Nat : Recon(leaf, at, proof)[w] = E(Recon(leaf, at, proof), w)
  BY <1>5, <1>6
<1> QED
  <2> DEFINE R == Recon(leaf, at, proof)
  <2> SUFFICES ASSUME NEW w \in Nat, NEW i \in Nat, NEW v \in Nat \ {0}
               PROVE  R[w][i][v] = ReconStep(R, leaf, at, proof, w, i, v)
    OBVIOUS
  <2>1. R[w] = E(R, w)
    BY <1>7
  <2> HIDE DEF R
  <2> QED
    BY <2>1 DEF E

(* The hash of the w entries of s that follow the first i, and the hashes   *)
(* of every such run.                                                       *)
RunHash(s, i, w) == TreeHashes(s)[w][i]
RunHashes(s) == {RunHash(s, i, w) : w \in Nat \ {0}, i \in Nat}

(* Two runs of w entries, after the first i of s and the first j of t.      *)
Agree(s, i, t, j, w) == \A q \in 1 .. w : s[i + q] = t[j + q]

(* Leaf and node hashes are domain separated, and neither loses its input.  *)
LEMMA HashKinds ==
    /\ \A e, l, r : LeafHash(e) # NodeHash(l, r)
    /\ \A e, f : LeafHash(e) = LeafHash(f) => e = f
    /\ \A l, r, x, y : NodeHash(l, r) = NodeHash(x, y) => l = x /\ r = y
<1>1. ASSUME NEW e, NEW l, NEW r PROVE LeafHash(e) # NodeHash(l, r)
  BY DEF LeafHash, NodeHash
<1>2. ASSUME NEW e, NEW f, LeafHash(e) = LeafHash(f) PROVE e = f
  <2>1. LeafHash(e)[1] = LeafHash(f)[1]
    BY <1>2
  <2> QED
    BY <2>1 DEF LeafHash
<1>3. ASSUME NEW l, NEW r, NEW x, NEW y, NodeHash(l, r) = NodeHash(x, y)
      PROVE  l = x /\ r = y
  <2>1. /\ NodeHash(l, r)[1] = NodeHash(x, y)[1]
        /\ NodeHash(l, r)[2] = NodeHash(x, y)[2]
    BY <1>3
  <2> QED
    BY <2>1 DEF NodeHash
<1> QED
  BY <1>1, <1>2, <1>3

(* A run of one entry hashes to its leaf, a longer one to a node over its   *)
(* two parts.                                                               *)
LEMMA RunOfOne ==
    ASSUME NEW s
    PROVE  \A i \in Nat : RunHash(s, i, 1) = LeafHash(s[i + 1])
<1> QED
  BY HashesIs DEF RunHash

(* The hash of a run of more entries is that of its two parts.              *)
LEMMA RunOfMore ==
    ASSUME NEW s, NEW w \in Nat, w > 1, NEW i \in Nat
    PROVE  \E k \in 1 .. (w - 1) :
               /\ k = LargestPowerOfTwoBelow(w)
               /\ RunHash(s, i, w) = NodeHash(RunHash(s, i, k), RunHash(s, i + k, w - k))
<1> DEFINE k == LargestPowerOfTwoBelow(w)
<1>1. k \in 1 .. (w - 1)
  BY SplitRange
<1>2. w \in Nat \ {0} /\ w # 1
  OBVIOUS
<1>3. RunHash(s, i, w) = NodeHash(RunHash(s, i, k), RunHash(s, i + k, w - k))
  BY <1>2, HashesIs DEF RunHash
<1> HIDE DEF k
<1> QED
  BY <1>1, <1>3 DEF k

SameParts(s, i, w, t, j, v) ==
    \E k \in 1 .. (w - 1), l \in 1 .. (v - 1) :
        /\ RunHash(s, i, k) = RunHash(t, j, l)
        /\ RunHash(s, i + k, w - k) = RunHash(t, j + l, v - l)

(* Two runs of one hash are one entry each, or have the same two parts.     *)
LEMMA RunKinds ==
    ASSUME NEW s, NEW t, NEW w \in Nat \ {0}, NEW v \in Nat \ {0}, NEW i \in Nat, NEW j \in Nat,
           RunHash(s, i, w) = RunHash(t, j, v)
    PROVE  \/ w = 1 /\ v = 1 /\ Agree(s, i, t, j, w)
           \/ SameParts(s, i, w, t, j, v)
<1>1. CASE w = 1 /\ v = 1
  <2>1. LeafHash(s[i + 1]) = LeafHash(t[j + 1])
    BY <1>1, RunOfOne
  <2>2. s[i + 1] = t[j + 1]
    BY <2>1, HashKinds
  <2>3. \A q \in 1 .. w : q = 1
    BY <1>1
  <2>4. Agree(s, i, t, j, w)
    BY <2>2, <2>3 DEF Agree
  <2> QED
    BY <1>1, <2>4
<1>2. CASE w = 1 /\ v > 1
  <2>1. RunHash(s, i, w) = LeafHash(s[i + 1])
    BY <1>2, RunOfOne
  <2>2. PICK k \in 1 .. (v - 1) :
            RunHash(t, j, v) = NodeHash(RunHash(t, j, k), RunHash(t, j + k, v - k))
    BY <1>2, RunOfMore
  <2>3. LeafHash(s[i + 1]) = NodeHash(RunHash(t, j, k), RunHash(t, j + k, v - k))
    BY <2>1, <2>2
  <2> QED
    BY <2>3, HashKinds
<1>3. CASE w > 1 /\ v = 1
  <2>1. RunHash(t, j, v) = LeafHash(t[j + 1])
    BY <1>3, RunOfOne
  <2>2. PICK k \in 1 .. (w - 1) :
            RunHash(s, i, w) = NodeHash(RunHash(s, i, k), RunHash(s, i + k, w - k))
    BY <1>3, RunOfMore
  <2>3. LeafHash(t[j + 1]) = NodeHash(RunHash(s, i, k), RunHash(s, i + k, w - k))
    BY <2>1, <2>2
  <2> QED
    BY <2>3, HashKinds
<1>4. CASE w > 1 /\ v > 1
  <2>1. PICK k \in 1 .. (w - 1) :
            RunHash(s, i, w) = NodeHash(RunHash(s, i, k), RunHash(s, i + k, w - k))
    BY <1>4, RunOfMore
  <2>2. PICK l \in 1 .. (v - 1) :
            RunHash(t, j, v) = NodeHash(RunHash(t, j, l), RunHash(t, j + l, v - l))
    BY <1>4, RunOfMore
  <2>3. NodeHash(RunHash(s, i, k), RunHash(s, i + k, w - k))
            = NodeHash(RunHash(t, j, l), RunHash(t, j + l, v - l))
    BY <2>1, <2>2
  <2>4. /\ RunHash(s, i, k) = RunHash(t, j, l)
        /\ RunHash(s, i + k, w - k) = RunHash(t, j + l, v - l)
    BY <2>3, HashKinds
  <2>5. SameParts(s, i, w, t, j, v)
    BY <2>4 DEF SameParts
  <2> QED
    BY <2>5
<1> QED
  BY <1>1, <1>2, <1>3, <1>4

(* Collision resistance carries over to trees: equal hashes are of equal    *)
(* runs, whatever the positions and the lists they are cut from.            *)
LEMMA SameHashSameRun ==
    ASSUME NEW s, NEW t
    PROVE  \A w, v \in Nat \ {0}, i, j \in Nat :
               RunHash(s, i, w) = RunHash(t, j, v) => w = v /\ Agree(s, i, t, j, w)
<1> DEFINE Holds(w) == \A v \in Nat \ {0}, i, j \in Nat :
                           RunHash(s, i, w) = RunHash(t, j, v) => w = v /\ Agree(s, i, t, j, w)
           Q == {n \in Nat : \A w \in 1 .. n : Holds(w)}
<1>0. \A w, v \in Nat \ {0}, i, j \in Nat : RunHash(s, i, w) = RunHash(t, j, v) =>
          \/ w = 1 /\ v = 1 /\ Agree(s, i, t, j, w)
          \/ SameParts(s, i, w, t, j, v)
  BY RunKinds
<1>1. 0 \in Q
  OBVIOUS
<1>2. ASSUME NEW n \in Nat, n \in Q PROVE Holds(n + 1)
  <2> SUFFICES ASSUME NEW w \in Nat \ {0}, w = n + 1, NEW v \in Nat \ {0}, NEW i \in Nat, NEW j \in Nat,
                      RunHash(s, i, w) = RunHash(t, j, v)
               PROVE  w = v /\ Agree(s, i, t, j, w)
    OBVIOUS
  <2>2. CASE w = 1 /\ v = 1 /\ Agree(s, i, t, j, w)
    BY <2>2
  <2>3. ASSUME NEW k \in 1 .. (w - 1), NEW l \in 1 .. (v - 1),
               RunHash(s, i, k) = RunHash(t, j, l),
               RunHash(s, i + k, w - k) = RunHash(t, j + l, v - l)
        PROVE  w = v /\ Agree(s, i, t, j, w)
    <3>1. /\ k \in 1 .. n /\ w - k \in 1 .. n /\ l \in Nat \ {0} /\ v - l \in Nat \ {0}
          /\ i + k \in Nat /\ j + l \in Nat
      OBVIOUS
    <3>2. Holds(k) /\ Holds(w - k)
      <4> HIDE DEF Holds
      <4> QED
        BY <1>2, <3>1
    <3>3. k = l /\ Agree(s, i, t, j, k)
      BY <2>3, <3>1, <3>2
    <3>4. w - k = v - l /\ Agree(s, i + k, t, j + l, w - k)
      BY <2>3, <3>1, <3>2
    <3> HIDE DEF Holds, Q
    <3>5. ASSUME NEW q \in 1 .. w PROVE s[i + q] = t[j + q]
      <4>1. CASE q \in 1 .. k
        BY <3>3, <4>1 DEF Agree
      <4>2. CASE q \notin 1 .. k
        <5>1. q - k \in 1 .. (w - k) /\ (i + k) + (q - k) = i + q /\ (j + l) + (q - k) = j + q
          BY <3>3, <4>2
        <5> QED
          BY <3>4, <5>1 DEF Agree
      <4> QED
        BY <4>1, <4>2
    <3>6. w = v
      BY <3>3, <3>4
    <3> QED
      BY <3>5, <3>6 DEF Agree
  <2> HIDE DEF Holds, Q
  <2> QED
    BY <1>0, <2>2, <2>3 DEF SameParts
<1>3. ASSUME NEW n \in Nat, n \in Q PROVE n + 1 \in Q
  <2>1. Holds(n + 1)
    BY <1>2, <1>3
  <2>2. \A w \in 1 .. (n + 1) : w \in 1 .. n \/ w = n + 1
    OBVIOUS
  <2> HIDE DEF Holds
  <2> QED
    BY <1>3, <2>1, <2>2
<1> HIDE DEF Q, Holds
<1>4. Nat \subseteq Q
  BY <1>1, <1>3, NumberInduction
<1>5. \A w \in Nat \ {0} : Holds(w)
  <2> SUFFICES ASSUME NEW w \in Nat \ {0} PROVE Holds(w)
    OBVIOUS
  <2>1. w \in Q /\ w \in 1 .. w
    BY <1>4
  <2> QED
    BY <2>1 DEF Q
<1> QED
  BY <1>5 DEF Holds

(* Equal runs have equal hashes.                                            *)
LEMMA SameRunSameHash ==
    ASSUME NEW s, NEW t
    PROVE  \A w \in Nat \ {0}, i, j \in Nat :
               Agree(s, i, t, j, w) => RunHash(s, i, w) = RunHash(t, j, w)
<1> DEFINE Holds(w) == \A i, j \in Nat :
                           Agree(s, i, t, j, w) => RunHash(s, i, w) = RunHash(t, j, w)
           Q == {n \in Nat : \A w \in 1 .. n : Holds(w)}
<1>1. 0 \in Q
  OBVIOUS
<1>2. ASSUME NEW n \in Nat, n \in Q PROVE Holds(n + 1)
  <2> SUFFICES ASSUME NEW w, w = n + 1, NEW i \in Nat, NEW j \in Nat, Agree(s, i, t, j, w)
               PROVE  RunHash(s, i, w) = RunHash(t, j, w)
    OBVIOUS
  <2>1. CASE w = 1
    <3>1. s[i + 1] = t[j + 1]
      BY <2>1 DEF Agree
    <3> QED
      BY <2>1, <3>1, RunOfOne
  <2>2. CASE w # 1
    <3>0. w \in Nat /\ w > 1
      BY <2>2
    <3>1. PICK k \in 1 .. (w - 1) :
              /\ k = LargestPowerOfTwoBelow(w)
              /\ RunHash(s, i, w) = NodeHash(RunHash(s, i, k), RunHash(s, i + k, w - k))
      BY <3>0, RunOfMore, ZenonT(40)
    <3>2. RunHash(t, j, w) = NodeHash(RunHash(t, j, k), RunHash(t, j + k, w - k))
      BY <3>0, <3>1, RunOfMore
    <3>3. Agree(s, i, t, j, k)
      BY DEF Agree
    <3>4. Agree(s, i + k, t, j + k, w - k)
      <4> SUFFICES ASSUME NEW q \in 1 .. (w - k) PROVE s[(i + k) + q] = t[(j + k) + q]
        BY DEF Agree
      <4>1. k + q \in 1 .. w /\ (i + k) + q = i + (k + q) /\ (j + k) + q = j + (k + q)
        OBVIOUS
      <4> QED
        BY <4>1 DEF Agree
    <3>5. k \in 1 .. n /\ w - k \in 1 .. n /\ i + k \in Nat /\ j + k \in Nat
      OBVIOUS
    <3>6. Holds(k) /\ Holds(w - k)
      <4> HIDE DEF Holds
      <4> QED
        BY <1>2, <3>5
    <3>7. /\ RunHash(s, i, k) = RunHash(t, j, k)
          /\ RunHash(s, i + k, w - k) = RunHash(t, j + k, w - k)
      BY <3>3, <3>4, <3>5, <3>6
    <3> QED
      BY <3>1, <3>2, <3>7
  <2> QED
    BY <2>1, <2>2
<1>3. ASSUME NEW n \in Nat, n \in Q PROVE n + 1 \in Q
  <2>1. Holds(n + 1)
    BY <1>2, <1>3
  <2>2. \A w \in 1 .. (n + 1) : w \in 1 .. n \/ w = n + 1
    OBVIOUS
  <2> HIDE DEF Holds
  <2> QED
    BY <1>3, <2>1, <2>2
<1> HIDE DEF Q, Holds
<1>4. Nat \subseteq Q
  BY <1>1, <1>3, NumberInduction
<1>5. \A w \in Nat \ {0} : Holds(w)
  <2> SUFFICES ASSUME NEW w \in Nat \ {0} PROVE Holds(w)
    OBVIOUS
  <2>1. w \in Q /\ w \in 1 .. w
    BY <1>4
  <2> QED
    BY <2>1 DEF Q
<1> QED
  BY <1>5 DEF Holds

(* What recon returns for the w entries that follow the first i, from the   *)
(* first l nodes of the proof.                                              *)
Rebuilt(leaf, at, proof, l, i, w) == Recon(leaf, at, proof)[l][i][w]

(* One entry is rebuilt from its leaf and an empty path only.               *)
LEMMA RebuiltOne ==
    ASSUME NEW leaf, NEW at, NEW proof, NEW l \in Nat, NEW i \in Nat
    PROVE  Rebuilt(leaf, at, proof, l, i, 1) = IF l = 0 THEN <<leaf>> ELSE <<>>
<1>1. 1 \in Nat \ {0}
  OBVIOUS
<1>2. Rebuilt(leaf, at, proof, l, i, 1) = ReconStep(Recon(leaf, at, proof), leaf, at, proof, l, i, 1)
  BY <1>1, ReconIs DEF Rebuilt
<1> QED
  BY <1>2 DEF ReconStep

(* More are rebuilt from a part of them and the last node of the path.      *)
LEMMA RebuiltMore ==
    ASSUME NEW leaf, NEW at, NEW proof, NEW l \in Nat, NEW i \in Nat, NEW w \in Nat, w > 1,
           NEW k, k = LargestPowerOfTwoBelow(w),
           NEW sub, sub = IF at < i + k THEN Rebuilt(leaf, at, proof, l - 1, i, k)
                          ELSE Rebuilt(leaf, at, proof, l - 1, i + k, w - k)
    PROVE  Rebuilt(leaf, at, proof, l, i, w) =
               IF l = 0 \/ sub = <<>> THEN <<>>
               ELSE IF at < i + k THEN <<NodeHash(sub[1], proof[l])>>
               ELSE <<NodeHash(proof[l], sub[1])>>
<1>1. w \in Nat \ {0} /\ w # 1
  OBVIOUS
<1>2. Rebuilt(leaf, at, proof, l, i, w) = ReconStep(Recon(leaf, at, proof), leaf, at, proof, l, i, w)
  BY <1>1, ReconIs DEF Rebuilt
<1> QED
  BY <1>1, <1>2 DEF ReconStep, Rebuilt

(* It returns nothing or one hash.                                          *)
LEMMA RebuiltKinds ==
    ASSUME NEW leaf, NEW at, NEW proof, NEW l \in Nat, NEW i \in Nat, NEW w \in Nat \ {0}
    PROVE  \/ Rebuilt(leaf, at, proof, l, i, w) = <<>>
           \/ \E x : Rebuilt(leaf, at, proof, l, i, w) = <<x>>
<1>1. CASE w = 1
  BY <1>1, RebuiltOne
<1>2. CASE w # 1
  <2> DEFINE k == LargestPowerOfTwoBelow(w)
             sub == IF at < i + k THEN Rebuilt(leaf, at, proof, l - 1, i, k)
                    ELSE Rebuilt(leaf, at, proof, l - 1, i + k, w - k)
  <2>1. w \in Nat /\ w > 1
    BY <1>2
  <2>2. Rebuilt(leaf, at, proof, l, i, w) =
               IF l = 0 \/ sub = <<>> THEN <<>>
               ELSE IF at < i + k THEN <<NodeHash(sub[1], proof[l])>>
               ELSE <<NodeHash(proof[l], sub[1])>>
    BY <2>1, RebuiltMore
  <2> QED
    BY <2>2
<1> QED
  BY <1>1, <1>2

(* The last step of a successful run over more than one entry.              *)
LEMMA RebuiltFrom ==
    ASSUME NEW leaf, NEW at, NEW proof, NEW l \in Nat, NEW i \in Nat, NEW w \in Nat, w > 1,
           NEW h
    PROVE  Rebuilt(leaf, at, proof, l, i, w) = <<h>> =>
           /\ l # 0
           /\ \E k \in 1 .. (w - 1) : \E x :
                  \/ /\ at < i + k
                     /\ Rebuilt(leaf, at, proof, l - 1, i, k) = <<x>>
                     /\ h = NodeHash(x, proof[l]) /\ k = LargestPowerOfTwoBelow(w)
                  \/ /\ ~(at < i + k)
                     /\ Rebuilt(leaf, at, proof, l - 1, i + k, w - k) = <<x>>
                     /\ h = NodeHash(proof[l], x) /\ k = LargestPowerOfTwoBelow(w)
<1> DEFINE k == LargestPowerOfTwoBelow(w)
           sub == IF at < i + k THEN Rebuilt(leaf, at, proof, l - 1, i, k)
                  ELSE Rebuilt(leaf, at, proof, l - 1, i + k, w - k)
<1>1. Rebuilt(leaf, at, proof, l, i, w) =
               IF l = 0 \/ sub = <<>> THEN <<>>
               ELSE IF at < i + k THEN <<NodeHash(sub[1], proof[l])>>
               ELSE <<NodeHash(proof[l], sub[1])>>
  BY RebuiltMore
<1> SUFFICES ASSUME Rebuilt(leaf, at, proof, l, i, w) = <<h>>
             PROVE  /\ l # 0
                    /\ \E j \in 1 .. (w - 1) : \E x :
                           \/ /\ at < i + j
                              /\ Rebuilt(leaf, at, proof, l - 1, i, j) = <<x>>
                              /\ h = NodeHash(x, proof[l]) /\ j = k
                           \/ /\ ~(at < i + j)
                              /\ Rebuilt(leaf, at, proof, l - 1, i + j, w - j) = <<x>>
                              /\ h = NodeHash(proof[l], x) /\ j = k
  OBVIOUS
<1>2. <<h>> # <<>> /\ \A x : <<h>> = <<x>> => h = x
  OBVIOUS
<1>3. k \in 1 .. (w - 1) /\ w - k \in 1 .. (w - 1)
  BY SplitRange
<1> HIDE DEF k, sub
<1>4. l # 0 /\ sub # <<>>
  BY <1>1, <1>2
<1>5. h = IF at < i + k THEN NodeHash(sub[1], proof[l]) ELSE NodeHash(proof[l], sub[1])
  BY <1>1, <1>2, <1>4
<1>6. l - 1 \in Nat /\ i + k \in Nat /\ k \in Nat \ {0} /\ w - k \in Nat \ {0}
  BY <1>3, <1>4
<1>7. PICK x : sub = <<x>>
  <2>1. CASE at < i + k
    BY <1>4, <1>6, <2>1, RebuiltKinds DEF sub
  <2>2. CASE ~(at < i + k)
    BY <1>4, <1>6, <2>2, RebuiltKinds DEF sub
  <2> QED
    BY <2>1, <2>2
<1>8. sub[1] = x
  BY <1>7
<1>9. CASE at < i + k
  BY <1>3, <1>4, <1>5, <1>7, <1>8, <1>9 DEF sub
<1>10. CASE ~(at < i + k)
  BY <1>3, <1>4, <1>5, <1>7, <1>8, <1>10 DEF sub
<1> QED
  BY <1>9, <1>10

Has(s, j, v, e) == \E q \in 1 .. v : s[j + q] = e

(* A path that leads from a leaf to the hash of a run shows that the leaf   *)
(* is in the run, whatever index, size and nodes it claims.                 *)
LEMMA PathShowsMember ==
    ASSUME NEW s, NEW e, NEW at, NEW proof, NEW l \in Nat
    PROVE  \A i, j \in Nat, w, v \in Nat \ {0} :
               Rebuilt(LeafHash(e), at, proof, l, i, w) = <<RunHash(s, j, v)>> => Has(s, j, v, e)
<1> DEFINE Holds(m) == \A i, j \in Nat, w, v \in Nat \ {0} :
               Rebuilt(LeafHash(e), at, proof, m, i, w) = <<RunHash(s, j, v)>> => Has(s, j, v, e)
           Q == {m \in Nat : Holds(m)}
<1>1. ASSUME NEW m \in Nat, m # 0 => Holds(m - 1) PROVE Holds(m)
  <2> SUFFICES ASSUME NEW i \in Nat, NEW j \in Nat, NEW w \in Nat \ {0}, NEW v \in Nat \ {0},
                      Rebuilt(LeafHash(e), at, proof, m, i, w) = <<RunHash(s, j, v)>>
               PROVE  Has(s, j, v, e)
    OBVIOUS
  <2> HIDE DEF Holds
  <2>0. w \in Nat /\ v \in Nat
    OBVIOUS
  <2>1. CASE w = 1
    <3>1. <<LeafHash(e)>> = <<RunHash(s, j, v)>>
      BY <2>1, RebuiltOne
    <3>2. LeafHash(e) = RunHash(s, j, v)
      BY <3>1
    <3>3. v = 1
      <4> SUFFICES ASSUME v # 1 PROVE FALSE
        OBVIOUS
      <4>1. v > 1
        OBVIOUS
      <4>2. PICK k \in 1 .. (v - 1) :
                RunHash(s, j, v) = NodeHash(RunHash(s, j, k), RunHash(s, j + k, v - k))
        BY <2>0, <4>1, RunOfMore
      <4>3. LeafHash(e) = NodeHash(RunHash(s, j, k), RunHash(s, j + k, v - k))
        BY <3>2, <4>2
      <4> QED
        BY <4>3, HashKinds
    <3>4. LeafHash(e) = LeafHash(s[j + 1])
      BY <3>2, <3>3, RunOfOne
    <3>5. e = s[j + 1]
      BY <3>4, HashKinds
    <3> QED
      BY <3>3, <3>5 DEF Has
  <2>2. CASE w # 1
    <3>0. w > 1
      BY <2>2
    <3> DEFINE h == RunHash(s, j, v)
    <3>1. /\ m # 0
          /\ \E k \in 1 .. (w - 1) : \E x :
                  \/ /\ at < i + k
                     /\ Rebuilt(LeafHash(e), at, proof, m - 1, i, k) = <<x>>
                     /\ h = NodeHash(x, proof[m]) /\ k = LargestPowerOfTwoBelow(w)
                  \/ /\ ~(at < i + k)
                     /\ Rebuilt(LeafHash(e), at, proof, m - 1, i + k, w - k) = <<x>>
                     /\ h = NodeHash(proof[m], x) /\ k = LargestPowerOfTwoBelow(w)
      BY <2>0, <3>0, RebuiltFrom
    <3>a. PICK k \in 1 .. (w - 1) : \E x :
                  \/ /\ Rebuilt(LeafHash(e), at, proof, m - 1, i, k) = <<x>>
                     /\ h = NodeHash(x, proof[m])
                  \/ /\ Rebuilt(LeafHash(e), at, proof, m - 1, i + k, w - k) = <<x>>
                     /\ h = NodeHash(proof[m], x)
      BY <3>1
    <3>2. PICK x :
                  \/ /\ Rebuilt(LeafHash(e), at, proof, m - 1, i, k) = <<x>>
                     /\ h = NodeHash(x, proof[m])
                  \/ /\ Rebuilt(LeafHash(e), at, proof, m - 1, i + k, w - k) = <<x>>
                     /\ h = NodeHash(proof[m], x)
      BY <3>a
    <3>3. PICK y, z : h = NodeHash(y, z)
      BY <3>2
    <3>4. v # 1
      <4> SUFFICES ASSUME v = 1 PROVE FALSE
        OBVIOUS
      <4>1. LeafHash(s[j + 1]) = NodeHash(y, z)
        BY <3>3, RunOfOne
      <4> QED
        BY <4>1, HashKinds
    <3>5. v > 1
      BY <3>4
    <3>6. PICK d \in 1 .. (v - 1) : h = NodeHash(RunHash(s, j, d), RunHash(s, j + d, v - d))
      BY <2>0, <3>5, RunOfMore
    <3>7. /\ k \in Nat \ {0} /\ w - k \in Nat \ {0} /\ i + k \in Nat
          /\ d \in Nat \ {0} /\ v - d \in Nat \ {0} /\ j + d \in Nat
      OBVIOUS
    <3>8. Holds(m - 1)
      BY <1>1, <3>1
    <3> HIDE DEF h
    <3>9. CASE /\ Rebuilt(LeafHash(e), at, proof, m - 1, i, k) = <<x>>
               /\ h = NodeHash(x, proof[m])
      <4>1. x = RunHash(s, j, d)
        BY <3>6, <3>9, HashKinds
      <4>2. Has(s, j, d, e)
        BY <3>7, <3>8, <3>9, <4>1 DEF Holds
      <4> QED
        BY <4>2 DEF Has
    <3>10. CASE /\ Rebuilt(LeafHash(e), at, proof, m - 1, i + k, w - k) = <<x>>
                /\ h = NodeHash(proof[m], x)
      <4>1. x = RunHash(s, j + d, v - d)
        BY <3>6, <3>10, HashKinds
      <4>2. Has(s, j + d, v - d, e)
        BY <3>7, <3>8, <3>10, <4>1 DEF Holds
      <4>3. PICK q \in 1 .. (v - d) : s[(j + d) + q] = e
        BY <4>2 DEF Has
      <4>4. d + q \in 1 .. v /\ (j + d) + q = j + (d + q)
        OBVIOUS
      <4> QED
        BY <4>3, <4>4 DEF Has
    <3> QED
      BY <3>2, <3>9, <3>10
  <2> QED
    BY <2>1, <2>2
<1> HIDE DEF Holds
<1>2. 0 \in Q
  BY <1>1
<1>3. ASSUME NEW m \in Nat, m \in Q PROVE m + 1 \in Q
  <2>1. (m + 1) - 1 = m
    OBVIOUS
  <2> QED
    BY <1>1, <1>3, <2>1
<1> HIDE DEF Q
<1>4. l \in Q
  BY <1>2, <1>3, NumberInduction
<1> QED
  BY <1>4 DEF Q, Holds

(* With the size that was hashed, it shows where.                           *)
LEMMA PathShowsPosition ==
    ASSUME NEW s, NEW e, NEW at \in Nat, NEW proof, NEW l \in Nat
    PROVE  \A i \in Nat, w \in Nat \ {0} :
               /\ i <= at /\ at < i + w
               /\ Rebuilt(LeafHash(e), at, proof, l, i, w) = <<RunHash(s, i, w)>>
               => s[at + 1] = e
<1> DEFINE Holds(m) == \A i \in Nat, w \in Nat \ {0} :
               /\ i <= at /\ at < i + w
               /\ Rebuilt(LeafHash(e), at, proof, m, i, w) = <<RunHash(s, i, w)>>
               => s[at + 1] = e
           Q == {m \in Nat : Holds(m)}
<1>1. ASSUME NEW m \in Nat, m # 0 => Holds(m - 1) PROVE Holds(m)
  <2> SUFFICES ASSUME NEW i \in Nat, NEW w \in Nat \ {0}, i <= at, at < i + w,
                      Rebuilt(LeafHash(e), at, proof, m, i, w) = <<RunHash(s, i, w)>>
               PROVE  s[at + 1] = e
    OBVIOUS
  <2> HIDE DEF Holds
  <2>0. w \in Nat
    OBVIOUS
  <2>1. CASE w = 1
    <3>1. <<LeafHash(e)>> = <<RunHash(s, i, 1)>>
      BY <2>1, RebuiltOne
    <3>2. LeafHash(e) = LeafHash(s[i + 1])
      BY <3>1, RunOfOne
    <3>3. e = s[i + 1] /\ i = at
      BY <2>1, <3>2, HashKinds
    <3> QED
      BY <3>3
  <2>2. CASE w # 1
    <3>0. w > 1
      BY <2>2
    <3> DEFINE h == RunHash(s, i, w)
    <3>1. /\ m # 0
          /\ \E k \in 1 .. (w - 1) : \E x :
                  \/ /\ at < i + k
                     /\ Rebuilt(LeafHash(e), at, proof, m - 1, i, k) = <<x>>
                     /\ h = NodeHash(x, proof[m]) /\ k = LargestPowerOfTwoBelow(w)
                  \/ /\ ~(at < i + k)
                     /\ Rebuilt(LeafHash(e), at, proof, m - 1, i + k, w - k) = <<x>>
                     /\ h = NodeHash(proof[m], x) /\ k = LargestPowerOfTwoBelow(w)
      BY <2>0, <3>0, RebuiltFrom
    <3>a. PICK k \in 1 .. (w - 1) : \E x :
                  \/ /\ at < i + k
                     /\ Rebuilt(LeafHash(e), at, proof, m - 1, i, k) = <<x>>
                     /\ h = NodeHash(x, proof[m]) /\ k = LargestPowerOfTwoBelow(w)
                  \/ /\ ~(at < i + k)
                     /\ Rebuilt(LeafHash(e), at, proof, m - 1, i + k, w - k) = <<x>>
                     /\ h = NodeHash(proof[m], x) /\ k = LargestPowerOfTwoBelow(w)
      BY <3>1
    <3>2. PICK x :
                  \/ /\ at < i + k
                     /\ Rebuilt(LeafHash(e), at, proof, m - 1, i, k) = <<x>>
                     /\ h = NodeHash(x, proof[m]) /\ k = LargestPowerOfTwoBelow(w)
                  \/ /\ ~(at < i + k)
                     /\ Rebuilt(LeafHash(e), at, proof, m - 1, i + k, w - k) = <<x>>
                     /\ h = NodeHash(proof[m], x) /\ k = LargestPowerOfTwoBelow(w)
      BY <3>a
    <3>6. h = NodeHash(RunHash(s, i, k), RunHash(s, i + k, w - k))
      <4>1. k = LargestPowerOfTwoBelow(w)
        BY <3>2
      <4> QED
        BY <2>0, <3>0, <4>1, RunOfMore
    <3>7. /\ k \in Nat \ {0} /\ w - k \in Nat \ {0} /\ i + k \in Nat
          /\ at < (i + k) + (w - k)
      OBVIOUS
    <3>8. Holds(m - 1)
      BY <1>1, <3>1
    <3> HIDE DEF h
    <3>9. CASE /\ at < i + k
               /\ Rebuilt(LeafHash(e), at, proof, m - 1, i, k) = <<x>>
               /\ h = NodeHash(x, proof[m])
      <4>1. x = RunHash(s, i, k)
        BY <3>6, <3>9, HashKinds
      <4> QED
        BY <3>7, <3>8, <3>9, <4>1 DEF Holds
    <3>10. CASE /\ ~(at < i + k)
                /\ Rebuilt(LeafHash(e), at, proof, m - 1, i + k, w - k) = <<x>>
                /\ h = NodeHash(proof[m], x)
      <4>1. x = RunHash(s, i + k, w - k)
        BY <3>6, <3>10, HashKinds
      <4>2. i + k <= at
        BY <3>10
      <4> QED
        BY <3>7, <3>8, <3>10, <4>1, <4>2 DEF Holds
    <3> QED
      BY <3>2, <3>9, <3>10
  <2> QED
    BY <2>1, <2>2
<1> HIDE DEF Holds
<1>2. 0 \in Q
  BY <1>1
<1>3. ASSUME NEW m \in Nat, m \in Q PROVE m + 1 \in Q
  <2>1. (m + 1) - 1 = m
    OBVIOUS
  <2> QED
    BY <1>1, <1>3, <2>1
<1> HIDE DEF Q
<1>4. l \in Q
  BY <1>2, <1>3, NumberInduction
<1> QED
  BY <1>4 DEF Q, Holds

(* The audit path of an entry through the w entries after the first i.      *)
SiblingPath(at, s, i, w) == Siblings(at, s)[w][i]

(* The path in a tree of one entry is empty.                                *)
LEMMA PathOfOne ==
    ASSUME NEW at, NEW s, NEW i \in Nat
    PROVE  SiblingPath(at, s, i, 1) = <<>>
<1>1. 1 \in Nat \ {0}
  OBVIOUS
<1> QED
  BY <1>1, SiblingsIs DEF SiblingPath

PathStep(at, s, i, w, k) ==
    IF at < i + k THEN Append(SiblingPath(at, s, i, k), RunHash(s, i + k, w - k))
    ELSE Append(SiblingPath(at, s, i + k, w - k), RunHash(s, i, k))

(* In a larger tree it ends with the hash of the other part.                *)
LEMMA PathOfMore ==
    ASSUME NEW at, NEW s, NEW w \in Nat, w > 1, NEW i \in Nat
    PROVE  \E k \in 1 .. (w - 1) :
               /\ k = LargestPowerOfTwoBelow(w)
               /\ SiblingPath(at, s, i, w) = PathStep(at, s, i, w, k)
<1> DEFINE k == LargestPowerOfTwoBelow(w)
<1>1. k \in 1 .. (w - 1)
  BY SplitRange
<1>2. w \in Nat \ {0} /\ w # 1
  OBVIOUS
<1>3. SiblingPath(at, s, i, w) = PathStep(at, s, i, w, k)
  BY <1>2, SiblingsIs DEF SiblingPath, RunHash, PathStep
<1> HIDE DEF k
<1> QED
  BY <1>1, <1>3 DEF k

(* A longer path.                                                           *)
LEMMA LongerPath ==
    ASSUME NEW T, NEW u \in Seq(T), NEW x \in T
    PROVE  /\ Append(u, x) \in Seq(T) /\ Len(u) \in Nat /\ Len(Append(u, x)) = Len(u) + 1
           /\ Append(u, x)[Len(u) + 1] = x
           /\ \A q \in 1 .. Len(u) : Append(u, x)[q] = u[q]
<1> QED
  OBVIOUS

Starts(proof, u, l) == l = Len(u) /\ \A q \in 1 .. l : proof[q] = u[q]

(* The leaf hash of the entry at a zero-based index.                        *)
EntryLeaf(s, at) == LeafHash(s[at + 1])

(* The path the log builds for an entry leads from its leaf to the root.    *)
LEMMA HonestPathRebuilds ==
    ASSUME NEW s, NEW at \in Nat, NEW proof
    PROVE  \A w \in Nat \ {0}, i \in Nat :
               /\ SiblingPath(at, s, i, w) \in Seq(RunHashes(s))
               /\ \A l \in Nat :
                      /\ i <= at /\ at < i + w
                      /\ Starts(proof, SiblingPath(at, s, i, w), l)
                      => Rebuilt(EntryLeaf(s, at), at, proof, l, i, w) = <<RunHash(s, i, w)>>
<1> DEFINE Typed(w, i) == SiblingPath(at, s, i, w) \in Seq(RunHashes(s))
           Leads(w, i) == \A l \in Nat :
                      /\ i <= at /\ at < i + w
                      /\ Starts(proof, SiblingPath(at, s, i, w), l)
                      => Rebuilt(EntryLeaf(s, at), at, proof, l, i, w) = <<RunHash(s, i, w)>>
           Holds(w) == \A i \in Nat : Typed(w, i) /\ Leads(w, i)
           Q == {n \in Nat : \A w \in 1 .. n : Holds(w)}
<1>0. \A w \in Nat \ {0}, i \in Nat : RunHash(s, i, w) \in RunHashes(s)
  BY DEF RunHashes
<1>1. 0 \in Q
  OBVIOUS
<1>2. ASSUME NEW i \in Nat PROVE Typed(1, i) /\ Leads(1, i)
  <2>1. SiblingPath(at, s, i, 1) = <<>>
    BY PathOfOne
  <2>2. Typed(1, i)
    BY <2>1, EmptySeq
  <2>3. ASSUME NEW l \in Nat, i <= at, at < i + 1, Starts(proof, SiblingPath(at, s, i, 1), l)
        PROVE  Rebuilt(EntryLeaf(s, at), at, proof, l, i, 1) = <<RunHash(s, i, 1)>>
    <3>1. l = 0 /\ i = at
      BY <2>1, <2>3 DEF Starts
    <3>2. Rebuilt(EntryLeaf(s, at), at, proof, l, i, 1) = <<EntryLeaf(s, at)>>
      BY <3>1, RebuiltOne
    <3>3. RunHash(s, i, 1) = EntryLeaf(s, at)
      BY <3>1, RunOfOne DEF EntryLeaf
    <3> QED
      BY <3>2, <3>3
  <2> QED
    BY <2>2, <2>3
<1>3. ASSUME NEW n \in Nat, n \in Q, NEW w \in Nat, w = n + 1, w > 1, NEW i \in Nat
      PROVE  Typed(w, i) /\ Leads(w, i)
  <2>0. w > 1
    BY <1>3
  <2>1. PICK k \in 1 .. (w - 1) :
               /\ k = LargestPowerOfTwoBelow(w)
               /\ SiblingPath(at, s, i, w) = PathStep(at, s, i, w, k)
    BY <2>0, PathOfMore
  <2>2. k \in 1 .. n /\ w - k \in 1 .. n /\ k \in Nat \ {0} /\ w - k \in Nat \ {0} /\ i + k \in Nat
    BY <1>3
  <2>3. Holds(k) /\ Holds(w - k)
    <3> HIDE DEF Holds
    <3> QED
      BY <1>3, <2>2
  <2>4. Typed(k, i) /\ Leads(k, i) /\ Typed(w - k, i + k) /\ Leads(w - k, i + k)
    <3> HIDE DEF Typed, Leads
    <3> QED
      BY <2>2, <2>3
  <2> DEFINE left == at < i + k
             u == IF left THEN SiblingPath(at, s, i, k) ELSE SiblingPath(at, s, i + k, w - k)
             x == IF left THEN RunHash(s, i + k, w - k) ELSE RunHash(s, i, k)
  <2>5. u \in Seq(RunHashes(s)) /\ x \in RunHashes(s) /\ SiblingPath(at, s, i, w) = Append(u, x)
    BY <1>0, <2>1, <2>2, <2>4 DEF PathStep
  <2>6. Typed(w, i)
    <3> HIDE DEF u, x
    <3> QED
      BY <2>5, LongerPath
  <2>7. ASSUME NEW l \in Nat, i <= at, at < i + w, Starts(proof, SiblingPath(at, s, i, w), l)
        PROVE  Rebuilt(EntryLeaf(s, at), at, proof, l, i, w) = <<RunHash(s, i, w)>>
    <3> HIDE DEF Holds, Q
    <3> DEFINE leaf == EntryLeaf(s, at)
               sub == IF left THEN Rebuilt(leaf, at, proof, l - 1, i, k)
                      ELSE Rebuilt(leaf, at, proof, l - 1, i + k, w - k)
    <3>1. Len(u) \in Nat /\ l = Len(u) + 1 /\ proof[l] = x /\ Starts(proof, u, l - 1) /\ l # 0
      <4> HIDE DEF u, x
      <4>1. /\ Len(u) \in Nat /\ Len(Append(u, x)) = Len(u) + 1
            /\ Append(u, x)[Len(u) + 1] = x
            /\ \A q \in 1 .. Len(u) : Append(u, x)[q] = u[q]
        BY <2>5, LongerPath
      <4>2. l = Len(Append(u, x)) /\ \A q \in 1 .. l : proof[q] = Append(u, x)[q]
        BY <2>5, <2>7 DEF Starts
      <4>3. l = Len(u) + 1 /\ l - 1 = Len(u) /\ \A q \in 1 .. Len(u) : q \in 1 .. l
        BY <4>1, <4>2
      <4> QED
        BY <4>1, <4>2, <4>3 DEF Starts
    <3>2. Rebuilt(leaf, at, proof, l, i, w) =
               IF l = 0 \/ sub = <<>> THEN <<>>
               ELSE IF left THEN <<NodeHash(sub[1], proof[l])>>
               ELSE <<NodeHash(proof[l], sub[1])>>
      <4> HIDE DEF leaf
      <4> QED
        BY <1>3, <2>1, RebuiltMore
    <3>3. RunHash(s, i, w) = NodeHash(RunHash(s, i, k), RunHash(s, i + k, w - k))
      BY <1>3, <2>1, RunOfMore
    <3>4. l - 1 \in Nat
      BY <3>1
    <3>5. CASE left
      <4>1. sub = <<RunHash(s, i, k)>>
        BY <2>4, <2>7, <3>1, <3>4, <3>5
      <4> HIDE DEF sub, left
      <4>2. sub # <<>> /\ sub[1] = RunHash(s, i, k)
        BY <4>1
      <4> USE DEF left
      <4>3. proof[l] = RunHash(s, i + k, w - k)
        BY <3>1, <3>5
      <4> HIDE DEF left, leaf, u, x
      <4> QED
        BY <3>1, <3>2, <3>3, <3>5, <4>2, <4>3 DEF leaf
    <3>6. CASE ~left
      <4>0. i + k <= at /\ at < (i + k) + (w - k)
        BY <1>3, <2>2, <2>7, <3>6
      <4>1. sub = <<RunHash(s, i + k, w - k)>>
        BY <2>4, <2>7, <3>1, <3>4, <3>6, <4>0
      <4> HIDE DEF sub, left
      <4>2. sub # <<>> /\ sub[1] = RunHash(s, i + k, w - k)
        BY <4>1
      <4> USE DEF left
      <4>3. proof[l] = RunHash(s, i, k)
        BY <3>1, <3>6
      <4> HIDE DEF left, leaf, u, x
      <4> QED
        BY <3>1, <3>2, <3>3, <3>6, <4>2, <4>3 DEF leaf
    <3> QED
      BY <3>5, <3>6
  <2> QED
    BY <2>6, <2>7
<1>4. ASSUME NEW n \in Nat, n \in Q PROVE n + 1 \in Q
  <2>1. Holds(n + 1)
    <3> SUFFICES ASSUME NEW i \in Nat PROVE Typed(n + 1, i) /\ Leads(n + 1, i)
      OBVIOUS
    <3> HIDE DEF Typed, Leads, Q
    <3>1. CASE n = 0
      BY <1>2, <3>1
    <3>2. CASE n # 0
      BY <1>3, <1>4, <3>2
    <3> QED
      BY <3>1, <3>2
  <2>2. \A w \in 1 .. (n + 1) : w \in 1 .. n \/ w = n + 1
    OBVIOUS
  <2> HIDE DEF Holds
  <2> QED
    BY <1>4, <2>1, <2>2
<1> HIDE DEF Q, Holds
<1>5. Nat \subseteq Q
  BY <1>1, <1>4, NumberInduction
<1>6. \A w \in Nat \ {0} : Holds(w)
  <2> SUFFICES ASSUME NEW w \in Nat \ {0} PROVE Holds(w)
    OBVIOUS
  <2>1. w \in Q /\ w \in 1 .. w
    BY <1>5
  <2> QED
    BY <2>1 DEF Q
<1> QED
  BY <1>6 DEF Holds

-----------------------------------------------------------------------------
(* Inclusion proofs.                                                        *)
LEMMA RootIsRun ==
    ASSUME NEW T, NEW s \in Seq(T), s # <<>>
    PROVE  Len(s) \in Nat \ {0} /\ Root(s) = RunHash(s, 0, Len(s))
<1>1. Len(s) \in Nat \ {0}
  BY EmptySeq
<1> QED
  BY <1>1 DEF Root, RunHash

(* What an inclusion verifier is given: a log of entries and numbers.       *)
InclusionInv ==
    /\ index \in Nat /\ size \in Nat
    /\ \/ log = <<>> /\ size = 0
       \/ log \in Seq({Plain(i) : i \in Nat}) /\ log # <<>> /\ path \in Seq(nodes)

(* A function on an initial segment is a sequence of that length.           *)
LEMMA ListOfLength ==
    ASSUME NEW T, NEW n \in Nat, NEW f \in [1 .. n -> T]
    PROVE  f \in Seq(T) /\ Len(f) = n
<1>1. f \in Seq(T)
  BY SeqDef
<1>2. Len(f) \in Nat /\ 1 .. Len(f) = 1 .. n
  BY <1>1, LenProperties
<1> QED
  BY <1>1, <1>2

(* A root from a path is what was rebuilt, and the root of a list.          *)
LEMMA RebuiltFromPath ==
    ASSUME NEW T, NEW s \in Seq(T), s # <<>>, NEW leaf, NEW at \in Nat, NEW n \in Nat, NEW proof,
           RootFromPath(leaf, at, n, proof) = <<Root(s)>>
    PROVE  /\ at < n
           /\ Rebuilt(leaf, at, proof, Len(proof), 0, n) = <<RunHash(s, 0, Len(s))>>
<1>1. <<Root(s)>> # <<>>
  OBVIOUS
<1>2. at < n
  BY <1>1 DEF RootFromPath
<1> QED
  BY <1>2, RootIsRun DEF RootFromPath, Rebuilt

(* An accepted inclusion proof shows the entry and its position.            *)
LEMMA InclusionSound ==
    ASSUME InclusionInv
    PROVE  InclusionIsPosition /\ ReceiptIsMembership
<1> DEFINE T == {Plain(i) : i \in Nat}
           leaf == LeafHash(entry)
           l == Len(path)
<1>1. index \in Nat /\ size \in Nat
  BY DEF InclusionInv
<1>2. ASSUME VerifyReceipt
      PROVE  /\ log \in Seq(T) /\ log # <<>> /\ l \in Nat /\ size \in Nat \ {0} /\ index < size
             /\ Rebuilt(leaf, index, path, l, 0, size) = <<RunHash(log, 0, Len(log))>>
             /\ Len(log) \in Nat \ {0}
  <2>1. size # 0
    <3> SUFFICES ASSUME size = 0 PROVE FALSE
      OBVIOUS
    <3>1. RootFromPath(leaf, index, size, path) = <<>>
      BY <1>1 DEF RootFromPath
    <3>2. <<Root(log)>> # <<>>
      OBVIOUS
    <3> QED
      BY <1>2, <3>1, <3>2 DEF VerifyReceipt
  <2>2. log \in Seq(T) /\ log # <<>> /\ path \in Seq(nodes)
    BY <2>1 DEF InclusionInv
  <2>3. l \in Nat
    BY <2>2, LenProperties
  <2>4. RootFromPath(leaf, index, size, path) = <<Root(log)>>
    BY <1>2 DEF VerifyReceipt
  <2> HIDE DEF T, leaf, l
  <2>5. index < size /\ Rebuilt(leaf, index, path, l, 0, size) = <<RunHash(log, 0, Len(log))>>
    BY <1>1, <2>2, <2>4, RebuiltFromPath DEF l
  <2>6. Len(log) \in Nat \ {0}
    BY <2>2, RootIsRun
  <2> QED
    BY <1>1, <2>1, <2>2, <2>3, <2>5, <2>6
<1> HIDE DEF T, l
<1>3. ReceiptIsMembership
  <2> SUFFICES ASSUME VerifyReceipt PROVE Logged(entry)
    BY DEF ReceiptIsMembership
  <2>1. 0 \in Nat
    OBVIOUS
  <2>2. Has(log, 0, Len(log), entry)
    BY <1>1, <1>2, <2>1, PathShowsMember
  <2>3. PICK q \in 1 .. Len(log) : log[0 + q] = entry
    BY <2>2 DEF Has
  <2>4. 0 + q = q
    OBVIOUS
  <2> QED
    BY <2>3, <2>4 DEF Logged
<1>4. InclusionIsPosition
  <2> SUFFICES ASSUME VerifyInclusion PROVE index < Len(log) /\ log[index + 1] = entry
    BY DEF InclusionIsPosition
  <2>1. VerifyReceipt /\ size = Len(log)
    BY DEF VerifyInclusion, VerifyReceipt
  <2>2. 0 \in Nat /\ 0 <= index /\ index < 0 + size
    BY <1>1, <1>2, <2>1
  <2>3. Rebuilt(leaf, index, path, l, 0, size) = <<RunHash(log, 0, size)>>
    BY <1>2, <2>1
  <2>4. l \in Nat /\ size \in Nat \ {0}
    BY <1>2, <2>1
  <2>5. log[index + 1] = entry
    BY <1>1, <2>2, <2>3, <2>4, PathShowsPosition
  <2> QED
    BY <2>1, <2>2, <2>5
<1> QED
  BY <1>3, <1>4

(* The honest path of every logged entry is accepted.                       *)
LEMMA HonestInclusion ==
    ASSUME InclusionInv
    PROVE  HonestInclusionAccepted
<1> SUFFICES ASSUME NEW i \in 1 .. Len(log)
             PROVE  RootFromPath(LeafHash(log[i]), i - 1, Len(log), InclusionPath(i - 1, log))
                        = <<Root(log)>>
  BY DEF HonestInclusionAccepted
<1> DEFINE at == i - 1
           n == Len(log)
           proof == InclusionPath(at, log)
           l == Len(proof)
<1>1. log # <<>>
  BY EmptySeq
<1>2. log \in Seq({Plain(j) : j \in Nat})
  BY <1>1 DEF InclusionInv
<1>3. n \in Nat \ {0} /\ Root(log) = RunHash(log, 0, n)
  BY <1>1, <1>2, RootIsRun
<1>4. at \in Nat /\ 0 <= at /\ at < n /\ at < 0 + n /\ at + 1 = i /\ 0 \in Nat
  BY <1>3
<1>5. proof = SiblingPath(at, log, 0, n)
  BY DEF InclusionPath, SiblingPath
<1> HIDE DEF at, proof, n
<1>6. proof \in Seq(RunHashes(log))
  BY <1>3, <1>4, <1>5, HonestPathRebuilds
<1>7. l \in Nat /\ Starts(proof, proof, l)
  BY <1>6, LenProperties DEF Starts
<1> HIDE DEF l
<1>8. Rebuilt(EntryLeaf(log, at), at, proof, l, 0, n) = <<RunHash(log, 0, n)>>
  BY <1>3, <1>4, <1>5, <1>7, HonestPathRebuilds
<1>9. RootFromPath(LeafHash(log[i]), at, n, proof) = Rebuilt(LeafHash(log[i]), at, proof, l, 0, n)
  BY <1>4 DEF RootFromPath, Rebuilt, l
<1> QED
  BY <1>3, <1>4, <1>8, <1>9 DEF at, n, proof, EntryLeaf

-----------------------------------------------------------------------------
(* Consistency proofs: no rewrite is accepted.  Whatever nodes the prover   *)
(* supplies, if the two hashes the verifier has folded so far are those of  *)
(* a run of the old list and of a run of the new one, the new run starts    *)
(* with the entries of the old one: both start from one hash, a left node   *)
(* goes in front of both, and a right node behind the new one only.         *)
KeepsRun(s, t, f, r) ==
    \A i, j \in Nat, w, v \in Nat \ {0} :
        f = RunHash(s, i, w) /\ r = RunHash(t, j, v) => w <= v /\ Agree(s, i, t, j, w)

(* One hash is that of one run of entries.                                  *)
LEMMA KeepsRunSame ==
    ASSUME NEW s, NEW t, NEW c
    PROVE  KeepsRun(s, t, c, c)
<1> SUFFICES ASSUME NEW i \in Nat, NEW j \in Nat, NEW w \in Nat \ {0}, NEW v \in Nat \ {0},
                    c = RunHash(s, i, w), c = RunHash(t, j, v)
             PROVE  w <= v /\ Agree(s, i, t, j, w)
  BY DEF KeepsRun
<1>1. RunHash(s, i, w) = RunHash(t, j, v)
  OBVIOUS
<1>2. w = v /\ Agree(s, i, t, j, w)
  BY <1>1, SameHashSameRun
<1> QED
  BY <1>2

(* A node hash that is the hash of a run is that of its two parts.          *)
LEMMA RunOfNode ==
    ASSUME NEW s, NEW i \in Nat, NEW w \in Nat \ {0}, NEW l, NEW r, NodeHash(l, r) = RunHash(s, i, w)
    PROVE  \E k \in 1 .. (w - 1) : l = RunHash(s, i, k) /\ r = RunHash(s, i + k, w - k)
<1>1. CASE w = 1
  <2>1. LeafHash(s[i + 1]) = NodeHash(l, r)
    BY <1>1, RunOfOne
  <2> QED
    BY <2>1, HashKinds
<1>2. CASE w # 1
  <2>1. w \in Nat /\ w > 1
    BY <1>2
  <2>2. PICK k \in 1 .. (w - 1) :
            RunHash(s, i, w) = NodeHash(RunHash(s, i, k), RunHash(s, i + k, w - k))
    BY <2>1, RunOfMore
  <2>3. NodeHash(l, r) = NodeHash(RunHash(s, i, k), RunHash(s, i + k, w - k))
    BY <2>2
  <2>4. l = RunHash(s, i, k) /\ r = RunHash(s, i + k, w - k)
    BY <2>3, HashKinds
  <2> QED
    BY <2>4
<1> QED
  BY <1>1, <1>2

(* A left node goes in front of both runs.                                  *)
LEMMA KeepsRunLeft ==
    ASSUME NEW s, NEW t, NEW f, NEW r, NEW c, KeepsRun(s, t, f, r)
    PROVE  KeepsRun(s, t, NodeHash(c, f), NodeHash(c, r))
<1> SUFFICES ASSUME NEW i \in Nat, NEW j \in Nat, NEW w \in Nat \ {0}, NEW v \in Nat \ {0},
                    NodeHash(c, f) = RunHash(s, i, w), NodeHash(c, r) = RunHash(t, j, v)
             PROVE  w <= v /\ Agree(s, i, t, j, w)
  BY DEF KeepsRun
<1>1. PICK k \in 1 .. (w - 1) : c = RunHash(s, i, k) /\ f = RunHash(s, i + k, w - k)
  BY RunOfNode
<1>2. PICK l \in 1 .. (v - 1) : c = RunHash(t, j, l) /\ r = RunHash(t, j + l, v - l)
  BY RunOfNode
<1>3. /\ k \in Nat \ {0} /\ l \in Nat \ {0} /\ w - k \in Nat \ {0} /\ v - l \in Nat \ {0}
      /\ i + k \in Nat /\ j + l \in Nat
  OBVIOUS
<1>4. k = l /\ Agree(s, i, t, j, k)
  <2>1. RunHash(s, i, k) = RunHash(t, j, l)
    BY <1>1, <1>2
  <2> QED
    BY <1>3, <2>1, SameHashSameRun
<1>5. w - k <= v - l /\ Agree(s, i + k, t, j + l, w - k)
  BY <1>1, <1>2, <1>3 DEF KeepsRun
<1>6. ASSUME NEW q \in 1 .. w PROVE s[i + q] = t[j + q]
  <2>1. CASE q \in 1 .. k
    BY <1>4, <2>1 DEF Agree
  <2>2. CASE q \notin 1 .. k
    <3>1. q - k \in 1 .. (w - k) /\ (i + k) + (q - k) = i + q /\ (j + l) + (q - k) = j + q
      BY <1>4, <2>2
    <3> QED
      BY <1>5, <3>1 DEF Agree
  <2> QED
    BY <2>1, <2>2
<1>7. w <= v
  BY <1>4, <1>5
<1> QED
  BY <1>6, <1>7 DEF Agree

(* A right node goes behind the new run only.                               *)
LEMMA KeepsRunRight ==
    ASSUME NEW s, NEW t, NEW f, NEW r, NEW c, KeepsRun(s, t, f, r)
    PROVE  KeepsRun(s, t, f, NodeHash(r, c))
<1> SUFFICES ASSUME NEW i \in Nat, NEW j \in Nat, NEW w \in Nat \ {0}, NEW v \in Nat \ {0},
                    f = RunHash(s, i, w), NodeHash(r, c) = RunHash(t, j, v)
             PROVE  w <= v /\ Agree(s, i, t, j, w)
  BY DEF KeepsRun
<1>1. PICK l \in 1 .. (v - 1) : r = RunHash(t, j, l)
  BY RunOfNode
<1>2. l \in Nat \ {0}
  OBVIOUS
<1>3. w <= l /\ Agree(s, i, t, j, w)
  BY <1>1, <1>2 DEF KeepsRun
<1> QED
  BY <1>3

(* Kept from root to root: the new list starts with the old one.            *)
LEMMA KeepsRunRoots ==
    ASSUME NEW S, NEW T, NEW s \in Seq(S), NEW t \in Seq(T), s # <<>>, t # <<>>,
           KeepsRun(s, t, Root(s), Root(t))
    PROVE  Grew(s, t)
<1>1. /\ Len(s) \in Nat \ {0} /\ Root(s) = RunHash(s, 0, Len(s))
      /\ Len(t) \in Nat \ {0} /\ Root(t) = RunHash(t, 0, Len(t)) /\ 0 \in Nat
  BY RootIsRun
<1>2. Len(s) <= Len(t) /\ Agree(s, 0, t, 0, Len(s))
  BY <1>1 DEF KeepsRun
<1> DEFINE u == SubSeq(t, 1, Len(s))
<1>3. u = [q \in 1 .. Len(s) |-> t[q]]
  BY <1>1, <1>2
<1>4. s = [q \in 1 .. Len(s) |-> s[q]]
  BY LenProperties
<1>5. \A q \in 1 .. Len(s) : s[q] = t[q]
  <2> SUFFICES ASSUME NEW q \in 1 .. Len(s) PROVE s[q] = t[q]
    OBVIOUS
  <2>1. 0 + q = q
    OBVIOUS
  <2> QED
    BY <1>2, <2>1 DEF Agree
<1>6. u = s
  BY <1>3, <1>4, <1>5
<1> QED
  BY <1>2, <1>6 DEF Grew

RewriteInv ==
    /\ phase # "done" =>
           /\ old \in Seq(Nat) /\ old # <<>> /\ new \in Seq(Nat) /\ new # <<>>
           /\ roots.old = Root(old) /\ roots.new = Root(new)
           /\ verdict = "none"
    /\ phase \in {"loop", "skip"} => KeepsRun(old, new, fr, sr)
    /\ verdict = "accept" => Grew(old, new)

(* The lists and roots a behaviour starts from.                             *)
LEMMA HistoryTypes ==
    ASSUME NEW m \in Nat \ {0}, NEW n \in Nat \ {0}, Histories(m, n)
    PROVE  /\ old \in Seq(Nat) /\ Len(old) = m /\ new \in Seq(Nat) /\ new # <<>> /\ Len(new) = n
           /\ old # <<>> /\ roots.old = Root(old) /\ roots.new = Root(new)
<1>1. ASSUME NEW k \in Nat \ {0} PROVE Honest(k) \in [1 .. k -> Nat]
  BY DEF Honest
<1>2. ASSUME NEW k \in Nat \ {0}, NEW f \in [1 .. k -> Nat]
      PROVE  f \in Seq(Nat) /\ Len(f) = k /\ f # <<>>
  <2>1. f \in Seq(Nat) /\ Len(f) = k
    BY ListOfLength
  <2> QED
    BY <2>1, EmptySeq
<1>3. \A f \in Rewrites(n) : f \in [1 .. n -> Nat]
  <2>1. \A j \in 1 .. n : [Honest(n) EXCEPT ![j] = 0] \in [1 .. n -> Nat]
    BY <1>1
  <2>2. [i \in 1 .. n |-> i + 1] \in [1 .. n -> Nat]
    OBVIOUS
  <2> QED
    BY <2>1, <2>2 DEF Rewrites
<1>4. old \in [1 .. m -> Nat] /\ new \in [1 .. n -> Nat]
  BY <1>1, <1>3 DEF Histories
<1>5. roots.old = Root(old) /\ roots.new = Root(new)
  BY DEF Histories
<1> QED
  BY <1>2, <1>4, <1>5

(* The comparison accepts only the two roots that were rebuilt.             *)
LEMMA CompareSound ==
    ASSUME RewriteInv, phase # "done", NEW f, NEW r, KeepsRun(old, new, f, r),
           Compare(f, r) = "accept"
    PROVE  Grew(old, new)
<1>1. f = Root(old) /\ r = Root(new)
  BY DEF Compare, RewriteInv
<1> QED
  BY <1>1, KeepsRunRoots DEF RewriteInv

(* Every step of the verifier keeps the runs.                               *)
LEMMA RewriteStep ==
    ASSUME RewriteInv, ConsistencyNext
    PROVE  RewriteInv'
<1> DEFINE Given == /\ old \in Seq(Nat) /\ old # <<>> /\ new \in Seq(Nat) /\ new # <<>>
                    /\ roots.old = Root(old) /\ roots.new = Root(new) /\ verdict = "none"
<1>1. ASSUME NEW v, phase # "done", Decide(v), v = "accept" => Grew(old, new)
      PROVE  RewriteInv'
  BY <1>1 DEF Decide, Inputs, RewriteInv
<1>2. ASSUME phase # "done" PROVE Given
  BY <1>2 DEF RewriteInv
<1>3. ASSUME Given, UNCHANGED <<Inputs, verdict>>,
             phase' \in {"loop", "skip"} => KeepsRun(old, new, fr', sr')
      PROVE  RewriteInv'
  BY <1>3 DEF Inputs, RewriteInv
<1> HIDE DEF Given
<1>4. CASE SizesRejected
  BY <1>1, <1>4 DEF SizesRejected
<1>5. CASE SizesEqual
  <2>1. phase # "done"
    BY <1>5 DEF SizesEqual
  <2>2. CASE Decide(Compare(roots.old, roots.old))
    BY <1>1, <2>1, <2>2, CompareSound, KeepsRunSame
  <2>3. CASE Decide("reject")
    BY <1>1, <2>1, <2>3
  <2> QED
    BY <1>5, <2>2, <2>3 DEF SizesEqual
<1>6. CASE Begin
  BY <1>2, <1>3, <1>6 DEF Begin
<1>7. CASE Strip
  <2>1. phase = "strip" /\ phase' = "strip" /\ UNCHANGED <<Inputs, verdict>>
    BY <1>7 DEF Strip
  <2> QED
    BY <1>2, <1>3, <2>1
<1>8. CASE Seed
  <2>1. phase = "strip" /\ UNCHANGED <<Inputs, verdict>> /\ fr' = sr'
    BY <1>8 DEF Seed, Supply
  <2> QED
    BY <1>2, <1>3, <2>1, KeepsRunSame
<1>9. CASE Consume
  <2>1. phase = "loop" /\ UNCHANGED <<Inputs, verdict>> /\ KeepsRun(old, new, fr, sr)
    BY <1>9 DEF Consume, RewriteInv
  <2>2. PICK c : FoldLeft(c) \/ FoldRight(c)
    BY <1>9 DEF Consume
  <2>3. CASE FoldLeft(c)
    BY <1>2, <1>3, <2>1, <2>3, KeepsRunLeft DEF FoldLeft
  <2>4. CASE FoldRight(c)
    BY <1>2, <1>3, <2>1, <2>4, KeepsRunRight DEF FoldRight
  <2> QED
    BY <2>2, <2>3, <2>4
<1>10. CASE Skip \/ EndSkip
  <2>1. phase = "skip" /\ UNCHANGED <<Inputs, verdict, fr, sr>> /\ KeepsRun(old, new, fr, sr)
    BY <1>10 DEF Skip, EndSkip, RewriteInv
  <2> QED
    BY <1>2, <1>3, <2>1
<1>11. CASE Finish
  <2>1. phase # "done" /\ KeepsRun(old, new, fr, sr)
    BY <1>11 DEF Finish, RewriteInv
  <2> DEFINE v == IF sn # 0 THEN "reject" ELSE Compare(fr, sr)
  <2>2. Decide(v)
    BY <1>11 DEF Finish
  <2>3. v = "accept" => Grew(old, new)
    BY <2>1, CompareSound
  <2> HIDE DEF v
  <2> QED
    BY <1>1, <2>1, <2>2, <2>3
<1>12. CASE TooManyNodes
  BY <1>1, <1>12 DEF TooManyNodes
<1> QED
  BY <1>4, <1>5, <1>6, <1>7, <1>8, <1>9, <1>10, <1>11, <1>12 DEF ConsistencyNext

-----------------------------------------------------------------------------
proofVars == <<consistencyVars, inclusionVars>>

(* The invariants hold of the initial states,                               *)
LEMMA ProofInitInv == ProofInit => InclusionInv /\ RewriteInv
<1>1. ASSUME ConsistencyRun PROVE InclusionInv /\ RewriteInv
  <2>1. InclusionInv
    BY <1>1 DEF ConsistencyRun, InclusionInv
  <2>2. PICK m \in Nat \ {0}, n \in Nat \ {0} : Histories(m, n)
    <3>1. CASE HonestProver
      BY <3>1, SizeBounds DEF HonestProver
    <3>2. CASE ForgingProver
      BY <3>2, SizeBounds DEF ForgingProver
    <3> QED
      BY <1>1, <3>1, <3>2 DEF ConsistencyRun, ConsistencyInit
  <2>3. phase = "start" /\ verdict = "none"
    BY <1>1 DEF ConsistencyRun, ConsistencyInit
  <2> QED
    BY <2>1, <2>2, <2>3, HistoryTypes DEF RewriteInv
<1>2. ASSUME InclusionRun PROVE InclusionInv /\ RewriteInv
  <2>1. PICK n \in 1 .. MaxLog : log = [i \in 1 .. n |-> Plain(i)]
    BY <1>2 DEF InclusionRun, InclusionInit
  <2>2. n \in Nat \ {0} /\ log \in [1 .. n -> {Plain(i) : i \in Nat}]
    BY <2>1, LogBounds
  <2>3. log \in Seq({Plain(i) : i \in Nat}) /\ Len(log) = n
    <3> DEFINE T == {Plain(i) : i \in Nat}
    <3> HIDE DEF T
    <3>1. log \in [1 .. n -> T]
      BY <2>2 DEF T
    <3>2. log \in Seq(T) /\ Len(log) = n
      BY <2>2, <3>1, ListOfLength
    <3> QED
      BY <3>2 DEF T
  <2>4. log # <<>>
    BY <2>2, <2>3, EmptySeq
  <2>5. index \in Nat /\ size \in Nat /\ path = <<>>
    BY <1>2, LogBounds DEF InclusionRun, InclusionInit
  <2>6. path \in Seq(nodes)
    BY <2>5, EmptySeq
  <2>7. RewriteInv
    BY <1>2 DEF InclusionRun, RewriteInv
  <2> QED
    BY <2>3, <2>4, <2>5, <2>6, <2>7 DEF InclusionInv
<1> QED
  BY <1>1, <1>2 DEF ProofInit

(* of what a prover adds to an inclusion proof,                             *)
LEMMA InclusionStep ==
    ASSUME InclusionInv, InclusionNext
    PROVE  InclusionInv'
<1>1. PICK c \in nodes : path' = Append(path, c)
  BY DEF InclusionNext, ExtendProof
<1>2. UNCHANGED <<log, nodes, entry, index, size>>
  BY DEF InclusionNext, ExtendProof
<1>3. path \in Seq(nodes) => path' \in Seq(nodes)
  BY <1>1, LongerPath
<1> QED
  BY <1>2, <1>3 DEF InclusionInv

(* and of every step.                                                       *)
LEMMA ProofStep ==
    ASSUME InclusionInv, RewriteInv, [ProofNext]_proofVars
    PROVE  InclusionInv' /\ RewriteInv'
<1>1. CASE ConsistencyNext /\ UNCHANGED inclusionVars
  <2>1. InclusionInv'
    BY <1>1 DEF inclusionVars, InclusionInv
  <2> QED
    BY <1>1, <2>1, RewriteStep
<1>2. CASE InclusionNext /\ UNCHANGED consistencyVars
  <2>1. RewriteInv'
    BY <1>2 DEF consistencyVars, RewriteInv
  <2> QED
    BY <1>2, <2>1, InclusionStep
<1>3. CASE UNCHANGED proofVars
  BY <1>3 DEF proofVars, inclusionVars, consistencyVars, InclusionInv, RewriteInv
<1> QED
  BY <1>1, <1>2, <1>3 DEF ProofNext

(* What a verifier of RFC 6962 proofs accepts is true, for lists, sizes,    *)
(* indices and nodes of any number: c2sp.py's consistency loop accepts no   *)
(* rewritten history whatever sizes and nodes the proof claims, an accepted *)
(* inclusion proof of the checkpoint's size shows the entry at its index,   *)
(* and an accepted receipt shows that its statement is in the log.          *)
THEOREM ProofsAreSound == ProofSpec => []ProofsSound
<1>1. ProofInit => InclusionInv /\ RewriteInv
  BY ProofInitInv
<1>2. InclusionInv /\ RewriteInv /\ [ProofNext]_proofVars => InclusionInv' /\ RewriteInv'
  BY ProofStep
<1>3. InclusionInv /\ RewriteInv => ProofsSound
  BY InclusionSound DEF ProofsSound, RewriteInv, NoRewriteAccepted
<1> QED
  BY <1>1, <1>2, <1>3, PTL DEF ProofSpec, proofVars

-----------------------------------------------------------------------------
(* Consistency proofs: what the log proves of its own growth is accepted.   *)
(* At level h the nodes of a tree are runs of Doubled[h] entries, the last  *)
(* one shorter.  The verifier climbs from the node at which the m old       *)
(* entries end: fn and sn number, at its level, the nodes of the last old   *)
(* and of the last of all n entries.                                        *)
AtNode(h, f, g, m, n) ==
    /\ h \in Nat /\ f \in Nat /\ g \in Nat
    /\ f * Doubled[h] <= m - 1 /\ m - 1 < f * Doubled[h] + Doubled[h]
    /\ g * Doubled[h] <= n - 1 /\ n - 1 < g * Doubled[h] + Doubled[h]

First(h, f) == f * Doubled[h]
Across(h, f, n) == IF First(h, f) + Doubled[h] <= n THEN Doubled[h] ELSE n - First(h, f)

(* The old entries do not fill a right child: the parent holds new ones.    *)
Unfilled(h, f, m) == f % 2 = 0 \/ First(h, f) + Doubled[h] > m

(* Node numbers and the entries in front of them.                           *)
LEMMA Products ==
    ASSUME NEW f \in Nat, NEW g \in Nat, NEW p \in Nat, p > 0
    PROVE  /\ f * p \in Nat /\ g * p \in Nat
           /\ f % 2 = 0 => (f \div 2) * (2 * p) = f * p
           /\ f % 2 = 1 => f > 0 /\ (f \div 2) * (2 * p) = f * p - p
           /\ f < g => f * p + p <= g * p
           /\ f \div 2 \in Nat
           /\ f = 0 => f * p = 0
           /\ f > 0 => f * p >= p
<1>1. f * p \in Nat /\ g * p \in Nat
  BY Z3
<1>2. f \div 2 \in Nat /\ (f % 2 = 0 => f = 2 * (f \div 2)) /\ (f % 2 = 1 => f = 2 * (f \div 2) + 1)
  OBVIOUS
<1> DEFINE e == f \div 2
<1>3. e \in Nat
  BY <1>2
<1>4. e * (2 * p) = (2 * e) * p
  <2> HIDE DEF e
  <2> QED
    BY <1>3, Z3
<1>5. (2 * e + 1) * p = (2 * e) * p + p
  <2> HIDE DEF e
  <2> QED
    BY <1>3, Z3
<1>6. f < g => f * p + p <= g * p
  <2> SUFFICES ASSUME f < g PROVE f * p + p <= g * p
    OBVIOUS
  <2>1. PICK d \in Nat : g = f + 1 + d
    <3>1. g - f - 1 \in Nat /\ g = f + 1 + (g - f - 1)
      OBVIOUS
    <3> QED
      BY <3>1
  <2>2. (f + 1 + d) * p = f * p + p + d * p /\ d * p >= 0
    BY Z3
  <2> QED
    BY <2>1, <2>2, <1>1
<1>7. f = 0 => f * p = 0
  BY Z3
<1>8. f > 0 => f * p >= p
  BY Z3
<1> QED
  BY <1>1, <1>2, <1>4, <1>5, <1>6, <1>7, <1>8

(* A node, the p entries it is wide at most, where it starts and how many   *)
(* entries it has; the same, b and x, for its parent.                       *)
AtParent(f, g, m, p, a, w, b, x) ==
    /\ \E h \in Nat : p = Doubled[h]
    /\ p \in Nat \ {0} /\ a \in Nat /\ w \in 1 .. p /\ m - a \in 1 .. p
    /\ b \in Nat /\ x \in Nat /\ x <= 2 * p /\ m < b + x /\ f <= g
    /\ f % 2 = 1 => b = a - p /\ x = p + w /\ m - b = p + (m - a)
    /\ f % 2 = 0 => b = a
    /\ f % 2 = 0 /\ f < g => w = p /\ p < x
    /\ f % 2 = 0 /\ f = g => x = w

(* The parent of a node.                                                    *)
LEMMA Parent ==
    ASSUME NEW m \in Nat \ {0}, NEW n \in Nat, m < n, NEW h, NEW f, NEW g,
           AtNode(h, f, g, m, n)
    PROVE  /\ AtNode(h + 1, f \div 2, g \div 2, m, n)
           /\ Unfilled(h, f, m) =>
                  /\ Unfilled(h + 1, f \div 2, m)
                  /\ AtParent(f, g, m, Doubled[h], First(h, f), Across(h, f, n),
                              First(h + 1, f \div 2), Across(h + 1, f \div 2, n))
<1> DEFINE p == Doubled[h]
           a == First(h, f)
           w == Across(h, f, n)
           b == First(h + 1, f \div 2)
           x == Across(h + 1, f \div 2, n)
<1>1. h \in Nat /\ f \in Nat /\ g \in Nat /\ h + 1 \in Nat
  BY DEF AtNode
<1>2. p \in Nat /\ p > 0 /\ Doubled[h + 1] = 2 * p
  BY <1>1, DoubledProperties
<1> DEFINE c == g * p
           d == (g \div 2) * (2 * p)
<1>3. /\ a = f * p /\ b = (f \div 2) * (2 * p)
      /\ w = (IF a + p <= n THEN p ELSE n - a)
      /\ x = (IF b + 2 * p <= n THEN 2 * p ELSE n - b)
  BY <1>2 DEF First, Across
<1>4. /\ a <= m - 1 /\ m - 1 < a + p /\ c <= n - 1 /\ n - 1 < c + p
  BY <1>3 DEF AtNode
<1>5. /\ a \in Nat /\ c \in Nat
      /\ f % 2 = 0 => b = a
      /\ f % 2 = 1 => f > 0 /\ b = a - p
      /\ g % 2 = 0 => d = c
      /\ g % 2 = 1 => g > 0 /\ d = c - p
      /\ f < g => a + p <= c
      /\ g < f => c + p <= a
      /\ f \div 2 \in Nat /\ g \div 2 \in Nat
      /\ f > 0 => a >= p
      /\ g > 0 => c >= p
  <2>1. \A u, v \in Nat : /\ u * p \in Nat
                          /\ u % 2 = 0 => (u \div 2) * (2 * p) = u * p
                          /\ u % 2 = 1 => u > 0 /\ (u \div 2) * (2 * p) = u * p - p
                          /\ u < v => u * p + p <= v * p
                          /\ u \div 2 \in Nat
                          /\ u > 0 => u * p >= p
    <3> DEFINE q == p
    <3>1. q \in Nat /\ q > 0
      BY <1>2
    <3> HIDE DEF q
    <3>2. \A u, v \in Nat : /\ u * q \in Nat
                            /\ u % 2 = 0 => (u \div 2) * (2 * q) = u * q
                            /\ u % 2 = 1 => u > 0 /\ (u \div 2) * (2 * q) = u * q - q
                            /\ u < v => u * q + q <= v * q
                            /\ u \div 2 \in Nat
                            /\ u > 0 => u * q >= q
      BY <3>1, Products
    <3> QED
      BY <3>2 DEF q
  <2>2. /\ f * p \in Nat
        /\ f % 2 = 0 => (f \div 2) * (2 * p) = f * p
        /\ f % 2 = 1 => f > 0 /\ (f \div 2) * (2 * p) = f * p - p
        /\ f < g => f * p + p <= g * p
        /\ f \div 2 \in Nat
        /\ f > 0 => f * p >= p
    BY <1>1, <2>1
  <2>3. /\ g * p \in Nat
        /\ g % 2 = 0 => (g \div 2) * (2 * p) = g * p
        /\ g % 2 = 1 => g > 0 /\ (g \div 2) * (2 * p) = g * p - p
        /\ g < f => g * p + p <= f * p
        /\ g \div 2 \in Nat
        /\ g > 0 => g * p >= p
    BY <1>1, <2>1
  <2>4. a = f * p /\ b = (f \div 2) * (2 * p)
    BY <1>3
  <2> QED
    BY <2>2, <2>3, <2>4
<1>6. (f % 2 = 0 \/ f % 2 = 1) /\ (g % 2 = 0 \/ g % 2 = 1)
  BY <1>1
<1>7. Unfilled(h, f, m) => f % 2 = 0 \/ a + p > m
  BY <1>3, <1>2 DEF Unfilled, First
<1>8. f = g => a = c
  BY <1>3
<1>a. p = Doubled[h] /\ a = First(h, f)
  OBVIOUS
<1> HIDE DEF c, d, p, a, w, b, x
<1>9. f <= g
  BY <1>1, <1>2, <1>4, <1>5
<1>10. /\ b <= m - 1 /\ m - 1 < b + 2 * p /\ d <= n - 1 /\ n - 1 < d + 2 * p
       /\ b \in Nat /\ d \in Nat
  BY <1>2, <1>4, <1>5, <1>6
<1>11. AtNode(h + 1, f \div 2, g \div 2, m, n)
  BY <1>1, <1>2, <1>3, <1>5, <1>10 DEF AtNode, d
<1>12. Unfilled(h, f, m) => b + 2 * p > m
  BY <1>2, <1>4, <1>5, <1>6, <1>7
<1>13. Unfilled(h, f, m) => Unfilled(h + 1, f \div 2, m)
  BY <1>2, <1>12 DEF Unfilled, b, First
<1>14. w \in 1 .. p /\ m - a \in 1 .. p
  BY <1>2, <1>3, <1>4, <1>5
<1>15. x \in Nat /\ x <= 2 * p /\ (Unfilled(h, f, m) => m < b + x)
  BY <1>2, <1>3, <1>10, <1>12
<1>16. f % 2 = 1 => b = a - p /\ x = p + w /\ m - b = p + (m - a)
  BY <1>2, <1>3, <1>4, <1>5
<1>17. f % 2 = 0 /\ f < g => w = p /\ p < x
  BY <1>2, <1>3, <1>4, <1>5
<1>18. f % 2 = 0 /\ f = g => x = w
  BY <1>2, <1>3, <1>4, <1>5, <1>8
<1>19. Unfilled(h, f, m) => AtParent(f, g, m, p, a, w, b, x)
  <2>1. \E i \in Nat : p = Doubled[i]
    BY <1>1, <1>a
  <2> QED
    BY <1>2, <1>5, <1>9, <1>10, <1>14, <1>15, <1>16, <1>17, <1>18, <2>1 DEF AtParent
<1> QED
  BY <1>11, <1>13, <1>19 DEF p, a, w, b, x

(* The proof for the w entries after the first i.                           *)
GrowthPath(m, s, i, w) == SubProof(m, s)[w][i]

(* The proof for one entry, or for the last of the old ones.                *)
LEMMA GrowthPathEnds ==
    ASSUME NEW m \in Nat, NEW s, NEW i \in Nat, NEW w \in Nat \ {0}, w = 1 \/ i + w = m
    PROVE  GrowthPath(m, s, i, w) = IF i = 0 THEN <<>> ELSE <<RunHash(s, i, w)>>
<1> QED
  BY SubProofIs DEF GrowthPath, RunHash

GrowthStep(m, s, i, w, k) ==
    IF m <= i + k THEN Append(GrowthPath(m, s, i, k), RunHash(s, i + k, w - k))
    ELSE Append(GrowthPath(m, s, i + k, w - k), RunHash(s, i, k))

(* The proof for w entries, from that for the part the old ones end in.     *)
LEMMA GrowthPathGrows ==
    ASSUME NEW m \in Nat, NEW s, NEW i \in Nat, NEW w \in Nat, w > 1, i + w # m
    PROVE  GrowthPath(m, s, i, w) = GrowthStep(m, s, i, w, LargestPowerOfTwoBelow(w))
<1> DEFINE k == LargestPowerOfTwoBelow(w)
<1>1. w \in Nat \ {0} /\ ~(w = 1 \/ i + w = m)
  OBVIOUS
<1>2. \A v \in Nat \ {0}, j \in Nat :
          SubProof(m, s)[v][j] =
              IF v = 1 \/ j + v = m THEN IF j = 0 THEN <<>> ELSE <<TreeHashes(s)[v][j]>>
              ELSE LET d == LargestPowerOfTwoBelow(v)
                   IN IF m <= j + d THEN Append(SubProof(m, s)[d][j], TreeHashes(s)[v - d][j + d])
                      ELSE Append(SubProof(m, s)[v - d][j + d], TreeHashes(s)[d][j])
  BY SubProofIs
<1>3. SubProof(m, s)[w][i] =
          IF m <= i + k THEN Append(SubProof(m, s)[k][i], TreeHashes(s)[w - k][i + k])
          ELSE Append(SubProof(m, s)[w - k][i + k], TreeHashes(s)[k][i])
  BY <1>1, <1>2
<1> HIDE DEF k
<1> QED
  BY <1>3 DEF GrowthPath, RunHash, GrowthStep, k

(* Every proof is a sequence of hashes of runs.                             *)
LEMMA GrowthPathType ==
    ASSUME NEW m \in Nat, NEW s
    PROVE  \A w \in Nat \ {0}, i \in Nat : GrowthPath(m, s, i, w) \in Seq(RunHashes(s))
<1> DEFINE Typed(w, i) == GrowthPath(m, s, i, w) \in Seq(RunHashes(s))
           Holds(w) == \A i \in Nat : Typed(w, i)
           Q == {n \in Nat : \A w \in 1 .. n : Holds(w)}
<1>0. \A w \in Nat \ {0}, i \in Nat : RunHash(s, i, w) \in RunHashes(s)
  BY DEF RunHashes
<1>1. 0 \in Q
  OBVIOUS
<1>2. ASSUME NEW n \in Nat, n \in Q, NEW w \in Nat \ {0}, w = n + 1, NEW i \in Nat
      PROVE  Typed(w, i)
  <2>1. CASE w = 1 \/ i + w = m
    <3>1. <<>> \in Seq(RunHashes(s))
      BY EmptySeq
    <3>2. <<RunHash(s, i, w)>> \in Seq(RunHashes(s))
      BY <1>0
    <3>3. GrowthPath(m, s, i, w) = IF i = 0 THEN <<>> ELSE <<RunHash(s, i, w)>>
      BY <2>1, GrowthPathEnds
    <3>4. GrowthPath(m, s, i, w) = <<>> \/ GrowthPath(m, s, i, w) = <<RunHash(s, i, w)>>
      BY <3>3
    <3> QED
      BY <3>1, <3>2, <3>4
  <2>2. CASE ~(w = 1 \/ i + w = m)
    <3> DEFINE k == LargestPowerOfTwoBelow(w)
    <3>1. w \in Nat /\ w > 1
      BY <2>2
    <3>2. k \in 1 .. (w - 1) /\ w - k \in 1 .. (w - 1)
      BY <3>1, SplitRange
    <3>3. GrowthPath(m, s, i, w) = GrowthStep(m, s, i, w, k)
      BY <2>2, <3>1, GrowthPathGrows
    <3> HIDE DEF k
    <3>4. k \in 1 .. n /\ w - k \in 1 .. n /\ i + k \in Nat /\ k \in Nat \ {0} /\ w - k \in Nat \ {0}
      BY <1>2, <3>2
    <3>5. Holds(k) /\ Holds(w - k)
      <4> HIDE DEF Holds
      <4> QED
        BY <1>2, <3>4
    <3>6. Typed(k, i) /\ Typed(w - k, i + k)
      BY <3>4, <3>5
    <3> HIDE DEF Q, Holds
    <3> QED
      BY <1>0, <3>3, <3>4, <3>6, LongerPath DEF GrowthStep
  <2> QED
    BY <2>1, <2>2
<1>3. ASSUME NEW n \in Nat, n \in Q PROVE n + 1 \in Q
  <2>1. Holds(n + 1)
    BY <1>2, <1>3
  <2>2. \A w \in 1 .. (n + 1) : w \in 1 .. n \/ w = n + 1
    OBVIOUS
  <2> HIDE DEF Holds
  <2> QED
    BY <1>3, <2>1, <2>2
<1> HIDE DEF Q, Holds
<1>4. Nat \subseteq Q
  BY <1>1, <1>3, NumberInduction
<1>5. \A w \in Nat \ {0} : Holds(w)
  <2> SUFFICES ASSUME NEW w \in Nat \ {0} PROVE Holds(w)
    OBVIOUS
  <2>1. w \in Q /\ w \in 1 .. w
    BY <1>4
  <2> QED
    BY <2>1 DEF Q
<1> QED
  BY <1>5 DEF Holds

(* A run over a left child of Doubled[h] entries and some of the right one. *)
LEMMA RunOfTwo ==
    ASSUME NEW s, NEW i \in Nat, NEW h \in Nat, NEW p, p = Doubled[h], NEW v \in Nat, p < v, v <= 2 * p
    PROVE  /\ LargestPowerOfTwoBelow(v) = p
           /\ RunHash(s, i, v) = NodeHash(RunHash(s, i, p), RunHash(s, i + p, v - p))
<1>1. LargestPowerOfTwoBelow(v) = p
  BY PowerBelowIs
<1>2. Doubled[h] \in Nat /\ Doubled[h] > 0
  BY DoubledProperties
<1>3. v > 1
  BY <1>2
<1>4. PICK k \in 1 .. (v - 1) :
          /\ k = LargestPowerOfTwoBelow(v)
          /\ RunHash(s, i, v) = NodeHash(RunHash(s, i, k), RunHash(s, i + k, v - k))
  BY <1>3, RunOfMore
<1> QED
  BY <1>1, <1>4

(* What the verifier folds on its way to the parent: the old and the whole  *)
(* list's hash, and the node of the path.                                   *)
AddsLeft(s, m, p, a, w, b, x) ==
    /\ RunHash(s, b, m - b) = NodeHash(RunHash(s, b, p), RunHash(s, a, m - a))
    /\ RunHash(s, b, x) = NodeHash(RunHash(s, b, p), RunHash(s, a, w))
    /\ GrowthPath(m, s, b, x) = Append(GrowthPath(m, s, a, w), RunHash(s, b, p))

AddsRight(s, m, p, a, w, b, x) ==
    /\ RunHash(s, b, x) = NodeHash(RunHash(s, a, w), RunHash(s, a + p, x - p))
    /\ GrowthPath(m, s, b, x) = Append(GrowthPath(m, s, a, w), RunHash(s, a + p, x - p))

(* The three of a parent, from those of the node.                           *)
LEMMA ParentHashes ==
    ASSUME NEW s, NEW m \in Nat \ {0}, NEW f \in Nat, NEW g \in Nat,
           NEW p, NEW a, NEW w, NEW b, NEW x, AtParent(f, g, m, p, a, w, b, x)
    PROVE  /\ f % 2 = 1 => AddsLeft(s, m, p, a, w, b, x)
           /\ f % 2 = 0 /\ f < g => AddsRight(s, m, p, a, w, b, x)
<1>1. /\ p \in Nat \ {0} /\ a \in Nat /\ w \in 1 .. p /\ m - a \in 1 .. p
      /\ b \in Nat /\ x \in Nat /\ x <= 2 * p /\ m < b + x
      /\ f % 2 = 1 => b = a - p /\ x = p + w /\ m - b = p + (m - a)
      /\ f % 2 = 0 => b = a
      /\ f % 2 = 0 /\ f < g => w = p /\ p < x
  BY DEF AtParent
<1>2. PICK h \in Nat : p = Doubled[h]
  BY DEF AtParent
<1>3. ASSUME f % 2 = 1
      PROVE  /\ RunHash(s, b, m - b) = NodeHash(RunHash(s, b, p), RunHash(s, a, m - a))
             /\ RunHash(s, b, x) = NodeHash(RunHash(s, b, p), RunHash(s, a, w))
             /\ GrowthPath(m, s, b, x) = Append(GrowthPath(m, s, a, w), RunHash(s, b, p))
  <2>1. b + p = a /\ x - p = w /\ (m - b) - p = m - a
        /\ m - b \in Nat /\ p < m - b /\ m - b <= 2 * p /\ p < x /\ x > 1 /\ b + x # m /\ ~(m <= b + p)
    BY <1>1, <1>3
  <2>2. LargestPowerOfTwoBelow(x) = p /\ RunHash(s, b, x) = NodeHash(RunHash(s, b, p), RunHash(s, b + p, x - p))
    BY <1>1, <1>2, <2>1, RunOfTwo
  <2>3. RunHash(s, b, m - b) = NodeHash(RunHash(s, b, p), RunHash(s, b + p, (m - b) - p))
    BY <1>1, <1>2, <2>1, RunOfTwo
  <2>4. GrowthPath(m, s, b, x) = GrowthStep(m, s, b, x, p)
    BY <1>1, <2>1, <2>2, GrowthPathGrows
  <2>5. GrowthStep(m, s, b, x, p) = Append(GrowthPath(m, s, b + p, x - p), RunHash(s, b, p))
    BY <2>1 DEF GrowthStep
  <2> QED
    BY <2>1, <2>2, <2>3, <2>4, <2>5
<1>4. ASSUME f % 2 = 0, f < g
      PROVE  /\ RunHash(s, b, x) = NodeHash(RunHash(s, a, w), RunHash(s, a + p, x - p))
             /\ GrowthPath(m, s, b, x) = Append(GrowthPath(m, s, a, w), RunHash(s, a + p, x - p))
  <2>1. b = a /\ w = p /\ p < x /\ x > 1 /\ a + x # m /\ m <= a + p
    BY <1>1, <1>4
  <2>2. LargestPowerOfTwoBelow(x) = p /\ RunHash(s, a, x) = NodeHash(RunHash(s, a, p), RunHash(s, a + p, x - p))
    BY <1>1, <1>2, <2>1, RunOfTwo
  <2>3. GrowthPath(m, s, a, x) = GrowthStep(m, s, a, x, p)
    BY <1>1, <2>1, <2>2, GrowthPathGrows
  <2>4. GrowthStep(m, s, a, x, p) = Append(GrowthPath(m, s, a, p), RunHash(s, a + p, x - p))
    BY <2>1 DEF GrowthStep
  <2> QED
    BY <2>1, <2>2, <2>3, <2>4
<1> QED
  BY <1>3, <1>4 DEF AddsLeft, AddsRight

(* Sequences.                                                               *)
LEMMA AppendRest ==
    ASSUME NEW T, NEW u \in Seq(T), NEW x \in T, NEW z \in Seq(T)
    PROVE  /\ <<x>> \o z \in Seq(T) /\ <<x>> \o z # <<>>
           /\ Head(<<x>> \o z) = x /\ Tail(<<x>> \o z) = z
           /\ Append(u, x) \o z = u \o (<<x>> \o z)
<1>1. /\ Len(z) \in Nat /\ Len(u) \in Nat /\ <<x>> \in Seq(T) /\ Len(<<x>>) = 1 /\ <<x>>[1] = x
  BY LenProperties
<1>2. /\ <<x>> \o z \in Seq(T) /\ Len(<<x>> \o z) = 1 + Len(z)
      /\ (<<x>> \o z)[1] = x /\ \A q \in 1 .. Len(z) : (<<x>> \o z)[1 + q] = z[q]
  <2>1. /\ <<x>> \o z \in Seq(T) /\ Len(<<x>> \o z) = 1 + Len(z)
        /\ \A i \in 1 .. (1 + Len(z)) : (<<x>> \o z)[i] = IF i <= 1 THEN <<x>>[i] ELSE z[i - 1]
    BY <1>1, ConcatProperties
  <2>2. 1 \in 1 .. (1 + Len(z)) /\ \A q \in 1 .. Len(z) : 1 + q \in 1 .. (1 + Len(z)) /\ ~(1 + q <= 1) /\ (1 + q) - 1 = q
    BY <1>1
  <2> QED
    BY <1>1, <2>1, <2>2
<1>3. <<x>> \o z # <<>>
  BY <1>1, <1>2, EmptySeq
<1>4. Head(<<x>> \o z) = x
  BY <1>2, <1>3, HeadTailProperties
<1>5. Tail(<<x>> \o z) = z
  <2> DEFINE y == Tail(<<x>> \o z)
  <2>1. y \in Seq(T) /\ Len(y) = Len(z) /\ \A i \in 1 .. Len(y) : y[i] = (<<x>> \o z)[i + 1]
    BY <1>1, <1>2, <1>3, HeadTailProperties
  <2>2. \A i \in 1 .. Len(z) : y[i] = z[i]
    <3> SUFFICES ASSUME NEW i \in 1 .. Len(z) PROVE y[i] = z[i]
      OBVIOUS
    <3>1. i + 1 = 1 + i
      BY <1>1
    <3> QED
      BY <1>2, <2>1, <3>1
  <2> HIDE DEF y
  <2>3. y = z
    BY <2>1, <2>2, SeqEqual
  <2> QED
    BY <2>3 DEF y
<1>6. Append(u, x) \o z = u \o (<<x>> \o z)
  <2>1. Append(u, x) = u \o <<x>>
    BY AppendIsConcat
  <2>2. (u \o <<x>>) \o z = u \o (<<x>> \o z)
    BY <1>1, ConcatAssociative
  <2> QED
    BY <2>1, <2>2
<1> QED
  BY <1>2, <1>3, <1>4, <1>5, <1>6

(* What follows one prefix in one sequence is one sequence.                 *)
LEMMA SameRest ==
    ASSUME NEW T, NEW u \in Seq(T), NEW y \in Seq(T), NEW z \in Seq(T), u \o y = u \o z
    PROVE  y = z
<1> QED
  BY ConcatSimplifications

(* z is what the path for n entries has after that for w, those after the   *)
(* first a.                                                                 *)
Reaches(s, m, n, a, w, z) ==
    z \in Seq(RunHashes(s)) /\ GrowthPath(m, s, a, w) \o z = GrowthPath(m, s, 0, n)

(* The path for the node at b adds y to that for the one at a.              *)
AddsOne(m, s, a, w, b, x, y) ==
    y \in RunHashes(s) /\ GrowthPath(m, s, b, x) = Append(GrowthPath(m, s, a, w), y)

Begins(td, y, z) == td # <<>> /\ Head(td) = y /\ Tail(td) = z

(* A path that goes on from the parent goes on from the node.               *)
LEMMA ReachesUp ==
    ASSUME NEW s, NEW m \in Nat, NEW n \in Nat \ {0}, NEW a \in Nat, NEW w \in Nat \ {0}, NEW b, NEW x,
           NEW y, NEW z, AddsOne(m, s, a, w, b, x, y), Reaches(s, m, n, b, x, z)
    PROVE  \E td : Reaches(s, m, n, a, w, td) /\ Begins(td, y, z)
<1>0. y \in RunHashes(s) /\ GrowthPath(m, s, b, x) = Append(GrowthPath(m, s, a, w), y)
  BY DEF AddsOne
<1>1. GrowthPath(m, s, a, w) \in Seq(RunHashes(s))
  BY GrowthPathType
<1>2. z \in Seq(RunHashes(s))
  BY DEF Reaches
<1>3. /\ <<y>> \o z \in Seq(RunHashes(s)) /\ <<y>> \o z # <<>>
      /\ Head(<<y>> \o z) = y /\ Tail(<<y>> \o z) = z
      /\ Append(GrowthPath(m, s, a, w), y) \o z = GrowthPath(m, s, a, w) \o (<<y>> \o z)
  BY <1>0, <1>1, <1>2, AppendRest
<1>4. GrowthPath(m, s, b, x) \o z = GrowthPath(m, s, 0, n)
  BY DEF Reaches
<1>5. GrowthPath(m, s, a, w) \o (<<y>> \o z) = GrowthPath(m, s, 0, n)
  BY <1>0, <1>3, <1>4
<1>6. Reaches(s, m, n, a, w, <<y>> \o z) /\ Begins(<<y>> \o z, y, z)
  BY <1>3, <1>5 DEF Reaches, Begins
<1> QED
  BY <1>6

(* There is one rest of the path at a node,                                 *)
LEMMA ReachesOnce ==
    ASSUME NEW s, NEW m \in Nat, NEW n, NEW a \in Nat, NEW w \in Nat \ {0}, NEW y, NEW z,
           Reaches(s, m, n, a, w, y), Reaches(s, m, n, a, w, z)
    PROVE  y = z
<1>1. GrowthPath(m, s, a, w) \in Seq(RunHashes(s))
  BY GrowthPathType
<1>2. /\ y \in Seq(RunHashes(s)) /\ z \in Seq(RunHashes(s))
      /\ GrowthPath(m, s, a, w) \o y = GrowthPath(m, s, a, w) \o z
  BY DEF Reaches
<1> QED
  BY <1>1, <1>2, SameRest

(* and none at the root.                                                    *)
LEMMA ReachesAll ==
    ASSUME NEW s, NEW m \in Nat, NEW n \in Nat \ {0}
    PROVE  Reaches(s, m, n, 0, n, <<>>)
<1>1. GrowthPath(m, s, 0, n) \in Seq(RunHashes(s))
  BY GrowthPathType
<1>2. <<>> \in Seq(RunHashes(s))
  BY EmptySeq
<1>3. GrowthPath(m, s, 0, n) \o <<>> = GrowthPath(m, s, 0, n)
  BY <1>1, ConcatEmptySeq
<1> QED
  BY <1>2, <1>3 DEF Reaches

(* The node that the path adds on the way to the parent.                    *)
Beside(s, f, a, p, b, x) == IF f % 2 = 1 THEN RunHash(s, b, p) ELSE RunHash(s, a + p, x - p)

(* A left child adds its right sibling, a right child its left one.         *)
LEMMA BesideAdded ==
    ASSUME NEW s, NEW m \in Nat \ {0}, NEW f \in Nat, NEW g \in Nat, NEW p, NEW a, NEW w,
           NEW b, NEW x, AtParent(f, g, m, p, a, w, b, x), f % 2 = 1 \/ f < g
    PROVE  AddsOne(m, s, a, w, b, x, Beside(s, f, a, p, b, x))
<1>1. /\ p \in Nat \ {0} /\ a \in Nat /\ b \in Nat /\ x \in Nat
      /\ f % 2 = 0 /\ f < g => p < x
  BY DEF AtParent
<1>2. \A i \in Nat, v \in Nat \ {0} : RunHash(s, i, v) \in RunHashes(s)
  BY DEF RunHashes
<1>3. f % 2 = 0 \/ f % 2 = 1
  OBVIOUS
<1>4. CASE f % 2 = 1
  <2>1. RunHash(s, b, p) \in RunHashes(s)
    BY <1>1, <1>2
  <2>2. GrowthPath(m, s, b, x) = Append(GrowthPath(m, s, a, w), RunHash(s, b, p))
    <3>1. AddsLeft(s, m, p, a, w, b, x)
      BY <1>4, ParentHashes
    <3> QED
      BY <3>1 DEF AddsLeft
  <2> QED
    BY <1>4, <2>1, <2>2 DEF Beside, AddsOne
<1>5. CASE f % 2 = 0 /\ f < g
  <2>1. a + p \in Nat /\ x - p \in Nat \ {0} /\ f % 2 # 1
    BY <1>1, <1>5
  <2>2. RunHash(s, a + p, x - p) \in RunHashes(s)
    BY <1>2, <2>1
  <2>3. GrowthPath(m, s, b, x) = Append(GrowthPath(m, s, a, w), RunHash(s, a + p, x - p))
    <3>1. AddsRight(s, m, p, a, w, b, x)
      BY <1>5, ParentHashes
    <3> QED
      BY <3>1 DEF AddsRight
  <2> QED
    BY <2>1, <2>2, <2>3 DEF Beside, AddsOne
<1> QED
  BY <1>3, <1>4, <1>5

(* From every open node the path goes on to the root.                       *)
LEMMA Climb ==
    ASSUME NEW s, NEW m \in Nat \ {0}, NEW n \in Nat, m < n
    PROVE  \A h, f, g : AtNode(h, f, g, m, n) /\ Unfilled(h, f, m) =>
               \E z : Reaches(s, m, n, First(h, f), Across(h, f, n), z)
<1> DEFINE Up(h, f) == \E z : Reaches(s, m, n, First(h, f), Across(h, f, n), z)
           Holds(d) == \A h, f, g : AtNode(h, f, g, m, n) /\ Unfilled(h, f, m) /\ h + d >= n => Up(h, f)
           Q == {d \in Nat : Holds(d)}
<1>0. n \in Nat \ {0}
  OBVIOUS
<1>1. Holds(0)
  <2> SUFFICES ASSUME NEW h, NEW f, NEW g, AtNode(h, f, g, m, n), h + 0 >= n PROVE Up(h, f)
    OBVIOUS
  <2>1. h \in Nat /\ f \in Nat /\ f * Doubled[h] <= m - 1
    BY DEF AtNode
  <2> DEFINE p == Doubled[h]
  <2>2. p \in Nat /\ p > n
    BY <2>1, DoubledProperties
  <2>3. f * p <= m - 1
    BY <2>1
  <2> HIDE DEF p
  <2>4. f = 0 /\ f * p = 0
    BY <2>1, <2>2, <2>3, Products
  <2>5. First(h, f) = 0 /\ Across(h, f, n) = n
    BY <2>2, <2>4 DEF First, Across, p
  <2> QED
    BY <1>0, <2>5, ReachesAll
<1>2. ASSUME NEW d \in Nat, Holds(d) PROVE Holds(d + 1)
  <2> SUFFICES ASSUME NEW h, NEW f, NEW g, AtNode(h, f, g, m, n), Unfilled(h, f, m), h + (d + 1) >= n
               PROVE  Up(h, f)
    OBVIOUS
  <2> DEFINE p == Doubled[h]
             a == First(h, f)
             w == Across(h, f, n)
             b == First(h + 1, f \div 2)
             x == Across(h + 1, f \div 2, n)
             y == Beside(s, f, a, p, b, x)
  <2>1. /\ AtNode(h + 1, f \div 2, g \div 2, m, n) /\ Unfilled(h + 1, f \div 2, m)
        /\ AtParent(f, g, m, p, a, w, b, x)
    BY Parent
  <2>2. h \in Nat /\ f \in Nat /\ g \in Nat /\ (h + 1) + d >= n
    BY DEF AtNode
  <2>3. PICK z : Reaches(s, m, n, b, x, z)
    BY <1>2, <2>1, <2>2
  <2>4. a \in Nat /\ w \in Nat \ {0} /\ f <= g /\ (f % 2 = 0 /\ f = g => b = a /\ x = w)
    BY <2>1 DEF AtParent
  <2>6. \A v : Reaches(s, m, n, a, w, v) => Up(h, f)
    OBVIOUS
  <2> HIDE DEF p, a, w, b, x, y, Up
  <2>7. CASE f % 2 = 1 \/ f < g
    <3>1. AddsOne(m, s, a, w, b, x, y)
      BY <2>1, <2>2, <2>7, BesideAdded DEF y
    <3>2. \E v : Reaches(s, m, n, a, w, v)
      BY <1>0, <2>3, <2>4, <3>1, ReachesUp
    <3> QED
      BY <2>6, <3>2
  <2>8. CASE f % 2 = 0 /\ f = g
    BY <2>3, <2>4, <2>6, <2>8
  <2> QED
    BY <2>2, <2>4, <2>7, <2>8
<1>3. 0 \in Q /\ \A d \in Nat : d \in Q => d + 1 \in Q
  <2> HIDE DEF Holds
  <2> QED
    BY <1>1, <1>2
<1> HIDE DEF Q
<1>4. Nat \subseteq Q
  BY <1>3, NumberInduction
<1>5. Holds(n)
  <2> HIDE DEF Holds
  <2> QED
    BY <1>4 DEF Q
<1>6. \A h, f, g : AtNode(h, f, g, m, n) => h + n >= n
  <2> SUFFICES ASSUME NEW h, h \in Nat PROVE h + n >= n
    BY DEF AtNode
  <2> QED
    OBVIOUS
<1> QED
  BY <1>5, <1>6

(* Where the verifier stands when nothing but todo is left of the path.     *)
Level(s, m, n, h, f, g, r1, r2, td) ==
    /\ AtNode(h, f, g, m, n) /\ Unfilled(h, f, m)
    /\ r1 = RunHash(s, First(h, f), m - First(h, f))
    /\ r2 = RunHash(s, First(h, f), Across(h, f, n))
    /\ Reaches(s, m, n, First(h, f), Across(h, f, n), td)

(* One level up, the verifier takes one node off the path, or none when     *)
(* the last node at its level has no sibling.                               *)
LEMMA LevelUp ==
    ASSUME NEW s, NEW m \in Nat \ {0}, NEW n \in Nat, m < n,
           NEW h, NEW f, NEW g, NEW r1, NEW r2, NEW td, Level(s, m, n, h, f, g, r1, r2, td)
    PROVE  /\ f \in Nat /\ g \in Nat /\ f <= g
           /\ f % 2 = 1 => /\ td # <<>>
                           /\ Level(s, m, n, h + 1, f \div 2, g \div 2,
                                    NodeHash(Head(td), r1), NodeHash(Head(td), r2), Tail(td))
           /\ f % 2 = 0 /\ f < g => /\ td # <<>>
                                    /\ Level(s, m, n, h + 1, f \div 2, g \div 2,
                                             r1, NodeHash(r2, Head(td)), Tail(td))
           /\ f % 2 = 0 /\ f = g => Level(s, m, n, h + 1, f \div 2, g \div 2, r1, r2, td)
<1> DEFINE p == Doubled[h]
           a == First(h, f)
           w == Across(h, f, n)
           b == First(h + 1, f \div 2)
           x == Across(h + 1, f \div 2, n)
           y == Beside(s, f, a, p, b, x)
<1>1. AtNode(h, f, g, m, n) /\ Unfilled(h, f, m)
  BY DEF Level
<1>2. /\ AtNode(h + 1, f \div 2, g \div 2, m, n) /\ Unfilled(h + 1, f \div 2, m)
      /\ AtParent(f, g, m, p, a, w, b, x)
  BY <1>1, Parent
<1>3. h \in Nat /\ f \in Nat /\ g \in Nat /\ n \in Nat \ {0}
  BY <1>1 DEF AtNode
<1>4. /\ a \in Nat /\ w \in Nat \ {0} /\ f <= g /\ (f % 2 = 0 /\ f = g => b = a /\ x = w)
      /\ f % 2 = 0 => b = a
  BY <1>2 DEF AtParent
<1>5. r1 = RunHash(s, a, m - a) /\ r2 = RunHash(s, a, w) /\ Reaches(s, m, n, a, w, td)
  BY DEF Level
<1>6. PICK z : Reaches(s, m, n, b, x, z)
  BY <1>2, Climb
<1>7. ASSUME NEW q1, NEW q2, NEW rest, q1 = RunHash(s, b, m - b), q2 = RunHash(s, b, x),
             Reaches(s, m, n, b, x, rest)
      PROVE  Level(s, m, n, h + 1, f \div 2, g \div 2, q1, q2, rest)
  BY <1>2, <1>7 DEF Level
<1> HIDE DEF p, a, w, b, x, y
<1>9. ASSUME f % 2 = 1 \/ f < g
      PROVE  td # <<>> /\ Head(td) = y /\ Tail(td) = z
  <2>1. AddsOne(m, s, a, w, b, x, y)
    BY <1>2, <1>3, <1>9, BesideAdded DEF y
  <2>2. PICK v : Reaches(s, m, n, a, w, v) /\ Begins(v, y, z)
    BY <1>3, <1>4, <1>6, <2>1, ReachesUp
  <2>3. td = v
    BY <1>4, <1>5, <2>2, ReachesOnce
  <2> QED
    BY <2>2, <2>3 DEF Begins
<1>10. ASSUME f % 2 = 1
       PROVE  /\ td # <<>>
              /\ Level(s, m, n, h + 1, f \div 2, g \div 2,
                       NodeHash(Head(td), r1), NodeHash(Head(td), r2), Tail(td))
  <2>1. td # <<>> /\ Head(td) = y /\ Tail(td) = z /\ y = RunHash(s, b, p)
    BY <1>9, <1>10 DEF y, Beside
  <2>2. /\ RunHash(s, b, m - b) = NodeHash(RunHash(s, b, p), RunHash(s, a, m - a))
        /\ RunHash(s, b, x) = NodeHash(RunHash(s, b, p), RunHash(s, a, w))
    <3>1. AddsLeft(s, m, p, a, w, b, x)
      BY <1>2, <1>3, <1>10, ParentHashes
    <3> QED
      BY <3>1 DEF AddsLeft
  <2>3. NodeHash(Head(td), r1) = RunHash(s, b, m - b) /\ NodeHash(Head(td), r2) = RunHash(s, b, x)
    BY <1>5, <2>1, <2>2
  <2> QED
    BY <1>6, <1>7, <2>1, <2>3
<1>11. ASSUME f % 2 = 0, f < g
       PROVE  /\ td # <<>>
              /\ Level(s, m, n, h + 1, f \div 2, g \div 2, r1, NodeHash(r2, Head(td)), Tail(td))
  <2>1. td # <<>> /\ Head(td) = y /\ Tail(td) = z /\ y = RunHash(s, a + p, x - p)
    BY <1>9, <1>11 DEF y, Beside
  <2>2. RunHash(s, b, x) = NodeHash(RunHash(s, a, w), RunHash(s, a + p, x - p))
    <3>1. AddsRight(s, m, p, a, w, b, x)
      BY <1>2, <1>3, <1>11, ParentHashes
    <3> QED
      BY <3>1 DEF AddsRight
  <2>3. r1 = RunHash(s, b, m - b) /\ NodeHash(r2, Head(td)) = RunHash(s, b, x)
    BY <1>4, <1>5, <1>11, <2>1, <2>2
  <2> QED
    BY <1>6, <1>7, <2>1, <2>3
<1>12. ASSUME f % 2 = 0, f = g
       PROVE  Level(s, m, n, h + 1, f \div 2, g \div 2, r1, r2, td)
  <2>1. b = a /\ x = w
    BY <1>4, <1>12
  <2> QED
    BY <1>5, <1>7, <2>1
<1> QED
  BY <1>3, <1>4, <1>10, <1>11, <1>12

(* At the top the path is used up and both roots are rebuilt.               *)
LEMMA TopNode ==
    ASSUME NEW s, NEW m \in Nat \ {0}, NEW n \in Nat, m < n,
           NEW h, NEW f, NEW r1, NEW r2, NEW td, Level(s, m, n, h, f, 0, r1, r2, td)
    PROVE  td = <<>> /\ r1 = RunHash(s, 0, m) /\ r2 = RunHash(s, 0, n)
<1> DEFINE p == Doubled[h]
<1>1. f = 0
  <2>1. f \in Nat /\ f <= 0
    BY LevelUp
  <2> QED
    BY <2>1
<1>2. h \in Nat /\ n - 1 < 0 * p + p
  BY DEF Level, AtNode
<1>3. p \in Nat
  BY <1>2, DoubledProperties
<1>4. p = Doubled[h]
  OBVIOUS
<1> HIDE DEF p
<1>5. First(h, 0) = 0 /\ Across(h, 0, n) = n
  <2>1. 0 * p = 0
    BY <1>3
  <2> QED
    BY <1>2, <1>3, <1>4, <2>1 DEF First, Across
<1>6. /\ r1 = RunHash(s, First(h, f), m - First(h, f))
      /\ r2 = RunHash(s, First(h, f), Across(h, f, n))
      /\ Reaches(s, m, n, First(h, f), Across(h, f, n), td)
  BY DEF Level
<1>7. r1 = RunHash(s, 0, m - 0) /\ r2 = RunHash(s, 0, n) /\ Reaches(s, m, n, 0, n, td)
  BY <1>1, <1>5, <1>6
<1>8. td = <<>>
  <2>1. n \in Nat \ {0} /\ 0 \in Nat
    OBVIOUS
  <2>2. Reaches(s, m, n, 0, n, <<>>)
    BY <2>1, ReachesAll
  <2> QED
    BY <1>7, <2>1, <2>2, ReachesOnce
<1>9. m - 0 = m
  OBVIOUS
<1> QED
  BY <1>7, <1>8, <1>9

(* Below it there is always a node left.                                    *)
LEMMA TodoLeft ==
    ASSUME NEW s, NEW m \in Nat \ {0}, NEW n \in Nat, m < n
    PROVE  \A h, f, g, r1, r2, td : Level(s, m, n, h, f, g, r1, r2, td) /\ g # 0 => td # <<>>
<1> DEFINE Holds(d) == \A h, f, r1, r2, td : Level(s, m, n, h, f, d, r1, r2, td) => td # <<>>
           Q == {d \in Nat : \A e \in 1 .. d : Holds(e)}
<1>1. 0 \in Q
  OBVIOUS
<1>2. ASSUME NEW d \in Nat, d \in Q PROVE Holds(d + 1)
  <2> SUFFICES ASSUME NEW g, g = d + 1, NEW h, NEW f, NEW r1, NEW r2, NEW td,
                      Level(s, m, n, h, f, g, r1, r2, td)
               PROVE  td # <<>>
    OBVIOUS
  <2>1. /\ f \in Nat /\ f <= g
        /\ f % 2 = 1 => td # <<>>
        /\ f % 2 = 0 /\ f < g => td # <<>>
        /\ f % 2 = 0 /\ f = g => Level(s, m, n, h + 1, f \div 2, g \div 2, r1, r2, td)
    BY LevelUp
  <2>2. (f % 2 = 0 \/ f % 2 = 1) /\ (f < g \/ f = g)
    BY <2>1
  <2>3. CASE f % 2 = 0 /\ f = g
    <3>1. g \div 2 \in 1 .. d
      BY <2>3
    <3>2. Holds(g \div 2)
      <4> HIDE DEF Holds
      <4> QED
        BY <1>2, <3>1
    <3> QED
      BY <2>1, <2>3, <3>2
  <2> QED
    BY <2>1, <2>2, <2>3
<1> HIDE DEF Holds
<1>3. ASSUME NEW d \in Nat, d \in Q PROVE d + 1 \in Q
  <2>1. \A e \in 1 .. (d + 1) : e \in 1 .. d \/ e = d + 1
    OBVIOUS
  <2> QED
    BY <1>2, <1>3, <2>1
<1> HIDE DEF Q
<1>4. Nat \subseteq Q
  BY <1>1, <1>3, NumberInduction
<1>5. \A d \in Nat \ {0} : Holds(d)
  <2> SUFFICES ASSUME NEW d \in Nat \ {0} PROVE Holds(d)
    OBVIOUS
  <2>1. d \in Q /\ d \in 1 .. d
    BY <1>4
  <2> QED
    BY <2>1 DEF Q
<1>6. \A h, f, g, r1, r2, td : Level(s, m, n, h, f, g, r1, r2, td) => g \in Nat
  BY LevelUp
<1>7. \A d \in Nat \ {0} : \A h, f, r1, r2, td : Level(s, m, n, h, f, d, r1, r2, td) => td # <<>>
  BY <1>5 DEF Holds
<1>8. \A g \in Nat : g # 0 => g \in Nat \ {0}
  OBVIOUS
<1> QED
  BY <1>6, <1>7, <1>8

(* A power of two has no odd factor but one: only a size that is not one    *)
(* leaves old nodes to its left.                                            *)
LEMMA OddPart ==
    ASSUME NEW f \in Nat, f % 2 = 0
    PROVE  \A h, j \in Nat : (f + 1) * Doubled[h] = Doubled[j] => f = 0
<1> DEFINE Holds(h) == \A j \in Nat : (f + 1) * Doubled[h] = Doubled[j] => f = 0
           Q == {h \in Nat : Holds(h)}
<1>1. \A j \in Nat : /\ Doubled[j] \in Nat
                     /\ j = 0 => Doubled[j] = 1
                     /\ j # 0 => Doubled[j] = 2 * Doubled[j - 1] /\ j - 1 \in Nat
  BY DoubledIs, DoubledProperties
<1>2. Holds(0)
  <2> SUFFICES ASSUME NEW j \in Nat, (f + 1) * Doubled[0] = Doubled[j] PROVE f = 0
    OBVIOUS
  <2>1. f + 1 = Doubled[j]
    BY DoubledProperties
  <2>2. CASE j # 0
    <3>1. PICK q \in Nat : f + 1 = 2 * q
      BY <1>1, <2>1, <2>2
    <3> QED
      BY <3>1
  <2>3. CASE j = 0
    <3>1. f + 1 = 1
      BY <1>1, <2>1, <2>3
    <3> QED
      BY <3>1
  <2> QED
    BY <2>2, <2>3
<1>3. ASSUME NEW h \in Nat, Holds(h) PROVE Holds(h + 1)
  <2> SUFFICES ASSUME NEW j \in Nat, (f + 1) * Doubled[h + 1] = Doubled[j] PROVE f = 0
    OBVIOUS
  <2> DEFINE q == Doubled[h]
             r == (f + 1) * q
  <2>1. q \in Nat /\ Doubled[h + 1] = 2 * q
    BY DoubledProperties
  <2>2. (f + 1) * (2 * q) = 2 * r /\ r \in Nat
    <3> HIDE DEF q
    <3> QED
      BY <2>1, Z3
  <2>3. 2 * r = Doubled[j]
    BY <2>1, <2>2
  <2>4. r = (f + 1) * Doubled[h]
    OBVIOUS
  <2> HIDE DEF q, r
  <2>5. j # 0
    BY <1>1, <2>2, <2>3
  <2>6. r = Doubled[j - 1] /\ j - 1 \in Nat
    BY <1>1, <2>2, <2>3, <2>5
  <2> QED
    BY <1>3, <2>4, <2>6
<1> HIDE DEF Holds
<1>4. 0 \in Q /\ \A h \in Nat : h \in Q => h + 1 \in Q
  BY <1>2, <1>3
<1> HIDE DEF Q
<1>5. Nat \subseteq Q
  BY <1>4, NumberInduction
<1>6. \A h \in Nat : Holds(h)
  BY <1>5 DEF Q
<1> QED
  BY <1>6 DEF Holds

(* The node that the stripped trailing ones of m - 1 lead to.               *)
Stripped(m, n, h, f, g) == AtNode(h, f, g, m, n) /\ m = (f + 1) * Doubled[h]

(* A right child that the old entries fill: the parent is filled too.       *)
LEMMA StripOnce ==
    ASSUME NEW m \in Nat \ {0}, NEW n \in Nat, m < n, NEW h, NEW f, NEW g, Stripped(m, n, h, f, g), f % 2 = 1
    PROVE  Stripped(m, n, h + 1, f \div 2, g \div 2)
<1>1. AtNode(h, f, g, m, n) /\ h \in Nat /\ f \in Nat
  BY DEF Stripped, AtNode
<1>2. AtNode(h + 1, f \div 2, g \div 2, m, n)
  BY <1>1, Parent
<1> DEFINE p == Doubled[h]
           e == f \div 2
<1>3. p \in Nat /\ Doubled[h + 1] = 2 * p
  BY <1>1, DoubledProperties
<1>4. e \in Nat /\ f + 1 = 2 * (e + 1)
  BY <1>1
<1>5. (2 * (e + 1)) * p = (e + 1) * (2 * p)
  <2> HIDE DEF p, e
  <2> QED
    BY <1>3, <1>4, Z3
<1>6. m = (f + 1) * p
  BY DEF Stripped
<1> HIDE DEF p, e
<1>7. m = (e + 1) * Doubled[h + 1]
  BY <1>3, <1>4, <1>5, <1>6
<1> QED
  BY <1>2, <1>7 DEF Stripped, e

(* The first node of the path, or the old root when its size is a power     *)
(* of two, is the hash of the node where the stripping stopped.             *)
LEMMA Seeded ==
    ASSUME NEW s, NEW m \in Nat \ {0}, NEW n \in Nat, m < n, NEW h, NEW f, NEW g,
           Stripped(m, n, h, f, g), f % 2 = 0, NEW td, td = GrowthPath(m, s, 0, n)
    PROVE  /\ IsPowerOfTwo(m) => Level(s, m, n, h, f, g, RunHash(s, 0, m), RunHash(s, 0, m), td)
           /\ ~IsPowerOfTwo(m) => td # <<>> /\ Level(s, m, n, h, f, g, Head(td), Head(td), Tail(td))
<1> DEFINE p == Doubled[h]
           a == f * p
<1>1. AtNode(h, f, g, m, n) /\ h \in Nat /\ f \in Nat /\ m = (f + 1) * p /\ n \in Nat \ {0}
  BY DEF Stripped, AtNode
<1>2. p \in Nat /\ p > h /\ p > 0
  BY <1>1, DoubledProperties
<1>3. a \in Nat /\ (f = 0 => a = 0) /\ (f # 0 => a # 0) /\ (f + 1) * p = a + p
  <2> HIDE DEF p
  <2> QED
    BY <1>1, <1>2, Z3
<1>4. m = a + p /\ First(h, f) = a
  BY <1>1, <1>3 DEF First
<1>5. Across(h, f, n) = p
  BY <1>2, <1>3, <1>4 DEF Across
<1>6. p = Doubled[h]
  OBVIOUS
<1> HIDE DEF p, a
<1>7. Unfilled(h, f, m)
  BY DEF Unfilled
<1>8. m - a = p /\ p \in Nat \ {0}
  BY <1>2, <1>3, <1>4
<1>9. GrowthPath(m, s, a, p) = IF a = 0 THEN <<>> ELSE <<RunHash(s, a, p)>>
  <2>1. a + p = m
    BY <1>4
  <2> QED
    BY <1>3, <1>8, <2>1, GrowthPathEnds
<1>10. td \in Seq(RunHashes(s))
  BY <1>1, GrowthPathType
<1>11. f = 0 <=> IsPowerOfTwo(m)
  <2>1. ASSUME f = 0 PROVE IsPowerOfTwo(m)
    <3>1. m = Doubled[h] /\ h \in 0 .. m
      BY <1>1, <1>2, <1>3, <1>4, <1>6, <2>1
    <3> QED
      BY <3>1 DEF IsPowerOfTwo
  <2>2. ASSUME IsPowerOfTwo(m) PROVE f = 0
    <3>1. PICK j \in 0 .. m : m = Doubled[j]
      BY <2>2 DEF IsPowerOfTwo
    <3>2. j \in Nat /\ (f + 1) * Doubled[h] = Doubled[j]
      BY <1>1, <1>6, <3>1
    <3> QED
      BY <1>1, <3>2, OddPart
  <2> QED
    BY <2>1, <2>2
<1>12. ASSUME NEW r, NEW rest, r = RunHash(s, a, p), Reaches(s, m, n, a, p, rest)
       PROVE  Level(s, m, n, h, f, g, r, r, rest)
  BY <1>1, <1>4, <1>5, <1>7, <1>8, <1>12 DEF Level
<1>13. ASSUME f = 0 PROVE Level(s, m, n, h, f, g, RunHash(s, 0, m), RunHash(s, 0, m), td)
  <2>1. a = 0 /\ m = p
    BY <1>2, <1>3, <1>4, <1>13
  <2>2. GrowthPath(m, s, a, p) = <<>>
    BY <1>9, <2>1
  <2>3. <<>> \o td = td
    BY <1>10, ConcatEmptySeq
  <2>4. Reaches(s, m, n, a, p, td)
    BY <1>10, <2>2, <2>3 DEF Reaches
  <2> QED
    BY <1>12, <2>1, <2>4
<1>14. ASSUME f # 0 PROVE td # <<>> /\ Level(s, m, n, h, f, g, Head(td), Head(td), Tail(td))
  <2>1. PICK z : Reaches(s, m, n, a, p, z)
    BY <1>1, <1>4, <1>5, <1>7, Climb
  <2> DEFINE y == RunHash(s, a, p)
  <2>2. y \in RunHashes(s)
    BY <1>3, <1>8 DEF RunHashes
  <2>3. GrowthPath(m, s, a, p) = <<y>>
    BY <1>3, <1>9, <1>14
  <2>4. z \in Seq(RunHashes(s)) /\ <<y>> \o z = td
    BY <2>1, <2>3 DEF Reaches
  <2> HIDE DEF y
  <2>5. <<y>> \o z # <<>> /\ Head(<<y>> \o z) = y /\ Tail(<<y>> \o z) = z
    <3>1. <<>> \in Seq(RunHashes(s))
      BY EmptySeq
    <3> QED
      BY <2>2, <2>4, <3>1, AppendRest
  <2>6. td # <<>> /\ Head(td) = y /\ Tail(td) = z
    BY <2>4, <2>5
  <2>7. Level(s, m, n, h, f, g, y, y, z)
    BY <1>12, <2>1 DEF y
  <2> QED
    BY <2>6, <2>7
<1> QED
  BY <1>11, <1>13, <1>14

(* An honest prover's run, while it lasts: at which node of the new list's  *)
(* tree the loops stand and what is left of the path.                       *)
Folded(r1, r2, td) ==
    /\ td # <<>> /\ todo = Tail(td)
    /\ fr = NodeHash(Head(td), r1) /\ sr = NodeHash(Head(td), r2)

GrowthSizes ==
    /\ oldSize \in Nat \ {0} /\ newSize \in Nat /\ oldSize <= newSize
    /\ roots.old = RunHash(new, 0, oldSize) /\ roots.new = RunHash(new, 0, newSize)

GrowthPlace ==
    \/ /\ phase = "start"
       /\ oldSize < newSize => todo = GrowthPath(oldSize, new, 0, newSize)
    \/ /\ phase = "strip" /\ oldSize < newSize
       /\ todo = GrowthPath(oldSize, new, 0, newSize)
       /\ \E h : Stripped(oldSize, newSize, h, fn, sn)
    \/ /\ phase = "loop" /\ oldSize < newSize
       /\ \E h : Level(new, oldSize, newSize, h, fn, sn, fr, sr, todo)
    \/ /\ phase = "skip" /\ oldSize < newSize
       /\ fn # 0 /\ (fn % 2 = 1 \/ fn = sn)
       /\ \E h, r1, r2, td : Level(new, oldSize, newSize, h, fn, sn, r1, r2, td) /\ Folded(r1, r2, td)

GrowthInv ==
    honest /\ Grew(old, new) =>
        /\ verdict # "reject"
        /\ phase # "done" => GrowthSizes /\ GrowthPlace

(* An honest prover's run starts with the whole path.                       *)
LEMMA GrowthInit ==
    ASSUME NEW m \in Nat \ {0}, NEW n \in Nat \ {0}, m <= n, Histories(m, n), Grew(old, new),
           oldSize = m, newSize = n, todo = ConsistencyPath(m, new), phase = "start"
    PROVE  GrowthSizes /\ GrowthPlace
<1>1. /\ old \in Seq(Nat) /\ Len(old) = m /\ old # <<>> /\ new \in Seq(Nat) /\ new # <<>> /\ Len(new) = n
      /\ roots.old = Root(old) /\ roots.new = Root(new)
  BY HistoryTypes
<1>2. Root(old) = RunHash(old, 0, m) /\ Root(new) = RunHash(new, 0, n)
  BY <1>1, RootIsRun
<1>3. Agree(old, 0, new, 0, m)
  <2>1. SubSeq(new, 1, m) = old
    BY <1>1 DEF Grew
  <2>2. \A q \in 1 .. m : SubSeq(new, 1, m)[q] = new[q]
    BY <1>1
  <2>3. \A q \in 1 .. m : old[q] = new[q] /\ 0 + q = q
    BY <2>1, <2>2
  <2> QED
    BY <2>3 DEF Agree
<1>4. RunHash(old, 0, m) = RunHash(new, 0, m)
  BY <1>3, SameRunSameHash
<1>5. m < n => todo = GrowthPath(m, new, 0, n)
  BY <1>1 DEF ConsistencyPath, GrowthPath
<1>6. GrowthSizes
  BY <1>1, <1>2, <1>4 DEF GrowthSizes
<1> QED
  BY <1>5, <1>6 DEF GrowthPlace

(* Every step of the verifier goes on along it.                             *)
LEMMA GrowthStepInv ==
    ASSUME GrowthInv, ConsistencyNext
    PROVE  GrowthInv'
<1>1. UNCHANGED Inputs
  BY DEF ConsistencyNext, SizesRejected, SizesEqual, Begin, Strip, Seed, Consume, Skip, EndSkip,
         Finish, TooManyNodes, Decide
<1> SUFFICES ASSUME honest, Grew(old, new)
             PROVE  verdict' # "reject" /\ (phase' # "done" => GrowthSizes' /\ GrowthPlace')
  BY <1>1 DEF Inputs, GrowthInv
<1> DEFINE m == oldSize
           n == newSize
<1>2. phase # "done"
  BY DEF ConsistencyNext, SizesRejected, SizesEqual, Begin, Strip, Seed, Consume, Skip, EndSkip,
         Finish, TooManyNodes
<1>3. verdict # "reject" /\ GrowthSizes /\ GrowthPlace
  BY <1>2 DEF GrowthInv
<1>4. GrowthSizes'
  BY <1>1, <1>3 DEF GrowthSizes, Inputs
<1>5. /\ m \in Nat \ {0} /\ n \in Nat /\ m <= n
      /\ roots.old = RunHash(new, 0, m) /\ roots.new = RunHash(new, 0, n)
  BY <1>3 DEF GrowthSizes
<1>6. new' = new /\ oldSize' = m /\ newSize' = n
  BY <1>1 DEF Inputs
<1>7. ASSUME NEW v, Decide(v), v = "accept"
      PROVE  verdict' # "reject" /\ phase' = "done"
  BY <1>7 DEF Decide
<1>8. CASE SizesRejected
  BY <1>5, <1>8 DEF SizesRejected
<1>9. CASE SizesEqual
  <2>1. Decide(Compare(roots.old, roots.old)) /\ m = n
    BY <1>9 DEF SizesEqual
  <2>2. Compare(roots.old, roots.old) = "accept"
    BY <1>5, <2>1 DEF Compare
  <2> QED
    BY <1>7, <2>1, <2>2
<1>10. CASE Begin
  <2>1. /\ phase = "start" /\ m < n /\ phase' = "strip" /\ fn' = m - 1 /\ sn' = n - 1
        /\ todo' = todo /\ verdict' = verdict
    BY <1>5, <1>10 DEF Begin
  <2>2. todo = GrowthPath(m, new, 0, n)
    BY <1>3, <2>1 DEF GrowthPlace
  <2>3. Stripped(m, n, 0, m - 1, n - 1)
    <3>1. Doubled[0] = 1
      BY DoubledProperties
    <3> QED
      BY <1>5, <2>1, <3>1 DEF Stripped, AtNode
  <2> QED
    BY <1>3, <1>4, <1>6, <2>1, <2>2, <2>3 DEF GrowthPlace
<1>11. CASE Strip
  <2>1. /\ phase = "strip" /\ phase' = "strip" /\ fn % 2 = 1 /\ fn' = fn \div 2 /\ sn' = sn \div 2
        /\ todo' = todo /\ verdict' = verdict
    BY <1>11 DEF Strip, Halve
  <2>2. m < n /\ todo = GrowthPath(m, new, 0, n)
    BY <1>3, <2>1 DEF GrowthPlace
  <2>3. PICK h : Stripped(m, n, h, fn, sn)
    BY <1>3, <2>1 DEF GrowthPlace
  <2>4. Stripped(m, n, h + 1, fn \div 2, sn \div 2)
    BY <1>5, <2>1, <2>2, <2>3, StripOnce
  <2> QED
    BY <1>3, <1>4, <1>6, <2>1, <2>2, <2>4 DEF GrowthPlace
<1>12. CASE Seed
  <2>1. /\ phase = "strip" /\ phase' = "loop" /\ fn % 2 = 0 /\ fn' = fn /\ sn' = sn /\ verdict' = verdict
        /\ IsPowerOfTwo(m) => fr' = roots.old /\ sr' = roots.old /\ todo' = todo
        /\ ~IsPowerOfTwo(m) => \E c : todo # <<>> /\ c = Head(todo) /\ todo' = Tail(todo) /\ fr' = c /\ sr' = c
    BY <1>12 DEF Seed, Supply
  <2>2. m < n /\ todo = GrowthPath(m, new, 0, n)
    BY <1>3, <2>1 DEF GrowthPlace
  <2>3. PICK h : Stripped(m, n, h, fn, sn)
    BY <1>3, <2>1 DEF GrowthPlace
  <2>4. /\ IsPowerOfTwo(m) => Level(new, m, n, h, fn, sn, RunHash(new, 0, m), RunHash(new, 0, m), todo)
        /\ ~IsPowerOfTwo(m) => Level(new, m, n, h, fn, sn, Head(todo), Head(todo), Tail(todo))
    BY <1>5, <2>1, <2>2, <2>3, Seeded
  <2>5. Level(new, m, n, h, fn', sn', fr', sr', todo')
    BY <1>5, <2>1, <2>4
  <2> QED
    BY <1>3, <1>4, <1>6, <2>1, <2>2, <2>5 DEF GrowthPlace
<1>13. CASE Consume
  <2>1. /\ phase = "loop" /\ sn # 0 /\ verdict' = verdict
    BY <1>13 DEF Consume
  <2>2. PICK c : /\ todo # <<>> /\ c = Head(todo) /\ todo' = Tail(todo)
                 /\ FoldLeft(c) \/ FoldRight(c)
    BY <1>13 DEF Consume, Supply
  <2>3. m < n
    BY <1>3, <2>1 DEF GrowthPlace
  <2>4. PICK h : Level(new, m, n, h, fn, sn, fr, sr, todo)
    BY <1>3, <2>1 DEF GrowthPlace
  <2>5. /\ fn \in Nat /\ sn \in Nat /\ fn <= sn
        /\ fn % 2 = 0 /\ fn < sn => Level(new, m, n, h + 1, fn \div 2, sn \div 2,
                                          fr, NodeHash(sr, Head(todo)), Tail(todo))
    BY <1>5, <2>3, <2>4, LevelUp
  <2>6. CASE FoldLeft(c)
    <3>1. /\ fn % 2 = 1 \/ fn = sn
          /\ fr' = NodeHash(c, fr) /\ sr' = NodeHash(c, sr) /\ phase' = "skip" /\ fn' = fn /\ sn' = sn
      BY <2>6 DEF FoldLeft
    <3>2. fn # 0
      BY <2>1, <2>5, <3>1
    <3> QED
      BY <1>3, <1>4, <1>6, <2>1, <2>2, <2>3, <2>4, <3>1, <3>2 DEF GrowthPlace, Folded
  <2>7. CASE FoldRight(c)
    <3>1. /\ fn % 2 # 1 /\ fn # sn /\ sr' = NodeHash(sr, c) /\ fr' = fr
          /\ fn' = fn \div 2 /\ sn' = sn \div 2 /\ phase' = "loop"
      BY <2>1, <2>7 DEF FoldRight, Halve
    <3>2. fn % 2 = 0 /\ fn < sn
      BY <2>5, <3>1
    <3>3. Level(new, m, n, h + 1, fn', sn', fr', sr', todo')
      BY <2>2, <2>5, <3>1, <3>2
    <3> QED
      BY <1>3, <1>4, <1>6, <2>1, <2>3, <3>1, <3>3 DEF GrowthPlace
  <2> QED
    BY <2>2, <2>6, <2>7
<1>14. CASE Skip \/ EndSkip
  <2>1. /\ phase = "skip" /\ verdict' = verdict /\ todo' = todo /\ fr' = fr /\ sr' = sr
        /\ fn' = fn \div 2 /\ sn' = sn \div 2
    BY <1>14 DEF Skip, EndSkip, Halve
  <2>2. m < n /\ fn # 0 /\ (fn % 2 = 1 \/ fn = sn)
    BY <1>3, <2>1 DEF GrowthPlace
  <2>3. PICK h, r1, r2, td : Level(new, m, n, h, fn, sn, r1, r2, td) /\ Folded(r1, r2, td)
    BY <1>3, <2>1 DEF GrowthPlace
  <2>4. /\ fn \in Nat /\ sn \in Nat
        /\ fn % 2 = 1 => Level(new, m, n, h + 1, fn \div 2, sn \div 2,
                               NodeHash(Head(td), r1), NodeHash(Head(td), r2), Tail(td))
        /\ fn % 2 = 0 /\ fn = sn => Level(new, m, n, h + 1, fn \div 2, sn \div 2, r1, r2, td)
    BY <1>5, <2>2, <2>3, LevelUp
  <2>5. td # <<>> /\ todo = Tail(td) /\ fr = NodeHash(Head(td), r1) /\ sr = NodeHash(Head(td), r2)
    BY <2>3 DEF Folded
  <2>6. CASE Skip
    <3>1. phase' = "skip" /\ fn % 2 = 0 /\ fn = sn
      BY <2>1, <2>2, <2>4, <2>6 DEF Skip
    <3>2. fn' # 0 /\ fn' = sn'
      BY <2>1, <2>2, <2>4, <3>1
    <3>3. Level(new, m, n, h + 1, fn', sn', r1, r2, td)
      BY <2>1, <2>4, <3>1
    <3>4. Folded(r1, r2, td)'
      BY <2>1, <2>5 DEF Folded
    <3> QED
      BY <1>3, <1>4, <1>6, <2>1, <2>2, <3>1, <3>2, <3>3, <3>4 DEF GrowthPlace
  <2>7. CASE EndSkip
    <3>1. phase' = "loop" /\ fn % 2 = 1
      BY <2>2, <2>4, <2>7 DEF EndSkip
    <3>2. Level(new, m, n, h + 1, fn', sn', fr', sr', todo')
      BY <2>1, <2>4, <2>5, <3>1
    <3> QED
      BY <1>3, <1>4, <1>6, <2>1, <2>2, <3>1, <3>2 DEF GrowthPlace
  <2> QED
    BY <1>14, <2>6, <2>7
<1>15. CASE Finish
  <2>1. phase = "loop" /\ todo = <<>> /\ Decide(IF sn # 0 THEN "reject" ELSE Compare(fr, sr))
    BY <1>15 DEF Finish
  <2>2. m < n
    BY <1>3, <2>1 DEF GrowthPlace
  <2>3. PICK h : Level(new, m, n, h, fn, sn, fr, sr, todo)
    BY <1>3, <2>1 DEF GrowthPlace
  <2>4. sn = 0
    BY <1>5, <2>1, <2>2, <2>3, TodoLeft
  <2>5. fr = RunHash(new, 0, m) /\ sr = RunHash(new, 0, n)
    <3>1. Level(new, m, n, h, fn, 0, fr, sr, todo)
      BY <2>3, <2>4
    <3> QED
      BY <1>5, <2>2, <3>1, TopNode
  <2>6. Compare(fr, sr) = "accept"
    BY <1>5, <2>5 DEF Compare
  <2>7. Decide(Compare(fr, sr))
    BY <2>1, <2>4
  <2> QED
    BY <1>7, <2>6, <2>7
<1>16. CASE TooManyNodes
  <2>1. phase = "loop" /\ sn = 0 /\ todo # <<>>
    BY <1>16 DEF TooManyNodes
  <2>2. m < n
    BY <1>3, <2>1 DEF GrowthPlace
  <2>3. PICK h : Level(new, m, n, h, fn, 0, fr, sr, todo)
    BY <1>3, <2>1 DEF GrowthPlace
  <2>4. todo = <<>>
    BY <1>5, <2>2, <2>3, TopNode
  <2> QED
    BY <2>1, <2>4
<1> QED
  BY <1>8, <1>9, <1>10, <1>11, <1>12, <1>13, <1>14, <1>15, <1>16 DEF ConsistencyNext

(* Every initial state is at a place of the run.                            *)
LEMMA GrowthInitInv == ProofInit => GrowthInv
<1>1. ASSUME ConsistencyRun, HonestProver PROVE GrowthInv
  <2>1. PICK m \in 1 .. MaxSize, n \in 1 .. MaxSize :
            m <= n /\ Histories(m, n) /\ oldSize = m /\ newSize = n /\ todo = ConsistencyPath(m, new)
    BY <1>1 DEF HonestProver
  <2>2. m \in Nat \ {0} /\ n \in Nat \ {0}
    BY SizeBounds
  <2>3. phase = "start" /\ verdict = "none"
    BY <1>1 DEF ConsistencyRun, ConsistencyInit
  <2> QED
    BY <2>1, <2>2, <2>3, GrowthInit DEF GrowthInv
<1>2. ASSUME ConsistencyRun, ForgingProver PROVE GrowthInv
  BY <1>2 DEF ForgingProver, GrowthInv
<1>3. ASSUME InclusionRun PROVE GrowthInv
  BY <1>3 DEF InclusionRun, GrowthInv
<1> QED
  BY <1>1, <1>2, <1>3 DEF ProofInit, ConsistencyRun, ConsistencyInit

(* What an honest log proves is accepted, for lists of any number of        *)
(* entries: the path that consistency_proof builds between any two sizes    *)
(* leads c2sp.py's loops to both roots, and the audit path of each entry    *)
(* rebuilds the root, so no refusal accuses a log that only grew.           *)
THEOREM ProofsAreComplete == ProofSpec => []ProofsComplete
<1>1. ProofInit => InclusionInv /\ GrowthInv
  BY ProofInitInv, GrowthInitInv
<1>2. InclusionInv /\ GrowthInv /\ [ProofNext]_proofVars => InclusionInv' /\ GrowthInv'
  <2> SUFFICES ASSUME InclusionInv, GrowthInv, [ProofNext]_proofVars
               PROVE  InclusionInv' /\ GrowthInv'
    OBVIOUS
  <2>1. CASE ConsistencyNext /\ UNCHANGED inclusionVars
    <3>1. InclusionInv'
      BY <2>1 DEF inclusionVars, InclusionInv
    <3> QED
      BY <2>1, <3>1, GrowthStepInv
  <2>2. CASE UNCHANGED consistencyVars /\ (InclusionNext \/ UNCHANGED inclusionVars)
    <3>1. GrowthInv'
      BY <2>2 DEF consistencyVars, GrowthInv, GrowthSizes, GrowthPlace, Folded
    <3>2. InclusionInv'
      BY <2>2, InclusionStep DEF inclusionVars, InclusionInv
    <3> QED
      BY <3>1, <3>2
  <2> QED
    BY <2>1, <2>2 DEF ProofNext, proofVars
<1>3. InclusionInv /\ GrowthInv => ProofsComplete
  <2>1. GrowthInv => HonestGrowthAccepted
    BY DEF GrowthInv, HonestGrowthAccepted
  <2> QED
    BY <2>1, HonestInclusion DEF ProofsComplete
<1> QED
  BY <1>1, <1>2, <1>3, PTL DEF ProofSpec, proofVars
=============================================================================
