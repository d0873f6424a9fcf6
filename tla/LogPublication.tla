--------------------------- MODULE LogPublication ---------------------------
(***************************************************************************)
(* What the audit log publishes besides its checkpoints: the static file   *)
(* set of tiles.py (AuditChain.static_log_tiles, `export-tiles'), the      *)
(* SCITT receipts the chain issues as a Transparency Service, and what a   *)
(* consumer decides about revoked signers (revocation.py).                 *)
(*                                                                         *)
(* The log grows while it is exported.  The exporter reads the checkpoint  *)
(* and the entries one after the other and then writes one file at a time, *)
(* and may die in between; the directory keeps the files of earlier        *)
(* exports.  Record n of the log is the leaf n and the root of the first n *)
(* records is n, for hashes do not collide; a node is the interval of      *)
(* leaves below it.                                                        *)
(***************************************************************************)
EXTENDS Naturals, Sequences, FiniteSets, Scitt

CONSTANTS
    Width,          \* TILE_WIDTH: entries of a bundle, hashes of a tile
    Keys,           \* signing keys of the log
    NoKey,          \* the signer of an unsigned checkpoint
    Policies,       \* what consumers trust: [keys, witnesses, required]
    MaxRecords,     \* bound: records of the log
    MaxExports,     \* bound: runs of export-tiles
    MaxTampers      \* bound: bundles changed by the host of the files

ASSUME PublicationAssumption ==
    /\ Width \in Nat \ {0, 1}
    /\ {MaxRecords, MaxExports, MaxTampers} \subseteq Nat
    /\ Keys # {} /\ NoKey \notin Keys
    /\ \A policy \in Policies : policy.keys \subseteq Keys /\ policy.required \in Nat

VARIABLES
    signers,        \* signers[n]: the key that signed record n
    registry,       \* SignerRevocationRegistry._entries: key -> seq
    export,         \* the run of export-tiles under way
    dir,            \* the directory: path -> content
    asked,          \* scitt_receipt between its two reads: the index, or 0
    receipt,        \* history: the last SCITT receipt, with its record
    exports, tampers

vars == <<signers, registry, export, dir, asked, receipt, exports, tampers>>
exportVars == <<export, dir, exports, tampers>>
receiptVars == <<asked, receipt>>

Size == Len(signers)
Leaves(n) == [i \in 1 .. n |-> i]
ForeignLeaf == 0

Ceil(n, d) == (n + d - 1) \div d
Least(a, b) == IF a < b THEN a ELSE b

(***************************************************************************)
(* Paths.  A path is its kind, level, index and width; a width of Width is *)
(* the full tile or bundle, whose path has no `.p/' part.                  *)
(***************************************************************************)
CheckpointPath == <<"checkpoint", 0, 0, 0>>

(* The leaves below a full node of a level: a node of level 0 is a leaf.    *)
Power[level \in Nat] == IF level = 0 THEN 1 ELSE Width * Power[level - 1]
Span(level) == Power[level]

(* Fault: nodes that are not complete are left out of the level.            *)
NodeCount_Floor(level, n) == n \div Span(level)

NodeCount(level, n) == Ceil(n, Span(level))

NodeHash(level, index, n) ==
    LET span == Span(level)
    IN [i \in 1 .. (Least(n, (index + 1) * span) - index * span) |-> index * span + i]

(* Levels are built until one has a single node, the root.                  *)
TileLevels(n) == {level \in 0 .. n : NodeCount(level, n) > 1}

TilePaths(n) ==
    UNION {{<<"tile", level, t, Least(Width, NodeCount(level, n) - t * Width)>> :
                t \in 0 .. (Ceil(NodeCount(level, n), Width) - 1)} : level \in TileLevels(n)}

BuildHashTiles(n) ==
    [p \in TilePaths(n) |-> [i \in 1 .. p[4] |-> NodeHash(p[2], p[3] * Width + i - 1, n)]]

(* Fault: a partial bundle is stored under the full bundle's path.          *)
EntryPaths_NoWidth(n) == {<<"entries", 0, t, Width>> : t \in 0 .. (Ceil(n, Width) - 1)}

EntryPaths(n) ==
    {<<"entries", 0, t, Least(Width, n - t * Width)>> : t \in 0 .. (Ceil(n, Width) - 1)}

BuildEntryBundles(n) ==
    [p \in EntryPaths(n) |-> [i \in 1 .. Least(p[4], n - p[3] * Width) |-> p[3] * Width + i]]

(* static_log: tiles, bundles, and the checkpoint as its root.              *)
StaticLog(n, checkpoint) ==
    [p \in TilePaths(n) \cup EntryPaths(n) \cup {CheckpointPath} |->
        CASE p[1] = "tile" -> BuildHashTiles(n)[p]
          [] p[1] = "entries" -> BuildEntryBundles(n)[p]
          [] OTHER -> checkpoint]

(* The order in which static_log puts files into its dict.                  *)
Rank(p) == CASE p[1] = "tile" -> 1 [] p[1] = "entries" -> 2 [] OTHER -> 3
WrittenBefore(p, q) ==
    \/ Rank(p) < Rank(q)
    \/ Rank(p) = Rank(q) /\ (p[2] < q[2] \/ (p[2] = q[2] /\ p[3] < q[3]))

(***************************************************************************)
(* Reading a directory.  entries_from_static_log concatenates every bundle *)
(* by index; bundles of one index keep the order of the directory listing, *)
(* which can be any.                                                       *)
(***************************************************************************)
BundlePaths(files) == {p \in DOMAIN files : p[1] = "entries"}

BundleOrders(files) ==
    {ps \in SetToSeqs(BundlePaths(files)) :
        \A i, j \in DOMAIN ps : i < j => ps[i][3] <= ps[j][3]}

EntriesFromStaticLog(files, order) == FlattenSeq([i \in DOMAIN order |-> files[order[i]]])

(* Fault: the leaf is looked for and the root is not compared.              *)
VerifyLeafInStaticLog_NoRoot(files, leaf, order) ==
    /\ CheckpointPath \in DOMAIN files
    /\ \E i \in DOMAIN EntriesFromStaticLog(files, order) :
          EntriesFromStaticLog(files, order)[i] = leaf

VerifyLeafInStaticLog(files, leaf, order) ==
    LET entries == EntriesFromStaticLog(files, order)
    IN  /\ CheckpointPath \in DOMAIN files
        /\ \E i \in DOMAIN entries : entries[i] = leaf
        /\ entries = Leaves(files[CheckpointPath])

(***************************************************************************)
(* Revocation.                                                             *)
(***************************************************************************)
IsRevokedAtSeq(key, seq) == key \in DOMAIN registry /\ seq >= registry[key]

(* Fault: the count is taken for the index of the last record.              *)
CheckpointRevoked_LastIndex(key, count) == IsRevokedAtSeq(key, count - 1)

CheckpointRevoked(key, count) == IsRevokedAtSeq(key, count)

(* verify_signatures: a record is rejected for its signer.                  *)
RecordRejected(n) == IsRevokedAtSeq(signers[n], n)

(* A portable checkpoint names its signer; its signature may be one over    *)
(* another core.  Co-signatures are those that verify.                      *)
Checkpoints(policy) ==
    [count : 1 .. Size, signer : Keys \cup {NoKey}, valid : BOOLEAN,
     cosigners : {{}, policy.witnesses}]

SignedCheckpointIssues(cp, policy) ==
    IF cp.signer = NoKey THEN {"unsigned"}
    ELSE IF ~cp.valid THEN {"invalid"}
    ELSE IF cp.signer \notin policy.keys THEN {"untrusted"} ELSE {}

(* A consumer that has configured no log key checks neither revocation nor  *)
(* the quorum of witnesses.                                                 *)
CheckpointTrustIssues(cp, policy) ==
    IF policy.keys = {} THEN {}
    ELSE SignedCheckpointIssues(cp, policy)
         \cup (IF CheckpointRevoked(cp.signer, cp.count) THEN {"revoked"} ELSE {})
         \cup (IF Cardinality(cp.cosigners \cap policy.witnesses) < policy.required
               THEN {"quorum"} ELSE {})

RevokedAt(key, at) ==
    IF key \in DOMAIN registry THEN Least(registry[key], at) ELSE at

Revoke(key, at) ==
    /\ registry' = Put(registry, key, RevokedAt(key, at))
    /\ UNCHANGED <<signers, exportVars, receiptVars>>

(***************************************************************************)
(* The log: an append through a chain opened with the given signing key.   *)
(***************************************************************************)
AppendRecord(key) ==
    /\ Size < MaxRecords
    /\ signers' = Append(signers, key)
    /\ UNCHANGED <<registry, exportVars, receiptVars>>

(***************************************************************************)
(* export-tiles: checkpoint, entries, then the files.                      *)
(***************************************************************************)
NoExport == [pc |-> "idle"]
NoReceipt == [record |-> 0]

ExportCheckpoint ==
    /\ export.pc = "idle" /\ exports < MaxExports
    /\ exports' = exports + 1
    /\ export' = [pc |-> "entries", checkpoint |-> Size, clean |-> dir = <<>>]
    /\ UNCHANGED <<signers, registry, dir, tampers, receiptVars>>

ExportEntries ==
    /\ export.pc = "entries"
    /\ export' = [pc |-> "write", checkpoint |-> export.checkpoint, clean |-> export.clean,
                  files |-> StaticLog(Size, export.checkpoint), size |-> Size,
                  todo |-> DOMAIN StaticLog(Size, export.checkpoint)]
    /\ UNCHANGED <<signers, registry, dir, exports, tampers, receiptVars>>

WriteFile ==
    /\ export.pc = "write"
    /\ \E p \in export.todo :
          /\ \A q \in export.todo \ {p} : WrittenBefore(p, q)
          /\ dir' = Put(dir, p, export.files[p])
          /\ export' = [export EXCEPT !.todo = @ \ {p},
                                      !.pc = IF export.todo = {p} THEN "done" ELSE "write"]
    /\ UNCHANGED <<signers, registry, exports, tampers, receiptVars>>

(* The next run starts, or the exporter's process dies.                     *)
ExportEnds ==
    /\ export.pc # "idle"
    /\ export' = NoExport
    /\ UNCHANGED <<signers, registry, dir, exports, tampers, receiptVars>>

(* The host of the files is not trusted: it can change a bundle.            *)
TamperBundle ==
    /\ tampers < MaxTampers
    /\ tampers' = tampers + 1
    /\ \E p \in BundlePaths(dir) : \E i \in DOMAIN dir[p] :
          dir' = [dir EXCEPT ![p][i] = ForeignLeaf]
    /\ UNCHANGED <<signers, registry, export, exports, receiptVars>>

(***************************************************************************)
(* AuditChain.scitt_receipt: the index of the record in one read of the    *)
(* log, the entries in another.                                            *)
(***************************************************************************)
ReceiptIndex(n) ==
    /\ asked = 0
    /\ asked' = n
    /\ receipt' = NoReceipt
    /\ UNCHANGED <<signers, registry, exportVars>>

LeafIndex(n) == n - 1

ReceiptEntries(key) ==
    /\ asked # 0
    /\ receipt' = [record |-> asked, key |-> key,
                   cose |-> IssueInclusionReceipt(Leaves(Size), LeafIndex(asked), key)]
    /\ asked' = 0
    /\ UNCHANGED <<signers, registry, exportVars>>

Init ==
    /\ signers = <<>>
    /\ registry = <<>>
    /\ export = NoExport
    /\ dir = <<>>
    /\ asked = 0
    /\ receipt = NoReceipt
    /\ exports = 0 /\ tampers = 0

Next ==
    \/ \E k \in Keys : AppendRecord(k)
    \/ \E k \in Keys, n \in 1 .. MaxRecords : Revoke(k, n)
    \/ ExportCheckpoint \/ ExportEntries \/ WriteFile \/ ExportEnds
    \/ TamperBundle
    \/ \E n \in 1 .. Size : ReceiptIndex(n)
    \/ \E k \in Keys : ReceiptEntries(k)

Spec == Init /\ [][Next]_vars

-----------------------------------------------------------------------------
(* The types of the log, the registry, the directory and the exporter.      *)
TypeOK ==
    /\ signers \in Seq(Keys) /\ Size <= MaxRecords
    /\ DOMAIN registry \subseteq Keys
    /\ \A k \in DOMAIN registry : registry[k] \in 1 .. MaxRecords
    /\ export.pc \in {"idle", "entries", "write", "done"}
    /\ \A p \in DOMAIN dir : /\ p[1] \in {"tile", "entries"} \/ p = CheckpointPath
                             /\ p[1] = "entries" => p[4] \in 1 .. Width
    /\ asked \in 0 .. Size

(* A leaf a monitor finds in the files is a record of the log, among those  *)
(* the checkpoint commits to: while the files are being written, after an   *)
(* export that died, over the files of earlier exports, with an append      *)
(* between the exporter's reads, and whatever the host did to a bundle.     *)
MonitorSound ==
    \A order \in BundleOrders(dir) : \A leaf \in 0 .. MaxRecords :
        VerifyLeafInStaticLog(dir, leaf, order) =>
            leaf \in 1 .. dir[CheckpointPath] /\ dir[CheckpointPath] <= Size

(* A finished export into an empty directory, with no append between its    *)
(* two reads, lets a monitor verify every record it covers (`export-tiles', *)
(* `verify-tiles').                                                         *)
CleanExportVerifies ==
    (export.pc = "done" /\ export.clean /\ export.size = export.checkpoint /\ tampers = 0) =>
        \A order \in BundleOrders(dir) : \A leaf \in 1 .. export.size :
            VerifyLeafInStaticLog(dir, leaf, order)

(* The hash tiles of a finished export rebuild the root of the log: every   *)
(* level covers the log, the lowest with single leaves, each node of a level*)
(* is made of at most Width nodes below it, and the highest level is one    *)
(* tile (tiles.py:18 "tiles reconstruct the checkpoint root").              *)
LevelTiles(files, level) == {p \in DOMAIN files : p[1] = "tile" /\ p[2] = level}
TileAt(files, level, t) == CHOOSE p \in LevelTiles(files, level) : p[3] = t
LevelNodes(files, level) ==
    FlattenSeq([i \in 1 .. Cardinality(LevelTiles(files, level)) |->
                   files[TileAt(files, level, i - 1)]])
MadeOf(node, below) ==
    \E a, b \in DOMAIN below : b - a < Width /\ node = FlattenSeq(SubSeq(below, a, b))
TilesRebuildRoot ==
    export.pc = "done" =>
        LET levels == {p[2] : p \in {p \in DOMAIN export.files : p[1] = "tile"}}
            nodes(level) == LevelNodes(export.files, level)
        IN \A level \in levels :
              /\ FlattenSeq(nodes(level)) = Leaves(export.size)
              /\ \A i \in DOMAIN nodes(level) :
                    IF level = 0 THEN Len(nodes(level)[i]) = 1
                    ELSE MadeOf(nodes(level)[i], nodes(level - 1))
              /\ level + 1 \in levels \/ Len(nodes(level)) <= Width

(* Entry bundles and the tiles of leaf hashes can be cached for ever: an    *)
(* export never changes the content of a path it or an earlier one wrote.   *)
BundlesImmutable ==
    [][tampers' = tampers => \A p \in DOMAIN dir :
          (p[1] = "entries" /\ tampers = 0) \/ (p[1] = "tile" /\ p[2] = 0) => dir'[p] = dir[p]]_vars

(* What a consumer rejects for a revoked signer it rejects for ever: later  *)
(* revocations of the same key only widen what is rejected (revoke keeps    *)
(* the earliest sequence number).                                           *)
RevocationOnlyWidens ==
    [][\A k \in Keys, n \in 1 .. MaxRecords : IsRevokedAtSeq(k, n) => IsRevokedAtSeq(k, n)']_vars

(* The checks of checkpoints and of records agree: a checkpoint that a      *)
(* consumer with a key of the log accepts is signed by one of its keys, and *)
(* covers no record by the same signer that verify_signatures rejects       *)
(* (checkpoint_trust_issues, checkpoint_revocation_issues).                 *)
AcceptedCoversNoRevoked ==
    \A policy \in {p \in Policies : p.keys # {}} :
        \A cp \in Checkpoints(policy) : CheckpointTrustIssues(cp, policy) = {} =>
            /\ cp.signer \in policy.keys
            /\ \A n \in 1 .. cp.count : signers[n] = cp.signer => ~RecordRejected(n)

(* A receipt the chain issues verifies for its record and for no other, also*)
(* when the log grew between the read of the index and that of the entries. *)
ChainReceiptBinds ==
    receipt.record # 0 => \A leaf \in 0 .. MaxRecords :
        VerifyReceipt(leaf, receipt.cose, receipt.key) <=> leaf = receipt.record

(* The files and registry are well formed, and what third parties verify -  *)
(* a leaf in the files, a receipt of the chain - is what was logged.        *)
VerifiedIsLogged == TypeOK /\ MonitorSound /\ ChainReceiptBinds

(* A finished export serves its readers: who looks up a leaf and who        *)
(* rebuilds the root (verify_leaf_in_static_log, tiles.py:18).              *)
ExportVerifies == CleanExportVerifies /\ TilesRebuildRoot

(* What a consumer has been told stays: neither a later export nor a later  *)
(* revocation changes the answer it got.                                    *)
NothingTakenBack == BundlesImmutable /\ RevocationOnlyWidens
=============================================================================
