# TLA+ models of Clay Seal Receipts

Clay Seal Receipts mediates the tool calls of AI agents: a call is checked
against a policy, a governor and budgets, executed or refused, and recorded in a
hash-chained log whose checkpoints are signed, witnessed and published; the
record of a call leaves the system as a signed receipt bundle that somebody who
does not trust the operator can verify later, register with a transparency
service, and demand before merging a pull request. This directory holds TLA+
models of the parts that promise this, TLC runs on small instances, and TLAPS
proofs for every instance. All paths are relative to the repository root
(`src/` in `PROJECT.json`).

    tlc -workers 2 -config MCGateway_calls.cfg MCGateway
    tlapm GatewayProofs.tla

`PROJECT.json` maps every definition to the lines it models and lists the runs,
hazards, findings, theorems and, for every checked property, a mutation of the
code's model that violates it. A mutation is an operator named after what it
changes, with a comment that starts with "Fault:", next to what it mutates.

## 1. Inventory

| Component | State | Operations | Hard part | Correct when |
|---|---|---|---|---|
| Audit chain, `audit.py` | SQLite table, one connection and RLock per process | `append`, `signed_checkpoint`, `c2sp_checkpoint`, inclusion and consistency proofs, `verify_*` | threads and processes on one file; every SQL statement can raise; crashes; publishers that read several times | the chain never forks, an acknowledged record stays, a published root was a state of the log |
| Merkle proofs, `c2sp.py`, `scitt.py` | none (a loop over proof nodes) | root, inclusion path, consistency path, both verifiers | sizes that are no power of two; claimed sizes that nobody signed | honest proofs are accepted, accepted proofs are true |
| Witnesses, `witness.py` | `_last_seen` per witness | `cosign`, restart, quorum count of the consumer | forks shown to different witnesses in any order; memory lost in a restart | two checkpoints with a quorum lie on one history |
| Log publication, `tiles.py`, `revocation.py` | files of a static log; thresholds per key | export, monitor's verification, SCITT receipts of the chain, `revoke`, consumer's trust policy | export over a growing log and over older files; exporter dies between files | a monitor verifies only what is logged; accepted checkpoints cover nothing revoked |
| Sandbox governor, `sandbox_governor.py`, `permit.py` | none (a function of the context) | `decide`, permit issue and verification, authority patch | order of checks; leases charged and renewed by the decision itself | a monitor only tightens; a permit is for this call |
| MCP gateway, `mcp.py` | authority, budgets, used commit tokens, tool pins | `call_tool`, `call_tool_async`, `register_tool`, `revoke_permits`, `renew_lease` | concurrent calls between check and effect; snapshot written back; several budgets of which one denies | no effect without permission, none beyond a budget, one per token, receipts that are true |
| Governor chain, guards and monitors, `sandbox_builder.py`, `protected_zone_governor.py`, `tighten_policy.py`, `*_monitor.py`, `egress.py`, ... | approvals, tighten mode, windows of past attempts | approve, tighten, observe, decide | windows updated by refused attempts; calls in flight while the mode changes | loops and new areas are stopped, protected writes are approved, tightened sessions read only |
| Agent wrapper, `wrapper.py`, `policy_engine.py` | action monitor, chain | `record`, `run` | output withheld and policy evaluated again; outcome from four sources | an allowing receipt is about an allowed, executed action |
| Receipts, `export.py`, `receipt_schema.py`, `evidence.py`, `assurance.py`, `core/signing.py` | none (a document) | build, sign, co-sign, export, redact, verify | some fifty leaves in a dozen shapes, each bound by a different check; verification at any later time | every change is noticed, what is accepted is signed and names the vouched-for subject |
| Delegations and mandates, `core/delegation.py`, `core/mandate.py` | token objects, envelopes, mandates | issue, sign, verify, check at the gateway and in the receipt | token objects that anyone holding them can change | rights only shrink along a chain; honest chains work |
| Pull-request gate, `structural_invariants.py`, `cross_session.py`, `receipt_chain.py`, `merge_binding.py`, `demo/agentauth_gate.py`, `scripts/agentauth_merge_check.py` | receipts written so far | evaluate, link, check before merging | branches pushed, stacked and merged while a receipt waits; poison planted in one session and executed in another | merges stay in scope, keep the guard and execute no poison; clean work stays mergeable |
| Transparency service and client, `verifier_server.py`, `verifier_auth.py`, `scitt.py`, `scrapi.py` | log, index and hits per process | register, resolve, consistency receipts, `publish_signed_statement` | lost answers and retries, restarts, replicas, rate limit windows, polling | one entry per statement, receipts that stay verifiable, one history, publishing ends |

How they interact: a caller of `call_tool` gets the gateway's static checks, a
snapshot of the authority, the governor's decision on it (through the chain of
governors when the gateway was built by `build_sandboxed_gateway`), budget
reservations, the handler, and a receipt through `AgentWrapper.record`, which
appends to the audit chain. The chain's publishers sign checkpoints over the
Merkle root; witnesses co-sign a checkpoint after checking a consistency proof
against the one they signed last; a consumer counts co-signatures of witnesses
it trusts and looks up revocations; monitors read the exported tiles. A bundle
is assembled from the record and from proofs read from the growing log. It can
be registered as a signed statement with a transparency service. Pull-request
gates write receipts of their own, which later gate runs and the merge check
read.

`PROJECT.json` lists every component, with those that are not modelled and why.

## 2. Modules

    AppendOnlyLog <--(implements)-- AuditChain  <- AuditChainProofs, MCAuditChain
    Merkle <- ConsistencyVerifier, InclusionVerifier <- MCMerkle (both) <- AuditChainProofs
    Witness <- MCWitness, AuditChainProofs
    Governor, Recorder <- Gateway <- GatewayProofs, MCGateway
    Governor <- GovernorChain ----+
    Monitors <- PolicyChecks -----+-> SandboxSession <- SandboxSessionProofs, MCSandboxSession
    ReceiptFormat <- ReceiptVerifier <- Receipts <- ReceiptsProofs, MCReceipts
    Delegation, Mandates <- Authority <- AuthorityProofs, MCAuthority
    PrGate <- RepoGate <- RepoGateProofs, MCRepoGate
    Scitt <- Scrapi <- ScrapiProofs, MCScrapi
          <- LogPublication <- LogPublicationProofs, MCLogPublication

In every module a hash is the data it was computed from (no collisions) and a
signature carries its key (nobody signs without it). A pattern, glob or regular
expression is the set of things it matches.

**AppendOnlyLog** is what `AuditChain` promises: one log, extended by a record
linked to its tip, and acknowledgements that name records it holds.

**AuditChain** has one step per SQL statement. `rows` are the committed rows,
`tx[r]` the write transaction of process `r`'s connection, `lock[r]` its RLock.
`Enter`, `BeginImmediate`, `ReadTip`, `Insert`, `Commit`, `Return` are `append`;
`BeginRaises`, `InsertRaises`, `CommitRaises` its three exception paths, of which
only the second rolls back. A thread reads through its connection, hence sees its
process's uncommitted row (`View`). `CheckpointCount/Tip/Root`, `C2spRoot/Len`
and `InclusionLeaves/Entries` are the separate reads of the publishers; a reader
waits for the RLock except for `_tip_hash`, which takes none. `Crash` drops the
open transaction, `Open` restarts. A Merkle root is the list it commits to.

**Merkle** has the tree functions as recursive functions over hash terms: where
the code slices a list and recurs, the function's argument names the slice, `w`
entries after the first `i`.
**ConsistencyVerifier** runs `rfc6962_consistency_roots` one loop iteration per
step, against the honest prover and against a prover that picks each node among
all hashes of both trees and claims any sizes. **InclusionVerifier** does the
same for `verify_inclusion` and for COSE receipts (`scitt.verify_receipt`), whose
size is not signed. A behaviour of **MCMerkle** is a run of either. (The names of
these modules and of `Witness` differ from the other modules' `Init`, `Next`, `Spec`,
so that one module of proofs can extend them all.)

**Witness**: the log may show any checkpoint it can sign to any witness in any
order; `Cosign` is `Witness.cosign`, `SignAnything` the unsafe primitive
`add_witness_cosignature` in the hands of a faulty witness, `Restart` loses
`_last_seen`. `VerifyConsistency` is `audit.verify_consistency`: the sizes of the
proof are the counts of the two checkpoints, which for a torn checkpoint are not
those of its root, and the verifier of the previous paragraph accepts, which means
prefix.

**Governor** is `RuleBasedSandboxGovernor.decide` as a function: `Checks` lists
its checks in order, each failing one overwriting the enforcement of those
before it; `Advised` is the monitor's recommendation, `Patched` the lease renewal
and charge, `IssuePermit`/`VerifyPermit` the permit. **Recorder** is the decision
logic of `AgentWrapper.record`.

**Gateway** composes them: threads run calls (`Begin`, `Govern`, `Reserve` once
per budget, `Release` or `Consume`, `Run`, `Report` or `Refuse`, and the
exceptions `HandlerRaises`, `ReportRaises`), the operator revokes permits and
renews the lease, the clock ticks. A call's locals hold the authority snapshot
taken in `Begin`; `Govern` writes the patched snapshot back over the shared
authority. The checks that depend only on the tool and arguments (capability,
delegation, egress, ...) are a set of failures carried by the request; the next
modules open them up. The budgets and the store of used tokens belong to the
capabilities package, which is not in this repository; each of their operations
is atomic. A commit-token argument that is not a dict is neither missing nor
verified in `_apply_sandbox_governor`; the model has it as a third kind of value,
which the proofs cover and the runs' requests leave out.

**SandboxSession** is one agent session behind the stack that
`build_sandboxed_gateway` wires, on an asyncio loop. `Attempt` is everything
`call_tool_async` does before it awaits the handler (`Started` or `Refused`),
`Complete` and `HandlerRaises` what follows the await; several calls may be in
flight. **Monitors** has the loop, drift, scanning, novelty and composite
monitors with their windows, the HTTP sidecar (any answer of a set, or none), the
action monitor's heuristic and canary scores. **PolicyChecks** is
`pre_execution_violations` with the egress, credential, artifact, task scope and
governed-runtime guards and the whole of `_authority_violations`.
**GovernorChain** wraps `Governor` in the default-deny, protected-zone and
tightening governors. The operator registers tools (and thereby pins), approves
resources and boundaries, switches tighten mode, revokes and renews.

**Receipts** follows a receipt: `Record`, other records appended meanwhile,
`ReadInclusion`, `Assemble`, `Gate` (the gate signs the bundle), `ToolCosigns`,
`Export` for an audience, and then changes by somebody without the keys: each
leaf, each section swapped with another receipt's or dropped, each hash
recomputed over changed content, signatures replaced. **ReceiptFormat** is
`build_receipt_bundle` and the exports over named leaves; **ReceiptVerifier** is
`verify_receipt_bundle`, one operator per check, with the assurance tiers, the
trusted signers and the SCITT section.

**Authority**: **Delegation** has capabilities, issuing, envelopes and the
gateway's check; **Mandates** issuing, verification against the parent and
against a receipt's spending. Token objects are unprotected in memory, so
`Edited` lets whoever holds one widen or cut it before passing it on.

**PrGate** has the two evaluators (`Outcome`, sets of reason and flag codes), the
session links of receipts (`ChainLinks`, `LinkReceiptChain`, `ChainIssues`) and
the merge check's blocking codes; **RepoGate** the repository around them: `Push`,
`Load` (evidence, prior receipts and snapshots are read), `Conclude` (the receipt
is written, in a later step), `CoSign`, `Merge`. The merge itself is git's and
external: `ThreeWay` follows the renames of either side and merges each file line
by line, so that two branches that change one file both merge; where git reports a
conflict the merge is not made. A file's content is a set of lines, of which
`Guards` are those that a guard pattern finds.

**Scitt** has statements, receipts and their verification; **Scrapi** the server:
`Post` is the request up to the await of its body (API key, rate limit, writer
check), `Register` the rest; `Disconnect` loses an answer; `Resolve` and
`VerifyCall` are the other routes; `PublishExternal`, `Poll` the client's loop
against an external service; `TakeAnchor`, `FollowLog` a relying party that asks
for consistency receipts; `Restart` empties a process.

**LogPublication**: `ExportCheckpoint`, `ExportEntries`, `WriteFile`, `ExportEnds`
(or dies) write a static log into one directory, repeatedly; `TamperBundle`
changes a file; `Revoke` and `AppendRecord` run meanwhile. `CheckpointTrustIssues`
and `RecordRejected` are the consumer's checks.

## 3. Runs

| Run | Result | Instance | Shows |
|---|---|---|---|
| `audit_appends` | pass | 3 threads in 2 processes, 3 rows, 1 crash, 1 failed commit | no fork in any view, durable acknowledgements, refinement of `AppendOnlyLog`; each COMMIT stores its own row; the write lock is given back, unless a COMMIT that raised left its transaction open |
| `audit_publish` | pass | the same threads, 2 rows, 1 artifact, 1 crash, commits succeed | published roots are history; count and root differ only in read order |
| `merkle_proofs` | pass | all sizes up to 17 honest, up to 5 forged; inclusion in up to 4 entries with 3 nodes | honest growth and inclusion accepted, no rewrite accepted, inclusion proves position, or membership for COSE receipts; the loops end |
| `witness_forks` | pass | 3 witnesses, one faulty, one restart, a forking log with torn checkpoints | no quorum for both branches, a steady witness stays on one history |
| `log_publication` | pass | a log growing from empty to 3 records in bundles of 2, 2 exports, 1 changed bundle, 2 keys, 2 trust policies | what a monitor verifies is logged, a clean export verifies, tiles rebuild the root, bundles and leaf tiles never change, revocation only widens and accepted checkpoints cover nothing revoked |
| `gateway_calls` | pass | 2 concurrent calls of 8 kinds, bounded_auto and shadow, 2 operator events | budgets hold, nothing leaks, one effect per token, denied calls have none, allowing receipts are true |
| `gateway_revoked` | violation | 2 calls, a renewal, a revocation | a call in flight undoes a revocation |
| `sandbox_session` | pass | 3 attempts of 5 kinds, 2 in flight, 2 operator events, 3 advisors, 2 tighten settings | loops and first accesses outside the area are noticed, protected writes approved, tightened sessions start no write, pinned tools stay usable, expired leases stay expired, the authority version only grows across awaits |
| `receipts_tamper` | pass | 10 shapes, 2 records, 1 tick, 1 change | each single change of each leaf is noticed, accepted receipts are signed, an assurance floor binds the identity, a verdict is stable in time |
| `authority` | pass | 3 grants, 2 operations, 10 mandate terms, 2 instants | attenuation against forged and edited tokens, honest chains accepted, children within the mandate's parent |
| `repo_gate` | pass | 2 branches, 4 files, 5 edits, 5 commits of which the last is a merge, 2 receipts | merges stay within scope and keep the guard, but for what main itself moved or dropped since; no poison executed, clean receipts stay mergeable, links between receipts verify |
| `scrapi` | pass | 4 deployments, 3 posts, 1 restart, 3 ticks | one entry per statement, receipts bind it and outlive a restart under a pinned key, one history per writer, rate bound, no false alarm, publishing ends |

The violation run states what a document or docstring of the repository says;
`PROJECT.json` quotes it next to the line that disagrees.

A checked property is often a conjunction of named parts, each with its own
comment: `PublishedFromHistory` (`PublishedRootIsHistory`, `CountRootOrder`),
`BudgetsBalance` (`EffectsWithinBudget`, `NoLeakedReservation`), `AcceptedIsVouchedFor`
(`AcceptedIsSigned`, `FloorBindsIdentity`), `StoppedInTime` (`LoopIsStopped`,
`NoveltyIsFlagged`, `TightenedOnlyReads`), `AuthorityMovesForward`
(`ExpiredStaysExpired`, `VersionsOnlyGrow`), `DelegationsUsable`
(`HonestChainAccepted`), `LinksVerify` (`ChainVerifies`), `LogAndIndexAgree`
(`OneEntryPerStatement`, `HonestLogNoAlarm`), `ReceiptsVerify`
(`ReceiptsStayVerifiable`, `TransparentVerifies`), `VerifiedIsLogged`
(`MonitorSound`, `ChainReceiptBinds`), `ExportVerifies` (`CleanExportVerifies`,
`TilesRebuildRoot`), `NothingTakenBack` (`BundlesImmutable`,
`RevocationOnlyWidens`). Where a newer module has
a `TypeOK`, it is one more conjunct of its first property; the type invariants of
`AuditChain`, `Gateway` and `Witness` are theorems of their own.

**Bounds.**

- `AuditChain`: a fork needs two writers and a reader of the same tip; a third
  thread adds one that shares a connection with a writer, so that both kinds of
  concurrency and their mix occur, and three rows let one replica's append fall
  before, between and after another's. One artifact is enough for the publishing
  properties, which speak of one artifact at a time.
- `Merkle`: size 17 passes the powers of two 2, 4, 8 and 16 with all their
  neighbours; forged proofs of trees up to 5 leaves reach depth 3 on either side
  of a power of two.
- `Witness`: two checkpoints on two branches, an extension of one, and two torn
  cores are what a fork needs to be laundered.
- `LogPublication`: with bundles and tiles of 2 (`TILE_WIDTH` is 256) three
  records have a full bundle, a partial one and two levels; a second export over
  the first meets grown, unchanged and partial files. Revocations of two
  keys from any record on meet checkpoints of every count below and above.
- `Gateway`: every property relates at most two calls, or one call and an operator
  event; limits are set so that either call fits alone and not every pair does, a
  token is presented by two calls, and a lease is granted for one call.
- `SandboxSession`: the windows are scaled down to two and three attempts, so that
  three attempts fill them and slide them; at most four attempts and events in
  all (`MaxSteps`). `honor_monitor` is off in the run, so that a monitor's answer
  reaches the tightening governor, and on in the builder; the theorems cover both.
- `Receipts`: a shape is a set of options and each check reads a few of them; the
  ten shapes put every option next to the ones whose checks meet it. One change
  is what the detection property is about, and it may be one followed by rehashing;
  that no number of changes makes a receipt acceptable is the theorem
  `AcceptedVouchedFor`.
- `Authority`: three grants give a chain of three, or a chain of two beside a
  mandate.
- `RepoGate`: two receipts, four commits by pushes (`MaxPushed`) and a fifth by a
  merge (`MaxCommits`) let a branch be evaluated, the base move by the other
  branch's merge, and the branch be merged; or one session plant and another
  execute. The edits include dropping one of two guard lines on each branch,
  moving the guarded file with and without its guard, and a denied file.
- `Scrapi`: a window of two ticks with a limit of two shows both sides of the
  window's edge in three ticks; three posts fill a limit and retry.

Deadlock is not checked where bounded calls simply end, which is everywhere here.

**Fairness.** `AuditChain` assumes weak fairness of each thread inside `append`
(the interpreter and the operating system do not suspend a thread for ever; each
statement returns or raises, BEGIN within SQLite's busy timeout) and of `Open` (a
supervisor restarts a dead process). No fairness is assumed of entering `append`,
of readers, of crashes or of commits succeeding. `ConsistencyVerifier` is a
sequential loop and has weak fairness of its next step. `Scrapi` assumes that
time advances (`Tick`), that a client in its polling loop runs, and that a posted
request is answered or the connection drops (the client's httpx timeout turns
silence into an exception; it is per read, so a service that trickles its answer
byte by byte is outside the assumption); nothing is assumed of what an external
service answers. The other modules have safety properties only.

## 4. Proofs

Every theorem holds for all values of the constants that satisfy the named
assumptions of the modules. They assume types and finiteness (the threads of a
gateway, the servers of a deployment), that a placeholder is not a real value
(`None`, `NoKey`), and never the sizes of the runs; the MC modules evaluate them.
Each module's theorems rest on one inductive invariant, which TLC checked on the
instance of the run before it was proved.

`AuditChainProofs`
- `TypeCorrect`, `NoFork`, `AckedDurable`, `Refinement`. That the chain does not
  fork is not inductive: it needs that a thread in `append` owns the RLock
  (`LockInv`); that at most one connection has a transaction, and that a thread
  between BEGIN and COMMIT has it with nothing pending before its insert
  (`TxInv`); that a pending row links to the committed tip (`PendingLinks`, also
  for the row a failed commit left behind); and that the tip, hash and seq in a
  thread's locals are still current (`LocalsInv`). `IInv` is their conjunction.
  Refinement follows step by step: `Commit` is `Extend`, `Return` is
  `Acknowledge`, all else stutters.
- `PublishedIsHistory`: while no COMMIT has failed on a connection that stays in
  use (`badCommits = 0`, see section 5), whatever was published is of a prefix of
  the committed rows. `HistoryInv` says why: a pending row belongs to a thread
  that has the RLock (`PendingOwned`), a publisher reads under that lock and hence
  committed rows only, and the count or root in its locals is one of a prefix
  (`ReadInv`), which it stays because rows are never taken away (`RootKept`).
- `CommitStoresOwnRow`: a COMMIT stores one row, that of the append that runs it. A
  row left behind by a COMMIT that raised is never stored by a later one, since
  with the transaction open every later BEGIN on the connection raises.
- `HonestLogConsistent`, likewise while `badCommits = 0`: shown two published
  checkpoints with the log's own proof for their counts, `verify_consistency`
  accepts if and only if neither is torn, that is, if the count of each is the
  length of its root. So the log's growth is never refused, and neither is anything
  else but the torn checkpoints that section 5 reports.
- `SteadyLinear`: everything a witness that never restarts has signed lies below
  its last checkpoint, by transitivity of prefix.
- `NoForkedQuorum`: with N witnesses, F of them faulty, at most R ever restarted
  and a quorum K with 2K > N + F + R, two accepted checkpoints share a steady
  signer, so they lie on one history. With less the claim is false: of three
  witnesses of which one is faulty, a quorum of two can be had for both branches
  from one correct witness each and the faulty one.
- `ProofsAreSound`, `ProofsAreComplete`: what `AuditChain`, `Witness` and `Scitt`
  take for granted of a Merkle proof, that it is accepted if and only if the one
  list is a prefix of the other or the entry is in the list, holds of the
  verifiers' loops for trees of any size and any nodes.
  - The functions of `Merkle` are unfolded first: `DoubledIs`, `HashesIs`,
    `SiblingsIs`, `ReconIs`, `SubProofIs` show that a function defined by recursion
    on a number satisfies its equation, by building its restriction to each initial
    segment (`NumberInduction`, from the well-foundedness of `<`).
  - A run is `w` entries after the first `i`. Equal hashes are of equal runs, also
    of different lists and lengths, because leaf and node hashes are domain
    separated (`SameHashSameRun`), and conversely (`SameRunSameHash`).
  - Inclusion: what is rebuilt from a path is a run's hash only if the leaf is the
    hash of an entry of it, at the claimed index when the size is right
    (`PathShowsMember`, `PathShowsPosition`); the honest path rebuilds the run's
    hash (`HonestPathRebuilds`).
  - Soundness of the consistency loop: for any runs whose hashes `fr` and `sr` are,
    the old run is the beginning of the new one (`KeepsRun`). Both start as the same
    hash; a left node goes in front of both, a right one behind `sr` only. This
    needs nothing of `fn` and `sn`, hence no honest sizes.
  - Completeness: at every level `h` of the tree over the new list the verifier
    stands at the node, `Doubled[h]` entries wide or less, in which the old entries
    end (`AtNode`), and what is left of the path is what `_subproof` adds from
    there to the root (`Level`). `Climb` shows that the path has that form from
    every such node; `LevelUp` takes the verifier to the parent by one node of the
    path, or none when the last node of a level has no sibling; `Seeded` says where
    stripping the ones of `old_size - 1` ends, which is at the old root itself
    exactly when the size is a power of two (`OddPart`); at the top nothing is left
    and both roots are rebuilt (`TopNode`, `TodoLeft`).

`GatewayProofs`
- `TypeCorrect`; `DeniedNoEffect` from `ScreenInv` (a failed check is remembered
  from `Begin` to `Govern`, and only cleared requests pass the gate);
  `TokenOneEffect` from `TokenInv` (a redeemed token is in the store and belongs
  to one call, in flight or executed); `AllowTruthful` from `TruthInv` (a call
  that reports has run).
- `BudgetsBalanced` from `BudgetInv`. Its two parts: a thread at the gate has gone
  through the budgets in their order and holds every one of them unless one was
  denied (`GateInv`); and per budget, what ran plus what is charged to handlers
  about to run is at most what was consumed, used is consumed plus held, and used
  fits (`LedgerInv`). The sums are the community modules' `SumFunction`, a fold;
  the lemmas from `SumIsChosen` to `SumExtend` derive from its definition that it
  does not depend on the order of its terms and that changing one term changes the
  sum by the difference.
- All hold for any rules, requests, budgets, number of threads and with the
  reservation hook, which `gateway_calls` leaves out.

`ScrapiProofs`, from `ScrapiInv`
- The lemmas about `Scitt` come first: the receipt a log issues verifies for exactly
  the entry at its index and exactly its own key (`InclusionReceiptBinds`, which
  `LogPublicationProofs` repeats because no module can extend both), and of two
  prefixes of one log one extends the other.
- `LogAndIndexAgreeHolds`: a replica's index is the inverse of its log
  (`IndexInverts`), whoever registers what, answers or not; a relying party's root
  is a prefix of the log it follows until that server restarts (`AnchorInv`).
- `ReceiptBindsStatementHolds`, `ReceiptsVerifyHolds`: every receipt in somebody's
  hands was issued over a prefix of a log, and signed with the key its server had
  after that many restarts, which under a pinned key is the key it has
  (`HonestReceipt`, `IssuedInv`, `ClientInv`).
- `SingleHistoryHolds`: in production only writers hold entries (`WriterInv`).
- `RateBoundHolds`: a bucket is a set of hits, and those within any window were
  counted when the last of them was admitted (`BucketInv`); `HitsAreFreshHolds`
  says that each admitted request has a hit of its own, so that sets lose nothing.

`LogPublicationProofs`, from `PublicationInv`
- `VerifiedIsLoggedHolds`: every file in the directory is what some length of the
  log gives its path, or a changed bundle; the checkpoint's size is at most the
  log's (`DirInv`, `ExportInv`); the chain's receipts are over prefixes
  (`ReceiptInv`).
- `AcceptedCoversNoRevokedHolds`, and `NothingTakenBackHolds`, an action property.

- `ExportVerifiesHolds`: the files of a finished export are those of the entries it
  read (`WholeInv`), and in a directory that was empty they are all there is
  (`CleanInv`). A reader who puts the bundles together in any order the directory
  may list them gets the entries in the log's order, since bundle paths are sorted
  by their index; the tiles of a level, read by index, are runs of consecutive nodes
  whose leaves together are the log, every node but a level's last covers
  `Power[level]` leaves, and a node is made of the at most `Width` nodes below it. The
  width is any number above one, the log has any size.

`ReceiptsProofs`, for any shapes of receipt, any log, clock and number of changes,
from `IInv`
- A bundle is a function from section names, and the lemmas from
  `RestrictIsBundle` on say what leaving out, replacing and mapping sections does
  to it. After that there is one lemma per section for how it is bound: to the
  proof's hashes, to the record's, to the checkpoint over it, or to a signature of
  the gate, the tool, the issuer or the identity provider.
- `AcceptedVouchedFor` (with `OnlySignedAccepted`, `FloorNamesVouchedSubject`): the
  gate's key signs the document that was assembled and nothing else, whatever is
  done with descriptors afterwards (`KeysKept`); a tool's co-signature of three
  hashes is never one of a bundle (`WitnessIsNoBundle`).
- `VerdictStable`, an action property: the parts of the verdict that read the clock
  do so at the time of the action, or about a delegation.
- `SingleMutationsDetected`: after one change the bundle is the original but for one
  leaf or section (`OneChange`), and each leaf that is not `Informational` and each
  section is compared by some check with what the change did not touch. Two leaves
  that the proof showed not to be bound were added to `Informational`, and
  `FloorBindsIdentity` got its premise about the authority section (see section 5).

`AuthorityProofs`, from `AuthorityInv`
- `AttenuationHolds`: a token object is what was issued under its leaf's id, from a
  parent issued before (`LineageInv`); with a document, those of all ancestors are
  signed (`SignedInv`); an accepted operation is allowed by every link of a
  verified chain (`ReceiptInv`), and the links are the leaf's ancestors
  (`AncestorsAreLinks`). Depth is unbounded, so the arguments along a chain are by
  the least link that fails (`AlongChain`).
- `DelegationsUsableHolds`: the honest chain passes at every depth.
- `ChildWithinParentHolds`.

`RepoGateProofs`, from `RepoInv`
- The commit graph is transitively closed, grows, and numbers ancestors first
  (`GraphInv`); evidence in a gate run stays true of it (`RunInv`); a receipt that
  does not deny was evaluated on the diff from the merge base of what it names
  (`Evaluated`), which is the merge base at the merge because the branch has not
  moved and main shares no more with it (`MergeIsEvaluated`).
- `MergedWithinScopeHolds`, `GuardKeptHolds`, `PoisonNotExecutedHolds`,
  `CleanReceiptStaysHolds` (action properties about merges) and `LinksVerifyHolds`.
- What a merge does to a name is `PathMerged`: the file is merged under its name, or
  the branch moves it away or to it, or main has moved it to it, or main has no such
  file. Where the branch leaves the file alone nothing of main is lost
  (`LineMergeUnchanged`); elsewhere the receipt has judged the branch's file against
  the merge base, and main's guard survives unless a guard line of the merge base
  is one that main has dropped (`LinesKept`).
- The evaluator compares the branch with the merge base only, so both properties
  state what main may have done since. `MergedWithinScope`: a file that main moved
  out of the scope takes the branch's change in the scope with it. `GuardKept`:
  main has dropped one of the file's guard lines (and the branch another), or moved
  the file to its protected name from one that is not. In a first form of
  `GuardKept` a renamed guarded file had to bring a guard that main did not have at
  the new name, which fails when another branch's merge put one there. An empty list
  of allowed paths restricts nothing in the evaluator
  (`structural_invariants.py`), which `MergedWithinScope` takes over.

`SandboxSessionProofs`, from `SessionInv`
- A pin agrees with the live metadata where both are present (`PinsInv`); the loop
  monitor's window is the end of the list of all attempts (`RecentInv`); the novelty
  monitor has seen the boundaries of the attempts and nothing else (`SeenInv`).
- The governors are wrapped, so the argument about them goes outwards: `Governed`
  says what every decision comes with (the authority it patches is not behind the
  one it read, tighten mode stops what is no read, a structural failure is not
  allowed, a step-up stops the call); refusals have it, the tightening governor has
  it because the rule based one does, and the outer two either refuse or pass it on
  (`RefusalGoverned`, `TighteningGoverned`, `ZoneGoverned`).
- `StoppedInTimeHolds` (with `LoopIsStoppedHolds`, `NoveltyIsFlaggedHolds`,
  `TightenedOnlyReadsHolds`), `ProtectedWriteApprovedHolds`,
  `PinnedToolUsableHolds`, `AuthorityMovesForwardHolds` (an action property).
- The proofs needed what `StackAssumption` names and the model had left to the
  run's constants: `sandbox_builder.py` requires an active lease of every tool
  (line 142), leaves an expired lease's enforcement at step-up, honors monitors or
  tightens on their step-up, and resolves what is not a read to `repo_write://`
  (lines 190-207). With other rules three of these properties fail: a read that
  needs no lease renews an expired one, a step-up that neither is honored nor
  tightens lets the call run, and a tool left out of `read_tools` whose resolver
  says `repo_read://` writes under an entry for reading.

Only model-checked: liveness (`WriteLockReleased`, `Terminates`, `PublishEnds`),
which is out of the prover's reach. Every safety and action property
of a passing run is a theorem. `RevocationSticks` is violated.

## 5. What the models say about the code

Besides the finding and the hazards in `PROJECT.json`, met while modelling:

Audit chain and witnesses
- `signed_checkpoint` reads count, tip and root in three steps (`audit.py:641`), so
  the anchor it signs can be of three states of the log, which no verifier
  reproduces. `CountRootOrder` states what does hold.
- A COMMIT that raises is not rolled back (`audit.py:519`): the open transaction
  makes every later BEGIN of every replica fail (`docs/deployment.md:106` has
  several replicas share a file), and its row stays visible to readers of the same
  connection, so a checkpoint over a row that never becomes durable can be signed.
  `PublishedRootIsHistory` is therefore checked with successful commits;
  `WriteLockReleased` is checked with a failed one, and states it as the one case
  in which the write lock is kept until the process dies.
- A restarted witness has forgotten `_last_seen` (`witness.py:64`) and co-signs a
  fork of what it signed (`docs/witnessing.md:28`). A torn checkpoint that is its
  first sighting is accepted and then refuses the honest log.

Gateway
- `_should_block` blocks nothing in prove mode, while `docs/mcp_integration.md`
  says "A denied capability means no side-effecting tool body is executed".
  `DeniedHasNoEffect` excludes prove mode except for tools the governor denies. In
  shadow and recommend it does block side-effecting tools, where the table of
  modes in the same document says the handler still runs.
- A handler that raises after its effect, or a prover that gives no proof, leaves
  an effect and a consumed budget without a receipt.
- The async path records with a newly built authority (version 1) and makes no
  post-execution checks.
- The governor charges the lease and redeems the commit token before the budgets
  are reserved; a call refused by a budget has used both up. The last call of a
  lease executes and its receipt says denied, because `record` evaluates the
  charged snapshot (`policy_engine.py:116`).
- With `bump_authority_version` and automatic renewal no permit ever verifies: it
  is issued over the version before the patch. A later check that asks for step-up
  overwrites an earlier one that denies.

Sandbox session
- With `honor_monitor_recommendations` a monitor's denial returns before the
  tightening governor enters tighten mode, and patches of decisions other than
  ALLOW are never applied.
- Automatic renewal resets `lease_remaining_calls`, so a call budget never runs
  out. `prior_action_count` stops growing at the window's size; `reset()` keeps
  `_last_observed_at`.
- The novelty monitor adds a refused first access to its seen set, so the
  repetition is not flagged (`novelty_monitor.py:113`, whose header promises a flag for
  accesses outside the established area) when the authority is wider than the
  area. `NoveltyIsFlagged` is about the first attempt.
- `goal.allow_resources` does not open protected paths other than instructions,
  although the refusal says so. `approval_refs` in the authority make every call a
  violation. `register_tool` pins again, so a mismatch is only ever a false alarm.

Receipts
- A tool witness's descriptor is put into `signatures[]`, where
  `verify_bundle_signatures` demands each signature over the whole bundle
  (`docs/trust_model.md:167`). Signing a bundle that has a SCITT section
  invalidates the section (`core/signing.py:199`, called additive at `:194`).
- That identity and context name one subject is compared through the authority
  section, which only the v2 layout requires: nothing compares the two in a v1 receipt
  without it. `FloorBindsIdentity` is about receipts that have one.
- Two leaves are bound only in some shapes: the session of a folded proof is compared
  with nothing when the action has no session, and budget effects can be added to
  the decision of a receipt that has a mandate and no budget section.
- `side_effect_level` of the action section is read for one thing, whether it asks
  for a tool's co-signature (`export.py:602`); which level it names on either side of
  that is bound to nothing, and the models have a Boolean in its place.
- The monitoring copy in `evidence` is bound to nothing. The compact export drops
  identity and lineage. Inclusion proof and checkpoint are read separately from
  the growing log. `_delegation_issues` judges validity at the time of
  verification; `VerdictIsStable` leaves delegated shapes out for that reason.

Delegations and mandates
- A child may outlive its parent or be issued from an expired one; the signer of
  a delegation is tied to nothing; depth is not checked. One level of mandate
  parents is verified, spending is per receipt, and an empty list in a child
  means unrestricted, so `ChildWithinParent` speaks of the limits a child states.

Pull-request gate
- The merge check blocks on `mandate_anomaly` and `trajectory_review_required`
  (`merge_binding.py:15`), which nobody writes: the evaluators write
  `in_scope_security_anomaly` and `trajectory_risk`.
- A denied receipt counts as the last of its branch, so a changed actor is refused
  once and accepted on a bare retry. `trajectory_slow_drip` is reported as long as
  the receipts it counts are among the last `max_prior_receipts` (20 by default,
  `trajectory_risk.py:101`), and then no more.
- Each branch is judged against the merge base (`structural_invariants.py:439`): of
  a guard that occurs twice, one branch may drop the one occurrence and another
  branch the other. Both receipts allow, both branches merge without a conflict, and
  main has lost the guard. Changes made in scope, or below an unprotected name,
  likewise follow a file that main has moved since. `GuardKept` and
  `MergedWithinScope` state these exceptions.
- The demo gate writes `signature`, the merge check verifies `signatures`; tests
  run in the working tree, not at `head_sha`; `decision.review_required` is never
  written; the demo gate does not call the evaluator that `gate_evaluate.py` calls
  the one evaluator.
- `verify_receipt_chain` recomputes links from all receipts it is given: later
  captures in the directory invalidate an earlier receipt; links are compared only
  when both sides have some; poison in the baseline without a capture counts as
  unlinked. `ChainVerifies` holds for the receipts that the run had loaded.
- A file renamed out of `applies_to` or `security_targets` escapes them.
- Modelled as assumed: git merges line by line, a file's content is a set of lines,
  renames found in the diff of either side are followed, and changes that git finds
  to touch are not merged; the merge queue checks and merges in one step and passes
  `--target-ref`; snapshots hold the changed files and prior surfaces;
  `merge_evaluation_into_gate` and the writer of `receipt_chain` have no caller
  in `src/agentauth` and are external.

Transparency service
- A restart under a pinned key starts a new history under the same key; the
  docstring of `verifier_server.py` promises no more than verifiable receipts, and
  `SingleHistory` is about servers that were not restarted. That exactly one
  replica is flagged as writer is configuration nobody checks.
- The client's polls do not send the caller's headers, hence no API key; the
  fallback to `entry_id` cannot be reached; `Location` is validated only after the
  registration took effect.
- Untagged or receipts-carrying statements register, but
  `verify_transparent_statement` rebuilds them bare and tagged, so their receipts
  fail; `TransparentVerifies` is about bare tagged ones. A consistency receipt from
  the empty log never verifies.
- The rate limiter is per process, reset by a restart, and `GET /entries` is not
  counted.

Log publication
- A consumer that configures no log key gets neither the revocation check nor the
  witness quorum (early return of `checkpoint_trust_issues`).
- Tiles above the lowest level hold nodes that are still incomplete, and change
  under the same path while the log grows, contrary to "static, cacheable"
  (`docs/tlog_tiles.md:3`); `BundlesImmutable` covers the entry bundles, whose
  partial ones have paths of their own, and the tiles of level 0. Exporting again
  into the same directory leaves the old partial bundle there, and then no leaf
  verifies; `CleanExportVerifies` is about an empty directory.
- `verify_leaf` checks neither the note's signature nor its size; a log of one
  entry has no tile. The monitor's reading of the directory is one step in the
  model.

## 6. Not modelled

- In the modelled components: JSON, CBOR and note formats, SQLite beyond
  transactions and the write lock, HTTP parsing, log redaction, the trained
  anomaly model and stream features (floating point; no model is loaded), an agent
  with a `default_authority_binding`, trust tiers of the async path,
  `set_authority` and lease minting, budgets in a sandbox session (the builder
  configures none), `AgentWrapper.run`, approvals and obligations passed to
  `record` (the gateway passes none), the anomaly proof, the authority trust tier
  and model provenance checks of a bundle, the tree functions of `audit.py`
  without domain separation (used by tests only).
- Cryptography and provers, the Rust circuits, attestation, encryption and
  workload identity formats: arithmetic and single documents without a protocol.
- Identity and capability providers, framework adapters, exporters, telemetry, the
  command line, partner configuration, MCP transport, the hosted control server:
  adapters and I/O around the modelled components. `PROJECT.json` has a reason for
  each.

## 7. Plan

1. `Witness` with `AuditChain` in place of a log that shows anything: how long a
   torn first sighting (section 5) keeps a witness from the honest log.
2. The parts of `wrapper.py` and `mcp.py` that section 6 lists, beginning with
   `AgentWrapper.run`.
