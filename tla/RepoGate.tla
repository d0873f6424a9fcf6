------------------------------ MODULE RepoGate ------------------------------
(***************************************************************************)
(* A repository whose main branch is merged to through a gate: agents push *)
(* commits to branches, the gate evaluates a branch against a base and     *)
(* writes a receipt, and the merge queue merges what the merge check       *)
(* (scripts/agentauth_merge_check.py, run with --target-ref) lets through. *)
(*                                                                         *)
(* Loading the evidence and writing the receipt are two steps: other gate  *)
(* runs, pushes and merges happen between them.  The merge queue checks    *)
(* and merges in one step.                                                 *)
(***************************************************************************)
EXTENDS PrGate

CONSTANTS
    Branches, Actors,
    InitTrees,          \* what main may hold at first
    Edits,              \* what a push writes: functions from some paths to traits
    Faults,             \* what may go wrong in an evaluation: see Conclude
    MaxPushed,          \* bound: commits in the repository after a push
    MaxCommits,         \* bound: commits in the repository after a merge
    MaxReceipts         \* bound: receipts written

ASSUME RepoAssumption ==
    /\ InitTrees \subseteq Trees
    /\ \A e \in Edits : \A p \in DOMAIN e : e[p] \subseteq Traits
    /\ Faults \subseteq {"none", "authorization", "diff", "issue", "tests"}
    /\ MaxPushed \in Nat /\ MaxCommits \in Nat /\ MaxReceipts \in Nat

VARIABLES
    gate,       \* which evaluator the gate runs
    commits,    \* [tree, anc]: a commit's files and ancestors, itself included
    main,       \* the commit main points to
    heads,      \* the commit each branch points to, 0 before it exists
    runs,       \* evaluations in progress
    receipts,   \* in the order of created_at
    cosigned    \* the receipts with a signature the merge check trusts
vars == <<gate, commits, main, heads, runs, receipts, cosigned>>

Tree(c) == commits[c].tree
MergeBase(a, b) == Max(commits[a].anc \cap commits[b].anc)

Init ==
    /\ gate \in {"demo", "shared"}
    /\ \E t \in InitTrees : commits = <<[tree |-> t, anc |-> {1}]>>
    /\ main = 1
    /\ heads = [b \in Branches |-> 0]
    /\ runs = {} /\ receipts = <<>> /\ cosigned = {}

Commit(tree, parents) ==
    LET anc == UNION {commits[p].anc : p \in parents}
    IN  Append(commits, [tree |-> tree, anc |-> anc \cup {Len(commits) + 1}])

-----------------------------------------------------------------------------
(* A branch starts from main or, stacked, from another branch.  External.   *)
Push(b, e) ==
    /\ Len(commits) < MaxPushed
    /\ \E from \in IF heads[b] # 0 THEN {heads[b]}
                   ELSE {main} \cup {heads[o] : o \in {x \in Branches : heads[x] # 0}} :
          LET tree == [p \in Paths |-> IF p \in DOMAIN e THEN e[p] ELSE Tree(from)[p]]
          IN  tree # Tree(from) /\ commits' = Commit(tree, {from})
    /\ heads' = [heads EXCEPT ![b] = Len(commits) + 1]
    /\ UNCHANGED <<gate, main, runs, receipts, cosigned>>

(* The stable point that drift is measured from: main, if it is given by    *)
(* name (no probe) or has the file the code probes for.                     *)
Horizon(head, mergeBase) ==
    IF /\ main \notin {mergeBase, head}
       /\ Policy.horizon_probe = {} \/ \E p \in Policy.horizon_probe : Tree(main)[p] # {}
    THEN main ELSE mergeBase

(* The evidence: head, base, their merge base, the horizon, and how many    *)
(* receipts the directory holds.                                            *)
Load(b, base, actor) ==
    /\ heads[b] # 0
    /\ \A run \in runs : run.branch # b
    /\ Len(receipts) + Cardinality(runs) < MaxReceipts
    /\ base \in {main} \cup {heads[o] : o \in {x \in Branches \ {b} : heads[x] # 0}}
    /\ runs' = runs \cup
          {[branch |-> b, head |-> heads[b], base |-> base, merge_base |-> MergeBase(base, heads[b]),
            horizon |-> Horizon(heads[b], MergeBase(base, heads[b])),
            actor |-> actor, priors |-> Len(receipts)]}
    /\ UNCHANGED <<gate, commits, main, heads, receipts, cosigned>>

(* Without a diff the receipt names no commit (0).                          *)
Receipt(run, cs, reasons, flags, links) ==
    LET sha(c) == IF "diff_unavailable" \in reasons THEN 0 ELSE c
    IN
    [branch |-> run.branch, head |-> sha(run.head), base |-> sha(run.base), actor |-> run.actor,
     outcome |-> Outcome(reasons, flags),
     evaluations |-> reasons, flags |-> flags, changed |-> cs,
     refs |-> 1 .. run.priors, links |-> links]

(* An authorization with a bad signature and a diff git cannot compute are  *)
(* reasons like the others, and so is a test that fails or times out.       *)
AuthorizationReasons(fault) ==
    IF fault = "authorization" THEN {"authorization_signature_invalid"} ELSE {}
DiffReasons(fault) == IF fault = "diff" THEN {"diff_unavailable"} ELSE {}
TestsPass(fault) == fault # "tests"

Priors(run) == SubSeq(receipts, 1, run.priors)

DemoReceipt(run, cs, a, b, fault) ==
    Receipt(run, cs, AuthorizationReasons(fault) \cup DiffReasons(fault)
                     \cup DemoReasons(cs, a, b, run.actor, TestsPass(fault)), {}, {})

SharedReceipt(run, cs, a, b, fault) ==
    Receipt(run, cs, AuthorizationReasons(fault) \cup DiffReasons(fault)
                     \cup GateReasons(cs, a, b, Tree(run.horizon), run.actor, Priors(run), fault = "issue"),
            GateFlags(cs, a, b, Priors(run)), ChainLinks(cs, Priors(run)))

(* The evaluation and its receipt.                                          *)
Conclude(run, fault) ==
    LET a == Tree(run.merge_base)
        b == Tree(run.head)
    IN  /\ run \in runs
        /\ \E cs \in IF fault = "diff" THEN {{}} ELSE Diffs(a, b) :
              receipts' = Append(receipts, IF gate = "demo" THEN DemoReceipt(run, cs, a, b, fault)
                                           ELSE SharedReceipt(run, cs, a, b, fault))
        /\ runs' = runs \ {run}
        /\ UNCHANGED <<gate, commits, main, heads, cosigned>>

(* sign_bundle with a key in the merge check's registry.                    *)
CoSign(r) ==
    /\ r \in DOMAIN receipts /\ r \notin cosigned
    /\ cosigned' = cosigned \cup {r}
    /\ UNCHANGED <<gate, commits, main, heads, runs, receipts>>

\* Fault: the receipt's base has to be main's tip.
StackedRisk_TipOnly(r) == r.base # main

(* The receipt was evaluated against another merge base than main's.        *)
StackedRisk(r) == MergeBase(r.base, r.head) # MergeBase(main, r.head)

MergeAllowed(k) ==
    LET r == receipts[k]
    IN  /\ MergeIssues(r, heads[r.branch], k \in cosigned) = {}
        /\ ~StackedRisk(r)

(* git's merge, external.  It follows the renames that the diff of either   *)
(* side has: Renamed maps the two names of a rename to one another.         *)
Renamed(cs) ==
    LET Other(p) == {q \in Paths : \E c \in cs : c.op = "rename" /\ Names(c) = {p, q}}
    IN  [p \in Paths |-> IF Other(p) = {} THEN p ELSE CHOOSE q \in Other(p) : TRUE]

(* A file is merged line by line: what either side added, and what neither  *)
(* side removed.                                                            *)
LineMerge(base, ours, theirs) ==
    (base \cap ours \cap theirs) \cup (ours \ base) \cup (theirs \ base)

(* Conflicts: a file that one side changed and the other removed, or that   *)
(* both added; a rename of one side only, of a file that the other removed  *)
(* or to a name that the other added.  Whether two changes of one file      *)
(* touch is git's to judge: where they do, this merge is not made.          *)
Conflict(base, ours, theirs) ==
    {} \in {base, ours, theirs} /\ base # ours /\ base # theirs /\ ours # theirs

RenameConflict(base, ours, theirs, m, n) ==
    /\ m # n
    /\ \E p \in Paths : \/ m[p] # p /\ (theirs[p] = {}) # (base[p] = {})
                        \/ n[p] # p /\ (ours[p] = {}) # (base[p] = {})

(* The merge of ours, which renamed by m, and theirs, which renamed by n.   *)
(* A file named p at the base ends up under the name Final(m, n)[p], and    *)
(* the other way round.                                                     *)
Final(m, n) == [p \in Paths |-> IF m[p] # p THEN m[p] ELSE n[p]]
ThreeWay(base, ours, theirs, m, n) ==
    [q \in Paths |->
        LET p == Final(m, n)[q] IN LineMerge(base[p], ours[m[p]], theirs[n[p]])]

Merge(k) ==
    LET head == heads[receipts[k].branch]
        base == Tree(MergeBase(main, head))
        ours == Tree(main)
        theirs == Tree(head)
        n == Renamed(receipts[k].changed)
    IN  /\ k \in DOMAIN receipts
        /\ Len(commits) < MaxCommits
        /\ MergeAllowed(k)
        /\ head \notin commits[main].anc
        /\ \E m \in {Renamed(cs) : cs \in Diffs(base, ours)} :
              /\ ~RenameConflict(base, ours, theirs, m, n)
              /\ \A p \in Paths : ~Conflict(base[p], ours[m[p]], theirs[n[p]])
              /\ commits' = Commit(ThreeWay(base, ours, theirs, m, n), {main, head})
        /\ main' = Len(commits) + 1
        /\ UNCHANGED <<gate, heads, runs, receipts, cosigned>>

Next ==
    \/ \E b \in Branches, e \in Edits : Push(b, e)
    \/ \E b \in Branches, base \in 1 .. Len(commits), actor \in Actors : Load(b, base, actor)
    \/ \E run \in runs, fault \in Faults : Conclude(run, fault)
    \/ \E r \in 1 .. MaxReceipts : CoSign(r) \/ (r \in DOMAIN receipts /\ Merge(r))

Spec == Init /\ [][Next]_vars

-----------------------------------------------------------------------------
TypeOK ==
    /\ gate \in {"demo", "shared"}
    /\ \A c \in DOMAIN commits : Tree(c) \in Trees /\ c \in commits[c].anc /\ 1 \in commits[c].anc
    /\ main \in DOMAIN commits /\ cosigned \subseteq DOMAIN receipts
    /\ \A b \in Branches : heads[b] = 0 \/ heads[b] \in DOMAIN commits
    /\ \A k \in DOMAIN receipts : receipts[k].refs \subseteq 1 .. k - 1

Merging == main' # main
Before(p) == commits[main].tree[p]
After(p) == commits'[main'].tree[p]

(* The commit merged is the head of b.                                      *)
MergedFrom(b) ==
    /\ heads[b] # 0
    /\ commits'[main'].anc = {main'} \cup commits[main].anc \cup commits[heads[b]].anc

(* Main itself, since b grew out of it, has renamed q to p.                 *)
MovedSince(b, q, p) ==
    LET base == Tree(MergeBase(main, heads[b]))
    IN  base[p] = {} /\ base[q] # {} /\ Before(q) = {}

(* Whatever is stacked, pushed or merged while a receipt exists, a merge    *)
(* changes no denied file of main, and none outside the mandate's scope if  *)
(* it states one.  Only a file that main has moved out of the scope since   *)
(* takes the changes with it that the branch made to it in the scope.       *)
InScope(p) == p \notin Policy.denied /\ (Policy.allowed # {} => p \in Policy.allowed)
MergedWithinScope ==
    [][Merging => \A p \in Paths : After(p) # Before(p) =>
          \/ InScope(p)
          \/ \E b \in Branches, q \in Paths :
                MergedFrom(b) /\ InScope(q) /\ MovedSince(b, q, p)]_vars

(* structural_invariants.py evaluate_protected_invariants with the stacked- *)
(* base check: with the shared evaluator, what the pattern of a guard finds *)
(* in a protected file of main is not lost by a merge.  The file may move   *)
(* with it, to a name that had none where the branch merged grew out of     *)
(* main.  The checks compare the branch with that point alone, so one       *)
(* exception is left: main itself has, since then, dropped one of the       *)
(* file's guard lines (the branch may drop the other) or moved the file     *)
(* here from a name that is not protected.                                  *)
GuardKept ==
    [][Merging /\ gate = "shared" => \A p \in Policy.protected :
          Guarded(Before(p)) =>
             \/ Guarded(After(p))
             \/ \E b \in Branches, q \in Paths :
                   LET base == Tree(MergeBase(main, heads[b]))
                   IN  /\ MergedFrom(b)
                       /\ \/ After(p) = {} /\ base[q] = {} /\ Guarded(After(q))
                          \/ /\ q = p \/ MovedSince(b, q, p)
                             /\ \/ q \notin Policy.protected
                                \/ (base[q] \cap Guards) \ Before(p) # {}]_vars

(* cross_session.py: a merge writes no security target on a branch that     *)
(* grew out of a main with poison in an instruction surface.                *)
PoisonNotExecuted ==
    [][Merging /\ gate = "shared" =>
          \A b \in Branches :
             LET base == Tree(MergeBase(main, heads[b]))
             IN  MergedFrom(b) /\ PriorArtifacts(base) # {} =>
                 \A p \in Policy.security_targets : Tree(heads[b])[p] \in {{}, base[p]}]_vars

(* verify_receipt_chain accepts a receipt of the shared gate with the       *)
(* receipts it names and any others that captured nothing, although gate    *)
(* runs wrote receipts between its evidence and it: at most it misses the   *)
(* capture of poison that was there before the first receipt.               *)
ChainVerifies ==
    gate = "shared" =>
        \A k \in DOMAIN receipts :
            \A extra \in SUBSET {j \in DOMAIN receipts \ {k} : Captures(receipts[j]) = {}} :
                ChainIssues(receipts[k], receipts, receipts[k].refs \cup extra) \subseteq {"unlinked"}

(* A receipt that allows without a flag keeps its branch mergeable while    *)
(* the branch stands still, however main moves by merges that share no new  *)
(* commit with it.                                                          *)
CleanReceiptStays ==
    [][\A k \in DOMAIN receipts :
          LET r == receipts[k]
          IN  (/\ MergeAllowed(k) /\ heads'[r.branch] = r.head
               /\ commits'[main'].anc \cap commits[r.head].anc = commits[main].anc \cap commits[r.head].anc)
              => MergeAllowed(k)']_vars

(* The state is well formed, and the links that a receipt's gate run wrote  *)
(* are those that verify_receipt_chain derives.                             *)
LinksVerify == TypeOK /\ ChainVerifies
=============================================================================
