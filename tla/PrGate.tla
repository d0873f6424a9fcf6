------------------------------- MODULE PrGate -------------------------------
(***************************************************************************)
(* The evaluation of a pull request's diff: the shared evaluator           *)
(* (structural_invariants.py, cross_session.py, actor_chain.py,            *)
(* trajectory_risk.py) and the demo gate's own checks                      *)
(* (demo/agentauth_gate.py), as sets of reason and flag codes.             *)
(*                                                                         *)
(* A file's content is the set of its lines that a pattern of the gate can *)
(* match, each a trait named for the pattern; an existing file has at      *)
(* least the trait "text", a missing one none.  Two lines match the        *)
(* pattern of the protected invariant: it is found as long as one is left. *)
(* A glob is the set of the paths it matches.                              *)
(***************************************************************************)
EXTENDS Integers, Sequences, FiniteSets, FiniteSetsExt

CONSTANTS
    Paths,      \* of the repository
    Policy,     \* the gate policy and the mandate's scope, see PolicyType
    Nobody      \* no actor given

Guards == {"guard", "guard2"}
Traits == Guards \cup {"text", "poison", "hidden", "forbidden", "security", "hook", "bootstrap"}
Trees == [Paths -> SUBSET Traits]

PolicyType(p) ==
    /\ \A f \in {p.allowed, p.denied, p.surfaces, p.prior_surfaces, p.memory, p.protected,
                 p.security_targets, p.sensitive, p.drip_paths, p.shims, p.auto_exec,
                 p.gated_exec, p.horizon_probe} : f \subseteq Paths
    /\ {p.memory_opt_in, p.security_intent, p.deny_on_attribution, p.trajectory, p.hygiene,
        p.block_allow_with_review} \subseteq BOOLEAN
    /\ p.max_prior \in Nat
    /\ p.operations \subseteq {"add", "modify", "delete", "rename", "copy"}

ASSUME PolicyAssumption == PolicyType(Policy)

-----------------------------------------------------------------------------
(* git diff --name-status --find-renames: a deleted file that resembles an  *)
(* added one is one rename.  Resemblance is git's to judge: every pairing.  *)
Change(op, path, old) == [op |-> op, path |-> path, old |-> old]

PlainChanges(a, b) ==
    {Change("add", p, p) : p \in {q \in Paths : a[q] = {} /\ b[q] # {}}}
    \cup {Change("delete", p, p) : p \in {q \in Paths : a[q] # {} /\ b[q] = {}}}
    \cup {Change("modify", p, p) : p \in {q \in Paths : a[q] # {} /\ b[q] # {} /\ a[q] # b[q]}}

Diffs(a, b) ==
    LET plain == PlainChanges(a, b)
    IN  {plain} \cup
        {(plain \ {d, n}) \cup {Change("rename", n.path, d.path)} :
            d \in {c \in plain : c.op = "delete"}, n \in {c \in plain : c.op = "add"}}

(* The traits that the added lines of a change bring.                       *)
Added(c, a, b) == b[c.path] \ a[c.old]

(* Both names of a rename are checked, the one name of any other change.    *)
Names(c) == {c.path, c.old}

-----------------------------------------------------------------------------
(* The checks of the shared evaluator on changes cs from tree a to tree b.  *)
\* Fault: the scope is checked for files that exist.
PathScopeReasons_Existing(cs, actor) ==
    IF \E c \in cs : c.op # "add" /\ ~(Names(c) \subseteq Policy.allowed \ Policy.denied)
    THEN {"out_of_scope_path"} ELSE {}

PathScopeReasons(cs, actor) ==
    {v \in {"agent_identity_mismatch", "operation_not_authorized", "denied_path_changed",
            "out_of_scope_path"} :
        \/ /\ v = "agent_identity_mismatch"
           /\ actor # Nobody /\ Policy.actors # {} /\ actor \notin Policy.actors
        \/ /\ v = "operation_not_authorized"
           /\ Policy.operations # {} /\ \E c \in cs : c.op \notin Policy.operations
        \/ v = "denied_path_changed" /\ \E c \in cs : Names(c) \cap Policy.denied # {}
        \/ /\ v = "out_of_scope_path"
           /\ Policy.allowed # {} /\ \E c \in cs : ~(Names(c) \subseteq Policy.allowed)}

(* Agent memory takes the mandate's opt-in and its path in scope, another   *)
(* instruction surface the path in scope.  A deletion is not a write.       *)
SurfaceWriteReasons(cs) ==
    LET written == UNION {Names(c) : c \in {d \in cs : d.op # "delete"}}
    IN  {v \in {"agent_memory_write_denied", "instruction_surface_write_denied"} :
            \/ /\ v = "agent_memory_write_denied"
               /\ \E p \in written \cap Policy.memory :
                     ~Policy.memory_opt_in \/ p \notin Policy.allowed
            \/ /\ v = "instruction_surface_write_denied"
               /\ \E p \in (written \cap Policy.surfaces) \ Policy.memory : p \notin Policy.allowed}

ForbiddenReasons(cs, a, b) ==
    IF \E c \in cs : "forbidden" \in Added(c, a, b) THEN {"forbidden_added_content"} ELSE {}

Guarded(content) == content \cap Guards # {}

\* Fault: a renamed file is looked up under its new name only.
LostGuard_NewNameOnly(c, a, b) ==
    /\ c.op \in {"modify", "delete", "rename"}
    /\ c.path \in Policy.protected
    /\ Guarded(a[c.path])
    /\ c.op = "delete" \/ ~Guarded(b[c.path])

(* A pattern that the base has in a protected file is still there at head,  *)
(* under the file's new name if it has one.                                 *)
LostGuard(c, a, b) ==
    /\ c.op \in {"modify", "delete", "rename"}
    /\ Names(c) \cap Policy.protected # {}
    /\ Guarded(a[c.old])
    /\ c.op = "delete" \/ ~Guarded(b[c.path])

ProtectedInvariantReasons(cs, a, b) ==
    IF \E c \in cs : LostGuard(c, a, b) THEN {"security_invariant_removed"} ELSE {}

(* With the head as its own horizon nothing is lost, as where the code      *)
(* returns early.                                                           *)
TrajectoryHorizonReasons(cs, horizon, b) ==
    IF \E c \in cs : LostGuard(c, horizon, b) THEN {"trajectory_invariant_removed"} ELSE {}

(* scan_obfuscation on the issue's text, the lines added to a surface and   *)
(* the whole surface at head, for the files the evidence holds: those       *)
(* changed and the surfaces of earlier sessions.  A policy that names no    *)
(* surfaces at all (hygiene is FALSE) scans nothing.                        *)
HygieneReasons(cs, a, b, issueHidden) ==
    IF /\ Policy.hygiene
       /\ \/ issueHidden
          \/ \E c \in cs : c.path \in Policy.surfaces /\ "hidden" \in Added(c, a, b)
          \/ \E p \in (Policy.prior_surfaces \cup {c.path : c \in cs}) \cap Policy.surfaces :
                 "hidden" \in b[p]
    THEN {"obfuscated_instruction"} ELSE {}

(* Only added files; a bootstrap line (recursive submodules, an off-host    *)
(* submodule, a shadowed PATH) in any file.                                 *)
BuildIntegrityReasons(cs, a, b) ==
    {v \in {"repo_local_tool_shim", "auto_exec_entrypoint", "unsafe_submodule_init"} :
        \/ v = "repo_local_tool_shim" /\ \E c \in cs : c.op = "add" /\ c.path \in Policy.shims
        \/ /\ v = "auto_exec_entrypoint"
           /\ \E c \in cs : /\ c.op = "add"
                            /\ \/ c.path \in Policy.auto_exec
                               \/ c.path \in Policy.gated_exec /\ "hook" \in Added(c, a, b)
        \/ v = "unsafe_submodule_init" /\ \E c \in cs : "bootstrap" \in Added(c, a, b)}

MandateAnomalyFlags(cs, a, b) ==
    IF /\ ~Policy.security_intent
       /\ \E c \in cs : /\ Policy.allowed # {} => c.path \in Policy.allowed
                        /\ "security" \in Added(c, a, b)
    THEN {"in_scope_security_anomaly"} ELSE {}

(* Instruction surfaces at the merge base that hold a poison marker, when   *)
(* the change writes a security target: its new name only.                  *)
PriorArtifacts(a) == {p \in Policy.prior_surfaces : "poison" \in a[p]}

\* Fault: only an added file is a change that may execute it.
CrossSession_AddsOnly(cs, a) ==
    IF PriorArtifacts(a) # {} /\ \E c \in cs : c.op = "add" /\ c.path \in Policy.security_targets
    THEN {"cross_session_poison_attribution"} ELSE {}

CrossSession(cs, a) ==
    IF PriorArtifacts(a) # {} /\ \E c \in cs : c.path \in Policy.security_targets
    THEN {"cross_session_poison_attribution"} ELSE {}

(* The last prior receipt that names an actor is compared, whatever it      *)
(* decided.                                                                 *)
ActorReasons(actor, priors) ==
    LET named == SelectSeq(priors, LAMBDA r : r.actor # Nobody)
    IN  IF Policy.actors = {} THEN {}
        ELSE IF actor = Nobody THEN {"agent_identity_missing"}
        ELSE (IF actor \notin Policy.actors THEN {"agent_identity_mismatch"} ELSE {})
             \cup (IF named # <<>> /\ named[Len(named)].actor # actor
                   THEN {"actor_chain_break"} ELSE {})

(* The last max_prior of the prior receipts; 0 leaves the list whole.       *)
Recent(priors) ==
    {k \in DOMAIN priors : Policy.max_prior = 0 \/ k > Len(priors) - Policy.max_prior}

(* Recent receipts that allowed changes, one of them having reported a lost *)
(* invariant: as long as these are recent, every evaluation reports the     *)
(* drift.                                                                   *)
DripAllowed == 2
DripEdits == 3
Allows(r) == r.outcome \in {"allow", "allow_with_review"}

PriorTrajectoryReasons(priors) ==
    IF /\ Policy.trajectory
       /\ Cardinality({k \in Recent(priors) : Allows(priors[k])}) >= DripAllowed
       /\ \E k \in Recent(priors) : "security_invariant_removed" \in priors[k].evaluations
    THEN {"trajectory_slow_drip"} ELSE {}

PriorTrajectoryFlags(priors) ==
    LET edits == MapThenSumSet(LAMBDA k : Cardinality({c \in priors[k].changed : c.path \in Policy.drip_paths}),
                               Recent(priors))
    IN  IF Policy.trajectory /\ edits >= DripEdits THEN {"trajectory_risk"} ELSE {}

(* evaluate_pr_gate.                                                        *)
GateReasons(cs, a, b, horizon, actor, priors, issueHidden) ==
    PathScopeReasons(cs, actor) \cup SurfaceWriteReasons(cs) \cup ForbiddenReasons(cs, a, b)
    \cup ProtectedInvariantReasons(cs, a, b) \cup HygieneReasons(cs, a, b, issueHidden)
    \cup BuildIntegrityReasons(cs, a, b)
    \cup (IF Policy.deny_on_attribution THEN CrossSession(cs, a) ELSE {})
    \cup ActorReasons(actor, priors)
    \cup TrajectoryHorizonReasons(cs, horizon, b) \cup PriorTrajectoryReasons(priors)

GateFlags(cs, a, b, priors) ==
    MandateAnomalyFlags(cs, a, b)
    \cup (IF Policy.deny_on_attribution THEN {} ELSE CrossSession(cs, a))
    \cup PriorTrajectoryFlags(priors)

(* The demo gate: scope, operations and added content, and one expected     *)
(* actor that an empty actor passes.                                        *)
DemoReasons(cs, a, b, actor, testsPass) ==
    (PathScopeReasons(cs, actor) \ {"agent_identity_mismatch"})
    \cup (IF actor \notin {Nobody, Policy.expected_actor} THEN {"agent_identity_mismatch"} ELSE {})
    \cup ForbiddenReasons(cs, a, b)
    \cup (IF testsPass THEN {} ELSE {"required_tests_failed"})

(* A reason denies, a flag alone asks for review.                           *)
Outcome(reasons, flags) ==
    IF reasons # {} THEN "deny" ELSE IF flags # {} THEN "allow_with_review" ELSE "allow"

-----------------------------------------------------------------------------
(* Links from the receipts that captured an instruction surface to the      *)
(* security-sensitive paths of a diff (receipt_chain.py).                   *)
Captures(r) == IF Allows(r) THEN {c.path : c \in r.changed} \cap Policy.prior_surfaces ELSE {}

\* Fault: a renamed file counts under the name it had as well.
ChainLinks_BothNames(cs, priors) ==
    {[cause |-> k, effect |-> p] :
        k \in {i \in DOMAIN priors : Captures(priors[i]) # {}},
        p \in UNION {Names(c) : c \in cs} \cap Policy.sensitive}

ChainLinks(cs, priors) ==
    {[cause |-> k, effect |-> p] :
        k \in {i \in DOMAIN priors : Captures(priors[i]) # {}},
        p \in {c.path : c \in cs} \cap Policy.sensitive}

(* The same links, read back from a receipt r and the receipts supplied,    *)
(* which are named by their indices.                                        *)
LinkReceiptChain(r, receipts, supplied) ==
    {[cause |-> k, effect |-> p] :
        k \in {i \in supplied : Captures(receipts[i]) # {}},
        p \in {c.path : c \in r.changed} \cap Policy.sensitive}

(* verify_receipt_chain: links are compared only when both sides have some. *)
ChainIssues(r, receipts, supplied) ==
    LET live == LinkReceiptChain(r, receipts, supplied)
    IN  {v \in {"not supplied", "missing", "links", "unlinked"} :
            \/ v = "not supplied" /\ supplied = {} /\ r.refs # {}
            \/ v = "missing" /\ ~(r.refs \subseteq supplied)
            \/ v = "links" /\ r.links # {} /\ live # {} /\ r.links # live
            \/ /\ v = "unlinked" /\ "cross_session_poison_attribution" \in r.flags
               /\ live = {} /\ r.links = {}}

-----------------------------------------------------------------------------
(* The merge check (merge_binding.py, agentauth_merge_check.py).            *)
HardBlockFlags ==
    {"cross_session_poison_attribution", "mandate_anomaly", "trajectory_review_required",
     "side_effect_escalation", "anomaly_baseline"}

HardBlockEvaluations ==
    {"security_invariant_removed", "trajectory_invariant_removed", "forbidden_added_content",
     "denied_path_changed", "out_of_scope_path", "instruction_surface_write_denied",
     "agent_memory_write_denied", "agent_identity_missing", "agent_identity_mismatch",
     "oidc_verification_failed", "bootstrap_command_denied", "required_tests_unsandboxed"}

(* verify_receipt_at_merge: the head evaluated is the head being merged.    *)
HeadIssue(r, mergeHead) == r.head # mergeHead

MergeIssues(r, mergeHead, signatureValid) ==
    {v \in {"deny", "review", "evaluation", "flag", "head", "signature"} :
        \/ v = "deny" /\ r.outcome = "deny"
        \/ v = "review" /\ Policy.block_allow_with_review /\ r.outcome = "allow_with_review"
        \/ v = "evaluation" /\ r.evaluations \cap HardBlockEvaluations # {}
        \/ v = "flag" /\ r.flags \cap HardBlockFlags # {}
        \/ v = "head" /\ HeadIssue(r, mergeHead)
        \/ v = "signature" /\ ~signatureValid}
=============================================================================
