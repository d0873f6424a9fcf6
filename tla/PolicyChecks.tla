---------------------------- MODULE PolicyChecks ----------------------------
(***************************************************************************)
(* The checks of policy_engine.py and of the guards it calls (egress,      *)
(* credential access, artifact publication, governed runtime) before a     *)
(* tool runs, as sets of the checks an action fails.  A glob               *)
(* pattern is the set of hosts, paths or references it matches.  Actions   *)
(* and Missing are those of Monitors.                                      *)
(***************************************************************************)
EXTENDS Monitors

CONSTANT Guard         \* the policy's blocks, see GuardType

Tiers == [declared |-> 0, signed |-> 1, sender_constrained |-> 2,
          workload_attested |-> 3, tee_attested |-> 4]

GuardType(p) ==
    /\ p.min_tier \in DOMAIN Tiers \cup {Missing}
    /\ {p.egress.enabled, p.egress.default_deny} \subseteq BOOLEAN
    /\ {p.credential.enabled, p.credential.default_deny} \subseteq BOOLEAN
    /\ {p.artifact.enabled, p.artifact.capability} \subseteq BOOLEAN
    /\ {p.governed.require, p.governed.block} \subseteq BOOLEAN
    /\ {"hosts"} \subseteq DOMAIN p.egress
    /\ {"allowed", "denied"} \subseteq DOMAIN p.credential \cap DOMAIN p.task

ASSUME GuardAssumption == GuardType(Guard)

-----------------------------------------------------------------------------
(* The tier that the verified evidence of an authority supports.            *)
TrustCandidates(g) ==
    {"declared"}
    \cup {t \in {g.tier} \cap DOMAIN Tiers : Tiers[t] <= Tiers["signed"]}
    \cup (IF g.verified /\ g.possession = TRUE /\ g.presenter /\ g.granted
          THEN {"sender_constrained"} ELSE {})
    \cup (IF g.verified /\ g.attested THEN {"workload_attested"} ELSE {})

TrustIssue(g) ==
    /\ Guard.min_tier # Missing
    /\ \/ g.tier \notin DOMAIN Tiers \cup {Missing}
       \/ g.tier \in DOMAIN Tiers /\ Tiers[g.tier] > Tiers["signed"] /\ ~g.verified
       \/ \A t \in TrustCandidates(g) : Tiers[t] < Tiers[Guard.min_tier]

(* A capability rule or scope claim is <<resource, action>>; an unscoped    *)
(* name has the resource Missing.                                           *)
CapabilitiesAllow(g, a) ==
    \E s \in g.scopes : \/ s[1] = Missing /\ s[2] = Of[a].tool
                        \/ s[1] \in Of[a].resources /\ s[2] \in Of[a].names \cup {"*"}

(* g.files: what the file: scopes match; g.refs: what the others match.     *)
ResourceScopeAllows(g, a) ==
    /\ (g.files # Missing /\ Of[a].paths # {}) => Of[a].paths \subseteq g.files
    /\ IF g.refs = Missing THEN Of[a].paths # {} ELSE Of[a].ref \in g.refs

(* The gateway's authorization carries neither an approval nor a budget id. *)
RefIssue(g, a) == g.approvals # {} \/ (g.budgets # {} /\ Of[a].level # "read")

GrantViolated(g, a) ==
    \/ TrustIssue(g)
    \/ g.tier = "sender_constrained" /\ g.possession = FALSE
    \/ g.granted /\ g.possession = FALSE
    \/ g.scopes # {} /\ ~CapabilitiesAllow(g, a)
    \/ (g.files # Missing \/ g.refs # Missing) /\ ~ResourceScopeAllows(g, a)
    \/ RefIssue(g, a)

TaskScopeViolated(a) ==
    \E p \in Of[a].paths : p \in Guard.task.denied
                       \/ (Guard.task.allowed # {} /\ p \notin Guard.task.allowed)

GovernedRuntimeViolated(a, throughGateway) ==
    Of[a].tool_action /\ ~throughGateway /\ (Guard.governed.require \/ Guard.governed.block)

-----------------------------------------------------------------------------
(* extract_network_destinations: the arguments under a URL or host key, and *)
(* every other string only of a network tool or when there were none.       *)
Destinations(a) == IF Of[a].network \/ Of[a].hosts = {} THEN Of[a].hosts \cup Of[a].nested ELSE Of[a].hosts

BlockedHosts(g, a) ==
    IF ~Guard.egress.enabled \/ ~Guard.egress.default_deny THEN {}
    ELSE Destinations(a) \ (Guard.egress.hosts \cup g.hosts)

BlockedPaths(g, a) ==
    IF ~Guard.credential.enabled \/ ~Guard.credential.default_deny THEN {}
    ELSE (Of[a].files \cap Guard.credential.denied) \ (Guard.credential.allowed \cup g.secrets)

Publishes(a) == Guard.artifact.enabled /\ Of[a].publishes

PublicationViolated(g, a) ==
    Publishes(a) /\ Guard.artifact.capability /\ Of[a].target \notin g.targets

-----------------------------------------------------------------------------
(* pre_execution_violations without the lease fields.                       *)
PreViolated(g, a) ==
    {v \in {"grant", "task_scope", "ungoverned", "egress", "credential", "artifact"} :
        \/ v = "grant" /\ GrantViolated(g, a)
        \/ v = "task_scope" /\ TaskScopeViolated(a)
        \/ v = "ungoverned" /\ GovernedRuntimeViolated(a, TRUE)
        \/ v = "egress" /\ BlockedHosts(g, a) # {}
        \/ v = "credential" /\ BlockedPaths(g, a) # {}
        \/ v = "artifact" /\ PublicationViolated(g, a)}
=============================================================================
