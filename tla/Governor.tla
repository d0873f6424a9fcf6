------------------------------ MODULE Governor ------------------------------
(***************************************************************************)
(* The sandbox governor (sandbox_governor.py), tool permits (permit.py)    *)
(* and the authority checks of the policy engine, as functions of a call's *)
(* context: its tool, its query and the authority snapshot it carries.     *)
(***************************************************************************)
EXTENDS Naturals

CONSTANTS Tools,     \* tool names
          Queries,   \* query ids
          None,      \* Python's None
          Rules      \* how RuleBasedSandboxGovernor is constructed

ASSUME NoneAssumption == None \notin Nat /\ None \notin Queries

Enforcements == {"allow", "deny", "step_up"}
Recommendations == {"allow", "deny", "step_up"}

(* A tool stands for its name and side-effect level, so that a set of tools *)
(* is what a *_tools set and the matching *_levels set select together.     *)
RuleSets ==
    [deny_tools : SUBSET Tools, step_up_tools : SUBSET Tools,
     permit_required : SUBSET Tools, commit_required : SUBSET Tools,
     lease_required : SUBSET Tools,
     commit_implies_permit_required : BOOLEAN,
     permit_ttl : Nat,              \* 0: no signing key or TTL
     lease_ttl : Nat, lease_call_budget : Nat,      \* 0: not issued
     bump_authority_version : BOOLEAN,
     require_query_bound_lease : BOOLEAN, require_lease_call_budget : BOOLEAN,
     consume_lease_call_budget : BOOLEAN,
     honor_monitor : BOOLEAN, suspend_renewal : BOOLEAN,
     permit_missing : Enforcements, lease_missing : Enforcements,
     lease_expired : Enforcements, lease_exhausted : Enforcements,
     lease_query_mismatch : Enforcements]

ASSUME RulesAssumption == Rules \in RuleSets

Authorities == [version : Nat, epoch : Nat,
                expires : Nat \cup {None},         \* expires_at
                remaining : Nat \cup {None},       \* lease_remaining_calls
                query : Queries \cup {None}]       \* lease_query_id

Contexts == [tool : Tools, query : Queries \cup {None}, authority : Authorities]

-----------------------------------------------------------------------------
(* _authority_violations: the lease fields.                                 *)
AuthorityViolated(ctx, now) ==
    LET a == ctx.authority
    IN  \/ a.query # None /\ ctx.query # a.query
        \/ a.remaining # None /\ a.remaining <= 0
        \/ a.expires # None /\ a.expires <= now

-----------------------------------------------------------------------------
CommitRequired(tool) == tool \in Rules.commit_required
PermitRequired(tool) ==
    \/ tool \in Rules.permit_required
    \/ Rules.commit_implies_permit_required /\ CommitRequired(tool)
LeaseRequired(tool) == tool \in Rules.lease_required

LeaseExpired(a, now) == a.expires # None /\ a.expires <= now

(* The checks of decide() in the order it makes them.  Each one that fails  *)
(* overwrites the enforcement of those before it.                           *)
Checks(ctx, now) ==
    LET a == ctx.authority
        lease == LeaseRequired(ctx.tool)
    IN  << [fails |-> PermitRequired(ctx.tool) /\ Rules.permit_ttl = 0,
            sets |-> Rules.permit_missing],
           [fails |-> /\ lease /\ Rules.require_query_bound_lease
                      /\ ctx.query = None \/ ctx.query # a.query,
            sets |-> Rules.lease_query_mismatch],
           [fails |-> lease /\ Rules.require_lease_call_budget /\ a.remaining = None,
            sets |-> Rules.lease_missing],
           [fails |-> lease /\ a.remaining # None /\ a.remaining <= 0,
            sets |-> Rules.lease_exhausted],
           [fails |-> lease /\ LeaseExpired(a, now),
            sets |-> Rules.lease_expired],
           [fails |-> lease /\ a.expires = None /\ a.remaining = None,
            sets |-> Rules.lease_missing],
           [fails |-> ctx.tool \in Rules.deny_tools, sets |-> "deny"],
           [fails |-> ctx.tool \in Rules.step_up_tools \ Rules.deny_tools,
            sets |-> "step_up"] >>

Failing(checks) == {i \in 1..8 : checks[i].fails}

LastOf(S) == CHOOSE i \in S : \A j \in S : j <= i

Structural(ctx, now) ==
    LET checks == Checks(ctx, now)
    IN  IF Failing(checks) = {} THEN "allow" ELSE checks[LastOf(Failing(checks))].sets

(* The behavior monitor's recommendation can only tighten the decision.     *)
Advised(e, rec) ==
    IF ~Rules.honor_monitor THEN e
    ELSE IF rec = "deny" THEN "deny"
    ELSE IF rec = "step_up" /\ e = "allow" THEN "step_up"
    ELSE e

Enforcement(ctx, rec, now) == Advised(Structural(ctx, now), rec)

(* extra_violations is not empty.                                           *)
GovernorViolated(ctx, rec, now) ==
    \/ Failing(Checks(ctx, now)) # {}
    \/ Enforcement(ctx, rec, now) # Structural(ctx, now)

(* apply_authority_patch of the patch that an allowing decide() returns.    *)
Renews(rec) == /\ Rules.lease_ttl > 0 \/ Rules.lease_call_budget > 0
               /\ ~(Rules.suspend_renewal /\ rec \notin {None, "allow"})

Patched(ctx, rec, now) ==
    LET a == ctx.authority
        renew == Renews(rec)
        start == IF renew /\ Rules.lease_call_budget > 0
                 THEN Rules.lease_call_budget ELSE a.remaining
    IN  [version |-> IF renew /\ Rules.bump_authority_version
                     THEN a.version + 1 ELSE a.version,
         epoch |-> a.epoch,
         expires |-> IF renew /\ Rules.lease_ttl > 0
                     THEN now + Rules.lease_ttl ELSE a.expires,
         remaining |-> IF /\ Rules.consume_lease_call_budget
                          /\ LeaseRequired(ctx.tool) /\ start # None /\ start > 0
                       THEN start - 1 ELSE start,
         query |-> IF renew /\ Rules.require_query_bound_lease /\ ctx.query # None
                   THEN ctx.query ELSE a.query]

(* issue_tool_permit: signed over the context decide() was given.           *)
IssuePermit(ctx, now) ==
    [tool |-> ctx.tool, query |-> ctx.query, version |-> ctx.authority.version,
     epoch |-> ctx.authority.epoch, until |-> now + Rules.permit_ttl]

VerifyPermit(p, ctx, now) ==
    /\ p.until > now
    /\ p.tool = ctx.tool /\ p.query = ctx.query
    /\ p.version = ctx.authority.version
    /\ p.epoch = ctx.authority.epoch
=============================================================================
