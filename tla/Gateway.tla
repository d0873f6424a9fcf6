------------------------------- MODULE Gateway ------------------------------
(***************************************************************************)
(* ReceiptedMcpGateway (mcp.py): concurrent call_tool / call_tool_async    *)
(* invocations on one gateway, with the operator's revoke_permits and      *)
(* renew_lease.  A thread runs a call as                                   *)
(*                                                                         *)
(*   Begin     static checks; snapshot of the authority; pre-execution     *)
(*             checks on the snapshot                                      *)
(*   Govern    the governor decides on the snapshot; an allowing decision  *)
(*             patches it and writes it back over the gateway's authority; *)
(*             permit and commit token are verified                        *)
(*   Reserve   one step per budget, then Release or Consume                *)
(*   Run       the tool handler, or HandlerRaises                          *)
(*   Report / Refuse    AgentWrapper.record appends the receipt            *)
(*                                                                         *)
(* The async variant awaits its handler and records with a fresh context.  *)
(* Budgets and the store of used commit tokens are external (capabilities  *)
(* package); their reserve, commit, release and verify are atomic.         *)
(***************************************************************************)
EXTENDS Governor, Recorder, Integers, Sequences, FiniteSets, FiniteSetsExt

CONSTANTS Threads,
          Requests,      \* the calls agents make: see RequestSet
          Tokens,        \* commit tokens that have been issued
          TokenTool,     \* TokenTool[k]: the tool that token k is bound to
          Handlers, AsyncHandlers,      \* tools with a registered handler
          ReadOnly,      \* tools whose side_effect_level is READ_ONLY
          BudgetOrder,   \* configured budgets in the order they are reserved
          Limit,         \* Limit[b]: the size of budget b
          Grants,        \* renew_lease arguments: [ttl, calls, query]
          OperatingModes,    \* modes of the agents checked
          Unsafe,        \* allow_unsafe_execution
          Hook,          \* may reservation_callback ask for a reservation?
          Advice,        \* recommendations of the behavior monitor
          MaxCalls, MaxEvents    \* bounds: calls; operator events and ticks

Budgets == {BudgetOrder[i] : i \in 1..Len(BudgetOrder)}

(* Checks of a call's tool and arguments that depend on no gateway state:   *)
(* a request carries the set of those it fails.                             *)
CollectChecks == {"capability", "tool_policy", "principal_scope", "delegation", "pinning"}
PreChecks == {"trust", "task_scope", "governed_runtime", "monitoring", "egress",
              "credential", "artifact"}
PostChecks == {"payload"}

(* query is _query_id at the time of the call; token the _commit_token      *)
(* argument: absent, a token, or a value that is not a dict.                *)
RequestSet == [tool : Tools, query : Queries \cup {None},
               token : Tokens \cup {None, "not_a_dict"},
               fails : SUBSET (CollectChecks \cup PreChecks \cup PostChecks),
               amount : Nat, async : BOOLEAN]

ASSUME GatewayAssumption ==
    /\ IsFiniteSet(Threads) /\ Requests \subseteq RequestSet
    /\ Tokens \cap {None, "not_a_dict"} = {}
    /\ BudgetOrder \in Seq({"tool", "value", "call"})
    /\ \A i, j \in 1..Len(BudgetOrder) : BudgetOrder[i] = BudgetOrder[j] => i = j
    /\ TokenTool \in [Tokens -> Tools] /\ Limit \in [Budgets -> Nat]
    /\ Grants \subseteq [ttl : Nat \ {0}, calls : Nat \cup {None}, query : Queries \cup {None}]
    /\ OperatingModes \subseteq Modes /\ Unsafe \in BOOLEAN /\ Hook \in BOOLEAN
    /\ Advice \subseteq Recommendations \cup {None}

VARIABLES mode,          \* agent.mode, fixed
          authority,     \* self._authority
          usedTokens,    \* the used-token store
          used,          \* used[b]: reserved or consumed of budget b
          consumed,      \* consumed[b]: consumed of budget b
          pc, call,      \* where each thread is, and its locals
          ran,           \* handler executions
          audit,         \* receipts
          clock, started, revokes, renewals

vars == <<mode, authority, usedTokens, used, consumed, pc, call, ran, audit,
          clock, started, revokes, renewals>>

Steps == {"idle", "govern", "reserve", "run", "report", "refuse"}

NewAuthority == [version |-> 1, epoch |-> 0, expires |-> None,
                 remaining |-> None, query |-> None]

NoCall == [id |-> 0, req |-> None, authority |-> NewAuthority, violations |-> {},
           enforcement |-> "allow", redeemed |-> FALSE, next |-> 1, held |-> {},
           denied |-> FALSE, output |-> "fine"]

Init ==
    /\ mode \in OperatingModes
    /\ authority = NewAuthority
    /\ usedTokens = {}
    /\ used = [b \in Budgets |-> 0] /\ consumed = [b \in Budgets |-> 0]
    /\ pc = [t \in Threads |-> "idle"] /\ call = [t \in Threads |-> NoCall]
    /\ ran = {} /\ audit = {}
    /\ clock = 0 /\ started = 0 /\ revokes = 0 /\ renewals = 0

Bounds == <<mode, clock, started, revokes, renewals>>

Context(c) == [tool |-> c.req.tool, query |-> c.req.query, authority |-> c.authority]

Amount(req, b) == IF b = "value" THEN req.amount ELSE 1
Fits(req, b) == used[b] + Amount(req, b) <= Limit[b]      \* would_allow, reserve

CollectViolations(req) == req.fails \cap CollectChecks

PreExecutionViolations(c) ==
    (c.req.fails \cap PreChecks)
    \cup (IF AuthorityViolated(Context(c), clock) THEN {"authority"} ELSE {})
    \cup (IF \E b \in Budgets : ~Fits(c.req, b) THEN {"budget"} ELSE {})

(* Fault: only bounded_auto blocks.                                         *)
ShouldBlock_BoundedAutoOnly(violations, tool) == violations # {} /\ mode = "bounded_auto"

ShouldBlock(violations, tool) ==
    /\ violations # {}
    /\ \/ mode = "bounded_auto"
       \/ ~Unsafe /\ tool \notin ReadOnly /\ mode \in {"shadow", "recommend"}

-----------------------------------------------------------------------------
Begin(t) ==
    /\ pc[t] = "idle" /\ started < MaxCalls
    /\ \E req \in Requests :
        LET c == [NoCall EXCEPT !.id = started + 1, !.req = req, !.authority = authority]
        IN  call' = [call EXCEPT ![t] = [c EXCEPT !.violations =
                        CollectViolations(req) \cup PreExecutionViolations(c)]]
    /\ pc' = [pc EXCEPT ![t] = "govern"]
    /\ started' = started + 1
    /\ UNCHANGED <<mode, authority, usedTokens, used, consumed, ran, audit,
                   clock, revokes, renewals>>

(* verify_commit_token: bound to this tool and not used before; using it    *)
(* marks it.                                                                *)
TokenValid(req) == /\ req.token \in Tokens
                   /\ TokenTool[req.token] = req.tool
                   /\ req.token \notin usedTokens

(* Fault: verification without a used-token store.                          *)
Redeem_NoStore(req) == usedTokens

Redeem(req) == IF TokenValid(req) THEN usedTokens \cup {req.token} ELSE usedTokens

PermitInvalid(c, after, e) ==
    /\ e = "allow" /\ PermitRequired(c.req.tool) /\ Rules.permit_ttl > 0
    /\ ~VerifyPermit(IssuePermit(Context(c), clock),
                     [Context(c) EXCEPT !.authority = after], clock)

GovernorViolations(c, rec, after, e) ==
    {v \in {"sandbox", "permit", "no_token", "token"} :
        \/ v = "sandbox" /\ GovernorViolated(Context(c), rec, clock)
        \/ v = "permit" /\ PermitInvalid(c, after, e)
        \/ v = "no_token" /\ e = "allow" /\ ~PermitInvalid(c, after, e)
                          /\ CommitRequired(c.req.tool) /\ c.req.token = None
        \/ v = "token" /\ c.req.token \in Tokens /\ ~TokenValid(c.req)}

Registered(req) == req.tool \in Handlers \cup (IF req.async THEN AsyncHandlers ELSE {})

Blocks(c, violations, e) == \/ ShouldBlock(violations, c.req.tool)
                            \/ e # "allow"
                            \/ ~Registered(c.req)

Govern(t) ==
    /\ pc[t] = "govern"
    /\ \E rec \in Advice :
        LET c == call[t]
            e == Enforcement(Context(c), rec, clock)
            after == IF e = "allow" THEN Patched(Context(c), rec, clock) ELSE c.authority
            v == c.violations \cup GovernorViolations(c, rec, after, e)
        IN  /\ call' = [call EXCEPT ![t].authority = after, ![t].violations = v,
                                    ![t].enforcement = e,
                                    ![t].redeemed = TokenValid(c.req)]
            /\ authority' = IF e = "allow" THEN after ELSE authority
            /\ usedTokens' = Redeem(c.req)
            /\ pc' = [pc EXCEPT ![t] = IF Blocks(c, v, e) THEN "refuse" ELSE "reserve"]
    /\ UNCHANGED <<Bounds, used, consumed, ran, audit>>

(* Fault: trust the would_allow of the pre-execution checks.                *)
Reserve_TrustsPreCheck(t) ==
    /\ pc[t] = "reserve" /\ call[t].next <= Len(BudgetOrder)
    /\ LET b == BudgetOrder[call[t].next]
       IN  /\ used' = [used EXCEPT ![b] = @ + Amount(call[t].req, b)]
           /\ call' = [call EXCEPT ![t].next = @ + 1, ![t].held = @ \cup {b}]
    /\ UNCHANGED <<Bounds, authority, usedTokens, consumed, pc, ran, audit>>

Reserve(t) ==
    /\ pc[t] = "reserve" /\ call[t].next <= Len(BudgetOrder)
    /\ LET c == call[t]
           b == BudgetOrder[c.next]
       IN  IF Fits(c.req, b)
           THEN /\ used' = [used EXCEPT ![b] = @ + Amount(c.req, b)]
                /\ call' = [call EXCEPT ![t].next = @ + 1, ![t].held = @ \cup {b}]
           ELSE /\ call' = [call EXCEPT ![t].next = @ + 1, ![t].denied = TRUE]
                /\ UNCHANGED used
    /\ UNCHANGED <<Bounds, authority, usedTokens, consumed, pc, ran, audit>>

Reserved(t) == pc[t] = "reserve" /\ call[t].next > Len(BudgetOrder)

GiveBack(t, budgets) ==
    /\ Reserved(t) /\ call[t].denied
    /\ used' = [b \in Budgets |-> IF b \in budgets
                                  THEN used[b] - Amount(call[t].req, b) ELSE used[b]]
    /\ call' = [call EXCEPT ![t].held = {}, ![t].violations = @ \cup {"budget"}]
    /\ pc' = [pc EXCEPT ![t] = "refuse"]
    /\ UNCHANGED <<Bounds, authority, usedTokens, consumed, ran, audit>>

Release(t) == GiveBack(t, call[t].held)       \* one budget denied

Commit(t, kept) ==
    /\ Reserved(t) /\ ~call[t].denied
    /\ consumed' = [b \in Budgets |-> IF b \in call[t].held
                                      THEN consumed[b] + Amount(call[t].req, b)
                                      ELSE consumed[b]]
    /\ call' = [call EXCEPT ![t].held = kept]
    /\ pc' = [pc EXCEPT ![t] = "run"]
    /\ UNCHANGED <<Bounds, authority, usedTokens, used, ran, audit>>

Consume(t) == Commit(t, {})                   \* commit() of every reservation

Execution(c) == [id |-> c.id, req |-> c.req, redeemed |-> c.redeemed]

(* The handler returns: output the policy accepts, a dict that it rejects,  *)
(* or another value whose wrapping it rejects.                              *)
Run(t) ==
    /\ pc[t] = "run"
    /\ ran' = ran \cup {Execution(call[t])}
    /\ \E o \in {"fine", "bad_dict", "bad_wrapped"} :
        call' = [call EXCEPT ![t].output = o]
    /\ pc' = [pc EXCEPT ![t] = "report"]
    /\ UNCHANGED <<Bounds, authority, usedTokens, used, consumed, audit>>

(* The handler raises, before or after its effect: no receipt.              *)
HandlerRaises(t) ==
    /\ pc[t] = "run"
    /\ ran' = ran \/ ran' = ran \cup {Execution(call[t])}
    /\ call' = [call EXCEPT ![t] = NoCall]
    /\ pc' = [pc EXCEPT ![t] = "idle"]
    /\ UNCHANGED <<Bounds, authority, usedTokens, used, consumed, audit>>

Receipt(c, executed, outcome, ok, a) ==
    [id |-> c.id, executed |-> executed, outcome |-> outcome, satisfied |-> ok,
     version |-> a.version]

Finish(t, receipts) ==
    /\ audit' = audit \cup receipts
    /\ call' = [call EXCEPT ![t] = NoCall]
    /\ pc' = [pc EXCEPT ![t] = "idle"]
    /\ UNCHANGED <<Bounds, authority, usedTokens, used, consumed, ran>>

(* record() of an executed call.  The sync path evaluates the policy on the *)
(* patched snapshot; the async path passes a dict, so that record() builds  *)
(* a new authority, and makes no post-execution checks.                     *)
RecordedAuthority(c) == IF c.req.async THEN NewAuthority ELSE c.authority
PostViolations(c) == IF c.req.async THEN {} ELSE c.req.fails \cap PostChecks

Standing(c) ==
    \/ c.violations # {} \/ PostViolations(c) # {} \/ c.output = "bad_dict"
    \/ AuthorityViolated([Context(c) EXCEPT !.authority = RecordedAuthority(c)], clock)

ReportedOk(c, sentinelBad) ==
    Satisfied(mode, Standing(c), c.output = "bad_wrapped", sentinelBad)

BlockedAfter(c) == /\ PostViolations(c) # {}
                   /\ ShouldBlock(c.violations \cup PostViolations(c), c.req.tool)

Report(t) ==
    /\ pc[t] = "report"
    /\ \E sentinelBad, review, reserve \in BOOLEAN :
        LET c == call[t]
            ok == ReportedOk(c, sentinelBad)
            explicit == IF BlockedAfter(c) THEN "deny" ELSE "none"
        IN  /\ reserve => Hook
            /\ Finish(t, {Receipt(c, TRUE, Resolved(explicit, reserve, ok, review), ok,
                                  RecordedAuthority(c))})

ReportRaises(t) ==                \* no proof from a requested prover
    /\ pc[t] = "report" /\ StrictProver(mode)
    /\ \E sentinelBad \in BOOLEAN : ReportedOk(call[t], sentinelBad)
    /\ Finish(t, {})

(* Fault: always the governor's decision_outcome().                         *)
RefusalOutcome_Governor(c) ==
    CASE c.enforcement = "allow" -> "allow"
      [] c.enforcement = "deny" -> "deny"
      [] c.enforcement = "step_up" -> "pending_step_up"

RefusalOutcome(c) == IF c.enforcement = "step_up" THEN "pending_step_up" ELSE "deny"

Refuse(t) ==
    /\ pc[t] = "refuse"
    /\ \E reserve \in BOOLEAN :
        LET c == call[t]
        IN  /\ reserve => Hook
            /\ Finish(t, {Receipt(c, FALSE, Resolved(RefusalOutcome(c), reserve, FALSE, FALSE),
                                  FALSE, c.authority)})

-----------------------------------------------------------------------------
(* The operator and the clock.                                              *)
MoreEvents == revokes + renewals + clock < MaxEvents

RevokePermits ==
    /\ MoreEvents
    /\ revokes' = revokes + 1
    /\ authority' = [authority EXCEPT !.epoch = @ + 1, !.version = @ + 1]
    /\ UNCHANGED <<mode, usedTokens, used, consumed, pc, call, ran, audit,
                   clock, started, renewals>>

RenewLease ==
    /\ MoreEvents
    /\ renewals' = renewals + 1
    /\ \E g \in Grants :
        authority' = [authority EXCEPT
            !.expires = clock + g.ttl, !.version = @ + 1,
            !.remaining = IF g.calls = None THEN @ ELSE g.calls,
            !.query = IF g.query = None THEN @ ELSE g.query]
    /\ UNCHANGED <<mode, usedTokens, used, consumed, pc, call, ran, audit,
                   clock, started, revokes>>

Tick == /\ MoreEvents
        /\ clock' = clock + 1
        /\ UNCHANGED <<mode, authority, usedTokens, used, consumed, pc, call, ran, audit,
                       started, revokes, renewals>>

Next == \/ \E t \in Threads :
             \/ Begin(t) \/ Govern(t) \/ Reserve(t) \/ Release(t) \/ Consume(t)
             \/ Run(t) \/ HandlerRaises(t) \/ Report(t) \/ ReportRaises(t) \/ Refuse(t)
        \/ RevokePermits \/ RenewLease \/ Tick

Spec == Init /\ [][Next]_vars

-----------------------------------------------------------------------------
Checked == CollectChecks \cup PreChecks \cup PostChecks
Violations == Checked \cup {"authority", "budget", "sandbox", "permit", "no_token", "token"}

Calls == [id : Nat, req : Requests \cup {None}, authority : Authorities,
          violations : SUBSET Violations, enforcement : Enforcements, redeemed : BOOLEAN,
          next : Nat \ {0}, held : SUBSET Budgets, denied : BOOLEAN,
          output : {"fine", "bad_dict", "bad_wrapped"}]

Executions == [id : Nat, req : Requests, redeemed : BOOLEAN]

Receipts == [id : Nat, executed : BOOLEAN, outcome : Outcomes, satisfied : BOOLEAN,
             version : Nat]

(* The variables have their types; a call in progress has a request, and    *)
(* only a call between its reservations and their commit or release         *)
(* (call_tool) holds any.                                                   *)
TypeOK ==
    /\ mode \in OperatingModes /\ authority \in Authorities
    /\ usedTokens \subseteq Tokens
    /\ used \in [Budgets -> Int] /\ consumed \in [Budgets -> Nat]
    /\ pc \in [Threads -> Steps] /\ call \in [Threads -> Calls]
    /\ ran \subseteq Executions /\ audit \subseteq Receipts
    /\ clock \in Nat /\ started \in Nat /\ revokes \in Nat /\ renewals \in Nat
    /\ \A t \in Threads : pc[t] # "idle" => call[t].req \in Requests
    /\ \A t \in Threads : pc[t] # "reserve" => call[t].held = {}

(* However calls interleave between the would_allow of the pre-execution    *)
(* checks and the reservation at the gate, the handlers that ran cost no    *)
(* more than each budget.                                                   *)
EffectsWithinBudget ==
    \A b \in Budgets :
        SumFunction([e \in ran |-> Amount(e.req, b)]) <= Limit[b]

(* Every reservation is settled: what a budget counts as used is what was   *)
(* consumed and what calls between gate and commit hold.  A denied sibling  *)
(* budget leaks nothing.                                                    *)
NoLeakedReservation ==
    \A b \in Budgets :
        used[b] = consumed[b]
                  + SumFunction([t \in Threads |-> IF b \in call[t].held
                                                   THEN Amount(call[t].req, b) ELSE 0])

(* Budgets neither overrun nor shrink (call_tool, reserve to commit).       *)
BudgetsBalance == EffectsWithinBudget /\ NoLeakedReservation

(* A commit token admits one effect: no two executions redeemed the same    *)
(* token, and in bounded_auto a commit-required tool given a token ran only *)
(* by redeeming it (_apply_sandbox_governor, _should_block).                *)
OneEffectPerToken ==
    /\ \A d, e \in ran :
        (d.redeemed /\ e.redeemed /\ d.req.token = e.req.token) => d.id = e.id
    /\ \A e \in ran : (mode = "bounded_auto" /\ CommitRequired(e.req.tool))
                         => e.redeemed \/ e.req.token = "not_a_dict"

(* A tool the governor denies never runs, in any mode; and unless unsafe    *)
(* execution is allowed, a side-effecting tool whose call fails a check     *)
(* made before the handler does not run in bounded_auto, shadow or          *)
(* recommend (_should_block blocks nothing in prove).                       *)
DeniedHasNoEffect ==
    \A e \in ran :
        /\ e.req.tool \notin Rules.deny_tools
        /\ (~Unsafe /\ mode # "prove" /\ e.req.tool \notin ReadOnly)
            => e.req.fails \subseteq PostChecks

(* An allowing receipt is true: its call executed, and its policy was       *)
(* satisfied.                                                               *)
AllowIsTruthful ==
    \A r \in audit : r.outcome \in Allowing
                        => r.satisfied /\ \E e \in ran : e.id = r.id

-----------------------------------------------------------------------------
(* What the documentation says and the code does not do.                    *)

(* revoke_permits() "Invalidate[s] previously issued permits by bumping     *)
(* authority.permit_epoch": the epoch counts at least the revocations.  A   *)
(* call in flight writes the snapshot it took before the revocation back    *)
(* over it (_update_authority_from_context).                                *)
RevocationSticks == authority.epoch >= revokes
=============================================================================
