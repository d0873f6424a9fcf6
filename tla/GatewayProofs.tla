---------------------------- MODULE GatewayProofs ---------------------------
(***************************************************************************)
(* Proofs about Gateway, for any tools, rules, budgets, requests and any   *)
(* number of concurrent calls.                                             *)
(***************************************************************************)
EXTENDS Gateway, FiniteSetTheorems, WellFoundedInduction, TLAPS

-----------------------------------------------------------------------------
(* The governor.                                                            *)

(* The last failing check of decide() is one of the failing checks, and no  *)
(* failing check comes after it.                                            *)
LEMMA LastIsLast ==
    ASSUME NEW S \in SUBSET (1..8), S # {}
    PROVE  LastOf(S) \in S /\ \A j \in S : j <= LastOf(S)
<1>1. \E i \in S : \A j \in S : j <= i
    <2>1. \A k \in S : k \in {1, 2, 3, 4, 5, 6, 7, 8}
        OBVIOUS
    <2>2. CASE 8 \in S
        BY <2>1, <2>2
    <2>3. CASE 8 \notin S /\ 7 \in S
        BY <2>1, <2>3
    <2>4. CASE 8 \notin S /\ 7 \notin S /\ 6 \in S
        BY <2>1, <2>4
    <2>5. CASE 8 \notin S /\ 7 \notin S /\ 6 \notin S /\ 5 \in S
        BY <2>1, <2>5
    <2>6. CASE \A k \in S : k \in {1, 2, 3, 4}
        <3>1. CASE 4 \in S
            BY <2>6, <3>1
        <3>2. CASE 4 \notin S /\ 3 \in S
            BY <2>6, <3>2
        <3>3. CASE 4 \notin S /\ 3 \notin S /\ 2 \in S
            BY <2>6, <3>3
        <3>4. CASE S = {1}
            BY <3>4
        <3>5. QED
            BY <2>6, <3>1, <3>2, <3>3, <3>4
    <2>7. QED
        BY <2>1, <2>2, <2>3, <2>4, <2>5, <2>6
<1>2. QED
    BY <1>1 DEF LastOf

(* decide() returns an enforcement, whatever order its checks fail in.      *)
LEMMA EnforcementType ==
    ASSUME NEW ctx, NEW rec, NEW now
    PROVE  Enforcement(ctx, rec, now) \in Enforcements
<1> DEFINE checks == Checks(ctx, now)
           F == Failing(checks)
<1>1. \A i \in 1..8 : checks[i].sets \in Enforcements
    BY RulesAssumption DEF Checks, RuleSets, Enforcements
<1>2. ASSUME F # {}
      PROVE  LastOf(F) \in 1..8
    <2>1. F \in SUBSET (1..8)
        BY DEF Failing
    <2>2. QED
        BY <1>2, <2>1, LastIsLast
<1>3. Structural(ctx, now) \in Enforcements
    <2>1. CASE F = {}
        BY <2>1 DEF Structural, Enforcements
    <2>2. CASE F # {}
        BY <1>1, <1>2, <2>2 DEF Structural
    <2>3. QED
        BY <2>1, <2>2
<1>4. QED
    BY <1>3 DEF Enforcement, Advised, Enforcements

(* No configuration lets the governor allow a tool it is told to deny: the  *)
(* deny check is the last that can fail for such a tool, and the monitor's  *)
(* advice only tightens.                                                    *)
LEMMA DenyToolsDenied ==
    ASSUME NEW ctx, NEW rec, NEW now, ctx.tool \in Rules.deny_tools
    PROVE  Enforcement(ctx, rec, now) = "deny"
<1> DEFINE checks == Checks(ctx, now)
           F == Failing(checks)
<1>1. checks[7].fails /\ checks[7].sets = "deny" /\ ~checks[8].fails
    BY DEF Checks
<1>2. F \in SUBSET (1..8) /\ 7 \in F /\ 8 \notin F
    BY <1>1 DEF Failing
<1>3. LastOf(F) = 7
    BY <1>2, LastIsLast
<1>4. Structural(ctx, now) = "deny"
    BY <1>1, <1>2, <1>3 DEF Structural
<1>5. QED
    BY <1>4 DEF Enforcement, Advised

(* Patching an authority snapshot gives an authority snapshot.              *)
LEMMA PatchedType ==
    ASSUME NEW ctx \in Contexts, NEW rec, NEW now \in Nat
    PROVE  Patched(ctx, rec, now) \in Authorities
BY RulesAssumption, NoneAssumption DEF Contexts, Authorities, RuleSets, Patched

-----------------------------------------------------------------------------
(* Types.                                                                   *)

LEMMA NoCallType == NoCall \in Calls
BY NoneAssumption DEF NoCall, Calls, NewAuthority, Authorities, Enforcements

LEMMA AmountType ==
    ASSUME NEW req \in Requests, NEW b
    PROVE  Amount(req, b) \in Nat
BY GatewayAssumption DEF RequestSet, Amount

LEMMA ContextType ==
    ASSUME NEW c \in Calls, c.req \in Requests
    PROVE  Context(c) \in Contexts
BY GatewayAssumption DEF Calls, Context, Contexts, RequestSet

LEMMA TypeInit == Init => TypeOK
<1> SUFFICES ASSUME Init PROVE TypeOK
    OBVIOUS
<1>1. NoCall.held = {}
    BY DEF NoCall
<1>2. NewAuthority \in Authorities
    BY DEF NewAuthority, Authorities
<1>3. QED
    BY <1>1, <1>2, NoCallType DEF Init, TypeOK, Steps

LEMMA BeginType == ASSUME TypeOK, NEW t \in Threads, Begin(t) PROVE TypeOK'
<1>1. PICK req \in Requests :
        LET c == [NoCall EXCEPT !.id = started + 1, !.req = req, !.authority = authority]
        IN  call' = [call EXCEPT ![t] = [c EXCEPT !.violations =
                        CollectViolations(req) \cup PreExecutionViolations(c)]]
    BY DEF Begin
<1> DEFINE c == [NoCall EXCEPT !.id = started + 1, !.req = req, !.authority = authority]
           d == [c EXCEPT !.violations = CollectViolations(req) \cup PreExecutionViolations(c)]
<1>2. c \in Calls /\ c.req = req /\ c.held = {}
    <2>1. NoCall.held = {}
        BY DEF NoCall
    <2>2. started + 1 \in Nat /\ authority \in Authorities
        BY DEF TypeOK
    <2>3. QED
        BY <2>1, <2>2, NoCallType DEF Calls
<1>3. CollectViolations(req) \cup PreExecutionViolations(c) \in SUBSET Violations
    BY <1>2 DEF CollectViolations, PreExecutionViolations, Violations, Checked
<1>4. d \in Calls /\ d.req = req /\ d.held = {}
    BY <1>2, <1>3 DEF Calls
<1>5. call' = [call EXCEPT ![t] = d]
    BY <1>1
<1> HIDE DEF c, d
<1>6. /\ call' \in [Threads -> Calls] /\ call'[t].req = req /\ call'[t].held = {}
      /\ \A u \in Threads \ {t} : call'[u] = call[u]
    BY <1>4, <1>5 DEF TypeOK
<1>7. pc' \in [Threads -> Steps] /\ \A u \in Threads \ {t} : pc'[u] = pc[u]
    BY DEF TypeOK, Begin, Steps
<1>8. QED
    BY <1>6, <1>7 DEF TypeOK, Begin

LEMMA GovernType == ASSUME TypeOK, NEW t \in Threads, Govern(t) PROVE TypeOK'
<1> DEFINE c == call[t]
           E(rec) == Enforcement(Context(c), rec, clock)
           After(rec) == IF E(rec) = "allow" THEN Patched(Context(c), rec, clock)
                                             ELSE c.authority
           V(rec) == c.violations \cup GovernorViolations(c, rec, After(rec), E(rec))
<1>1. PICK rec \in Advice :
        /\ call' = [call EXCEPT ![t].authority = After(rec), ![t].violations = V(rec),
                                ![t].enforcement = E(rec), ![t].redeemed = TokenValid(c.req)]
        /\ authority' = IF E(rec) = "allow" THEN After(rec) ELSE authority
        /\ usedTokens' = Redeem(c.req)
        /\ pc' = [pc EXCEPT ![t] = IF Blocks(c, V(rec), E(rec)) THEN "refuse" ELSE "reserve"]
    BY DEF Govern
<1>2. c \in Calls /\ c.req \in Requests /\ c.held = {}
    BY DEF Govern, TypeOK
<1>3. E(rec) \in Enforcements
    BY EnforcementType
<1>4. After(rec) \in Authorities
    BY <1>2, ContextType, PatchedType DEF TypeOK, Calls
<1>5. V(rec) \in SUBSET Violations
    BY <1>2 DEF Calls, GovernorViolations, Violations
<1>6. TokenValid(c.req) \in BOOLEAN
    BY DEF TokenValid
<1>7. usedTokens' \subseteq Tokens
    BY <1>1 DEF TypeOK, Redeem, TokenValid
<1>8. call' = [call EXCEPT ![t] = [c EXCEPT !.authority = After(rec), !.violations = V(rec),
                                   !.enforcement = E(rec), !.redeemed = TokenValid(c.req)]]
    BY <1>1, <1>2 DEF TypeOK
<1> HIDE DEF c, E, After, V
<1>9. /\ call' \in [Threads -> Calls] /\ call'[t].req = c.req /\ call'[t].held = {}
      /\ \A u \in Threads \ {t} : call'[u] = call[u]
    BY <1>2, <1>3, <1>4, <1>5, <1>6, <1>8 DEF TypeOK, Calls
<1>10. authority' \in Authorities
    BY <1>1, <1>4 DEF TypeOK
<1>11. QED
    BY <1>1, <1>2, <1>7, <1>9, <1>10 DEF TypeOK, Govern, Bounds, Steps

LEMMA ReserveType == ASSUME TypeOK, NEW t \in Threads, Reserve(t) PROVE TypeOK'
<1> DEFINE c == call[t]
           b == BudgetOrder[c.next]
<1>1. c \in Calls /\ c.req \in Requests
    BY DEF Reserve, TypeOK
<1>2. b \in Budgets
    <2>1. c.next \in Nat \ {0} /\ c.next <= Len(BudgetOrder)
        BY <1>1 DEF Reserve, Calls
    <2>2. Len(BudgetOrder) \in Nat
        BY GatewayAssumption
    <2>3. QED
        BY <2>1, <2>2 DEF Budgets
<1>3. used' \in [Budgets -> Int]
    BY <1>1, <1>2, AmountType DEF Reserve, TypeOK
<1>4. \/ call' = [call EXCEPT ![t] = [c EXCEPT !.next = @ + 1, !.held = @ \cup {b}]]
      \/ call' = [call EXCEPT ![t] = [c EXCEPT !.next = @ + 1, !.denied = TRUE]]
    BY DEF Reserve, TypeOK
<1> HIDE DEF c, b
<1>5. /\ [c EXCEPT !.next = @ + 1, !.held = @ \cup {b}] \in Calls
      /\ [c EXCEPT !.next = @ + 1, !.held = @ \cup {b}].req = c.req
      /\ [c EXCEPT !.next = @ + 1, !.denied = TRUE] \in Calls
      /\ [c EXCEPT !.next = @ + 1, !.denied = TRUE].req = c.req
    <2>1. c.next + 1 \in Nat \ {0} /\ c.held \cup {b} \in SUBSET Budgets
        BY <1>1, <1>2 DEF Calls
    <2>2. QED
        BY <1>1, <2>1 DEF Calls
<1>6. /\ call' \in [Threads -> Calls] /\ call'[t].req = c.req
      /\ \A u \in Threads \ {t} : call'[u] = call[u]
    BY <1>4, <1>5 DEF TypeOK
<1>7. QED
    BY <1>1, <1>3, <1>6 DEF TypeOK, Reserve, Bounds

(* A call that leaves its reservations holds none and keeps its request.    *)
LEMMA SettleType ==
    ASSUME TypeOK, NEW t \in Threads, Release(t) \/ Consume(t)
    PROVE  TypeOK'
<1> DEFINE c == call[t]
<1>1. c \in Calls /\ c.req \in Requests
    BY DEF Release, GiveBack, Consume, Commit, Reserved, TypeOK
<1>2. used' \in [Budgets -> Int] /\ consumed' \in [Budgets -> Nat]
    BY <1>1, AmountType DEF Release, GiveBack, Consume, Commit, TypeOK
<1>3. \/ call' = [call EXCEPT ![t] = [c EXCEPT !.held = {}, !.violations = @ \cup {"budget"}]]
      \/ call' = [call EXCEPT ![t] = [c EXCEPT !.held = {}]]
    BY DEF Release, GiveBack, Consume, Commit, TypeOK
<1> HIDE DEF c
<1>4. /\ call' \in [Threads -> Calls] /\ call'[t].req = c.req /\ call'[t].held = {}
      /\ \A u \in Threads \ {t} : call'[u] = call[u]
    <2>1. c.violations \cup {"budget"} \in SUBSET Violations
        BY <1>1 DEF Calls, Violations
    <2>2. /\ [c EXCEPT !.held = {}, !.violations = @ \cup {"budget"}] \in Calls
          /\ [c EXCEPT !.held = {}] \in Calls
        BY <1>1, <2>1 DEF Calls
    <2>3. /\ [c EXCEPT !.held = {}, !.violations = @ \cup {"budget"}].req = c.req
          /\ [c EXCEPT !.held = {}, !.violations = @ \cup {"budget"}].held = {}
          /\ [c EXCEPT !.held = {}].req = c.req /\ [c EXCEPT !.held = {}].held = {}
        BY <1>1 DEF Calls
    <2>4. QED
        BY <1>3, <2>2, <2>3 DEF TypeOK
<1>5. /\ pc' \in [Threads -> Steps] /\ \A u \in Threads \ {t} : pc'[u] = pc[u]
      /\ UNCHANGED <<Bounds, authority, usedTokens, ran, audit>>
    BY DEF Release, GiveBack, Consume, Commit, TypeOK, Steps
<1>6. QED
    BY <1>1, <1>2, <1>4, <1>5 DEF TypeOK, Bounds

LEMMA RunType == ASSUME TypeOK, NEW t \in Threads, Run(t) PROVE TypeOK'
<1> DEFINE c == call[t]
<1>1. c \in Calls /\ c.req \in Requests /\ c.held = {}
    BY DEF Run, TypeOK
<1>2. PICK o \in {"fine", "bad_dict", "bad_wrapped"} :
        call' = [call EXCEPT ![t] = [c EXCEPT !.output = o]]
    BY DEF Run, TypeOK
<1>3. Execution(c) \in Executions
    BY <1>1 DEF Execution, Executions, Calls
<1> HIDE DEF c
<1>4. /\ call' \in [Threads -> Calls] /\ call'[t].req = c.req /\ call'[t].held = {}
      /\ \A u \in Threads \ {t} : call'[u] = call[u]
    BY <1>1, <1>2 DEF TypeOK, Calls
<1>5. ran' \subseteq Executions
    BY <1>3 DEF TypeOK, Run, c
<1>6. QED
    BY <1>1, <1>4, <1>5 DEF TypeOK, Run, Bounds, Steps

(* A call that ends leaves an idle thread.                                  *)
LEMMA IdleType ==
    ASSUME TypeOK, NEW t \in Threads,
           call' = [call EXCEPT ![t] = NoCall], pc' = [pc EXCEPT ![t] = "idle"]
    PROVE  /\ call' \in [Threads -> Calls] /\ pc' \in [Threads -> Steps]
           /\ \A u \in Threads : pc'[u] # "idle" => call'[u].req \in Requests
           /\ \A u \in Threads : pc'[u] # "reserve" => call'[u].held = {}
<1>1. NoCall.held = {}
    BY DEF NoCall
<1>2. QED
    BY <1>1, NoCallType DEF TypeOK, Steps

LEMMA HandlerRaisesType == ASSUME TypeOK, NEW t \in Threads, HandlerRaises(t) PROVE TypeOK'
<1>1. Execution(call[t]) \in Executions
    BY DEF HandlerRaises, TypeOK, Execution, Executions, Calls
<1>2. ran' \subseteq Executions
    BY <1>1 DEF HandlerRaises, TypeOK
<1>3. QED
    BY <1>2, IdleType DEF HandlerRaises, TypeOK, Bounds

LEMMA FinishType ==
    ASSUME TypeOK, NEW t \in Threads, NEW R \in SUBSET Receipts, Finish(t, R)
    PROVE  TypeOK'
BY IdleType DEF Finish, TypeOK, Bounds

LEMMA ReceiptType ==
    ASSUME NEW c \in Calls, NEW x \in BOOLEAN, NEW ok \in BOOLEAN,
           NEW o \in Outcomes, NEW a \in Authorities
    PROVE  Receipt(c, x, o, ok, a) \in Receipts
<1>1. a.version \in Nat /\ c.id \in Nat
    BY DEF Authorities, Calls
<1>2. (c.violations = {} /\ c.output = "fine" /\ c.req.fails = {}) \in BOOLEAN
    OBVIOUS
<1>3. QED
    BY <1>1, <1>2 DEF Receipt, Receipts

LEMMA ResolvedType ==
    ASSUME NEW x, NEW r \in BOOLEAN, NEW ok \in BOOLEAN, NEW review \in BOOLEAN
    PROVE  Resolved(x, r, ok, review) \in Outcomes
BY DEF Resolved, DefaultOutcome, Outcomes, Allowing

LEMMA RecordType ==
    ASSUME TypeOK, NEW t \in Threads, Report(t) \/ ReportRaises(t) \/ Refuse(t)
    PROVE  TypeOK'
<1>1. call[t] \in Calls /\ call[t].authority \in Authorities
    BY DEF TypeOK, Calls
<1>2. RecordedAuthority(call[t]) \in Authorities
    BY <1>1 DEF RecordedAuthority, NewAuthority, Authorities
<1>3. CASE Report(t)
    <2>1. PICK sentinelBad \in BOOLEAN, review \in BOOLEAN, reserve \in BOOLEAN :
            LET c == call[t]
                ok == ReportedOk(c, sentinelBad)
                explicit == IF BlockedAfter(c) THEN "deny" ELSE "none"
            IN  Finish(t, {Receipt(c, TRUE, Resolved(explicit, reserve, ok, review), ok,
                                   RecordedAuthority(c))})
        BY <1>3 DEF Report
    <2>2. ReportedOk(call[t], sentinelBad) \in BOOLEAN
        BY DEF ReportedOk, Satisfied, Withheld
    <2> DEFINE ok == ReportedOk(call[t], sentinelBad)
               x == IF BlockedAfter(call[t]) THEN "deny" ELSE "none"
               r == Receipt(call[t], TRUE, Resolved(x, reserve, ok, review), ok,
                            RecordedAuthority(call[t]))
    <2>3. Finish(t, {r})
        BY <2>1
    <2>4. Resolved(x, reserve, ok, review) \in Outcomes
        BY <2>2, ResolvedType
    <2>5. r \in Receipts
        BY <1>1, <1>2, <2>2, <2>4, ReceiptType
    <2> HIDE DEF r
    <2>6. QED
        BY <2>3, <2>5, FinishType
<1>4. CASE ReportRaises(t)
    BY <1>4, FinishType DEF ReportRaises
<1>5. CASE Refuse(t)
    <2>1. PICK reserve \in BOOLEAN :
            Finish(t, {Receipt(call[t], FALSE,
                               Resolved(RefusalOutcome(call[t]), reserve, FALSE, FALSE),
                               FALSE, call[t].authority)})
        BY <1>5 DEF Refuse
    <2>2. Resolved(RefusalOutcome(call[t]), reserve, FALSE, FALSE) \in Outcomes
        BY ResolvedType
    <2>3. Receipt(call[t], FALSE, Resolved(RefusalOutcome(call[t]), reserve, FALSE, FALSE),
                  FALSE, call[t].authority) \in Receipts
        BY <1>1, <2>2, ReceiptType
    <2>4. QED
        BY <2>1, <2>3, FinishType
<1>6. QED
    BY <1>3, <1>4, <1>5

LEMMA OperatorType == ASSUME TypeOK, RevokePermits \/ RenewLease \/ Tick PROVE TypeOK'
<1>1. CASE RevokePermits
    <2>1. authority' \in Authorities
        <3>1. authority' = [authority EXCEPT !.epoch = @ + 1, !.version = @ + 1]
            BY <1>1 DEF RevokePermits
        <3>2. authority.epoch + 1 \in Nat /\ authority.version + 1 \in Nat
            BY DEF TypeOK, Authorities
        <3>3. QED
            BY <3>1, <3>2 DEF TypeOK, Authorities
    <2>2. /\ revokes' \in Nat
          /\ UNCHANGED <<mode, usedTokens, used, consumed, pc, call, ran, audit,
                         clock, started, renewals>>
        BY <1>1 DEF RevokePermits, TypeOK
    <2>3. QED
        BY <2>1, <2>2 DEF TypeOK
<1>2. CASE RenewLease
    <2>1. PICK g \in Grants : authority' = [authority EXCEPT
            !.expires = clock + g.ttl, !.version = @ + 1,
            !.remaining = IF g.calls = None THEN @ ELSE g.calls,
            !.query = IF g.query = None THEN @ ELSE g.query]
        BY <1>2 DEF RenewLease
    <2>2. /\ g.ttl \in Nat /\ g.calls \in Nat \cup {None}
          /\ g.query \in Queries \cup {None}
        BY GatewayAssumption
    <2>3. authority' \in Authorities
        <3>1. clock + g.ttl \in Nat /\ authority.version + 1 \in Nat
            BY <2>2 DEF TypeOK, Authorities
        <3>2. (IF g.calls = None THEN authority.remaining ELSE g.calls) \in Nat \cup {None}
            BY <2>2 DEF TypeOK, Authorities
        <3>3. (IF g.query = None THEN authority.query ELSE g.query) \in Queries \cup {None}
            BY <2>2 DEF TypeOK, Authorities
        <3>4. QED
            BY <2>1, <3>1, <3>2, <3>3 DEF TypeOK, Authorities
    <2>4. /\ renewals' = renewals + 1
          /\ UNCHANGED <<mode, usedTokens, used, consumed, pc, call, ran, audit,
                         clock, started, revokes>>
        BY <1>2, Zenon DEF RenewLease
    <2>5. QED
        BY <2>3, <2>4 DEF TypeOK
<1>3. CASE Tick
    BY <1>3 DEF Tick, TypeOK
<1>4. QED
    BY <1>1, <1>2, <1>3

LEMMA TypeNext == TypeOK /\ [Next]_vars => TypeOK'
<1> SUFFICES ASSUME TypeOK, [Next]_vars PROVE TypeOK'
    OBVIOUS
<1>1. CASE UNCHANGED vars
    BY <1>1 DEF vars, TypeOK
<1>2. CASE Next
    BY <1>2, BeginType, GovernType, ReserveType, SettleType, RunType, HandlerRaisesType,
       RecordType, OperatorType DEF Next
<1>3. QED
    BY <1>1, <1>2

(* Every reachable state of the gateway is well typed.                      *)
THEOREM TypeCorrect == Spec => []TypeOK
BY TypeInit, TypeNext, PTL DEF Spec

-----------------------------------------------------------------------------
(* A denied call has no effect.                                             *)

(* Nothing a check before the handler found stands against the request.     *)
Cleared(req) ==
    /\ req.tool \notin Rules.deny_tools
    /\ (~Unsafe /\ mode # "prove" /\ req.tool \notin ReadOnly)
        => req.fails \subseteq PostChecks

(* The checks are remembered from Begin to Govern, and Govern lets only     *)
(* cleared requests pass to the gate.                                       *)
ScreenInv ==
    /\ \A t \in Threads :
        /\ pc[t] = "govern" =>
              call[t].req.fails \subseteq call[t].violations \cup PostChecks
        /\ pc[t] \in {"reserve", "run"} => Cleared(call[t].req)
    /\ \A e \in ran : Cleared(e.req)

(* ShouldBlock stops whatever fails a check, outside prove.                 *)
LEMMA PassedIsCleared ==
    ASSUME NEW c, NEW v, NEW e, NEW rec, mode \in Modes,
           c.req.fails \subseteq v \cup PostChecks,
           e = Enforcement(Context(c), rec, clock),
           ~Blocks(c, v, e)
    PROVE  Cleared(c.req)
<1>1. e = "allow" /\ ~ShouldBlock(v, c.req.tool)
    BY DEF Blocks
<1>2. Context(c).tool = c.req.tool
    BY DEF Context
<1>3. c.req.tool \notin Rules.deny_tools
    BY <1>1, <1>2, DenyToolsDenied
<1>4. ASSUME ~Unsafe, mode # "prove", c.req.tool \notin ReadOnly
      PROVE  v = {}
    BY <1>1, <1>4 DEF ShouldBlock, Modes
<1>5. QED
    BY <1>3, <1>4 DEF Cleared

LEMMA ScreenInit == Init => ScreenInv
BY DEF Init, ScreenInv

LEMMA BeginScreen == ASSUME TypeOK, ScreenInv, NEW t \in Threads, Begin(t) PROVE ScreenInv'
<1>1. PICK req \in Requests :
        LET c == [NoCall EXCEPT !.id = started + 1, !.req = req, !.authority = authority]
        IN  call' = [call EXCEPT ![t] = [c EXCEPT !.violations =
                        CollectViolations(req) \cup PreExecutionViolations(c)]]
    BY DEF Begin
<1> DEFINE c == [NoCall EXCEPT !.id = started + 1, !.req = req, !.authority = authority]
           d == [c EXCEPT !.violations = CollectViolations(req) \cup PreExecutionViolations(c)]
<1>2. c.req = req /\ d.req = req
      /\ d.violations = CollectViolations(req) \cup PreExecutionViolations(c)
    BY DEF NoCall
<1>3. req.fails \subseteq Checked
    BY GatewayAssumption DEF RequestSet, Checked
<1>4. req.fails \subseteq d.violations \cup PostChecks
    BY <1>2, <1>3 DEF CollectViolations, PreExecutionViolations, Checked
<1>5. call' = [call EXCEPT ![t] = d]
    BY <1>1
<1> HIDE DEF c, d
<1>6. /\ call'[t] = d /\ \A u \in Threads \ {t} : call'[u] = call[u]
      /\ pc'[t] = "govern" /\ \A u \in Threads \ {t} : pc'[u] = pc[u]
    BY <1>5 DEF Begin, TypeOK
<1>7. UNCHANGED <<mode, ran>>
    BY DEF Begin
<1>8. QED
    BY <1>2, <1>4, <1>6, <1>7 DEF ScreenInv, Cleared

LEMMA GovernScreen == ASSUME TypeOK, ScreenInv, NEW t \in Threads, Govern(t) PROVE ScreenInv'
<1> DEFINE c == call[t]
           E(rec) == Enforcement(Context(c), rec, clock)
           After(rec) == IF E(rec) = "allow" THEN Patched(Context(c), rec, clock)
                                             ELSE c.authority
           V(rec) == c.violations \cup GovernorViolations(c, rec, After(rec), E(rec))
<1>1. PICK rec \in Advice :
        /\ call' = [call EXCEPT ![t].authority = After(rec), ![t].violations = V(rec),
                                ![t].enforcement = E(rec), ![t].redeemed = TokenValid(c.req)]
        /\ pc' = [pc EXCEPT ![t] = IF Blocks(c, V(rec), E(rec)) THEN "refuse" ELSE "reserve"]
        /\ UNCHANGED <<mode, ran>>
    BY DEF Govern, Bounds
<1>2. c.req.fails \subseteq V(rec) \cup PostChecks
    BY DEF Govern, ScreenInv
<1>3. mode \in Modes
    BY GatewayAssumption DEF TypeOK
<1>4. ~Blocks(c, V(rec), E(rec)) => Cleared(c.req)
    BY <1>2, <1>3, PassedIsCleared
<1>5. call' = [call EXCEPT ![t] = [c EXCEPT !.authority = After(rec), !.violations = V(rec),
                                   !.enforcement = E(rec), !.redeemed = TokenValid(c.req)]]
    BY <1>1 DEF TypeOK
<1> HIDE DEF E, After, V
<1>6. call'[t].req = c.req /\ \A u \in Threads \ {t} : call'[u] = call[u]
    BY <1>5 DEF TypeOK, Calls
<1>7. pc'[t] = (IF Blocks(c, V(rec), E(rec)) THEN "refuse" ELSE "reserve")
      /\ \A u \in Threads \ {t} : pc'[u] = pc[u]
    BY <1>1 DEF TypeOK
<1>8. pc'[t] # "govern" /\ (pc'[t] = "reserve" => Cleared(c.req)) /\ pc'[t] # "run"
    BY <1>4, <1>7
<1>9. UNCHANGED <<mode, ran>>
    BY <1>1
<1>10. QED
    BY <1>6, <1>7, <1>8, <1>9 DEF ScreenInv, Cleared

(* The steps that reserve, settle and run keep the request.                 *)
LEMMA ProgressKeepsRequest ==
    ASSUME TypeOK, NEW t \in Threads,
           Reserve(t) \/ Release(t) \/ Consume(t) \/ Run(t)
    PROVE  /\ call'[t].req = call[t].req /\ call'[t].id = call[t].id
           /\ call'[t].redeemed = call[t].redeemed
           /\ \A u \in Threads \ {t} : call'[u] = call[u] /\ pc'[u] = pc[u]
<1> USE DEF TypeOK, Calls
<1>1. CASE Reserve(t)
    BY <1>1 DEF Reserve
<1>2. CASE Release(t)
    BY <1>2 DEF Release, GiveBack
<1>3. CASE Consume(t)
    BY <1>3 DEF Consume, Commit
<1>4. CASE Run(t)
    BY <1>4 DEF Run
<1>5. QED
    BY <1>1, <1>2, <1>3, <1>4

LEMMA ProgressScreen ==
    ASSUME TypeOK, ScreenInv, NEW t \in Threads,
           Reserve(t) \/ Release(t) \/ Consume(t) \/ Run(t)
    PROVE  ScreenInv'
<1>1. /\ call'[t].req = call[t].req
      /\ \A u \in Threads \ {t} : call'[u] = call[u] /\ pc'[u] = pc[u]
    BY ProgressKeepsRequest
<1>2. mode' = mode /\ pc[t] \in {"reserve", "run"} /\ pc'[t] # "govern"
    BY DEF Reserve, Release, GiveBack, Consume, Commit, Reserved, Run, Bounds, TypeOK
<1>3. ran' = ran \/ ran' = ran \cup {Execution(call[t])}
    BY DEF Reserve, Release, GiveBack, Consume, Commit, Run
<1>4. Execution(call[t]).req = call[t].req
    BY DEF Execution
<1>5. QED
    BY <1>1, <1>2, <1>3, <1>4 DEF ScreenInv, Cleared

(* A call that ends, by a receipt or an exception, or an operator's step.   *)
LEMMA EndScreen ==
    ASSUME TypeOK, ScreenInv, NEW t \in Threads,
           HandlerRaises(t) \/ Report(t) \/ ReportRaises(t) \/ Refuse(t)
    PROVE  ScreenInv'
<1>1. /\ pc'[t] = "idle" /\ \A u \in Threads \ {t} : call'[u] = call[u] /\ pc'[u] = pc[u]
      /\ mode' = mode
    BY DEF HandlerRaises, Report, ReportRaises, Refuse, Finish, TypeOK, Bounds
<1>2. \/ ran' = ran
      \/ pc[t] = "run" /\ ran' = ran \cup {Execution(call[t])}
    BY DEF HandlerRaises, Report, ReportRaises, Refuse, Finish
<1>3. Execution(call[t]).req = call[t].req
    BY DEF Execution
<1>4. QED
    BY <1>1, <1>2, <1>3 DEF ScreenInv, Cleared

LEMMA ScreenNext == TypeOK /\ ScreenInv /\ [Next]_vars => ScreenInv'
<1> SUFFICES ASSUME TypeOK, ScreenInv, [Next]_vars PROVE ScreenInv'
    OBVIOUS
<1>1. CASE UNCHANGED <<mode, pc, call, ran>>
    BY <1>1 DEF ScreenInv, Cleared
<1>2. CASE RevokePermits \/ RenewLease \/ Tick \/ UNCHANGED vars
    BY <1>1, <1>2 DEF RevokePermits, RenewLease, Tick, vars
<1>3. ASSUME NEW t \in Threads,
             \/ Begin(t) \/ Govern(t) \/ Reserve(t) \/ Release(t) \/ Consume(t)
             \/ Run(t) \/ HandlerRaises(t) \/ Report(t) \/ ReportRaises(t) \/ Refuse(t)
      PROVE  ScreenInv'
    BY <1>3, BeginScreen, GovernScreen, ProgressScreen, EndScreen
<1>4. QED
    BY <1>2, <1>3 DEF Next

(* For any configuration of checks, governor, budgets and concurrent calls, *)
(* a denied call has no effect.                                             *)
THEOREM DeniedNoEffect == Spec => []DeniedHasNoEffect
<1>1. TypeOK /\ ScreenInv => DeniedHasNoEffect
    BY DEF ScreenInv, Cleared, DeniedHasNoEffect
<1>2. QED
    BY TypeInit, TypeNext, ScreenInit, ScreenNext, <1>1, PTL DEF Spec

-----------------------------------------------------------------------------
(* A commit token admits one effect.                                        *)

Committed(redeemed, req) ==
    (mode = "bounded_auto" /\ CommitRequired(req.tool))
        => redeemed \/ req.token = "not_a_dict"

(* Every token redeemed by a call, in flight or executed, is in the store   *)
(* of used tokens, and belongs to one call.                                 *)
TokenInv ==
    /\ \A t \in Threads : call[t].redeemed => call[t].req.token \in usedTokens
    /\ \A e \in ran : e.redeemed => e.req.token \in usedTokens
    /\ \A t, u \in Threads :
         (/\ call[t].redeemed /\ call[u].redeemed
          /\ call[t].req.token = call[u].req.token) => t = u
    /\ \A e \in ran, t \in Threads :
         (e.redeemed /\ call[t].redeemed /\ e.req.token = call[t].req.token)
            => e.id = call[t].id
    /\ \A t \in Threads : pc[t] \in {"idle", "govern"} => ~call[t].redeemed
    /\ \A t \in Threads : pc[t] \in {"reserve", "run"}
                            => Committed(call[t].redeemed, call[t].req)
    /\ OneEffectPerToken

LEMMA TokenInit == Init => TokenInv
<1>1. NoCall.redeemed = FALSE
    BY DEF NoCall
<1>2. QED
    BY <1>1 DEF Init, TokenInv, OneEffectPerToken

(* What passes the governor in bounded_auto has redeemed the token it needs. *)
LEMMA PassedIsCommitted ==
    ASSUME NEW c, c.req \in Requests, NEW rec, NEW after, NEW e, NEW v,
           v = c.violations \cup GovernorViolations(c, rec, after, e), ~Blocks(c, v, e)
    PROVE  Committed(TokenValid(c.req), c.req)
<1> SUFFICES ASSUME mode = "bounded_auto", CommitRequired(c.req.tool)
             PROVE  TokenValid(c.req) \/ c.req.token = "not_a_dict"
    BY DEF Committed
<1>1. e = "allow" /\ v = {}
    BY DEF Blocks, ShouldBlock
<1>2. GovernorViolations(c, rec, after, e) = {}
    BY <1>1
<1>3. /\ ~PermitInvalid(c, after, e)
      /\ ~(e = "allow" /\ ~PermitInvalid(c, after, e)
           /\ CommitRequired(c.req.tool) /\ c.req.token = None)
      /\ ~(c.req.token \in Tokens /\ ~TokenValid(c.req))
    BY <1>2 DEF GovernorViolations
<1>4. c.req.token \in Tokens \cup {None, "not_a_dict"}
    BY GatewayAssumption DEF RequestSet
<1>5. QED
    BY <1>1, <1>3, <1>4

LEMMA BeginToken == ASSUME TypeOK, TokenInv, NEW t \in Threads, Begin(t) PROVE TokenInv'
<1>1. PICK req \in Requests :
        LET c == [NoCall EXCEPT !.id = started + 1, !.req = req, !.authority = authority]
        IN  call' = [call EXCEPT ![t] = [c EXCEPT !.violations =
                        CollectViolations(req) \cup PreExecutionViolations(c)]]
    BY DEF Begin
<1>2. call'[t].redeemed = FALSE /\ \A u \in Threads \ {t} : call'[u] = call[u]
    BY <1>1 DEF TypeOK, NoCall
<1>3. pc'[t] = "govern" /\ \A u \in Threads \ {t} : pc'[u] = pc[u]
    BY DEF Begin, TypeOK
<1>4. UNCHANGED <<mode, ran, usedTokens>>
    BY DEF Begin
<1>5. QED
    BY <1>2, <1>3, <1>4 DEF TokenInv, OneEffectPerToken, Committed

LEMMA GovernToken == ASSUME TypeOK, TokenInv, NEW t \in Threads, Govern(t) PROVE TokenInv'
<1> DEFINE c == call[t]
           E(rec) == Enforcement(Context(c), rec, clock)
           After(rec) == IF E(rec) = "allow" THEN Patched(Context(c), rec, clock)
                                             ELSE c.authority
           V(rec) == c.violations \cup GovernorViolations(c, rec, After(rec), E(rec))
<1>1. PICK rec \in Advice :
        /\ call' = [call EXCEPT ![t].authority = After(rec), ![t].violations = V(rec),
                                ![t].enforcement = E(rec), ![t].redeemed = TokenValid(c.req)]
        /\ usedTokens' = Redeem(c.req)
        /\ pc' = [pc EXCEPT ![t] = IF Blocks(c, V(rec), E(rec)) THEN "refuse" ELSE "reserve"]
        /\ UNCHANGED <<mode, ran>>
    BY DEF Govern, Bounds
<1>2. c.req \in Requests /\ ~c.redeemed /\ c \in Calls
    BY DEF Govern, TypeOK, TokenInv
<1>3. ~Blocks(c, V(rec), E(rec)) => Committed(TokenValid(c.req), c.req)
    BY <1>2, PassedIsCommitted
<1>4. call' = [call EXCEPT ![t] = [c EXCEPT !.authority = After(rec), !.violations = V(rec),
                                   !.enforcement = E(rec), !.redeemed = TokenValid(c.req)]]
    BY <1>1 DEF TypeOK
<1> HIDE DEF E, After, V
<1>5. /\ call'[t].req = c.req /\ call'[t].redeemed = TokenValid(c.req)
      /\ \A u \in Threads \ {t} : call'[u] = call[u]
    BY <1>2, <1>4 DEF TypeOK, Calls
<1>6. /\ pc'[t] \in {"refuse", "reserve"}
      /\ pc'[t] = "reserve" => Committed(TokenValid(c.req), c.req)
      /\ \A u \in Threads \ {t} : pc'[u] = pc[u]
    BY <1>1, <1>3 DEF TypeOK
<1>7. UNCHANGED <<mode, ran>> /\ usedTokens' = Redeem(c.req)
    BY <1>1
<1> HIDE DEF c
<1>8. /\ usedTokens \subseteq usedTokens'
      /\ TokenValid(c.req) => c.req.token \notin usedTokens /\ c.req.token \in usedTokens'
    BY <1>7 DEF Redeem, TokenValid
<1>9. QED
    <2>1. \A u \in Threads : call'[u].redeemed => call'[u].req.token \in usedTokens'
        BY <1>5, <1>8 DEF TokenInv
    <2>2. \A e \in ran' : e.redeemed => e.req.token \in usedTokens'
        BY <1>7, <1>8 DEF TokenInv
    <2>3. \A u, w \in Threads :
            (/\ call'[u].redeemed /\ call'[w].redeemed
             /\ call'[u].req.token = call'[w].req.token) => u = w
        BY <1>5, <1>8 DEF TokenInv
    <2>4. \A e \in ran', u \in Threads :
            (e.redeemed /\ call'[u].redeemed /\ e.req.token = call'[u].req.token)
            => e.id = call'[u].id
        BY <1>5, <1>7, <1>8 DEF TokenInv
    <2>5. \A u \in Threads : pc'[u] \in {"idle", "govern"} => ~call'[u].redeemed
        BY <1>5, <1>6 DEF TokenInv
    <2>6. (\A u \in Threads : pc[u] \in {"reserve", "run"}
                              => Committed(call[u].redeemed, call[u].req))'
        BY <1>5, <1>6, <1>7 DEF TokenInv, Committed
    <2>7. OneEffectPerToken'
        BY <1>7 DEF TokenInv, OneEffectPerToken
    <2>8. QED
        BY <2>1, <2>2, <2>3, <2>4, <2>5, <2>6, <2>7 DEF TokenInv

(* Running a handler adds the execution of a call that is in flight.        *)
LEMMA ExecutionToken ==
    ASSUME TypeOK, TokenInv, NEW t \in Threads, pc[t] = "run",
           ran' = ran \cup {Execution(call[t])}, UNCHANGED <<mode, usedTokens>>
    PROVE  /\ OneEffectPerToken'
           /\ \A e \in ran' : e.redeemed => e.req.token \in usedTokens'
           /\ \A e \in ran', u \in Threads :
                 (e.redeemed /\ call[u].redeemed /\ e.req.token = call[u].req.token)
            => e.id = call[u].id
<1> DEFINE x == Execution(call[t])
<1>1. x.id = call[t].id /\ x.req = call[t].req /\ x.redeemed = call[t].redeemed
    BY DEF Execution
<1>2. Committed(x.redeemed, x.req)
    BY <1>1 DEF TokenInv
<1> HIDE DEF x
<1>3. ran' = ran \cup {x}
    BY DEF x
<1>4. \A d, e \in ran' :
        (d.redeemed /\ e.redeemed /\ d.req.token = e.req.token)
            => d.id = e.id
    BY <1>1, <1>3 DEF TokenInv, OneEffectPerToken
<1>5. OneEffectPerToken'
    BY <1>2, <1>3, <1>4 DEF TokenInv, OneEffectPerToken, Committed
<1>6. QED
    BY <1>1, <1>3, <1>5 DEF TokenInv

LEMMA ProgressToken ==
    ASSUME TypeOK, TokenInv, NEW t \in Threads,
           Reserve(t) \/ Release(t) \/ Consume(t) \/ Run(t)
    PROVE  TokenInv'
<1>1. /\ call'[t].req = call[t].req /\ call'[t].id = call[t].id
      /\ call'[t].redeemed = call[t].redeemed
      /\ \A u \in Threads \ {t} : call'[u] = call[u] /\ pc'[u] = pc[u]
    BY ProgressKeepsRequest
<1>2. /\ UNCHANGED <<mode, usedTokens>> /\ pc[t] \in {"reserve", "run"}
      /\ pc'[t] \in {"reserve", "run", "report", "refuse"}
    BY DEF Reserve, Release, GiveBack, Consume, Commit, Reserved, Run, Bounds, TypeOK
<1>3. ran' = ran \/ (pc[t] = "run" /\ ran' = ran \cup {Execution(call[t])})
    BY DEF Reserve, Release, GiveBack, Consume, Commit, Run
<1>4. /\ OneEffectPerToken'
      /\ \A e \in ran' : e.redeemed => e.req.token \in usedTokens'
      /\ \A e \in ran', u \in Threads :
            (e.redeemed /\ call[u].redeemed /\ e.req.token = call[u].req.token)
            => e.id = call[u].id
    <2>1. CASE ran' = ran
        BY <1>2, <2>1 DEF TokenInv, OneEffectPerToken
    <2>2. CASE pc[t] = "run" /\ ran' = ran \cup {Execution(call[t])}
        BY <1>2, <2>2, ExecutionToken
    <2>3. QED
        BY <1>3, <2>1, <2>2
<1>5. \A u \in Threads : /\ call'[u].req = call[u].req /\ call'[u].id = call[u].id
                         /\ call'[u].redeemed = call[u].redeemed
    BY <1>1
<1>6. QED
    BY <1>1, <1>2, <1>4, <1>5 DEF TokenInv, Committed

LEMMA EndToken ==
    ASSUME TypeOK, TokenInv, NEW t \in Threads,
           HandlerRaises(t) \/ Report(t) \/ ReportRaises(t) \/ Refuse(t)
    PROVE  TokenInv'
<1>1. /\ call' = [call EXCEPT ![t] = NoCall] /\ pc' = [pc EXCEPT ![t] = "idle"]
      /\ UNCHANGED <<mode, usedTokens>>
    BY DEF HandlerRaises, Report, ReportRaises, Refuse, Finish, Bounds
<1>2. ~NoCall.redeemed
    BY DEF NoCall
<1>3. /\ ~call'[t].redeemed /\ pc'[t] = "idle"
      /\ \A u \in Threads \ {t} : call'[u] = call[u] /\ pc'[u] = pc[u]
    BY <1>1, <1>2 DEF TypeOK
<1>4. ran' = ran \/ (pc[t] = "run" /\ ran' = ran \cup {Execution(call[t])})
    BY DEF HandlerRaises, Report, ReportRaises, Refuse, Finish
<1>5. /\ OneEffectPerToken'
      /\ \A e \in ran' : e.redeemed => e.req.token \in usedTokens'
      /\ \A e \in ran', u \in Threads :
            (e.redeemed /\ call[u].redeemed /\ e.req.token = call[u].req.token)
            => e.id = call[u].id
    <2>1. CASE ran' = ran
        BY <1>1, <2>1 DEF TokenInv, OneEffectPerToken
    <2>2. CASE pc[t] = "run" /\ ran' = ran \cup {Execution(call[t])}
        BY <1>1, <2>2, ExecutionToken
    <2>3. QED
        BY <1>4, <2>1, <2>2
<1>6. QED
    BY <1>1, <1>3, <1>5 DEF TokenInv, Committed

LEMMA TokenNext == TypeOK /\ TokenInv /\ [Next]_vars => TokenInv'
<1> SUFFICES ASSUME TypeOK, TokenInv, [Next]_vars PROVE TokenInv'
    OBVIOUS
<1>1. CASE UNCHANGED <<mode, usedTokens, pc, call, ran>>
    BY <1>1 DEF TokenInv, Committed, OneEffectPerToken
<1>2. CASE RevokePermits \/ RenewLease \/ Tick \/ UNCHANGED vars
    BY <1>1, <1>2 DEF RevokePermits, RenewLease, Tick, vars
<1>3. ASSUME NEW t \in Threads,
             \/ Begin(t) \/ Govern(t) \/ Reserve(t) \/ Release(t) \/ Consume(t)
             \/ Run(t) \/ HandlerRaises(t) \/ Report(t) \/ ReportRaises(t) \/ Refuse(t)
      PROVE  TokenInv'
    BY <1>3, BeginToken, GovernToken, ProgressToken, EndToken
<1>4. QED
    BY <1>2, <1>3 DEF Next

(* However many calls share a gateway, a commit token admits one effect.    *)
THEOREM TokenOneEffect == Spec => []OneEffectPerToken
<1>1. TokenInv => OneEffectPerToken
    BY DEF TokenInv
<1>2. QED
    BY TypeInit, TypeNext, TokenInit, TokenNext, <1>1, PTL DEF Spec

-----------------------------------------------------------------------------
(* An allowing receipt is true.                                             *)

Ran(id) == \E e \in ran : e.id = id

TruthInv ==
    /\ \A t \in Threads : pc[t] = "report" => Ran(call[t].id)
    /\ AllowIsTruthful

LEMMA TruthInit == Init => TruthInv
BY DEF Init, TruthInv, AllowIsTruthful

(* An outcome that allows says that the policy was satisfied, and is never  *)
(* one that the gateway refused with.                                       *)
LEMMA AllowingOutcome ==
    ASSUME NEW x \in {"none", "deny", "pending_step_up"}, NEW r \in BOOLEAN,
           NEW ok \in BOOLEAN, NEW review \in BOOLEAN,
           Resolved(x, r, ok, review) \in Allowing
    PROVE  x = "none" /\ ok
BY DEF Resolved, DefaultOutcome, Outcomes, Allowing

(* Receipts and executions only accumulate, so that true receipts stay true. *)
LEMMA TruthFrame ==
    ASSUME TruthInv, ran \subseteq ran', audit' = audit,
           \A t \in Threads : pc'[t] = "report" =>
               Ran(call[t].id)' \/ (pc[t] = "report" /\ call'[t] = call[t])
    PROVE  TruthInv'
BY DEF TruthInv, AllowIsTruthful, Ran

LEMMA RunTruth == ASSUME TypeOK, TruthInv, NEW t \in Threads, Run(t) PROVE TruthInv'
<1>1. Execution(call[t]) \in ran' /\ Execution(call[t]).id = call[t].id
    BY DEF Run, Execution
<1>2. call'[t].id = call[t].id /\ \A u \in Threads \ {t} : call'[u] = call[u] /\ pc'[u] = pc[u]
    BY ProgressKeepsRequest
<1>3. Ran(call[t].id)'
    BY <1>1, <1>2 DEF Ran
<1>4. ran \subseteq ran' /\ audit' = audit
    BY DEF Run
<1>5. QED
    BY <1>2, <1>3, <1>4, TruthFrame

(* The steps before the handler, and the end of a call without a receipt.   *)
LEMMA OtherTruth ==
    ASSUME TypeOK, TruthInv, NEW t \in Threads,
           \/ Begin(t) \/ Govern(t) \/ Reserve(t) \/ Release(t) \/ Consume(t)
           \/ HandlerRaises(t) \/ ReportRaises(t)
    PROVE  TruthInv'
<1>1. pc'[t] # "report" /\ \A u \in Threads \ {t} : call'[u] = call[u] /\ pc'[u] = pc[u]
    <2>1. CASE Begin(t)
        BY <2>1 DEF Begin, TypeOK
    <2>2. CASE Govern(t)
        BY <2>2, ZenonT(40) DEF Govern, TypeOK
    <2>3. CASE Reserve(t) \/ Release(t) \/ Consume(t)
        BY <2>3, ProgressKeepsRequest
           DEF Reserve, Release, GiveBack, Consume, Commit, TypeOK
    <2>4. CASE HandlerRaises(t) \/ ReportRaises(t)
        BY <2>4 DEF HandlerRaises, ReportRaises, Finish, TypeOK
    <2>5. QED
        BY <2>1, <2>2, <2>3, <2>4
<1>2. ran \subseteq ran' /\ audit' = audit
    <2>1. CASE Begin(t) \/ Govern(t)
        BY <2>1 DEF Begin, Govern
    <2>2. CASE Reserve(t) \/ Release(t) \/ Consume(t)
        BY <2>2 DEF Reserve, Release, GiveBack, Consume, Commit
    <2>3. CASE HandlerRaises(t) \/ ReportRaises(t)
        BY <2>3 DEF HandlerRaises, ReportRaises, Finish
    <2>4. QED
        BY <2>1, <2>2, <2>3
<1>3. QED
    BY <1>1, <1>2, TruthFrame

(* Adding a receipt that is true.                                           *)
LEMMA FinishTruth ==
    ASSUME TypeOK, TruthInv, NEW t \in Threads, NEW r, Finish(t, {r}),
           r.outcome \in Allowing => r.satisfied /\ Ran(r.id)
    PROVE  TruthInv'
<1>1. /\ pc'[t] = "idle" /\ \A u \in Threads \ {t} : call'[u] = call[u] /\ pc'[u] = pc[u]
      /\ ran' = ran /\ audit' = audit \cup {r}
    BY DEF Finish, TypeOK
<1>2. QED
    BY <1>1 DEF TruthInv, AllowIsTruthful, Ran

LEMMA RecordTruth ==
    ASSUME TypeOK, TruthInv, NEW t \in Threads, Report(t) \/ Refuse(t)
    PROVE  TruthInv'
<1>1. CASE Report(t)
    <2>1. PICK sentinelBad \in BOOLEAN, review \in BOOLEAN, reserve \in BOOLEAN :
            LET c == call[t]
                ok == ReportedOk(c, sentinelBad)
                explicit == IF BlockedAfter(c) THEN "deny" ELSE "none"
            IN  Finish(t, {Receipt(c, TRUE, Resolved(explicit, reserve, ok, review), ok,
                                   RecordedAuthority(c))})
        BY <1>1 DEF Report
    <2> DEFINE ok == ReportedOk(call[t], sentinelBad)
               x == IF BlockedAfter(call[t]) THEN "deny" ELSE "none"
               o == Resolved(x, reserve, ok, review)
               r == Receipt(call[t], TRUE, o, ok, RecordedAuthority(call[t]))
    <2>2. ok \in BOOLEAN
        BY DEF ReportedOk, Satisfied, Withheld
    <2>3. o \in Allowing => ok
        BY <2>2, AllowingOutcome
    <2>4. r.outcome = o /\ r.satisfied = ok /\ r.id = call[t].id
        BY DEF Receipt
    <2>5. Ran(call[t].id)
        BY <1>1 DEF Report, TruthInv
    <2>6. Finish(t, {r})
        BY <2>1
    <2> HIDE DEF r, o, ok
    <2>7. QED
        BY <2>3, <2>4, <2>5, <2>6, FinishTruth
<1>2. CASE Refuse(t)
    <2>1. PICK reserve \in BOOLEAN :
            Finish(t, {Receipt(call[t], FALSE,
                               Resolved(RefusalOutcome(call[t]), reserve, FALSE, FALSE),
                               FALSE, call[t].authority)})
        BY <1>2 DEF Refuse
    <2> DEFINE o == Resolved(RefusalOutcome(call[t]), reserve, FALSE, FALSE)
               r == Receipt(call[t], FALSE, o, FALSE, call[t].authority)
    <2>2. o \notin Allowing
        BY AllowingOutcome DEF RefusalOutcome
    <2>3. r.outcome = o
        BY DEF Receipt
    <2> HIDE DEF o
    <2>4. QED
        BY <2>1, <2>2, <2>3, FinishTruth DEF o
<1>3. QED
    BY <1>1, <1>2

LEMMA TruthNext == TypeOK /\ TruthInv /\ [Next]_vars => TruthInv'
<1> SUFFICES ASSUME TypeOK, TruthInv, [Next]_vars PROVE TruthInv'
    OBVIOUS
<1>1. CASE UNCHANGED <<pc, call, ran, audit>>
    BY <1>1 DEF TruthInv, AllowIsTruthful, Ran
<1>2. CASE RevokePermits \/ RenewLease \/ Tick \/ UNCHANGED vars
    BY <1>1, <1>2 DEF RevokePermits, RenewLease, Tick, vars
<1>3. ASSUME NEW t \in Threads,
             \/ Begin(t) \/ Govern(t) \/ Reserve(t) \/ Release(t) \/ Consume(t)
             \/ Run(t) \/ HandlerRaises(t) \/ Report(t) \/ ReportRaises(t) \/ Refuse(t)
      PROVE  TruthInv'
    BY <1>3, OtherTruth, RunTruth, RecordTruth
<1>4. QED
    BY <1>2, <1>3 DEF Next

(* No interleaving leaves an allowing receipt for a call that did not run   *)
(* or did not satisfy the policy.                                           *)
THEOREM AllowTruthful == Spec => []AllowIsTruthful
<1>1. TruthInv => AllowIsTruthful
    BY DEF TruthInv
<1>2. QED
    BY TypeInit, TypeNext, TruthInit, TruthNext, <1>1, PTL DEF Spec

-----------------------------------------------------------------------------
(* Sums over finite sets.                                                   *)

(* A set of numbers that is not empty has a least one.                      *)
LEMMA LeastNumber ==
    ASSUME NEW A, A \subseteq Nat, A # {}
    PROVE  \E m \in A : \A a \in A : m <= a
<1>1. PICK m \in A : \A a \in A : ~(<<a, m>> \in OpToRel(<, Nat))
    BY NatLessThanWellFounded, WFMin
<1>2. \A a \in A : ~(a < m)
    BY <1>1 DEF OpToRel
<1> QED
    BY <1>2

(* Induction over the numbers of a set.                                     *)
LEMMA NumberInduction ==
    ASSUME NEW P, 0 \in P, \A n \in Nat : n \in P => n + 1 \in P
    PROVE  Nat \subseteq P
<1> DEFINE Bad == Nat \ P
<1> SUFFICES ASSUME Bad # {} PROVE FALSE
    OBVIOUS
<1>0. Bad \subseteq Nat
    OBVIOUS
<1>4. \A n \in Nat : n \notin P => n \in Bad
    OBVIOUS
<1>5. \A n \in Bad : n \in Nat /\ n \notin P
    OBVIOUS
<1> HIDE DEF Bad
<1>1. PICK m \in Bad : \A n \in Bad : m <= n
    BY <1>0, LeastNumber
<1>2. \A n \in Bad : ~(n < m)
    BY <1>0, <1>1
<1>3. m \in Nat /\ m # 0 /\ m \notin P
    BY <1>5
<1>6. m - 1 \in Nat /\ m - 1 < m /\ (m - 1) + 1 = m
    BY <1>3
<1>7. m - 1 \in P
    BY <1>2, <1>4, <1>6
<1> QED
    BY <1>3, <1>6, <1>7

(* Every subset of a finite set is reached by adding one element at a time. *)
LEMMA SubsetInduction ==
    ASSUME NEW D, IsFiniteSet(D), NEW P, {} \in P,
           \A s \in SUBSET D : s # {} /\ (\A x \in s : s \ {x} \in P) => s \in P
    PROVE  SUBSET D \subseteq P
<1> DEFINE Q == {n \in Nat : \A s \in SUBSET D : Cardinality(s) = n => s \in P}
<1>1. \A s \in SUBSET D : IsFiniteSet(s) /\ Cardinality(s) \in Nat
    BY FS_Subset, FS_CardinalityType
<1>2. 0 \in Q
    BY <1>1, FS_EmptySet
<1>3. \A n \in Nat : n \in Q => n + 1 \in Q
    <2> SUFFICES ASSUME NEW n \in Nat, n \in Q, NEW s \in SUBSET D, Cardinality(s) = n + 1
                 PROVE  s \in P
        OBVIOUS
    <2>1. s # {}
        <3>1. Cardinality({}) = 0
            BY FS_EmptySet
        <3>2. n + 1 # 0
            OBVIOUS
        <3> QED
            BY <3>1, <3>2
    <2>2. ASSUME NEW x \in s
          PROVE  s \ {x} \in P
        <3>1. Cardinality(s \ {x}) = (n + 1) - 1
            BY <1>1, FS_RemoveElement
        <3>2. Cardinality(s \ {x}) = n
            BY <3>1
        <3> QED
            BY <3>2
    <2> QED
        BY <2>1, <2>2
<1>4. \A n \in Nat : n \in Q => \A s \in SUBSET D : Cardinality(s) = n => s \in P
    OBVIOUS
<1> HIDE DEF Q
<1>5. Nat \subseteq Q
    BY <1>2, <1>3, NumberInduction
<1> QED
    BY <1>1, <1>4, <1>5

(* The sums of f over the subsets of its domain.                            *)
Sums(f, g) ==
    g = [s \in SUBSET DOMAIN f |->
            IF s = {} THEN 0 ELSE f[CHOOSE x \in s : TRUE] + g[s \ {CHOOSE x \in s : TRUE}]]

Summable(f) == IsFiniteSet(DOMAIN f) /\ \A x \in DOMAIN f : f[x] \in Int

(* What the community module's sum is.                                      *)
LEMMA SumIsChosen ==
    ASSUME NEW f
    PROVE  SumFunction(f) = (CHOOSE g : Sums(f, g))[DOMAIN f]
BY DEF SumFunction, SumFunctionOnSet, FoldFunctionOnSet, MapThenFoldSet, Sums

(* The recursive definition has a solution, built up by cardinality.        *)
LEMMA SumsExist ==
    ASSUME NEW f, Summable(f)
    PROVE  \E g : Sums(f, g)
<1> DEFINE D == DOMAIN f
           c(s) == CHOOSE x \in s : TRUE
           Upto(n) == {s \in SUBSET D : Cardinality(s) <= n}
           Partial(n, g) == g = [s \in Upto(n) |-> IF s = {} THEN 0 ELSE f[c(s)] + g[s \ {c(s)}]]
           Q == {n \in Nat : \E g : Partial(n, g)}
<1>1. \A s \in SUBSET D : IsFiniteSet(s) /\ Cardinality(s) \in Nat
    BY FS_Subset, FS_CardinalityType DEF Summable
<1>2. 0 \in Q
    <2>1. \A s \in Upto(0) : s = {}
        BY <1>1, FS_EmptySet
    <2>2. Partial(0, [s \in Upto(0) |-> 0])
        BY <2>1
    <2>3. QED
        BY <2>2
<1>3. ASSUME NEW n \in Nat, n \in Q
      PROVE  n + 1 \in Q
    <2>1. PICK g : Partial(n, g)
        BY <1>3
    <2> DEFINE h == [s \in Upto(n + 1) |-> IF s = {} THEN 0 ELSE f[c(s)] + g[s \ {c(s)}]]
    <2>2. ASSUME NEW s \in Upto(n + 1), s # {}
          PROVE  s \ {c(s)} \in Upto(n)
        <3>1. c(s) \in s
            BY <2>2
        <3>2. Cardinality(s \ {c(s)}) = Cardinality(s) - 1
            BY <1>1, <3>1, FS_RemoveElement
        <3>3. QED
            BY <1>1, <3>2
    <2>3. ASSUME NEW s \in Upto(n)
          PROVE  s \in Upto(n + 1) /\ g[s] = h[s]
        <3>1. s \in Upto(n + 1)
            BY <1>1
        <3>2. QED
            BY <2>1, <3>1
    <2> DEFINE F(s) == IF s = {} THEN 0 ELSE f[c(s)] + g[s \ {c(s)}]
               G(s) == IF s = {} THEN 0 ELSE f[c(s)] + h[s \ {c(s)}]
               U == Upto(n + 1)
    <2> HIDE DEF h
    <2>4. \A s \in U : F(s) = G(s)
        <3> SUFFICES ASSUME NEW s \in U, s # {}
                     PROVE  g[s \ {c(s)}] = h[s \ {c(s)}]
            OBVIOUS
        <3> HIDE DEF Upto, c
        <3> QED
            BY <2>2, <2>3
    <2>5. h = [s \in U |-> F(s)]
        BY DEF h
    <2>6. Partial(n + 1, h) <=> h = [s \in U |-> G(s)]
        OBVIOUS
    <2> HIDE DEF F, G, U, Partial
    <2>7. Partial(n + 1, h)
        BY <2>4, <2>5, <2>6
    <2>8. n + 1 \in Nat
        OBVIOUS
    <2> HIDE DEF Upto
    <2> QED
        BY <2>7, <2>8
<1>4. Nat \subseteq Q
    BY <1>2, <1>3, NumberInduction
<1>5. Cardinality(D) \in Q
    BY <1>1, <1>4
<1>6. \A s \in SUBSET D : Cardinality(s) <= Cardinality(D)
    BY FS_Subset DEF Summable
<1>7. Upto(Cardinality(D)) = SUBSET D
    BY <1>6
<1>8. PICK g : Partial(Cardinality(D), g)
    BY <1>5
<1>9. Sums(f, g)
    BY <1>7, <1>8 DEF Sums
<1>10. QED
    BY <1>9

(* A sum does not depend on the order of its terms.                         *)
LEMMA SumsStep ==
    ASSUME NEW f, Summable(f), NEW g, Sums(f, g)
    PROVE  /\ g[{}] = 0
           /\ \A s \in SUBSET DOMAIN f : g[s] \in Int
           /\ \A s \in SUBSET DOMAIN f : \A x \in s : g[s] = f[x] + g[s \ {x}]
<1> DEFINE D == DOMAIN f
           c(s) == CHOOSE x \in s : TRUE
           P == {s \in SUBSET D : g[s] \in Int}
           Q == {s \in SUBSET D : \A x \in s : g[s] = f[x] + g[s \ {x}]}
<1>1. IsFiniteSet(D) /\ \A x \in D : f[x] \in Int
    BY DEF Summable
<1>2. g[{}] = 0 /\ \A s \in SUBSET D : s # {} => c(s) \in s /\ g[s] = f[c(s)] + g[s \ {c(s)}]
    BY DEF Sums
<1> HIDE DEF c, D
<1>3. SUBSET D \subseteq P
    <2>1. \A s \in SUBSET D : s # {} /\ (\A x \in s : s \ {x} \in P) => s \in P
        <3> SUFFICES ASSUME NEW s \in SUBSET D, s # {}, \A x \in s : s \ {x} \in P
                     PROVE  g[s] \in Int
            OBVIOUS
        <3>1. c(s) \in s /\ g[s] = f[c(s)] + g[s \ {c(s)}]
            BY <1>2
        <3>2. g[s \ {c(s)}] \in Int /\ f[c(s)] \in Int
            BY <1>1, <3>1
        <3> QED
            BY <3>1, <3>2
    <2>2. {} \in P
        BY <1>2
    <2> HIDE DEF P
    <2> QED
        BY <1>1, <2>1, <2>2, SubsetInduction
<1>4. SUBSET D \subseteq Q
    <2>1. \A s \in SUBSET D : s # {} /\ (\A x \in s : s \ {x} \in Q) => s \in Q
        <3>0. SUFFICES ASSUME NEW s \in SUBSET D, s # {}, \A x \in s : s \ {x} \in Q
                       PROVE  s \in Q
            OBVIOUS
        <3> SUFFICES ASSUME NEW x \in s, x # c(s)
                     PROVE  g[s] = f[x] + g[s \ {x}]
            BY <1>2
        <3>7. \A y \in s : \A z \in s \ {y} : g[s \ {y}] = f[z] + g[(s \ {y}) \ {z}]
            BY <3>0
        <3>8. c(s) \in s /\ x \in s \ {c(s)} /\ c(s) \in s \ {x}
            BY <1>2
        <3> DEFINE u == (s \ {x}) \ {c(s)}
        <3>1. g[s] = f[c(s)] + g[s \ {c(s)}]
            BY <1>2
        <3>2. u = (s \ {c(s)}) \ {x}
            OBVIOUS
        <3>3. g[s \ {c(s)}] = f[x] + g[u]
            BY <3>2, <3>7, <3>8
        <3>4. g[s \ {x}] = f[c(s)] + g[u]
            BY <3>7, <3>8
        <3>5. f[x] \in Int /\ f[c(s)] \in Int /\ g[u] \in Int
            BY <1>1, <1>2, <1>3
        <3> HIDE DEF u
        <3>6. QED
            BY <3>1, <3>3, <3>4, <3>5
    <2>2. {} \in Q
        OBVIOUS
    <2> HIDE DEF Q
    <2> QED
        BY <1>1, <2>1, <2>2, SubsetInduction
<1> USE DEF D
<1>5. QED
    BY <1>2, <1>3, <1>4

(* Two functions that agree on a set have the same sum over it.             *)
LEMMA SumsAgree ==
    ASSUME NEW f, NEW g, Sums(f, g), NEW h, NEW k, Sums(h, k),
           NEW E, IsFiniteSet(E), E \subseteq DOMAIN f, E \subseteq DOMAIN h,
           \A x \in E : f[x] = h[x]
    PROVE  g[E] = k[E]
<1> DEFINE c(s) == CHOOSE x \in s : TRUE
           P == {s \in SUBSET E : g[s] = k[s]}
<1>1. g[{}] = 0 /\ \A s \in SUBSET E : s # {} => c(s) \in s /\ g[s] = f[c(s)] + g[s \ {c(s)}]
    BY DEF Sums
<1>2. k[{}] = 0 /\ \A s \in SUBSET E : s # {} => c(s) \in s /\ k[s] = h[c(s)] + k[s \ {c(s)}]
    BY DEF Sums
<1> HIDE DEF c
<1>3. \A s \in SUBSET E : s # {} /\ (\A x \in s : s \ {x} \in P) => s \in P
    BY <1>1, <1>2
<1>4. {} \in P
    BY <1>1, <1>2
<1>6. E \in P => g[E] = k[E]
    OBVIOUS
<1> HIDE DEF P
<1>5. SUBSET E \subseteq P
    BY <1>3, <1>4, SubsetInduction
<1> QED
    BY <1>5, <1>6

(* The chosen sums are sums, so what holds of all sums holds of SumFunction.*)
LEMMA SumFacts ==
    ASSUME NEW f, Summable(f)
    PROVE  \E g : Sums(f, g) /\ SumFunction(f) = g[DOMAIN f]
<1>1. Sums(f, CHOOSE g : Sums(f, g))
    BY SumsExist
<1>2. QED
    BY <1>1, SumIsChosen

(* Sums of no terms and of terms that are all zero; sums of natural numbers.*)
LEMMA SumType ==
    ASSUME NEW f, Summable(f)
    PROVE  /\ SumFunction(f) \in Int
           /\ (\A x \in DOMAIN f : f[x] \in Nat) => SumFunction(f) \in Nat
           /\ (\A x \in DOMAIN f : f[x] = 0) => SumFunction(f) = 0
<1> DEFINE D == DOMAIN f
<1>1. PICK g : Sums(f, g) /\ SumFunction(f) = g[DOMAIN f]
    BY SumFacts
<1>0. Sums(f, g)
    BY <1>1
<1>2. /\ g[{}] = 0
      /\ \A s \in SUBSET DOMAIN f : g[s] \in Int
      /\ \A s \in SUBSET DOMAIN f : \A x \in s : g[s] = f[x] + g[s \ {x}]
    BY <1>0, SumsStep
<1>3. ASSUME \A x \in DOMAIN f : f[x] \in Nat
      PROVE  g[DOMAIN f] \in Nat
    <2> DEFINE P == {s \in SUBSET D : g[s] \in Nat}
    <2>1. \A s \in SUBSET D : s # {} /\ (\A x \in s : s \ {x} \in P) => s \in P
        <3> SUFFICES ASSUME NEW s \in SUBSET D, s # {}, \A x \in s : s \ {x} \in P
                     PROVE  g[s] \in Nat
            OBVIOUS
        <3>1. PICK x \in s : s \ {x} \in P
            OBVIOUS
        <3>2. g[s \ {x}] \in Nat /\ f[x] \in Nat /\ g[s] = f[x] + g[s \ {x}]
            BY <1>2, <1>3, <3>1
        <3> QED
            BY <3>2
    <2>2. {} \in P
        BY <1>2
    <2>3. D \in P => g[D] \in Nat
        OBVIOUS
    <2> HIDE DEF D, P
    <2>4. IsFiniteSet(D)
        BY DEF Summable, D
    <2>5. SUBSET D \subseteq P
        BY <2>1, <2>2, <2>4, SubsetInduction
    <2> QED
        BY <2>3, <2>5 DEF D
<1>4. ASSUME \A x \in DOMAIN f : f[x] = 0
      PROVE  g[DOMAIN f] = 0
    <2> DEFINE P == {s \in SUBSET D : g[s] = 0}
    <2>1. \A s \in SUBSET D : s # {} /\ (\A x \in s : s \ {x} \in P) => s \in P
        <3> SUFFICES ASSUME NEW s \in SUBSET D, s # {}, \A x \in s : s \ {x} \in P
                     PROVE  g[s] = 0
            OBVIOUS
        <3>1. PICK x \in s : s \ {x} \in P
            OBVIOUS
        <3>2. g[s \ {x}] = 0 /\ f[x] = 0 /\ g[s] = f[x] + g[s \ {x}]
            BY <1>2, <1>4, <3>1
        <3> QED
            BY <3>2
    <2>2. {} \in P
        BY <1>2
    <2>3. D \in P => g[D] = 0
        OBVIOUS
    <2> HIDE DEF D, P
    <2>4. IsFiniteSet(D)
        BY DEF Summable, D
    <2>5. SUBSET D \subseteq P
        BY <2>1, <2>2, <2>4, SubsetInduction
    <2> QED
        BY <2>3, <2>5 DEF D
<1>5. QED
    BY <1>1, <1>2, <1>3, <1>4

(* The sum over the whole domain, with one term taken out.                  *)
LEMMA SumSplit ==
    ASSUME NEW f, Summable(f), NEW g, Sums(f, g), NEW x \in DOMAIN f
    PROVE  g[DOMAIN f] = f[x] + g[DOMAIN f \ {x}] /\ g[DOMAIN f \ {x}] \in Int /\ f[x] \in Int
<1>1. /\ \A s \in SUBSET DOMAIN f : g[s] \in Int
      /\ \A s \in SUBSET DOMAIN f : \A y \in s : g[s] = f[y] + g[s \ {y}]
  BY SumsStep
<1>2. DOMAIN f \in SUBSET DOMAIN f /\ DOMAIN f \ {x} \in SUBSET DOMAIN f
  OBVIOUS
<1> QED
  BY <1>1, <1>2 DEF Summable

(* Changing one term changes the sum by the difference.                     *)
LEMMA SumUpdate ==
    ASSUME NEW f, NEW h, Summable(f), Summable(h), DOMAIN h = DOMAIN f,
           NEW x \in DOMAIN f, \A y \in DOMAIN f : y # x => h[y] = f[y]
    PROVE  SumFunction(h) = (SumFunction(f) - f[x]) + h[x]
<1> DEFINE D == DOMAIN f
           E == D \ {x}
<1>1. PICK g : Sums(f, g) /\ SumFunction(f) = g[D]
  BY SumFacts
<1>2. PICK k : Sums(h, k) /\ SumFunction(h) = k[DOMAIN h]
  BY SumFacts
<1>3. g[D] = f[x] + g[E] /\ g[E] \in Int /\ f[x] \in Int
  BY <1>1, SumSplit
<1>4. x \in DOMAIN h
  OBVIOUS
<1>5. k[DOMAIN h] = h[x] + k[DOMAIN h \ {x}] /\ k[DOMAIN h \ {x}] \in Int /\ h[x] \in Int
  BY <1>2, <1>4, SumSplit
<1>6. IsFiniteSet(E)
  BY FS_Subset DEF Summable
<1>7. g[E] = k[E]
  BY <1>1, <1>2, <1>6, SumsAgree
<1> HIDE DEF E
<1> QED
  BY <1>1, <1>2, <1>3, <1>5, <1>7 DEF E

(* A further term adds itself.                                              *)
LEMMA SumExtend ==
    ASSUME NEW f, NEW h, Summable(f), Summable(h), NEW x \in DOMAIN h,
           DOMAIN f = DOMAIN h \ {x}, \A y \in DOMAIN f : h[y] = f[y]
    PROVE  SumFunction(h) = SumFunction(f) + h[x]
<1>1. PICK g : Sums(f, g) /\ SumFunction(f) = g[DOMAIN f]
  BY SumFacts
<1>2. PICK k : Sums(h, k) /\ SumFunction(h) = k[DOMAIN h]
  BY SumFacts
<1>3. k[DOMAIN h] = h[x] + k[DOMAIN h \ {x}] /\ k[DOMAIN h \ {x}] \in Int /\ h[x] \in Int
  BY <1>2, SumSplit
<1>4. g[DOMAIN f] = k[DOMAIN f]
  BY <1>1, <1>2, SumsAgree DEF Summable
<1> QED
  BY <1>1, <1>2, <1>3, <1>4

-----------------------------------------------------------------------------
(* The budgets.                                                             *)

(* What thread t holds of budget b, what the handler it is about to run has *)
(* been charged, and what an execution cost.                                *)
Held(calls, b) ==
    [t \in Threads |-> IF b \in calls[t].held THEN Amount(calls[t].req, b) ELSE 0]
Charged(pcs, calls, b) ==
    [t \in Threads |-> IF pcs[t] = "run" THEN Amount(calls[t].req, b) ELSE 0]
Cost(executions, b) == [e \in executions |-> Amount(e.req, b)]

Visited(next) == {BudgetOrder[i] : i \in 1 .. next - 1}

(* A thread at the gate has gone through the budgets in their order, and    *)
(* unless one was denied holds them all.                                    *)
AtGate(p, c) ==
    /\ p = "govern" => c.next = 1 /\ ~c.denied
    /\ p = "reserve" => /\ c.next <= Len(BudgetOrder) + 1
                        /\ c.held \subseteq Visited(c.next)
                        /\ ~c.denied => c.held = Visited(c.next)

GateInv == \A t \in Threads : AtGate(pc[t], call[t])

(* What ran and what is charged to run was consumed, what was consumed and  *)
(* what is held is used, and what is used fits the budget.                  *)
LedgerInv ==
    /\ IsFiniteSet(ran)
    /\ \A b \in Budgets :
          /\ used[b] <= Limit[b]
          /\ used[b] = consumed[b] + SumFunction(Held(call, b))
          /\ SumFunction(Cost(ran, b)) + SumFunction(Charged(pc, call, b)) <= consumed[b]

(* The part of TypeOK that the sums need, for any calls.                    *)
Priced(pcs, calls) ==
    /\ calls \in [Threads -> Calls]
    /\ \A t \in Threads : pcs[t] # "idle" => calls[t].req \in Requests
    /\ \A t \in Threads : pcs[t] # "reserve" => calls[t].held = {}

LEMMA HeldSums ==
    ASSUME NEW pcs, NEW calls, Priced(pcs, calls), NEW b
    PROVE  /\ Summable(Held(calls, b)) /\ SumFunction(Held(calls, b)) \in Nat
           /\ \A t \in Threads : Held(calls, b)[t] \in Nat
<1>1. \A t \in Threads : Held(calls, b)[t] \in Nat
    <2> SUFFICES ASSUME NEW t \in Threads, b \in calls[t].held
                 PROVE  Amount(calls[t].req, b) \in Nat
        BY DEF Held
    <2>1. calls[t].req \in Requests
        BY DEF Priced
    <2> QED
        BY <2>1, AmountType
<1>2. DOMAIN Held(calls, b) = Threads
    BY DEF Held
<1>3. Summable(Held(calls, b))
    BY <1>1, <1>2, GatewayAssumption DEF Summable
<1> QED
    BY <1>1, <1>2, <1>3, SumType

LEMMA ChargedSums ==
    ASSUME NEW pcs, NEW calls, Priced(pcs, calls), NEW b
    PROVE  /\ Summable(Charged(pcs, calls, b)) /\ SumFunction(Charged(pcs, calls, b)) \in Nat
           /\ \A t \in Threads : Charged(pcs, calls, b)[t] \in Nat
<1>1. \A t \in Threads : Charged(pcs, calls, b)[t] \in Nat
    <2> SUFFICES ASSUME NEW t \in Threads, pcs[t] = "run"
                 PROVE  Amount(calls[t].req, b) \in Nat
        BY DEF Charged
    <2>1. calls[t].req \in Requests
        BY DEF Priced
    <2> QED
        BY <2>1, AmountType
<1>2. DOMAIN Charged(pcs, calls, b) = Threads
    BY DEF Charged
<1>3. Summable(Charged(pcs, calls, b))
    BY <1>1, <1>2, GatewayAssumption DEF Summable
<1> QED
    BY <1>1, <1>2, <1>3, SumType

LEMMA CostSums ==
    ASSUME NEW R, R \subseteq Executions, IsFiniteSet(R), NEW b
    PROVE  Summable(Cost(R, b)) /\ SumFunction(Cost(R, b)) \in Nat
<1>1. \A e \in R : Cost(R, b)[e] \in Nat
    BY AmountType DEF Cost, Executions
<1>2. DOMAIN Cost(R, b) = R
    BY DEF Cost
<1>3. Summable(Cost(R, b))
    BY <1>1, <1>2 DEF Summable
<1> QED
    BY <1>1, <1>2, <1>3, SumType

(* A further execution costs its amount, and nothing if it is not new.      *)
LEMMA CostGrows ==
    ASSUME NEW R, R \subseteq Executions, IsFiniteSet(R), NEW e \in Executions, NEW b
    PROVE  /\ IsFiniteSet(R \cup {e})
           /\ SumFunction(Cost(R \cup {e}, b)) <= SumFunction(Cost(R, b)) + Amount(e.req, b)
<1> SUFFICES ASSUME NEW S, S = R \cup {e}
             PROVE  /\ IsFiniteSet(S)
                    /\ SumFunction(Cost(S, b)) <= SumFunction(Cost(R, b)) + Amount(e.req, b)
    OBVIOUS
<1>1. S \subseteq Executions /\ IsFiniteSet(S)
    BY FS_AddElement
<1>2. Summable(Cost(R, b)) /\ SumFunction(Cost(R, b)) \in Nat
    BY CostSums
<1>3. Summable(Cost(S, b)) /\ SumFunction(Cost(S, b)) \in Nat
    BY <1>1, CostSums
<1>4. Amount(e.req, b) \in Nat
    BY AmountType DEF Executions
<1>5. CASE e \in R
    <2>1. S = R
        BY <1>5
    <2>2. SumFunction(Cost(S, b)) = SumFunction(Cost(R, b))
        BY <2>1
    <2> QED
        BY <1>1, <1>2, <1>4, <2>2
<1>6. CASE e \notin R
    <2>1. /\ e \in DOMAIN Cost(S, b) /\ DOMAIN Cost(R, b) = DOMAIN Cost(S, b) \ {e}
          /\ Cost(S, b)[e] = Amount(e.req, b)
          /\ \A d \in DOMAIN Cost(R, b) : Cost(S, b)[d] = Cost(R, b)[d]
        BY <1>6 DEF Cost
    <2>2. SumFunction(Cost(S, b)) = SumFunction(Cost(R, b)) + Cost(S, b)[e]
        BY <1>2, <1>3, <2>1, SumExtend
    <2> QED
        BY <1>1, <1>2, <1>3, <1>4, <2>1, <2>2
<1> QED
    BY <1>5, <1>6

(* A step of one thread changes the sums by what changes for that thread.   *)
LEMMA OneThread ==
    ASSUME NEW pcs, NEW calls, Priced(pcs, calls), NEW pcs2, NEW calls2, Priced(pcs2, calls2),
           NEW t \in Threads, \A u \in Threads \ {t} : calls2[u] = calls[u] /\ pcs2[u] = pcs[u],
           NEW b
    PROVE  /\ SumFunction(Held(calls2, b))
                = (SumFunction(Held(calls, b)) - Held(calls, b)[t]) + Held(calls2, b)[t]
           /\ SumFunction(Charged(pcs2, calls2, b))
                = (SumFunction(Charged(pcs, calls, b)) - Charged(pcs, calls, b)[t])
                  + Charged(pcs2, calls2, b)[t]
<1>1. /\ DOMAIN Held(calls, b) = Threads /\ DOMAIN Held(calls2, b) = Threads
      /\ \A u \in Threads : u # t => Held(calls2, b)[u] = Held(calls, b)[u]
    BY DEF Held
<1>2. /\ DOMAIN Charged(pcs, calls, b) = Threads /\ DOMAIN Charged(pcs2, calls2, b) = Threads
      /\ \A u \in Threads : u # t => Charged(pcs2, calls2, b)[u] = Charged(pcs, calls, b)[u]
    BY DEF Charged
<1>3. Summable(Held(calls, b)) /\ Summable(Held(calls2, b))
    BY HeldSums
<1>4. Summable(Charged(pcs, calls, b)) /\ Summable(Charged(pcs2, calls2, b))
    BY ChargedSums
<1>5. SumFunction(Held(calls2, b))
        = (SumFunction(Held(calls, b)) - Held(calls, b)[t]) + Held(calls2, b)[t]
    BY <1>1, <1>3, SumUpdate
<1>6. SumFunction(Charged(pcs2, calls2, b))
        = (SumFunction(Charged(pcs, calls, b)) - Charged(pcs, calls, b)[t])
          + Charged(pcs2, calls2, b)[t]
    BY <1>2, <1>4, SumUpdate
<1> QED
    BY <1>5, <1>6

LEMMA TypePriced == TypeOK /\ TypeOK' => Priced(pc, call) /\ Priced(pc', call')
BY DEF TypeOK, Priced

(* A step of a thread that holds nothing before or after and is not about   *)
(* to run a handler: it may have just run one.                              *)
LEMMA QuietLedger ==
    ASSUME TypeOK, TypeOK', LedgerInv, NEW t \in Threads,
           \A u \in Threads \ {t} : call'[u] = call[u] /\ pc'[u] = pc[u],
           used' = used, consumed' = consumed,
           \/ ran' = ran
           \/ pc[t] = "run" /\ ran' = ran \cup {Execution(call[t])},
           call[t].held = {}, call'[t].held = {}, pc'[t] # "run"
    PROVE  LedgerInv'
<1>1. Priced(pc, call) /\ Priced(pc', call')
    BY TypePriced
<1>2. pc[t] = "run" => Execution(call[t]) \in Executions /\ Execution(call[t]).req = call[t].req
    BY DEF TypeOK, Execution, Executions, Calls
<1>3. ran \subseteq Executions /\ ran' \subseteq Executions /\ IsFiniteSet(ran)
    BY DEF TypeOK, LedgerInv
<1>4. IsFiniteSet(ran')
    BY <1>2, <1>3, CostGrows
<1>5. ASSUME NEW b \in Budgets
      PROVE  /\ used'[b] <= Limit[b]
             /\ used'[b] = consumed'[b] + SumFunction(Held(call', b))
             /\ SumFunction(Cost(ran', b)) + SumFunction(Charged(pc', call', b)) <= consumed'[b]
    <2> DEFINE h == SumFunction(Held(call, b))
               h2 == SumFunction(Held(call', b))
               c == SumFunction(Charged(pc, call, b))
               c2 == SumFunction(Charged(pc', call', b))
               k == SumFunction(Cost(ran, b))
               k2 == SumFunction(Cost(ran', b))
               x == Charged(pc, call, b)[t]
    <2>1. h \in Nat /\ h2 \in Nat
        BY <1>1, HeldSums
    <2>2. c \in Nat /\ c2 \in Nat /\ x \in Nat
        BY <1>1, ChargedSums
    <2>3. k \in Nat /\ k2 \in Nat
        BY <1>3, <1>4, CostSums
    <2>4. Held(call, b)[t] = 0 /\ Held(call', b)[t] = 0 /\ Charged(pc', call', b)[t] = 0
        BY DEF Held, Charged
    <2>5. /\ h2 = (h - Held(call, b)[t]) + Held(call', b)[t]
          /\ c2 = (c - x) + Charged(pc', call', b)[t]
        BY <1>1, OneThread
    <2>6. pc[t] = "run" => x = Amount(call[t].req, b)
        BY DEF Charged
    <2>7. k2 = k \/ k2 <= k + x
        <3>1. CASE ran' = ran
            BY <3>1
        <3>2. CASE pc[t] = "run" /\ ran' = ran \cup {Execution(call[t])}
            BY <1>2, <1>3, <2>6, <3>2, CostGrows
        <3> QED
            BY <3>1, <3>2
    <2>8. /\ used[b] <= Limit[b] /\ used[b] = consumed[b] + h /\ k + c <= consumed[b]
          /\ used[b] \in Int /\ consumed[b] \in Nat
        BY DEF LedgerInv, TypeOK
    <2> HIDE DEF h, h2, c, c2, k, k2, x
    <2>9. h2 = h /\ c2 = c - x
        BY <2>1, <2>2, <2>4, <2>5
    <2>10. k2 + c2 <= consumed[b]
        BY <2>2, <2>3, <2>7, <2>8, <2>9
    <2>11. used'[b] = used[b] /\ consumed'[b] = consumed[b]
        OBVIOUS
    <2> QED
        BY <2>8, <2>9, <2>10, <2>11 DEF h2, c2, k2
<1> QED
    BY <1>4, <1>5 DEF LedgerInv

(* A step at the gate: used and consumed change by what thread t holds and  *)
(* is charged of each budget.                                               *)
LEMMA GateLedger ==
    ASSUME TypeOK, TypeOK', LedgerInv, NEW t \in Threads,
           \A u \in Threads \ {t} : call'[u] = call[u] /\ pc'[u] = pc[u],
           ran' = ran,
           \A b \in Budgets :
              /\ used'[b] <= Limit[b]
              /\ used'[b] - consumed'[b] = (used[b] - consumed[b])
                                            + (Held(call', b)[t] - Held(call, b)[t])
              /\ Charged(pc', call', b)[t] - Charged(pc, call, b)[t] <= consumed'[b] - consumed[b]
    PROVE  LedgerInv'
<1>1. Priced(pc, call) /\ Priced(pc', call')
    BY TypePriced
<1>2. ASSUME NEW b \in Budgets
      PROVE  /\ used'[b] = consumed'[b] + SumFunction(Held(call', b))
             /\ SumFunction(Cost(ran', b)) + SumFunction(Charged(pc', call', b)) <= consumed'[b]
    <2> DEFINE h == SumFunction(Held(call, b))
               h2 == SumFunction(Held(call', b))
               c == SumFunction(Charged(pc, call, b))
               c2 == SumFunction(Charged(pc', call', b))
               k == SumFunction(Cost(ran, b))
               x == Held(call, b)[t]
               x2 == Held(call', b)[t]
               y == Charged(pc, call, b)[t]
               y2 == Charged(pc', call', b)[t]
               u == used[b]
               u2 == used'[b]
               m == consumed[b]
               m2 == consumed'[b]
    <2>1. h \in Nat /\ h2 \in Nat /\ x \in Nat /\ x2 \in Nat
        BY <1>1, HeldSums
    <2>2. c \in Nat /\ c2 \in Nat /\ y \in Nat /\ y2 \in Nat
        BY <1>1, ChargedSums
    <2>3. k \in Nat
        BY CostSums DEF TypeOK, LedgerInv
    <2>4. h2 = (h - x) + x2 /\ c2 = (c - y) + y2
        BY <1>1, OneThread
    <2>5. u = m + h /\ k + c <= m /\ u \in Int /\ u2 \in Int /\ m \in Nat /\ m2 \in Nat
        BY DEF LedgerInv, TypeOK
    <2>6. u2 - m2 = (u - m) + (x2 - x) /\ y2 - y <= m2 - m
        OBVIOUS
    <2> HIDE DEF h, h2, c, c2, k, x, x2, y, y2, u, u2, m, m2
    <2>7. u2 = m2 + h2
        BY <2>1, <2>4, <2>5, <2>6
    <2>8. k + c2 <= m2
        BY <2>2, <2>3, <2>4, <2>5, <2>6
    <2> QED
        BY <2>7, <2>8 DEF h2, c2, k, u2, m2
<1> QED
    BY <1>2 DEF LedgerInv

BudgetInv == GateInv /\ LedgerInv

LEMMA VisitedSteps ==
    /\ Visited(1) = {}
    /\ \A n \in Nat \ {0} : Visited(n + 1) = Visited(n) \cup {BudgetOrder[n]}
    /\ Visited(Len(BudgetOrder) + 1) = Budgets
    /\ \A n \in 1 .. Len(BudgetOrder) : BudgetOrder[n] \notin Visited(n)
    /\ Len(BudgetOrder) \in Nat
<1>1. Len(BudgetOrder) \in Nat
    BY GatewayAssumption
<1>2. Visited(1) = {}
    BY DEF Visited
<1>3. ASSUME NEW n \in Nat \ {0}
      PROVE  Visited(n + 1) = Visited(n) \cup {BudgetOrder[n]}
    <2>1. \A i : i \in 1 .. (n + 1) - 1 <=> i \in 1 .. n - 1 \/ i = n
        OBVIOUS
    <2> QED
        BY <2>1 DEF Visited
<1>4. Visited(Len(BudgetOrder) + 1) = Budgets
    <2>1. (Len(BudgetOrder) + 1) - 1 = Len(BudgetOrder)
        BY <1>1
    <2> QED
        BY <2>1 DEF Visited, Budgets
<1>5. ASSUME NEW n \in 1 .. Len(BudgetOrder)
      PROVE  BudgetOrder[n] \notin Visited(n)
    <2> SUFFICES ASSUME NEW i \in 1 .. n - 1, BudgetOrder[n] = BudgetOrder[i]
                 PROVE  FALSE
        BY DEF Visited
    <2>1. i \in 1 .. Len(BudgetOrder) /\ i # n
        BY <1>1
    <2> QED
        BY <2>1, GatewayAssumption
<1> QED
    BY <1>1, <1>2, <1>3, <1>4, <1>5

LEMMA BudgetInit == Init => BudgetInv
<1> SUFFICES ASSUME Init PROVE BudgetInv
    OBVIOUS
<1>1. TypeOK
    BY TypeInit
<1>2. GateInv
    BY DEF Init, GateInv, AtGate
<1>3. Priced(pc, call)
    BY <1>1 DEF TypeOK, Priced
<1>4. ASSUME NEW b \in Budgets
      PROVE  /\ SumFunction(Held(call, b)) = 0
             /\ SumFunction(Charged(pc, call, b)) = 0
             /\ SumFunction(Cost(ran, b)) = 0
    <2>1. /\ DOMAIN Held(call, b) = Threads /\ DOMAIN Charged(pc, call, b) = Threads
          /\ DOMAIN Cost(ran, b) = {}
        BY DEF Held, Charged, Cost, Init
    <2>2. \A t \in Threads : Held(call, b)[t] = 0 /\ Charged(pc, call, b)[t] = 0
        BY DEF Held, Charged, Init, NoCall
    <2>3. Summable(Cost(ran, b))
        BY <2>1, FS_EmptySet DEF Summable
    <2>4. SumFunction(Held(call, b)) = 0
        BY <1>3, <2>1, <2>2, HeldSums, SumType
    <2>5. SumFunction(Charged(pc, call, b)) = 0
        BY <1>3, <2>1, <2>2, ChargedSums, SumType
    <2>6. SumFunction(Cost(ran, b)) = 0
        BY <2>1, <2>3, SumType
    <2> QED
        BY <2>4, <2>5, <2>6
<1>5. \A b \in Budgets : used[b] = 0 /\ consumed[b] = 0 /\ Limit[b] \in Nat
    BY GatewayAssumption DEF Init
<1>6. IsFiniteSet(ran)
    BY FS_EmptySet DEF Init
<1>7. LedgerInv
    BY <1>4, <1>5, <1>6 DEF LedgerInv
<1> QED
    BY <1>2, <1>7 DEF BudgetInv

(* The other threads are where they were.                                   *)
LEMMA OthersAtGate ==
    ASSUME GateInv, NEW t \in Threads,
           \A u \in Threads \ {t} : call'[u] = call[u] /\ pc'[u] = pc[u],
           AtGate(pc'[t], call'[t])
    PROVE  GateInv'
<1>1. \A u \in Threads : AtGate(pc'[u], call'[u])
    BY DEF GateInv
<1> QED
    BY <1>1 DEF GateInv, AtGate, Visited

(* A new call and a governed one keep their place and their reservations.   *)
LEMMA BeginCall ==
    ASSUME TypeOK, NEW t \in Threads, Begin(t)
    PROVE  \E c : /\ call' = [call EXCEPT ![t] = c]
                  /\ c.next = NoCall.next /\ c.denied = NoCall.denied
<1>1. PICK req \in Requests :
        LET c == [NoCall EXCEPT !.id = started + 1, !.req = req, !.authority = authority]
        IN  call' = [call EXCEPT ![t] = [c EXCEPT !.violations =
                        CollectViolations(req) \cup PreExecutionViolations(c)]]
    BY DEF Begin
<1> DEFINE c == [NoCall EXCEPT !.id = started + 1, !.req = req, !.authority = authority]
           d == [c EXCEPT !.violations = CollectViolations(req) \cup PreExecutionViolations(c)]
<1>2. c.next = NoCall.next /\ c.denied = NoCall.denied /\ c \in Calls
    <2>1. started + 1 \in Nat /\ authority \in Authorities
        BY DEF TypeOK
    <2> QED
        BY <2>1, NoCallType DEF Calls
<1> HIDE DEF c
<1>3. d.next = c.next /\ d.denied = c.denied
    BY <1>2 DEF Calls
<1>4. call' = [call EXCEPT ![t] = d]
    BY <1>1 DEF c
<1> HIDE DEF d
<1> QED
    BY <1>2, <1>3, <1>4

LEMMA GovernCall ==
    ASSUME TypeOK, NEW t \in Threads, Govern(t)
    PROVE  /\ \A u \in Threads \ {t} : call'[u] = call[u] /\ pc'[u] = pc[u]
           /\ pc[t] = "govern" /\ pc'[t] \in {"refuse", "reserve"}
           /\ call'[t].held = call[t].held /\ call'[t].next = call[t].next
           /\ call'[t].denied = call[t].denied
           /\ used' = used /\ consumed' = consumed /\ ran' = ran
<1> DEFINE c == call[t]
           E(rec) == Enforcement(Context(c), rec, clock)
           After(rec) == IF E(rec) = "allow" THEN Patched(Context(c), rec, clock)
                                             ELSE c.authority
           V(rec) == c.violations \cup GovernorViolations(c, rec, After(rec), E(rec))
<1>1. PICK rec \in Advice :
        /\ call' = [call EXCEPT ![t].authority = After(rec), ![t].violations = V(rec),
                                ![t].enforcement = E(rec), ![t].redeemed = TokenValid(c.req)]
        /\ pc' = [pc EXCEPT ![t] = IF Blocks(c, V(rec), E(rec)) THEN "refuse" ELSE "reserve"]
    BY DEF Govern
<1>2. c \in Calls
    BY DEF TypeOK
<1>3. call' = [call EXCEPT ![t] = [c EXCEPT !.authority = After(rec), !.violations = V(rec),
                                   !.enforcement = E(rec), !.redeemed = TokenValid(c.req)]]
    BY <1>1 DEF TypeOK
<1> HIDE DEF c, E, After, V
<1>4. /\ call'[t].held = c.held /\ call'[t].next = c.next /\ call'[t].denied = c.denied
      /\ \A u \in Threads \ {t} : call'[u] = call[u]
    BY <1>2, <1>3 DEF TypeOK, Calls
<1>5. /\ pc'[t] \in {"refuse", "reserve"} /\ \A u \in Threads \ {t} : pc'[u] = pc[u]
    BY <1>1 DEF TypeOK
<1>6. pc[t] = "govern" /\ used' = used /\ consumed' = consumed /\ ran' = ran
    BY DEF Govern
<1> QED
    BY <1>4, <1>5, <1>6 DEF c

LEMMA QuietBudget ==
    ASSUME TypeOK, TypeOK', BudgetInv, NEW t \in Threads,
           \/ Begin(t) \/ Govern(t) \/ Run(t)
           \/ HandlerRaises(t) \/ Report(t) \/ ReportRaises(t) \/ Refuse(t)
    PROVE  BudgetInv'
<1>1. CASE Begin(t)
    <2>1. PICK c : /\ call' = [call EXCEPT ![t] = c]
                   /\ c.next = NoCall.next /\ c.denied = NoCall.denied
        BY <1>1, BeginCall
    <2>2. /\ \A u \in Threads \ {t} : call'[u] = call[u] /\ pc'[u] = pc[u]
          /\ pc[t] = "idle" /\ pc'[t] = "govern" /\ call'[t] = c
          /\ used' = used /\ consumed' = consumed /\ ran' = ran
        BY <1>1, <2>1 DEF Begin, TypeOK
    <2>3. call[t].held = {} /\ call'[t].held = {}
        BY <2>2 DEF TypeOK
    <2>4. AtGate(pc'[t], call'[t])
        BY <2>1, <2>2 DEF AtGate, NoCall
    <2>5. LedgerInv'
        BY <2>2, <2>3, QuietLedger DEF BudgetInv
    <2> QED
        BY <2>2, <2>4, <2>5, OthersAtGate DEF BudgetInv
<1>2. CASE Govern(t)
    <2>1. /\ \A u \in Threads \ {t} : call'[u] = call[u] /\ pc'[u] = pc[u]
          /\ pc[t] = "govern" /\ pc'[t] \in {"refuse", "reserve"}
          /\ call'[t].held = call[t].held /\ call'[t].next = call[t].next
          /\ call'[t].denied = call[t].denied
          /\ used' = used /\ consumed' = consumed /\ ran' = ran
        BY <1>2, GovernCall
    <2>2. call[t].held = {} /\ call'[t].held = {}
        BY <2>1 DEF TypeOK
    <2>3. AtGate(pc'[t], call'[t])
        BY <2>1, <2>2, VisitedSteps DEF AtGate, BudgetInv, GateInv
    <2>4. LedgerInv'
        BY <2>1, <2>2, QuietLedger DEF BudgetInv
    <2> QED
        BY <2>1, <2>3, <2>4, OthersAtGate DEF BudgetInv
<1>3. CASE Run(t) \/ HandlerRaises(t) \/ Report(t) \/ ReportRaises(t) \/ Refuse(t)
    <2>1. /\ \A u \in Threads \ {t} : call'[u] = call[u] /\ pc'[u] = pc[u]
          /\ pc[t] \in {"run", "report", "refuse"} /\ pc'[t] \in {"idle", "report"}
          /\ used' = used /\ consumed' = consumed
          /\ \/ ran' = ran
             \/ pc[t] = "run" /\ ran' = ran \cup {Execution(call[t])}
        BY <1>3 DEF Run, HandlerRaises, Report, ReportRaises, Refuse, Finish, TypeOK
    <2>2. call[t].held = {} /\ call'[t].held = {}
        BY <2>1 DEF TypeOK
    <2>3. AtGate(pc'[t], call'[t])
        BY <2>1 DEF AtGate
    <2>4. LedgerInv'
        BY <2>1, <2>2, QuietLedger DEF BudgetInv
    <2> QED
        BY <2>1, <2>3, <2>4, OthersAtGate DEF BudgetInv
<1> QED
    BY <1>1, <1>2, <1>3

LEMMA ReserveBudget ==
    ASSUME TypeOK, TypeOK', BudgetInv, NEW t \in Threads, Reserve(t)
    PROVE  BudgetInv'
<1> DEFINE c == call[t]
           n == c.next
           d == BudgetOrder[n]
<1>1. /\ c \in Calls /\ c.req \in Requests /\ pc[t] = "reserve" /\ n \in 1 .. Len(BudgetOrder)
      /\ c.held \subseteq Visited(n) /\ (~c.denied => c.held = Visited(n))
      /\ n \in Nat \ {0} /\ Len(BudgetOrder) \in Nat
    <2>1. c \in Calls /\ c.req \in Requests /\ pc[t] = "reserve" /\ n <= Len(BudgetOrder)
        BY DEF Reserve, TypeOK
    <2>2. AtGate("reserve", c)
        BY <2>1 DEF BudgetInv, GateInv
    <2>3. c.held \subseteq Visited(n) /\ (~c.denied => c.held = Visited(n))
        BY <2>2, Zenon DEF AtGate
    <2>4. n \in Nat \ {0} /\ Len(BudgetOrder) \in Nat
        BY <2>1, VisitedSteps DEF Calls
    <2> HIDE DEF c, n
    <2>5. n \in 1 .. Len(BudgetOrder)
        BY <2>1, <2>4
    <2> QED
        BY <2>1, <2>3, <2>4, <2>5
<1>2. d \in Budgets /\ d \notin c.held /\ Visited(n + 1) = Visited(n) \cup {d}
    BY <1>1, VisitedSteps DEF Budgets
<1>3. /\ \A u \in Threads \ {t} : call'[u] = call[u] /\ pc'[u] = pc[u]
      /\ pc' = pc /\ consumed' = consumed /\ ran' = ran
    BY DEF Reserve, TypeOK
<1>4. \/ /\ Fits(c.req, d) /\ used' = [used EXCEPT ![d] = @ + Amount(c.req, d)]
         /\ call'[t].next = n + 1 /\ call'[t].held = c.held \cup {d}
         /\ call'[t].denied = c.denied /\ call'[t].req = c.req
      \/ /\ used' = used /\ call'[t].held = c.held /\ call'[t].req = c.req
         /\ call'[t].next = n + 1 /\ call'[t].denied
    <2>1. \/ /\ Fits(c.req, d) /\ used' = [used EXCEPT ![d] = @ + Amount(c.req, d)]
             /\ call' = [call EXCEPT ![t] = [c EXCEPT !.next = @ + 1, !.held = @ \cup {d}]]
          \/ /\ used' = used
             /\ call' = [call EXCEPT ![t] = [c EXCEPT !.next = @ + 1, !.denied = TRUE]]
        BY DEF Reserve, TypeOK
    <2> DEFINE c1 == [c EXCEPT !.next = @ + 1, !.held = @ \cup {d}]
               c2 == [c EXCEPT !.next = @ + 1, !.denied = TRUE]
    <2> HIDE DEF c, d
    <2>2. /\ c1.next = c.next + 1 /\ c1.held = c.held \cup {d} /\ c1.req = c.req
          /\ c2.next = c.next + 1 /\ c2.held = c.held /\ c2.req = c.req
        BY <1>1 DEF Calls
    <2>3. c1.denied = c.denied
        BY <1>1 DEF Calls
    <2>4. c2.denied
        BY <1>1 DEF Calls
    <2> HIDE DEF c1, c2
    <2>5. \/ /\ Fits(c.req, d) /\ used' = [used EXCEPT ![d] = @ + Amount(c.req, d)]
             /\ call'[t] = c1
          \/ used' = used /\ call'[t] = c2
        BY <2>1 DEF TypeOK, c1, c2
    <2> QED
        BY <2>2, <2>3, <2>4, <2>5
<1> DEFINE a == Amount(c.req, d)
<1>5. a \in Nat
    BY <1>1, AmountType
<1> HIDE DEF a, c, d, n
<1>6. AtGate(pc'[t], call'[t])
    <2>1. call'[t].next = n + 1 /\ n + 1 <= Len(BudgetOrder) + 1
        BY <1>1, <1>4
    <2>2. call'[t].held \subseteq Visited(n + 1)
        BY <1>1, <1>2, <1>4
    <2>3. ~call'[t].denied => call'[t].held = Visited(n + 1)
        BY <1>1, <1>2, <1>4
    <2> QED
        BY <1>1, <1>3, <2>1, <2>2, <2>3 DEF AtGate
<1>7. ASSUME NEW b \in Budgets
      PROVE  /\ used'[b] <= Limit[b]
             /\ used'[b] - consumed'[b] = (used[b] - consumed[b])
                                           + (Held(call', b)[t] - Held(call, b)[t])
             /\ Charged(pc', call', b)[t] - Charged(pc, call, b)[t] <= consumed'[b] - consumed[b]
    <2>1. Charged(pc', call', b)[t] = 0 /\ Charged(pc, call, b)[t] = 0
        BY <1>1, <1>3 DEF Charged
    <2>2. /\ used[b] \in Int /\ consumed[b] \in Nat /\ used[b] <= Limit[b]
          /\ consumed'[b] = consumed[b]
        BY <1>3 DEF TypeOK, BudgetInv, LedgerInv
    <2>3. /\ Held(call, b)[t] = (IF b \in c.held THEN Amount(c.req, b) ELSE 0)
          /\ Held(call', b)[t] = (IF b \in call'[t].held THEN Amount(call'[t].req, b) ELSE 0)
        BY DEF Held, c
    <2>4. Amount(c.req, b) \in Nat
        BY <1>1, AmountType
    <2>5. CASE /\ Fits(c.req, d) /\ used' = [used EXCEPT ![d] = @ + Amount(c.req, d)]
               /\ call'[t].held = c.held \cup {d} /\ call'[t].req = c.req
        <3>1. CASE b = d
            <4>1. used'[b] = used[b] + a /\ used[b] + a <= Limit[b]
                BY <1>2, <2>5, <3>1 DEF Fits, TypeOK, a
            <4>2. Held(call, b)[t] = 0 /\ Held(call', b)[t] = a
                BY <1>2, <2>3, <2>5, <3>1 DEF a
            <4> QED
                BY <1>5, <2>1, <2>2, <4>1, <4>2
        <3>2. CASE b # d
            <4>1. used'[b] = used[b]
                BY <1>2, <2>5, <3>2 DEF TypeOK
            <4>2. Held(call', b)[t] = Held(call, b)[t] /\ Held(call, b)[t] \in Nat
                BY <2>3, <2>4, <2>5, <3>2
            <4> QED
                BY <2>1, <2>2, <4>1, <4>2
        <3> QED
            BY <3>1, <3>2
    <2>6. CASE used' = used /\ call'[t].held = c.held /\ call'[t].req = c.req
        <3>1. Held(call', b)[t] = Held(call, b)[t] /\ Held(call, b)[t] \in Nat
            BY <2>3, <2>4, <2>6
        <3> QED
            BY <2>1, <2>2, <2>6, <3>1
    <2> QED
        BY <1>4, <2>5, <2>6
<1>8. LedgerInv'
    BY <1>3, <1>7, GateLedger DEF BudgetInv
<1> QED
    BY <1>3, <1>6, <1>8, OthersAtGate DEF BudgetInv

LEMMA ReleaseBudget ==
    ASSUME TypeOK, TypeOK', BudgetInv, NEW t \in Threads, Release(t)
    PROVE  BudgetInv'
<1> DEFINE c == call[t]
<1>1. c \in Calls /\ c.req \in Requests /\ pc[t] = "reserve"
    BY DEF Release, GiveBack, Reserved, TypeOK
<1>2. /\ \A u \in Threads \ {t} : call'[u] = call[u] /\ pc'[u] = pc[u]
      /\ pc'[t] = "refuse" /\ consumed' = consumed /\ ran' = ran
      /\ used' = [b \in Budgets |-> IF b \in c.held THEN used[b] - Amount(c.req, b) ELSE used[b]]
    BY DEF Release, GiveBack, TypeOK
<1>3. call'[t].held = {}
    BY <1>2 DEF TypeOK
<1>4. AtGate(pc'[t], call'[t])
    BY <1>2 DEF AtGate
<1> HIDE DEF c
<1>5. ASSUME NEW b \in Budgets
      PROVE  /\ used'[b] <= Limit[b]
             /\ used'[b] - consumed'[b] = (used[b] - consumed[b])
                                           + (Held(call', b)[t] - Held(call, b)[t])
             /\ Charged(pc', call', b)[t] - Charged(pc, call, b)[t] <= consumed'[b] - consumed[b]
    <2> DEFINE x == Held(call, b)[t]
    <2>1. Charged(pc', call', b)[t] = 0 /\ Charged(pc, call, b)[t] = 0
        BY <1>1, <1>2 DEF Charged
    <2>2. /\ used[b] \in Int /\ consumed[b] \in Nat /\ used[b] <= Limit[b] /\ Limit[b] \in Nat
          /\ consumed'[b] = consumed[b]
        BY <1>2, GatewayAssumption DEF TypeOK, BudgetInv, LedgerInv
    <2>3. Held(call', b)[t] = 0 /\ x = IF b \in c.held THEN Amount(c.req, b) ELSE 0
        BY <1>3 DEF Held, c
    <2>4. x \in Nat
        BY <1>1, <2>3, AmountType
    <2>5. used'[b] = used[b] - x
        BY <1>2, <2>2, <2>3
    <2> HIDE DEF x
    <2> QED
        BY <2>1, <2>2, <2>3, <2>4, <2>5 DEF x
<1>6. LedgerInv'
    BY <1>2, <1>5, GateLedger DEF BudgetInv
<1> QED
    BY <1>2, <1>4, <1>6, OthersAtGate DEF BudgetInv

(* Nothing was denied, so every budget is held and is charged.              *)
LEMMA ConsumeBudget ==
    ASSUME TypeOK, TypeOK', BudgetInv, NEW t \in Threads, Consume(t)
    PROVE  BudgetInv'
<1> DEFINE c == call[t]
<1>1. c \in Calls /\ c.req \in Requests /\ pc[t] = "reserve"
    BY DEF Consume, Commit, Reserved, TypeOK
<1>2. c.held = Budgets
    <2>1. c.next <= Len(BudgetOrder) + 1 /\ c.next > Len(BudgetOrder) /\ c.held = Visited(c.next)
        BY <1>1 DEF Consume, Commit, Reserved, BudgetInv, GateInv, AtGate
    <2>2. c.next \in Nat
        BY <1>1 DEF Calls
    <2>3. c.next = Len(BudgetOrder) + 1
        BY <2>1, <2>2, VisitedSteps
    <2> QED
        BY <2>1, <2>3, VisitedSteps
<1>3. /\ \A u \in Threads \ {t} : call'[u] = call[u] /\ pc'[u] = pc[u]
      /\ pc'[t] = "run" /\ used' = used /\ ran' = ran
      /\ consumed' = [b \in Budgets |-> IF b \in c.held THEN consumed[b] + Amount(c.req, b)
                                                        ELSE consumed[b]]
      /\ call'[t] = [c EXCEPT !.held = {}]
    BY DEF Consume, Commit, TypeOK
<1>4. call'[t].held = {} /\ call'[t].req = c.req
    BY <1>1, <1>3 DEF Calls
<1>5. AtGate(pc'[t], call'[t])
    BY <1>3 DEF AtGate
<1> HIDE DEF c
<1>6. ASSUME NEW b \in Budgets
      PROVE  /\ used'[b] <= Limit[b]
             /\ used'[b] - consumed'[b] = (used[b] - consumed[b])
                                           + (Held(call', b)[t] - Held(call, b)[t])
             /\ Charged(pc', call', b)[t] - Charged(pc, call, b)[t] <= consumed'[b] - consumed[b]
    <2> DEFINE a == Amount(c.req, b)
    <2>1. a \in Nat
        BY <1>1, AmountType
    <2>2. /\ used[b] \in Int /\ consumed[b] \in Nat /\ used[b] <= Limit[b] /\ used'[b] = used[b]
        BY <1>3 DEF TypeOK, BudgetInv, LedgerInv
    <2>3. consumed'[b] = consumed[b] + a
        BY <1>2, <1>3
    <2>4. Held(call', b)[t] = 0 /\ Held(call, b)[t] = a
        BY <1>2, <1>4 DEF Held, c
    <2>5. Charged(pc', call', b)[t] = a /\ Charged(pc, call, b)[t] = 0
        BY <1>1, <1>3, <1>4 DEF Charged
    <2> HIDE DEF a
    <2> QED
        BY <2>1, <2>2, <2>3, <2>4, <2>5
<1>7. LedgerInv'
    BY <1>3, <1>6, GateLedger DEF BudgetInv
<1> QED
    BY <1>3, <1>5, <1>7, OthersAtGate DEF BudgetInv

LEMMA BudgetNext == TypeOK /\ BudgetInv /\ [Next]_vars => BudgetInv'
<1> SUFFICES ASSUME TypeOK, BudgetInv, [Next]_vars PROVE BudgetInv'
    OBVIOUS
<1>1. TypeOK'
    BY TypeNext
<1>2. CASE UNCHANGED <<pc, call, ran, used, consumed>>
    BY <1>2 DEF BudgetInv, GateInv, AtGate, LedgerInv, Held, Charged, Cost, Visited
<1>3. CASE RevokePermits \/ RenewLease \/ Tick \/ UNCHANGED vars
    BY <1>2, <1>3 DEF RevokePermits, RenewLease, Tick, vars
<1>4. ASSUME NEW t \in Threads,
             \/ Begin(t) \/ Govern(t) \/ Reserve(t) \/ Release(t) \/ Consume(t)
             \/ Run(t) \/ HandlerRaises(t) \/ Report(t) \/ ReportRaises(t) \/ Refuse(t)
      PROVE  BudgetInv'
    BY <1>1, <1>4, QuietBudget, ReserveBudget, ReleaseBudget, ConsumeBudget
<1> QED
    BY <1>3, <1>4 DEF Next

LEMMA BudgetsInvariant == Spec => [](TypeOK /\ BudgetInv)
BY TypeInit, TypeNext, BudgetInit, BudgetNext, PTL DEF Spec

(* However calls interleave between the would_allow of the pre-execution    *)
(* checks and the reservation at the gate, no budget is overrun by what     *)
(* ran, and no reservation is lost (call_tool, reserve to commit).          *)
THEOREM BudgetsBalanced == Spec => []BudgetsBalance
<1>1. TypeOK /\ BudgetInv => BudgetsBalance
    <2> SUFFICES ASSUME TypeOK, BudgetInv, NEW b \in Budgets
                 PROVE  /\ SumFunction(Cost(ran, b)) <= Limit[b]
                        /\ used[b] = consumed[b] + SumFunction(Held(call, b))
        BY DEF BudgetsBalance, EffectsWithinBudget, NoLeakedReservation, Cost, Held
    <2> DEFINE k == SumFunction(Cost(ran, b))
               h == SumFunction(Held(call, b))
               r == SumFunction(Charged(pc, call, b))
    <2>1. Priced(pc, call) /\ ran \subseteq Executions /\ IsFiniteSet(ran)
        BY DEF TypeOK, Priced, BudgetInv, LedgerInv
    <2>2. k \in Nat /\ h \in Nat /\ r \in Nat
        BY <2>1, CostSums, HeldSums, ChargedSums
    <2>3. used[b] \in Int /\ consumed[b] \in Nat /\ Limit[b] \in Nat
        BY GatewayAssumption DEF TypeOK
    <2>4. used[b] <= Limit[b] /\ used[b] = consumed[b] + h /\ k + r <= consumed[b]
        BY DEF BudgetInv, LedgerInv
    <2> HIDE DEF k, h, r
    <2>5. k <= Limit[b]
        BY <2>2, <2>3, <2>4
    <2> QED
        BY <2>4, <2>5 DEF k, h
<1> QED
    BY <1>1, BudgetsInvariant, PTL
=============================================================================
