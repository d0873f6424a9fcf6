------------------------------ MODULE MCGateway -----------------------------
(* Small instances of Gateway for TLC.  "pay" is irreversible: it needs a  *)
(* commit token, and a permit for it; "send" has a side effect and needs a *)
(* lease; "read" is read-only; "wipe" is denied by the governor; "poll"    *)
(* has only an asynchronous handler.                                       *)
EXTENDS Gateway, TLC

CONSTANTS k1, q1, t1, t2

AllTools == {"pay", "send", "read", "wipe", "poll"}

BaseRules ==
    [deny_tools |-> {"wipe"}, step_up_tools |-> {},
     permit_required |-> {}, commit_required |-> {"pay"}, lease_required |-> {"send"},
     commit_implies_permit_required |-> TRUE,
     permit_ttl |-> 1, lease_ttl |-> 0, lease_call_budget |-> 0,
     bump_authority_version |-> TRUE,
     require_query_bound_lease |-> TRUE, require_lease_call_budget |-> FALSE,
     consume_lease_call_budget |-> TRUE,
     honor_monitor |-> TRUE, suspend_renewal |-> TRUE,
     permit_missing |-> "deny", lease_missing |-> "step_up",
     lease_expired |-> "step_up", lease_exhausted |-> "step_up",
     lease_query_mismatch |-> "step_up"]

Req(tool, token, amount) ==
    [tool |-> tool, query |-> q1, token |-> token, fails |-> {},
     amount |-> amount, async |-> FALSE]

Faulted(req, check) == [req EXCEPT !.fails = {check}]
Async(req) == [req EXCEPT !.async = TRUE]

Pay == Req("pay", k1, 1)
Send == Req("send", None, 2)

Poll == Req("poll", None, 2)

MixedRequests ==
    {Pay, Req("pay", None, 1), Faulted(Send, "payload"),
     Poll, Async(Poll), Faulted(Async(Poll), "capability"),
     Faulted(Req("read", k1, 1), "egress"), Req("wipe", None, 1)}

SendOnly == {Send}

MCTokenTool == [k \in {k1} |-> "pay"]
MCBudgets == <<"value", "call">>
MCLimit == [b \in {"value", "call"} |-> IF b = "value" THEN 3 ELSE 2]
MCGrants == {[ttl |-> 1, calls |-> 1, query |-> q1]}

ThreadsAlike == Permutations(Threads)
=============================================================================
