---------------------------- MODULE MCAuthority -----------------------------
(* Delegation chains of three, or a delegation and a mandate with its       *)
(* parent, over a clock of three instants.                                  *)
EXTENDS Authority

MCOp(action) == [resource |-> "mcp_tool", action |-> action, target |-> "acct"]
MCCap(action) == [resource |-> "mcp_tool", action |-> action]
MCOperations == {MCOp("read"), MCOp("pay")}
MCCapabilityOffers == {{MCCap("read")}, {MCCap(Wildcard)}}

MCTerm(issuer, delegate, actions, resources, limit, ttl, parent) ==
    [issuer |-> issuer, delegate |-> delegate, actions |-> actions, resources |-> resources,
     limit |-> limit, ttl |-> ttl, parent |-> parent]

(* A root, and children of it: each departs from the root in one term, or   *)
(* leaves one out.                                                          *)
MCChild == MCTerm("agent", "agent", {"pay"}, {"acct"}, 1, 1, 1)
MCMandateTerms ==
    {MCTerm("owner", "agent", {"pay"}, {"acct"}, 1, 2, None), MCChild,
     [MCChild EXCEPT !.delegate = None], [MCChild EXCEPT !.actions = {"read", "pay"}],
     [MCChild EXCEPT !.actions = {}], [MCChild EXCEPT !.resources = {"mcp_tool"}],
     [MCChild EXCEPT !.resources = {}], [MCChild EXCEPT !.limit = 2],
     [MCChild EXCEPT !.limit = None], [MCChild EXCEPT !.ttl = 2]}
=============================================================================
