----------------------------- MODULE MCRepoGate -----------------------------
(* Two branches over four files: a guarded parser and the name it may move  *)
(* to, an instruction surface and a denied file.                            *)
EXTENDS RepoGate, TLC

MCPaths == {"parser", "moved", "agents", "infra"}
MCPolicy ==
    [allowed |-> {"parser", "moved", "agents"}, denied |-> {"infra"}, operations |-> {},
     surfaces |-> {"agents"}, prior_surfaces |-> {"agents"}, memory |-> {}, memory_opt_in |-> FALSE,
     protected |-> {"parser", "moved"}, security_targets |-> {"parser", "moved"}, sensitive |-> {"parser", "moved"},
     drip_paths |-> {"parser", "moved"}, shims |-> {}, auto_exec |-> {}, gated_exec |-> {},
     actors |-> {"devin", "human"}, expected_actor |-> "devin",
     security_intent |-> FALSE, deny_on_attribution |-> FALSE, trajectory |-> TRUE,
     max_prior |-> 20, horizon_probe |-> {"parser"}, hygiene |-> TRUE,
     block_allow_with_review |-> FALSE]

MCTree(parser, agents) ==
    [p \in MCPaths |-> CASE p = "parser" -> parser [] p = "agents" -> agents [] OTHER -> {}]
MCInitTrees == {MCTree({"text"} \cup Guards, {})}
MCEdits ==
    {"parser" :> {"text", "guard"} @@ "agents" :> {"text", "poison"},
     "parser" :> {"text", "guard2"},
     "parser" :> {} @@ "moved" :> {"text"}, "parser" :> {} @@ "moved" :> {"text", "guard"},
     "infra" :> {"text"}}
MCSymmetry == Permutations(Branches)
=============================================================================
