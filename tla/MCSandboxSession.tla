-------------------------- MODULE MCSandboxSession --------------------------
(* The stack of build_sandboxed_gateway, with windows of one to three       *)
(* attempts.  The goal's lease covers src/app.py; auth/ is protected, and   *)
(* deploy needs a permit.  honor_monitor is off, so that the tightening     *)
(* governor sees what the monitors say.                                     *)
EXTENDS SandboxSession, TLC

Act(tool, level, path, dir) ==
    [tool |-> tool, class |-> "mcp.tools/call", args |-> path, level |-> level,
     ref |-> path, dir |-> dir, subsystem |-> dir, domain |-> Missing, zone |-> Missing,
     risky |-> FALSE, off_task |-> FALSE,
     reference |-> [path |-> path,
                    scheme |-> IF level = "read" THEN "repo_read" ELSE "repo_write"],
     names |-> {tool}, resources |-> {"repo"}, paths |-> {path}, tool_action |-> TRUE,
     network |-> FALSE, hosts |-> {}, nested |-> {}, files |-> {}, publishes |-> FALSE,
     target |-> Missing]

ReadApp == Act("read_file", "read", "src/app.py", "src")
ReadDocs == Act("read_file", "read", "docs/guide.md", "docs")
WriteApp == Act("write_file", "external", "src/app.py", "src")
WriteAuth == Act("write_file", "external", "auth/verify.py", "auth")
Deploy == [Act("deploy", "external", "src/app.py", "src") EXCEPT
             !.publishes = TRUE, !.target = "bucket", !.risky = TRUE,
             !.hosts = {"known"}, !.nested = {"other"}, !.network = TRUE]

AllActions == {"read app", "read docs", "write app", "write auth", "deploy"}

MCOf == [a \in AllActions |->
    CASE a = "read app" -> ReadApp [] a = "read docs" -> ReadDocs
      [] a = "write app" -> WriteApp [] a = "write auth" -> WriteAuth
      [] a = "deploy" -> Deploy]

AllTools == {"read_file", "write_file", "deploy"}

MCWatch ==
    [history |-> 2, review |-> 50, block |-> 60,
     loop_window |-> 2, pattern |-> 1, repeats |-> 2,
     drift_window |-> 3, drift_percent |-> 80, scope |-> {"src/app.py"},
     scan_window |-> 3, max_dirs |-> 2, max_files |-> 3, dir_entropy |-> 3,
     canary |-> TRUE, expected |-> {}, forbidden |-> {"deploy"}, tool_entropy |-> 3]

MCGuard ==
    [min_tier |-> "signed",
     egress |-> [enabled |-> TRUE, default_deny |-> TRUE, hosts |-> {"known"}],
     credential |-> [enabled |-> TRUE, default_deny |-> TRUE, allowed |-> {}, denied |-> {}],
     artifact |-> [enabled |-> TRUE, capability |-> TRUE],
     governed |-> [require |-> TRUE, block |-> TRUE],
     task |-> [allowed |-> {}, denied |-> {}]]

MCGrant ==
    [id |-> TRUE, tier |-> "signed", verified |-> FALSE, possession |-> Missing,
     presenter |-> FALSE, granted |-> FALSE, attested |-> FALSE,
     scopes |-> {<<"repo", "*">>}, files |-> Missing,
     refs |-> {"src/app.py", "auth/verify.py", "docs/guide.md"},
     approvals |-> {}, budgets |-> {}, hosts |-> {"other"}, secrets |-> {},
     targets |-> {"bucket"}]

MCRules ==
    [deny_tools |-> {}, step_up_tools |-> {},
     permit_required |-> {"deploy"}, commit_required |-> {}, lease_required |-> AllTools,
     commit_implies_permit_required |-> TRUE,
     permit_ttl |-> 1, lease_ttl |-> 1, lease_call_budget |-> 3,
     bump_authority_version |-> TRUE,
     require_query_bound_lease |-> FALSE, require_lease_call_budget |-> FALSE,
     consume_lease_call_budget |-> TRUE,
     honor_monitor |-> FALSE, suspend_renewal |-> TRUE,
     permit_missing |-> "deny", lease_missing |-> "step_up",
     lease_expired |-> "step_up", lease_exhausted |-> "step_up",
     lease_query_mismatch |-> "step_up"]

MCZone == [protected |-> {"auth/verify.py"}, memory |-> {}, instructions |-> {},
           net |-> {}, memory_writes |-> FALSE]

MCOpened == ExplicitAllow({}, {"src/app.py"}, {"src/app.py", "auth/verify.py"})
MCApprovable == Entries({"auth/verify.py"}, {"repo_read", "repo_write"})

DefaultTighten == [bump_epoch |-> TRUE, stop_renewal |-> TRUE, reduce |-> TRUE,
                   step_up |-> TRUE, auto |-> TRUE]
MCTightenings == {DefaultTighten, [DefaultTighten EXCEPT !.step_up = FALSE]}

MCAnnouncements ==
    {<<"read_file", [description |-> d, schema |-> "s1"]>> : d \in {"d1", "d2", Missing}}
MCCrossable == {<<"subsystem", "docs">>}
MCPinning == [enabled |-> TRUE, require_pinned |-> FALSE, deny_on_mismatch |-> TRUE,
              witnessed |-> {"deploy"}]
=============================================================================
