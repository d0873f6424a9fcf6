---------------------------- MODULE GovernorChain ---------------------------
(***************************************************************************)
(* The governors that build_sandboxed_gateway puts in front of the rule    *)
(* based one: ProtectedZoneGovernor -> DefaultDenySandboxGovernor ->       *)
(* TighteningGovernor -> RuleBasedSandboxGovernor.                         *)
(***************************************************************************)
EXTENDS Governor

CONSTANT Zone    \* sets of paths: protected ones, agent memory, instruction
                 \* surfaces, net://; and goal.allow_agent_memory_writes

ASSUME ZoneAssumption ==
    /\ {"protected", "memory", "instructions", "net"} \subseteq DOMAIN Zone
    /\ Zone.memory_writes \in BOOLEAN

(* TightenConfig and auto_tighten_on_deny.                                  *)
TightenConfigs == [bump_epoch : BOOLEAN, stop_renewal : BOOLEAN, reduce : BOOLEAN,
                   step_up : BOOLEAN, auto : BOOLEAN]

(* What a governor returns: the enforcement, whether extra_violations is    *)
(* not empty, the authority once its patch is applied, and whether a tool   *)
(* permit was issued.  tightens: tighten mode is entered.                   *)
Refusal(ctx, e) == [enforcement |-> e, violated |-> TRUE, patched |-> ctx.authority,
                    permit |-> FALSE, tightens |-> FALSE]

RuleDecide(ctx, rec, now) ==
    LET e == Enforcement(ctx, rec, now)
    IN  [enforcement |-> e, violated |-> GovernorViolated(ctx, rec, now),
         patched |-> IF e = "allow" THEN Patched(ctx, rec, now) ELSE ctx.authority,
         permit |-> PermitRequired(ctx.tool) /\ Rules.permit_ttl > 0, tightens |-> FALSE]

-----------------------------------------------------------------------------
(* evaluate_tighten_triggers merged into the inner governor's patch.  Half  *)
(* the calls the authority had left, at least one.                          *)
Tightened(after, before, rec, t) ==
    LET half == IF before.remaining \div 2 > 1 THEN before.remaining \div 2 ELSE 1
    IN  [after EXCEPT
           !.epoch = IF rec = "deny" /\ t.bump_epoch THEN before.epoch + 1 ELSE @,
           !.expires = IF t.stop_renewal THEN None ELSE @,
           !.remaining = IF t.reduce /\ before.remaining # None /\ half < before.remaining
                         THEN half ELSE @]

(* Persistent tighten mode: everything but reading needs step-up.           *)
ModeStops(mode, read, rec) == mode /\ ~read

TighteningDecide(ctx, read, rec, now, mode, t) ==
    LET inner == RuleDecide(ctx, rec, now)
        deny == rec = "deny" /\ t.bump_epoch
    IN  IF ModeStops(mode, read, rec) THEN Refusal(ctx, "step_up")
        ELSE IF inner.enforcement = "deny" \/ rec \notin {"deny", "step_up"} THEN inner
        ELSE [enforcement |-> IF deny THEN "deny"
                              ELSE IF rec = "step_up" /\ t.step_up
                                      /\ inner.enforcement = "allow"
                              THEN "step_up" ELSE inner.enforcement,
              violated |-> \/ inner.violated \/ deny \/ t.stop_renewal
                           \/ t.reduce /\ ctx.authority.remaining \notin {None, 0, 1}
                           \/ rec = "step_up" /\ t.step_up,
              patched |-> Tightened(inner.patched, ctx.authority, rec, t),
              permit |-> inner.permit,
              tightens |-> deny /\ t.auto]

(* Non-read actions need a lease that has not expired.                      *)
DefaultDenies(ctx, read, hasAuthority, now) ==
    \/ ~hasAuthority
    \/ ~read /\ (ctx.authority.expires = None \/ ctx.authority.expires <= now)

DefaultDenyDecide(ctx, read, hasAuthority, rec, now, mode, t) ==
    IF DefaultDenies(ctx, read, hasAuthority, now) THEN Refusal(ctx, "deny")
    ELSE TighteningDecide(ctx, read, rec, now, mode, t)

-----------------------------------------------------------------------------
(* A reference is a path with a scheme.  An allow entry covers its path     *)
(* under any scheme, except that one for reading does not cover a write.    *)
(* Fault: an entry for reading also covers writes.                          *)
ExplicitlyAllowed_AnyScheme(ref, entries) == \E e \in entries : e.path = ref.path

ExplicitlyAllowed(ref, entries) ==
    \E e \in entries : /\ e.path = ref.path
                       /\ ref.scheme = "repo_write" => e.scheme # "repo_read"

(* build_protected_explicit_allow, from the files a goal names and those    *)
(* its capability lease reads and writes: a protected path that is neither  *)
(* an instruction surface nor agent memory is not opened by the goal.       *)
Entries(paths, schemes) == [path : paths, scheme : schemes]

ExplicitAllow(named, writes, reads) ==
    LET opened == named \cap (IF Zone.memory_writes THEN Zone.memory \cup Zone.instructions
                              ELSE Zone.instructions \ Zone.memory)
        plain == Zone.memory \cup Zone.instructions \cup Zone.protected
    IN  Entries(opened \cup (writes \ plain), {"repo_write", "repo_read"})
        \cup Entries((reads \ writes) \ plain, {"repo_read"})

ProtectedZoneDecide(ctx, ref, read, hasAuthority, entries, rec, now, mode, t) ==
    LET allowed == ref # None /\ ExplicitlyAllowed(ref, entries)
        inner == DefaultDenyDecide(ctx, read, hasAuthority, rec, now, mode, t)
    IN  IF ref = None THEN inner
        ELSE IF ~read /\ ref.path \in Zone.memory
        THEN IF Zone.memory_writes /\ allowed THEN inner ELSE Refusal(ctx, "deny")
        ELSE IF ref.path \notin Zone.protected \cup Zone.net \/ allowed THEN inner
        ELSE IF ref.path \in Zone.net THEN Refusal(ctx, "deny")
        ELSE Refusal(ctx, IF read THEN "step_up" ELSE "deny")
=============================================================================
