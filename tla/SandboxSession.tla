--------------------------- MODULE SandboxSession ---------------------------
(***************************************************************************)
(* One agent session behind the gateway that build_sandboxed_gateway       *)
(* wires, on an asyncio loop: call_tool_async checks, monitors, governs    *)
(* and patches the authority without an await (Attempt), awaits the        *)
(* handler, and records (Complete), so that several calls may be in        *)
(* flight.  The operator registers tools, approves, tightens, revokes and  *)
(* renews at any time.  The agent runs in bounded_auto: every violation    *)
(* blocks.                                                                 *)
(***************************************************************************)
EXTENDS PolicyChecks, GovernorChain

CONSTANTS Grant,         \* the authority's static fields, see PolicyChecks
          Advisors,      \* behavior monitors: "composite", "loop", "sidecar"
          Tightenings,   \* TightenConfigs of the sessions checked
          Opened,        \* build_protected_explicit_allow of goal and lease
          Approvable,    \* entries approve_resource may be given
          Crossable,     \* boundaries that may be approved
          SidecarAnswers,
          Announcements, \* <<tool, metadata>> that servers register
          Pinning,       \* ToolPinningPolicy
          LeaseTime,     \* renew_lease: ttl_seconds
          MaxInFlight, MaxAttempts, MaxEvents, MaxSteps     \* bounds

ASSUME SessionAssumption ==
    /\ Tightenings \subseteq TightenConfigs
    /\ Advisors \subseteq {"composite", "loop", "sidecar"}
    /\ Watch.loop_window >= Watch.pattern * Watch.repeats
    /\ \A r \in Announcements : /\ r[1] \in Tools
                               /\ DOMAIN r[2] = {"description", "schema"}
    /\ SidecarAnswers \subseteq Recommendations \cup {Missing}
    /\ {Pinning.enabled, Pinning.require_pinned, Pinning.deny_on_mismatch} \subseteq BOOLEAN
    /\ LeaseTime \in Nat \ {0}
    /\ Missing \notin Recommendations

(* What build_sandboxed_gateway fixes: require_active_lease, an enforcement *)
(* for an expired lease that is not "allow", a monitor's step_up that is    *)
(* honored or tightens, and resolvers that give what is not a read of a     *)
(* protected or memory path the scheme repo_write.                          *)
ASSUME StackAssumption ==
    /\ \A a \in Actions : Of[a].tool \in Rules.lease_required
    /\ Rules.lease_expired # "allow"
    /\ Rules.honor_monitor \/ \A t \in Tightenings : t.step_up \/ t.stop_renewal
    /\ \A a \in Actions :
         LET ref == Of[a].reference
         IN  (Of[a].level # "read" /\ ref # None /\ ref.path \in Zone.protected \cup Zone.memory)
               => ref.scheme = "repo_write"

VARIABLES config,        \* [advisor, tighten], fixed
          authority,     \* the gateway's lease fields
          history,       \* the session action monitor's window
          watchers,      \* windows and sets of the behavior monitors
          boundaries,    \* NoveltyMonitor approvals
          entries,       \* ProtectedZoneGovernor allow list and approvals
          mode,          \* TighteningGovernor._tightened
          live, pins,    \* per tool: _tool_descriptions/_schemas; the pin
          flying,        \* calls whose handler is awaited
          clock, events,
          attempts       \* every attempt with its verdict (observation)

vars == <<config, authority, history, watchers, boundaries, entries, mode,
          live, pins, flying, clock, events, attempts>>

Unpinned == [description |-> Missing, schema |-> Missing]

Init ==
    /\ config \in [advisor : Advisors, tighten : Tightenings]
    /\ authority = [version |-> 1, epoch |-> 0, expires |-> LeaseTime,
                    remaining |-> Rules.lease_call_budget, query |-> None]
    /\ history = <<>> /\ watchers = NewWatchers
    /\ boundaries = {<<"subsystem", Of[a].subsystem>> : a \in {b \in Actions : InScope(b)}}
                    \cup {<<"class", "mcp.tools/call">>}
    /\ entries = Opened /\ mode = FALSE
    /\ live = [t \in Tools |-> Unpinned] /\ pins = [t \in Tools |-> Missing]
    /\ flying = {} /\ clock = 0 /\ events = 0
    /\ attempts = <<>>

-----------------------------------------------------------------------------
(* tool_pinning_violations: a tool is pinned on first use.                  *)
PinViolated(tool) ==
    /\ Pinning.enabled
    /\ IF pins[tool] = Missing
       THEN Pinning.require_pinned /\ live[tool] = Unpinned
       ELSE \/ Pinning.deny_on_mismatch
               /\ \/ pins[tool].description # live[tool].description
                  \/ /\ pins[tool].schema # Missing
                     /\ pins[tool].schema # live[tool].schema
            \/ tool \in Pinning.witnessed

PinOnUse(tool) ==
    IF Pinning.enabled /\ pins[tool] = Missing
    THEN [pins EXCEPT ![tool] = live[tool]] ELSE pins

(* What the session's behavior monitor may recommend for an attempt.  The   *)
(* sidecar answers anything, and nothing when it fails or times out.        *)
Recommendation(a) ==
    CASE config.advisor = "composite" -> {CompositeAdvice(watchers, a, boundaries)}
      [] config.advisor = "loop" -> {LoopAdvice(watchers, a)}
      [] config.advisor = "sidecar" -> SidecarAnswers

Context(a) == [tool |-> Of[a].tool, query |-> None, authority |-> authority]

(* What the governors may decide, one decision per recommendation.          *)
Decisions(a) ==
    {ProtectedZoneDecide(Context(a), Of[a].reference, Of[a].level = "read", Grant.id, entries,
                         IF rec = Missing THEN None ELSE rec, clock, mode, config.tighten) :
        rec \in Recommendation(a)}

CallViolated(a) ==
    \/ PinViolated(Of[a].tool)
    \/ PreViolated(Grant, a) # {}
    \/ AuthorityViolated(Context(a), clock)
    \/ ScoreBlocks(Score(history, a))

PermitRefused(a, d) ==
    d.permit /\ ~VerifyPermit(IssuePermit(Context(a), clock),
                              [Context(a) EXCEPT !.authority = d.patched], clock)

Record(a) == history' = Windowed(history, a, Watch.history)

(* An approval for more than reading covers the action's path.              *)
Writable(a) == \E e \in entries : /\ Of[a].reference # None
                                  /\ e.path = Of[a].reference.path
                                  /\ e.scheme # "repo_read"

(* The handler of the next attempt is awaited; or it is refused, and that   *)
(* is recorded in the same step.                                            *)
Started(patched) ==
    /\ flying' = flying \cup {[nr |-> Len(attempts) + 1, authority |-> patched]}
    /\ UNCHANGED history

Refused(a) == Record(a) /\ UNCHANGED flying

(* The monitors see every attempt.  An allowing decision patches the        *)
(* authority even when a violation then blocks the call; a blocked call is  *)
(* recorded at once.                                                        *)
Attempt(a) ==
    /\ Len(attempts) < MaxAttempts /\ Len(attempts) + events < MaxSteps
    /\ \E d \in Decisions(a) :
        LET allowed == d.enforcement = "allow"
            runs == allowed /\ ~d.violated /\ ~CallViolated(a) /\ ~PermitRefused(a, d)
        IN  /\ runs => Cardinality(flying) < MaxInFlight
            /\ authority' = IF allowed THEN d.patched ELSE authority
            /\ mode' = (mode \/ d.tightens)
            /\ attempts' = Append(attempts, [action |-> a, ran |-> runs,
                                             writable |-> Writable(a), tightened |-> mode])
            /\ IF runs THEN Started(d.patched) ELSE Refused(a)
    /\ watchers' = Watched(watchers, a)
    /\ pins' = PinOnUse(Of[a].tool)
    /\ UNCHANGED <<config, boundaries, entries, live, clock, events>>

Landed(c) == /\ flying' = flying \ {c}
             /\ UNCHANGED <<config, watchers, boundaries, entries, mode, live, pins,
                            clock, events, attempts>>

(* Fault: the snapshot is written back after the await.                     *)
Complete_WritesBack(c) == Landed(c) /\ Record(attempts[c.nr].action)
                          /\ authority' = c.authority

Complete(c) == Landed(c) /\ Record(attempts[c.nr].action) /\ UNCHANGED authority

HandlerRaises(c) == Landed(c) /\ UNCHANGED <<history, authority>>

-----------------------------------------------------------------------------
(* register_tool: absent metadata is not forgotten, but it is pinned.       *)
Overlaid(m, old) == [k \in DOMAIN old |-> IF m[k] = Missing THEN old[k] ELSE m[k]]

Event == /\ events < MaxEvents /\ Len(attempts) + events < MaxSteps
         /\ events' = events + 1

RegisterTool_KeepsPin(t, m) ==
    /\ Event
    /\ live' = [live EXCEPT ![t] = Overlaid(m, @)]
    /\ pins' = IF Pinning.enabled /\ pins[t] = Missing THEN [pins EXCEPT ![t] = m] ELSE pins
    /\ UNCHANGED <<config, authority, history, watchers, boundaries, entries, mode,
                   flying, clock, attempts>>

RegisterTool(t, m) ==
    /\ Event
    /\ live' = [live EXCEPT ![t] = Overlaid(m, @)]
    /\ pins' = IF Pinning.enabled THEN [pins EXCEPT ![t] = m] ELSE pins
    /\ UNCHANGED <<config, authority, history, watchers, boundaries, entries, mode,
                   flying, clock, attempts>>

Operate == /\ Event
           /\ UNCHANGED <<config, history, watchers, live, pins, flying, attempts>>

ApproveResource(e) == /\ Operate /\ entries' = entries \cup {e}
                      /\ UNCHANGED <<authority, boundaries, mode, clock>>

ApproveBoundary(b) == /\ Operate /\ boundaries' = boundaries \cup {b}
                      /\ UNCHANGED <<authority, entries, mode, clock>>

SetTighten(on) == /\ Operate /\ mode' = on
                  /\ UNCHANGED <<authority, boundaries, entries, clock>>

RevokePermits ==
    /\ Operate
    /\ authority' = [authority EXCEPT !.epoch = @ + 1, !.version = @ + 1]
    /\ UNCHANGED <<boundaries, entries, mode, clock>>

RenewLease ==
    /\ Operate
    /\ authority' = [authority EXCEPT !.expires = clock + LeaseTime, !.version = @ + 1,
                                      !.remaining = Rules.lease_call_budget]
    /\ UNCHANGED <<boundaries, entries, mode, clock>>

Tick == /\ Operate /\ clock' = clock + 1
        /\ UNCHANGED <<authority, boundaries, entries, mode>>

Next ==
    \/ \E a \in Actions : Attempt(a)
    \/ \E c \in flying : Complete(c) \/ HandlerRaises(c)
    \/ \E r \in Announcements : RegisterTool(r[1], r[2])
    \/ \E e \in Approvable : ApproveResource(e)
    \/ \E b \in Crossable : ApproveBoundary(b)
    \/ \E on \in BOOLEAN : SetTighten(on)
    \/ RevokePermits \/ RenewLease \/ Tick

Spec == Init /\ [][Next]_vars

-----------------------------------------------------------------------------
(* The types; the windows never outgrow their bounds, and what is in flight *)
(* is what was let run.                                                     *)
TypeOK ==
    /\ authority \in Authorities /\ mode \in BOOLEAN /\ clock \in Nat
    /\ Elements(history) \subseteq Actions /\ Len(history) <= Watch.history
    /\ Len(watchers.recent) <= Watch.loop_window
    /\ Len(watchers.hits) <= Watch.drift_window /\ Len(watchers.refs) <= Watch.scan_window
    /\ \A t \in Tools : pins[t] \in {r[2] : r \in Announcements} \cup {Missing, Unpinned, live[t]}
    /\ \A c \in flying : c.nr \in 1..Len(attempts) /\ attempts[c.nr].ran

Expired == authority.expires # None /\ authority.expires <= clock

(* Although every allowed call renews the lease, no call of the agent       *)
(* revives one that has run out: that takes the operator's renew_lease.     *)
ExpiredStaysExpired ==
    [][(Expired /\ ~Expired') => authority'.version = authority.version + 1
                                 /\ events' = events + 1 /\ attempts' = attempts]_vars

(* A completing call never takes back a revocation, renewal or charge that  *)
(* happened while its handler was awaited.                                  *)
VersionsOnlyGrow ==
    [][authority'.version >= authority.version /\ authority'.epoch >= authority.epoch]_vars

(* Neither a call nor its completion moves the gateway's authority back.    *)
AuthorityMovesForward == ExpiredStaysExpired /\ VersionsOnlyGrow

(* A pattern of calls is stopped at its last repetition however many other  *)
(* calls came before, were refused or are still in flight.                  *)
LoopIsStopped ==
    LET n == Watch.pattern  k == Watch.repeats
        sig == [i \in 1..Len(attempts) |-> Signature(attempts[i].action)]
    IN  config.advisor = "loop" =>
            \A end \in (n * k)..Len(attempts) :
                (\A i \in (end - n * k + 1)..(end - n) : sig[i] = sig[i + n])
                    => ~attempts[end].ran

(* Nothing runs beyond a boundary that was neither in the goal's scope nor  *)
(* approved unless an earlier attempt at it was stopped or was the first    *)
(* use of a tool class.                                                     *)
NoveltyIsFlagged ==
    config.advisor = "composite" =>
        \A i \in 1..Len(attempts) : attempts[i].ran =>
            \A b \in Boundaries(attempts[i].action) \ boundaries :
                \/ \E j \in 1..(i - 1) : b \in Boundaries(attempts[j].action)
                \/ b[1] = "class" /\ i = 1

(* A write to a protected path runs only when an approval for more than     *)
(* reading it was there before.                                             *)
ProtectedWriteApproved ==
    \A i \in 1..Len(attempts) :
        LET a == Of[attempts[i].action]
        IN  (attempts[i].ran /\ a.level # "read" /\ a.reference # None)
              => \/ a.reference.path \notin Zone.protected \cup Zone.memory
                 \/ attempts[i].writable

(* In tighten mode nothing but reads starts, also while calls that were let *)
(* through before are still running.                                        *)
TightenedOnlyReads ==
    \A i \in 1..Len(attempts) :
        attempts[i].ran /\ attempts[i].tightened => Of[attempts[i].action].level = "read"

(* A tool that was last registered with a description is not refused for    *)
(* its pin, however often it was registered or used before.                 *)
PinnedToolUsable ==
    \A t \in Tools \ Pinning.witnessed :
        (live[t].description # Missing /\ PinViolated(t)) => pins[t].description = Missing

(* The state is well formed, and no refused, repeated or unfinished attempt *)
(* blinds the monitors and governors to the ones that follow.               *)
StoppedInTime == TypeOK /\ LoopIsStopped /\ NoveltyIsFlagged /\ TightenedOnlyReads
=============================================================================
