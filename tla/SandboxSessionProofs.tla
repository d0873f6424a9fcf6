------------------------ MODULE SandboxSessionProofs ------------------------
(***************************************************************************)
(* Proofs about SandboxSession for every set of actions, rules, zone and   *)
(* advisor that its assumptions admit, and for every bound: what is not to *)
(* run does not start, whatever came before it and whatever is in flight,  *)
(* and no call moves the authority back.                                   *)
(***************************************************************************)
EXTENDS SandboxSession, SequenceTheorems, TLAPS

-----------------------------------------------------------------------------
(* The inductive invariant.                                                *)

AttemptRecords == [action : Actions, ran : BOOLEAN, writable : BOOLEAN, tightened : BOOLEAN]
Signatures == {Signature(a) : a \in Actions}
References == {<<Of[a].ref, Of[a].dir>> : a \in Actions}

StateInv ==
    /\ config \in [advisor : Advisors, tighten : Tightenings]
    /\ authority \in Authorities
    /\ mode \in BOOLEAN /\ clock \in Nat /\ events \in Nat
    /\ attempts \in Seq(AttemptRecords)
    /\ history \in Seq(Actions) /\ Len(history) <= Watch.history
    /\ \A c \in flying : c.nr \in 1 .. Len(attempts) /\ attempts[c.nr].ran

(* What a pin and the live description of one tool have in common.          *)
PinAgrees(pin, now) ==
    \/ pin = Missing
    \/ /\ pin.description \in {Missing, now.description}
       /\ pin.schema \in {Missing, now.schema}

PinsInv ==
    \A t \in Tools :
        /\ DOMAIN live[t] = {"description", "schema"}
        /\ pins[t] \in {r[2] : r \in Announcements} \cup {Missing, live[t]}
        /\ PinAgrees(pins[t], live[t])

PinMaps ==
    /\ DOMAIN live = Tools /\ DOMAIN pins = Tools
    /\ ~Pinning.enabled => \A t \in Tools : pins[t] = Missing

(* The loop monitor's window is the end of the list of all attempts.        *)
RecentInv ==
    LET recent == watchers.recent
    IN  /\ recent \in Seq(Signatures)
        /\ Len(recent) = IF Len(attempts) < Watch.loop_window THEN Len(attempts)
                         ELSE Watch.loop_window
        /\ \A i \in 1 .. Len(recent) :
              recent[i] = Signature(attempts[Len(attempts) - Len(recent) + i].action)

WindowsInv ==
    /\ watchers.hits \in Seq(BOOLEAN) /\ Len(watchers.hits) <= Watch.drift_window
    /\ watchers.refs \in Seq(References) /\ Len(watchers.refs) <= Watch.scan_window

(* The novelty monitor has seen what the attempts touched, nothing else.    *)
SeenInv ==
    /\ \A i \in 1 .. Len(attempts) : Boundaries(attempts[i].action) \subseteq watchers.seen
    /\ \A b \in watchers.seen :
          \E i \in 1 .. Len(attempts) : b \in Boundaries(attempts[i].action)

SessionInv == StateInv /\ PinMaps /\ PinsInv /\ RecentInv /\ WindowsInv /\ SeenInv

-----------------------------------------------------------------------------
(* Bounded windows.                                                        *)

(* The last n elements keep their order.                                    *)
LEMMA LastNProperties ==
    ASSUME NEW S, NEW s \in Seq(S), NEW n \in Nat \ {0}
    PROVE  /\ LastN(s, n) \in Seq(S)
           /\ Len(LastN(s, n)) = IF Len(s) < n THEN Len(s) ELSE n
           /\ \A i \in 1 .. Len(LastN(s, n)) : LastN(s, n)[i] = s[Len(s) - Len(LastN(s, n)) + i]
<1> DEFINE from == IF Len(s) > n THEN Len(s) - n + 1 ELSE 1
           w == SubSeq(s, from, Len(s))
<1>1. Len(s) \in Nat /\ from \in 1 .. Len(s) + 1
  BY LenProperties
<1>2. \A i \in from .. Len(s) : s[i] \in S
  BY <1>1, ElementOfSeq
<1>3. w \in Seq(S) /\ Len(w) = Len(s) - from + 1
      /\ \A i \in 1 .. Len(s) - from + 1 : w[i] = s[from + i - 1]
  <2> HIDE DEF from
  <2> QED
    BY <1>1, <1>2, SubSeqProperties
<1>4. LastN(s, n) = w
  BY DEF LastN
<1> HIDE DEF w
<1>5. Len(w) = IF Len(s) < n THEN Len(s) ELSE n
  <2>1. CASE Len(s) > n
    <3>1. from = Len(s) - n + 1 /\ ~(Len(s) < n)
      BY <1>1, <2>1
    <3> HIDE DEF from
    <3> QED
      BY <1>1, <1>3, <2>1, <3>1
  <2>2. CASE ~(Len(s) > n)
    <3>1. from = 1
      BY <2>2
    <3> HIDE DEF from
    <3> QED
      BY <1>1, <1>3, <2>2, <3>1
  <2> QED
    BY <2>1, <2>2
<1>6. ASSUME NEW i \in 1 .. Len(w)
      PROVE  w[i] = s[Len(s) - Len(w) + i]
  <2>1. from + i - 1 = Len(s) - Len(w) + i
    BY <1>1, <1>3
  <2>2. w[i] = s[from + i - 1]
    BY <1>3
  <2> QED
    BY <2>1, <2>2
<1> QED
  BY <1>3, <1>4, <1>5, <1>6

(* A window after an append: it ends with the new element.                  *)
IsWindow(w, S, s, x, n) ==
    /\ w \in Seq(S)
    /\ Len(w) = IF Len(s) + 1 < n THEN Len(s) + 1 ELSE n
    /\ \A i \in 1 .. Len(w) : w[i] = Append(s, x)[Len(s) + 1 - Len(w) + i]

LEMMA WindowedProperties ==
    ASSUME NEW S, NEW s \in Seq(S), NEW x \in S, NEW n \in Nat \ {0}
    PROVE  IsWindow(Windowed(s, x, n), S, s, x, n)
<1> DEFINE e == Append(s, x)
<1>1. e \in Seq(S) /\ Len(e) = Len(s) + 1
  BY AppendProperties
<1> HIDE DEF e
<1> DEFINE w == LastN(e, n)
<1>2. /\ w \in Seq(S) /\ Len(w) = IF Len(e) < n THEN Len(e) ELSE n
      /\ \A i \in 1 .. Len(w) : w[i] = e[Len(e) - Len(w) + i]
  BY <1>1, LastNProperties
<1>3. Windowed(s, x, n) = w
  BY DEF Windowed, e
<1> HIDE DEF w
<1>4. Len(w) = IF Len(s) + 1 < n THEN Len(s) + 1 ELSE n
  BY <1>1, <1>2
<1>5. ASSUME NEW i \in 1 .. Len(w)
      PROVE  w[i] = e[Len(s) + 1 - Len(w) + i]
  <2>1. w[i] = e[Len(e) - Len(w) + i]
    BY <1>2
  <2>2. Len(e) - Len(w) + i = Len(s) + 1 - Len(w) + i
    BY <1>1
  <2> QED
    BY <2>1, <2>2
<1> QED
  BY <1>2, <1>3, <1>4, <1>5 DEF e, IsWindow
-----------------------------------------------------------------------------
(* What the governors decide.                                              *)

(* The authority a decision patches is an authority that moved forward.     *)
Forward(before, after) ==
    /\ after \in Authorities
    /\ after.version >= before.version /\ after.epoch >= before.epoch

LEMMA ForwardReflexive == ASSUME NEW a \in Authorities PROVE Forward(a, a)
BY DEF Forward, Authorities

(* The rule based governor renews and charges a lease.                      *)
LEMMA PatchedForward ==
    ASSUME NEW ctx, ctx.authority \in Authorities, ctx.query = None, NEW rec, NEW now \in Nat
    PROVE  Forward(ctx.authority, Patched(ctx, rec, now))
<1> DEFINE a == ctx.authority
           r == Renews(rec)
           start == IF r /\ Rules.lease_call_budget > 0 THEN Rules.lease_call_budget
                    ELSE a.remaining
           p == Patched(ctx, rec, now)
<1>1. /\ Rules.lease_ttl \in Nat /\ Rules.lease_call_budget \in Nat
  BY RulesAssumption DEF RuleSets
<1>2. /\ a.version \in Nat /\ a.epoch \in Nat /\ a.expires \in Nat \cup {None}
      /\ a.remaining \in Nat \cup {None} /\ a.query \in Queries \cup {None}
  BY DEF Authorities
<1>3. start \in Nat \cup {None}
  BY <1>1, <1>2
<1> HIDE DEF r, start
<1>4. /\ p.version = IF r /\ Rules.bump_authority_version THEN a.version + 1 ELSE a.version
      /\ p.epoch = a.epoch
  BY DEF Patched, r
<1>5. p.expires = IF r /\ Rules.lease_ttl > 0 THEN now + Rules.lease_ttl ELSE a.expires
  BY DEF Patched, r
<1>6. p.remaining = start \/ (start # None /\ start > 0 /\ p.remaining = start - 1)
  BY DEF Patched, start, r
<1>7. p.query \in {ctx.query, a.query}
  BY DEF Patched
<1>8. p = [version |-> p.version, epoch |-> p.epoch, expires |-> p.expires,
           remaining |-> p.remaining, query |-> p.query]
  BY DEF Patched
<1> HIDE DEF p, a
<1>9. /\ p.version \in Nat /\ p.version >= a.version /\ p.epoch \in Nat /\ p.epoch >= a.epoch
  BY <1>2, <1>4
<1>10. p.expires \in Nat \cup {None}
  BY <1>1, <1>2, <1>5
<1>11. p.remaining \in Nat \cup {None}
  BY <1>3, <1>6
<1>12. p.query \in Queries \cup {None}
  BY <1>2, <1>7
<1>13. p \in Authorities
  BY <1>8, <1>9, <1>10, <1>11, <1>12 DEF Authorities
<1> QED
  BY <1>9, <1>13 DEF Forward, p, a

(* The tightening governor bumps the epoch, drops the lease, halves calls.  *)
LEMMA TightenedForward ==
    ASSUME NEW before \in Authorities, NEW after, Forward(before, after), NEW rec, NEW t
    PROVE  Forward(before, Tightened(after, before, rec, t))
<1> DEFINE half == IF before.remaining \div 2 > 1 THEN before.remaining \div 2 ELSE 1
           p == Tightened(after, before, rec, t)
<1>1. /\ before.epoch \in Nat /\ before.version \in Nat /\ before.remaining \in Nat \cup {None}
      /\ after \in Authorities
      /\ after.version >= before.version /\ after.epoch >= before.epoch
  BY DEF Forward, Authorities
<1>2. /\ after.epoch \in Nat /\ after.version \in Nat /\ after.remaining \in Nat \cup {None}
      /\ after.expires \in Nat \cup {None} /\ after.query \in Queries \cup {None}
      /\ after = [version |-> after.version, epoch |-> after.epoch, expires |-> after.expires,
                  remaining |-> after.remaining, query |-> after.query]
  BY <1>1 DEF Authorities
<1>3. before.remaining # None => half \in Nat
  <2>1. before.remaining \in Nat => before.remaining \div 2 \in Nat
    BY Z3
  <2> QED
    BY <1>1, <2>1
<1> HIDE DEF half
<1> DEFINE e == IF rec = "deny" /\ t.bump_epoch THEN before.epoch + 1 ELSE after.epoch
           x == IF t.stop_renewal THEN None ELSE after.expires
           m == IF t.reduce /\ before.remaining # None /\ half < before.remaining
                THEN half ELSE after.remaining
<1>4. p = [after EXCEPT !.epoch = e, !.expires = x, !.remaining = m]
  BY DEF Tightened, half
<1>5. e \in Nat /\ e >= before.epoch
  BY <1>1, <1>2
<1>6. x \in Nat \cup {None}
  BY <1>2
<1>7. m \in Nat \cup {None}
  BY <1>2, <1>3
<1> HIDE DEF e, x, m, p
<1>8. p \in Authorities /\ p.version = after.version /\ p.epoch = e
  BY <1>1, <1>4, <1>5, <1>6, <1>7 DEF Authorities
<1> QED
  BY <1>1, <1>2, <1>5, <1>8 DEF Forward, p
(* A decision under which the handler is not called.                        *)
Stops(d) == d.enforcement # "allow" \/ d.violated

(* What every decision of the chain comes with: tighten mode stops all but  *)
(* reads, a structural failure is never allowed, and a monitor's step_up    *)
(* stops the call.                                                          *)
Governed(d, ctx, read, rec, now, tight, t) ==
    /\ Forward(ctx.authority, d.patched)
    /\ (tight /\ ~read) => Stops(d)
    /\ Structural(ctx, now) # "allow" => d.enforcement # "allow"
    /\ (rec = "step_up" /\ (Rules.honor_monitor \/ t.step_up \/ t.stop_renewal)) => Stops(d)

LEMMA RefusalGoverned ==
    ASSUME NEW ctx, ctx.authority \in Authorities, NEW read, NEW rec, NEW now, NEW tight, NEW t,
           NEW e \in {"deny", "step_up"}
    PROVE  Governed(Refusal(ctx, e), ctx, read, rec, now, tight, t)
<1> DEFINE d == Refusal(ctx, e)
<1>1. d.patched = ctx.authority /\ d.enforcement = e
  BY DEF Refusal
<1> HIDE DEF d
<1>2. e # "allow"
  OBVIOUS
<1>3. Forward(ctx.authority, d.patched)
  BY <1>1, ForwardReflexive
<1>4. Stops(d) /\ d.enforcement # "allow"
  BY <1>1, <1>2 DEF Stops
<1> QED
  BY <1>3, <1>4 DEF Governed, d

LEMMA RuleProperties ==
    ASSUME NEW ctx, ctx.authority \in Authorities, ctx.query = None, NEW rec, NEW now \in Nat
    PROVE  /\ Forward(ctx.authority, RuleDecide(ctx, rec, now).patched)
           /\ Structural(ctx, now) # "allow" => RuleDecide(ctx, rec, now).enforcement # "allow"
           /\ (rec = "step_up" /\ Rules.honor_monitor)
                 => RuleDecide(ctx, rec, now).enforcement # "allow"
<1> DEFINE d == RuleDecide(ctx, rec, now)
           e == Enforcement(ctx, rec, now)
<1>1. d.enforcement = e
  BY DEF RuleDecide
<1>2. d.patched = IF e = "allow" THEN Patched(ctx, rec, now) ELSE ctx.authority
  BY DEF RuleDecide
<1> HIDE DEF d
<1>3. Forward(ctx.authority, d.patched)
  <2> HIDE DEF e
  <2> QED
    BY <1>2, PatchedForward, ForwardReflexive
<1>4. e = Advised(Structural(ctx, now), rec)
  BY DEF Enforcement
<1> HIDE DEF e
<1>5. Structural(ctx, now) # "allow" => e # "allow"
  BY <1>4 DEF Advised
<1>6. (rec = "step_up" /\ Rules.honor_monitor) => e # "allow"
  BY <1>4 DEF Advised
<1> QED
  BY <1>1, <1>3, <1>5, <1>6 DEF d

LEMMA TighteningGoverned ==
    ASSUME NEW ctx, ctx.authority \in Authorities, ctx.query = None, NEW read, NEW rec,
           NEW now \in Nat, NEW tight, NEW t
    PROVE  Governed(TighteningDecide(ctx, read, rec, now, tight, t), ctx, read, rec, now, tight, t)
<1> DEFINE d == TighteningDecide(ctx, read, rec, now, tight, t)
           inner == RuleDecide(ctx, rec, now)
           deny == rec = "deny" /\ t.bump_epoch
           asked == rec = "step_up" /\ t.step_up
           e == IF deny THEN "deny"
                ELSE IF asked /\ inner.enforcement = "allow" THEN "step_up"
                ELSE inner.enforcement
           budget == t.reduce /\ ctx.authority.remaining \notin {None, 0, 1}
           v == inner.violated \/ deny \/ t.stop_renewal \/ budget \/ asked
           p == Tightened(inner.patched, ctx.authority, rec, t)
<1>1. /\ Forward(ctx.authority, inner.patched)
      /\ Structural(ctx, now) # "allow" => inner.enforcement # "allow"
      /\ (rec = "step_up" /\ Rules.honor_monitor) => inner.enforcement # "allow"
  BY RuleProperties
<1>2. CASE ModeStops(tight, read, rec)
  <2>1. d = Refusal(ctx, "step_up")
    BY <1>2 DEF TighteningDecide
  <2> QED
    BY <2>1, RefusalGoverned
<1>3. CASE /\ ~ModeStops(tight, read, rec)
           /\ inner.enforcement = "deny" \/ rec \notin {"deny", "step_up"}
  <2>1. d = inner
    BY <1>3 DEF TighteningDecide
  <2> HIDE DEF inner, d
  <2>2. ~(tight /\ ~read)
    BY <1>3 DEF ModeStops
  <2>3. rec = "step_up" => inner.enforcement # "allow"
    BY <1>3
  <2> QED
    BY <1>1, <2>1, <2>2, <2>3 DEF Governed, Stops, d
<1>4. CASE /\ ~ModeStops(tight, read, rec)
           /\ ~(inner.enforcement = "deny" \/ rec \notin {"deny", "step_up"})
  <2>1. d = [enforcement |-> e, violated |-> v, patched |-> p, permit |-> inner.permit,
             tightens |-> deny /\ t.auto]
    BY <1>4 DEF TighteningDecide
  <2>2. Forward(ctx.authority, p)
    BY <1>1, TightenedForward
  <2>3. ~(tight /\ ~read)
    BY <1>4 DEF ModeStops
  <2>4. Structural(ctx, now) # "allow" => e # "allow"
    <3> HIDE DEF inner
    <3> QED
      BY <1>1
  <2>5. d.enforcement = e /\ d.patched = p
    BY <2>1
  <2>6. v => d.violated
    <3> HIDE DEF v, d
    <3> QED
      BY <2>1, Zenon
  <2>7. (rec = "step_up" /\ Rules.honor_monitor) => e # "allow"
    <3> HIDE DEF inner
    <3> QED
      BY <1>1
  <2>8. (rec = "step_up" /\ (t.step_up \/ t.stop_renewal)) => v
    BY Zenon
  <2> HIDE DEF e, v, p, d
  <2>9. (rec = "step_up" /\ (Rules.honor_monitor \/ t.step_up \/ t.stop_renewal)) => Stops(d)
    BY <2>5, <2>6, <2>7, <2>8, Zenon DEF Stops
  <2> QED
    BY <2>2, <2>3, <2>4, <2>5, <2>9 DEF Governed, d
<1> QED
  BY <1>2, <1>3, <1>4
(* The path of a reference is protected or agent memory.                    *)
Guarded(ref) == ref # None /\ ref.path \in Zone.protected \cup Zone.memory

(* The outermost governor: it refuses, or the inner ones decide; and what   *)
(* is no read of a guarded path it refuses unless an entry allows it.       *)
LEMMA ZoneGoverned ==
    ASSUME NEW ctx, ctx.authority \in Authorities, ctx.query = None, NEW ref, NEW read,
           NEW id, NEW allow, NEW rec, NEW now \in Nat, NEW tight, NEW t
    PROVE  LET d == ProtectedZoneDecide(ctx, ref, read, id, allow, rec, now, tight, t)
           IN  /\ Governed(d, ctx, read, rec, now, tight, t)
               /\ (Guarded(ref) /\ ~read /\ ~Stops(d)) => ExplicitlyAllowed(ref, allow)
<1> DEFINE d == ProtectedZoneDecide(ctx, ref, read, id, allow, rec, now, tight, t)
           inner == DefaultDenyDecide(ctx, read, id, rec, now, tight, t)
           refused == \E e \in {"deny", "step_up"} : d = Refusal(ctx, e)
<1>1. Governed(inner, ctx, read, rec, now, tight, t)
  BY RefusalGoverned, TighteningGoverned DEF DefaultDenyDecide
<1> HIDE DEF inner
<1>2. refused \/ d = inner
  BY DEF ProtectedZoneDecide, inner
<1>3. (Guarded(ref) /\ ~read /\ ~ExplicitlyAllowed(ref, allow)) => refused
  BY DEF ProtectedZoneDecide, Guarded
<1> HIDE DEF d
<1>4. refused => Stops(d)
  BY DEF Stops, Refusal
<1>5. Governed(d, ctx, read, rec, now, tight, t)
  BY <1>1, <1>2, RefusalGoverned
<1> QED
  BY <1>3, <1>4, <1>5 DEF d

(* The last failing check decides, and an expired lease is one of the later *)
(* ones; none of those after it is lenient.                                 *)
LEMMA ExpiredIsStructural ==
    ASSUME NEW ctx, ctx.tool \in Rules.lease_required, NEW now,
           LeaseExpired(ctx.authority, now)
    PROVE  Structural(ctx, now) # "allow"
<1> DEFINE checks == Checks(ctx, now)
           F == Failing(checks)
<1>1. /\ checks[5].fails /\ checks[5].sets = Rules.lease_expired
      /\ ~checks[6].fails
      /\ checks[7].sets = "deny" /\ checks[8].sets = "step_up"
  BY DEF Checks, LeaseRequired, LeaseExpired
<1> HIDE DEF checks
<1>2. 5 \in F /\ 6 \notin F /\ F \subseteq 1 .. 8
  BY <1>1 DEF Failing
<1> HIDE DEF F
<1>3. \E i \in F : \A j \in F : j <= i
  <2>1. CASE 8 \in F
    BY <1>2, <2>1
  <2>2. CASE 8 \notin F /\ 7 \in F
    BY <1>2, <2>2
  <2>3. CASE 8 \notin F /\ 7 \notin F
    BY <1>2, <2>3
  <2> QED
    BY <2>1, <2>2, <2>3
<1> DEFINE n == LastOf(F)
<1>4. n \in F /\ \A j \in F : j <= n
  BY <1>3 DEF LastOf
<1> HIDE DEF n
<1>5. n = 5 \/ n = 7 \/ n = 8
  <2>1. n \in 1 .. 8 /\ 5 <= n /\ n # 6
    BY <1>2, <1>4
  <2> QED
    BY <2>1
<1>6. checks[n].sets \in {Rules.lease_expired, "deny", "step_up"}
  BY <1>1, <1>5
<1>7. Structural(ctx, now) = checks[n].sets
  BY <1>2 DEF Structural, F, checks, n
<1> QED
  BY <1>6, <1>7, StackAssumption
-----------------------------------------------------------------------------
(* An attempt, and every other step.                                       *)

Advice(rec) == IF rec = Missing THEN None ELSE rec
Reads(a) == Of[a].level = "read"

(* An attempt at a that the decision d on the advice rec lets run or not.   *)
Attempted(a, rec, d, ran) ==
    /\ Governed(d, Context(a), Reads(a), Advice(rec), clock, mode, config.tighten)
    /\ (Guarded(Of[a].reference) /\ ~Reads(a) /\ ~Stops(d))
          => ExplicitlyAllowed(Of[a].reference, entries)
    /\ ran => ~Stops(d)
    /\ authority' = IF d.enforcement = "allow" THEN d.patched ELSE authority
    /\ attempts' = Append(attempts, [action |-> a, ran |-> ran, writable |-> Writable(a),
                                     tightened |-> mode])
    /\ IF ran THEN Started(d.patched) ELSE Refused(a)

LEMMA AttemptDecided ==
    ASSUME StateInv, NEW a \in Actions, Attempt(a)
    PROVE  \E rec \in Recommendation(a), d \in Decisions(a), ran \in BOOLEAN : Attempted(a, rec, d, ran)
<1>1. PICK d \in Decisions(a) :
        LET allowed == d.enforcement = "allow"
            runs == allowed /\ ~d.violated /\ ~CallViolated(a) /\ ~PermitRefused(a, d)
        IN  /\ authority' = IF allowed THEN d.patched ELSE authority
            /\ attempts' = Append(attempts, [action |-> a, ran |-> runs,
                                             writable |-> Writable(a), tightened |-> mode])
            /\ IF runs THEN Started(d.patched) ELSE Refused(a)
  BY DEF Attempt
<1>2. PICK rec \in Recommendation(a) :
        d = ProtectedZoneDecide(Context(a), Of[a].reference, Reads(a), Grant.id, entries,
                                Advice(rec), clock, mode, config.tighten)
  BY DEF Decisions, Advice, Reads
<1> DEFINE runs == /\ d.enforcement = "allow" /\ ~d.violated
                   /\ ~CallViolated(a) /\ ~PermitRefused(a, d)
<1>3. Context(a).authority \in Authorities /\ Context(a).query = None /\ clock \in Nat
  BY DEF StateInv, Context
<1>4. /\ Governed(d, Context(a), Reads(a), Advice(rec), clock, mode, config.tighten)
      /\ (Guarded(Of[a].reference) /\ ~Reads(a) /\ ~Stops(d))
            => ExplicitlyAllowed(Of[a].reference, entries)
  BY <1>2, <1>3, ZoneGoverned
<1>5. runs \in BOOLEAN
  OBVIOUS
<1>6. runs => ~Stops(d)
  BY Zenon DEF Stops
<1>7. /\ authority' = IF d.enforcement = "allow" THEN d.patched ELSE authority
      /\ attempts' = Append(attempts, [action |-> a, ran |-> runs, writable |-> Writable(a),
                                       tightened |-> mode])
      /\ IF runs THEN Started(d.patched) ELSE Refused(a)
  BY <1>1, Zenon
<1> HIDE DEF runs
<1>8. Attempted(a, rec, d, runs)
  BY <1>4, <1>6, <1>7, Zenon DEF Attempted
<1> QED
  BY <1>5, <1>8, Zenon

(* What is appended is an attempt at a.                                     *)
LEMMA AttemptAppends ==
    ASSUME StateInv, NEW a \in Actions, NEW rec, NEW d, NEW ran \in BOOLEAN,
           Attempted(a, rec, d, ran)
    PROVE  /\ attempts' \in Seq(AttemptRecords) /\ Len(attempts') = Len(attempts) + 1
           /\ \A i \in 1 .. Len(attempts) : attempts'[i] = attempts[i]
           /\ LET new == attempts'[Len(attempts) + 1]
              IN  /\ new.action = a /\ new.ran = ran
                  /\ new.writable = Writable(a) /\ new.tightened = mode
<1> DEFINE new == [action |-> a, ran |-> ran, writable |-> Writable(a), tightened |-> mode]
<1>1. Writable(a) \in BOOLEAN /\ mode \in BOOLEAN
  BY DEF Writable, StateInv
<1>2. new \in AttemptRecords
  BY <1>1, Zenon DEF AttemptRecords
<1>3. new.action = a /\ new.ran = ran /\ new.writable = Writable(a) /\ new.tightened = mode
  BY Zenon
<1>4. attempts' = Append(attempts, new) /\ attempts \in Seq(AttemptRecords)
  BY DEF Attempted, StateInv
<1> HIDE DEF new
<1>5. /\ attempts' \in Seq(AttemptRecords) /\ Len(attempts') = Len(attempts) + 1
      /\ \A i \in 1 .. Len(attempts) : attempts'[i] = attempts[i]
      /\ attempts'[Len(attempts) + 1] = new
  BY <1>2, <1>4, AppendProperties
<1> QED
  BY <1>3, <1>5

(* The steps that are no attempt.                                           *)
Otherwise ==
    \/ \E c \in flying : Complete(c) \/ HandlerRaises(c)
    \/ \E r \in Announcements : RegisterTool(r[1], r[2])
    \/ \E e \in Approvable : ApproveResource(e)
    \/ \E b \in Crossable : ApproveBoundary(b)
    \/ \E on \in BOOLEAN : SetTighten(on)
    \/ RevokePermits \/ RenewLease \/ Tick
    \/ UNCHANGED vars

LEMMA StepCases ==
    ASSUME [Next]_vars
    PROVE  (\E a \in Actions : Attempt(a)) \/ Otherwise
BY DEF Next, Otherwise

(* They add no attempt and nothing to the windows, and take no boundary.    *)
LEMMA OtherwiseKeeps ==
    ASSUME Otherwise
    PROVE  /\ UNCHANGED <<config, watchers, attempts>>
           /\ boundaries \subseteq boundaries'
BY DEF Otherwise, Complete, HandlerRaises, Landed, RegisterTool, ApproveResource,
       ApproveBoundary, SetTighten, RevokePermits, RenewLease, Tick, Operate, Event, vars

-----------------------------------------------------------------------------
(* The invariant is inductive.                                             *)

(* Recording an action keeps the history within its bound.                  *)
LEMMA RecordKeeps ==
    ASSUME StateInv, NEW a \in Actions, Record(a)
    PROVE  history' \in Seq(Actions) /\ Len(history') <= Watch.history
<1>1. Watch.history \in Nat \ {0} /\ history \in Seq(Actions)
  BY WatchAssumption DEF WatchType, StateInv
<1>2. history' = Windowed(history, a, Watch.history)
  BY DEF Record
<1> DEFINE n == Watch.history
           w == Windowed(history, a, n)
<1>3. n \in Nat \ {0}
  BY <1>1
<1> HIDE DEF n
<1>4. IsWindow(w, Actions, history, a, n)
  BY <1>1, <1>3, WindowedProperties
<1>5. history' = w
  BY <1>2 DEF n
<1> HIDE DEF w
<1>6. Len(history) \in Nat
  BY <1>1, LenProperties
<1> QED
  BY <1>3, <1>4, <1>5, <1>6 DEF n, IsWindow

LEMMA FlyingAttempt ==
    ASSUME StateInv, NEW c \in flying
    PROVE  attempts[c.nr].action \in Actions
<1>1. attempts \in Seq(AttemptRecords) /\ c.nr \in 1 .. Len(attempts)
  BY DEF StateInv
<1>2. attempts[c.nr] \in AttemptRecords
  BY <1>1, ElementOfSeq
<1> QED
  BY <1>2 DEF AttemptRecords

LEMMA StateInvAttempt ==
    ASSUME StateInv, NEW a \in Actions, Attempt(a)
    PROVE  StateInv'
<1>1. PICK rec \in Recommendation(a), d \in Decisions(a), ran \in BOOLEAN : Attempted(a, rec, d, ran)
  BY AttemptDecided
<1>2. /\ attempts' \in Seq(AttemptRecords) /\ Len(attempts') = Len(attempts) + 1
      /\ \A i \in 1 .. Len(attempts) : attempts'[i] = attempts[i]
      /\ attempts'[Len(attempts) + 1].ran = ran
  BY <1>1, AttemptAppends
<1>3. authority' \in Authorities
  BY <1>1 DEF Attempted, Governed, Forward, StateInv
<1>4. mode' \in BOOLEAN
  BY Zenon DEF Attempt, StateInv
<1>5. config' = config /\ clock' = clock /\ events' = events
  BY DEF Attempt
<1>6. history' \in Seq(Actions) /\ Len(history') <= Watch.history
  <2>1. Record(a) \/ UNCHANGED history
    BY <1>1 DEF Attempted, Started, Refused
  <2> QED
    BY <2>1, RecordKeeps DEF StateInv
<1>7. ASSUME NEW c \in flying'
      PROVE  c.nr \in 1 .. Len(attempts') /\ attempts'[c.nr].ran
  <2>0. Len(attempts) \in Nat
    BY LenProperties DEF StateInv
  <2>1. CASE c \in flying
    BY <1>2, <2>0, <2>1 DEF StateInv
  <2>2. CASE c \notin flying
    <3>1. ran /\ c.nr = Len(attempts) + 1
      BY <1>1, <2>2 DEF Attempted, Started, Refused
    <3>2. attempts'[c.nr].ran = TRUE
      BY <1>2, <3>1
    <3> QED
      BY <1>2, <2>0, <3>1, <3>2
  <2> QED
    BY <2>1, <2>2
<1> QED
  BY <1>2, <1>3, <1>4, <1>5, <1>6, <1>7 DEF StateInv
(* The operator's changes move the authority forward, by one version.       *)
LEMMA OperatorForward ==
    ASSUME StateInv, RevokePermits \/ RenewLease
    PROVE  Forward(authority, authority') /\ authority'.version = authority.version + 1
<1>1. authority \in Authorities /\ authority.version \in Nat /\ authority.epoch \in Nat
  BY DEF StateInv, Authorities
<1> DEFINE v == authority.version + 1
           e == authority.epoch + 1
           x == clock + LeaseTime
           m == Rules.lease_call_budget
<1>2. v \in Nat /\ v > authority.version /\ e \in Nat /\ e > authority.epoch
  BY <1>1
<1>3. x \in Nat /\ m \in Nat
  BY SessionAssumption, RulesAssumption DEF RuleSets, StateInv
<1>4. CASE RevokePermits
  <2>1. authority' = [authority EXCEPT !.epoch = e, !.version = v]
    BY <1>4 DEF RevokePermits
  <2> HIDE DEF v, e, x, m
  <2>2. authority' \in Authorities /\ authority'.version = v /\ authority'.epoch = e
    BY <1>1, <1>2, <2>1 DEF Authorities
  <2> QED
    BY <1>1, <1>2, <2>2 DEF Forward, v
<1>5. CASE RenewLease
  <2>1. authority' = [authority EXCEPT !.expires = x, !.version = v, !.remaining = m]
    BY <1>5 DEF RenewLease
  <2> HIDE DEF v, e, x, m
  <2>2. authority' \in Authorities /\ authority'.version = v
        /\ authority'.epoch = authority.epoch
    BY <1>1, <1>2, <1>3, <2>1 DEF Authorities
  <2> QED
    BY <1>1, <1>2, <2>2 DEF Forward, v
<1> QED
  BY <1>4, <1>5

LEMMA StateInvOtherwise ==
    ASSUME StateInv, Otherwise
    PROVE  StateInv'
<1>0. UNCHANGED <<config, attempts>>
  BY OtherwiseKeeps
<1>1. flying' \subseteq flying
  BY DEF Otherwise, Complete, HandlerRaises, Landed, RegisterTool, ApproveResource,
         ApproveBoundary, SetTighten, RevokePermits, RenewLease, Tick, Operate, Event, vars
<1>2. \A c \in flying' : c.nr \in 1 .. Len(attempts') /\ attempts'[c.nr].ran
  BY <1>0, <1>1 DEF StateInv
<1>3. ASSUME /\ UNCHANGED <<authority, history>>
             /\ mode' \in BOOLEAN /\ clock' \in Nat /\ events' \in Nat
      PROVE  StateInv'
  BY <1>0, <1>2, <1>3 DEF StateInv
<1>4. ASSUME NEW c \in flying, Complete(c)
      PROVE  StateInv'
  <2>1. attempts[c.nr].action \in Actions
    BY FlyingAttempt
  <2>2. history' \in Seq(Actions) /\ Len(history') <= Watch.history
    BY <1>4, <2>1, RecordKeeps DEF Complete
  <2>3. UNCHANGED <<authority, mode, clock, events>>
    BY <1>4 DEF Complete, Landed
  <2> QED
    BY <1>0, <1>2, <2>2, <2>3 DEF StateInv
<1>5. ASSUME NEW c \in flying, HandlerRaises(c)
      PROVE  StateInv'
  BY <1>3, <1>5 DEF HandlerRaises, Landed, StateInv
<1>6. ASSUME NEW r \in Announcements, RegisterTool(r[1], r[2])
      PROVE  StateInv'
  BY <1>3, <1>6 DEF RegisterTool, Event, StateInv
<1>7. ASSUME NEW e \in Approvable, ApproveResource(e)
      PROVE  StateInv'
  BY <1>3, <1>7 DEF ApproveResource, Operate, Event, StateInv
<1>8. ASSUME NEW b \in Crossable, ApproveBoundary(b)
      PROVE  StateInv'
  BY <1>3, <1>8 DEF ApproveBoundary, Operate, Event, StateInv
<1>9. ASSUME NEW on \in BOOLEAN, SetTighten(on)
      PROVE  StateInv'
  BY <1>3, <1>9 DEF SetTighten, Operate, Event, StateInv
<1>10. ASSUME authority' \in Authorities, Operate, UNCHANGED <<mode, clock>>
       PROVE  StateInv'
  BY <1>0, <1>2, <1>10 DEF Operate, Event, StateInv
<1>11. CASE RevokePermits
  <2>1. authority' \in Authorities
    BY <1>11, OperatorForward DEF Forward
  <2> QED
    BY <1>10, <1>11, <2>1 DEF RevokePermits
<1>12. CASE RenewLease
  <2>1. authority' \in Authorities
    BY <1>12, OperatorForward DEF Forward
  <2> QED
    BY <1>10, <1>12, <2>1 DEF RenewLease
<1>13. CASE Tick
  BY <1>3, <1>13 DEF Tick, Operate, Event, StateInv
<1>14. CASE UNCHANGED vars
  BY <1>3, <1>14 DEF vars, StateInv
<1> QED
  BY <1>4, <1>5, <1>6, <1>7, <1>8, <1>9, <1>11, <1>12, <1>13, <1>14 DEF Otherwise

(* Pins: a use pins what is registered, a registration what it announces.   *)
LEMMA PinsKept ==
    ASSUME PinMaps, PinsInv,
           \/ \E a \in Actions : Attempt(a)
           \/ Otherwise
    PROVE  PinMaps' /\ PinsInv'
<1>1. ASSUME NEW a \in Actions, Attempt(a)
      PROVE  PinMaps' /\ PinsInv'
  <2>1. live' = live /\ pins' = PinOnUse(Of[a].tool)
    BY <1>1 DEF Attempt
  <2>2. /\ DOMAIN pins' = Tools
        /\ ~Pinning.enabled => pins' = pins
    BY <2>1 DEF PinOnUse, PinMaps
  <2>3. ASSUME NEW t \in Tools
        PROVE  /\ DOMAIN live'[t] = {"description", "schema"}
               /\ pins'[t] \in {r[2] : r \in Announcements} \cup {Missing, live'[t]}
               /\ PinAgrees(pins'[t], live'[t])
    <3>1. pins'[t] = pins[t] \/ pins'[t] = live[t]
      BY <2>1 DEF PinOnUse, PinMaps
    <3> QED
      BY <2>1, <3>1 DEF PinsInv, PinAgrees
  <2> QED
    BY <2>1, <2>2, <2>3 DEF PinMaps, PinsInv
<1>2. ASSUME NEW r \in Announcements, RegisterTool(r[1], r[2])
      PROVE  PinMaps' /\ PinsInv'
  <2> DEFINE s == r[1]
             m == r[2]
  <2>1. s \in Tools
    BY SessionAssumption
  <2>2. live' = [live EXCEPT ![s] = Overlaid(m, live[s])]
    BY <1>2 DEF RegisterTool
  <2>3. pins' = IF Pinning.enabled THEN [pins EXCEPT ![s] = m] ELSE pins
    BY <1>2 DEF RegisterTool
  <2>4. m \in {x[2] : x \in Announcements}
    OBVIOUS
  <2> HIDE DEF s, m
  <2>5. PinMaps'
    <3>1. DOMAIN live' = Tools /\ DOMAIN pins' = Tools
      BY <2>2, <2>3 DEF PinMaps
    <3>2. ~Pinning.enabled => pins' = pins
      BY <2>3
    <3> QED
      BY <3>1, <3>2 DEF PinMaps
  <2>6. ASSUME NEW t \in Tools
        PROVE  /\ DOMAIN live'[t] = {"description", "schema"}
               /\ pins'[t] \in {x[2] : x \in Announcements} \cup {Missing, live'[t]}
               /\ PinAgrees(pins'[t], live'[t])
    <3>1. CASE t # s
      <4>1. live'[t] = live[t] /\ pins'[t] = pins[t]
        BY <2>2, <2>3, <3>1 DEF PinMaps
      <4> QED
        BY <4>1 DEF PinsInv
    <3>2. CASE t = s
      <4> DEFINE now == Overlaid(m, live[s])
      <4>1. live'[t] = now
        BY <2>1, <2>2, <3>2 DEF PinMaps
      <4>2. DOMAIN live[s] = {"description", "schema"}
        BY <2>1 DEF PinsInv
      <4>3. DOMAIN now = {"description", "schema"}
        BY <4>2 DEF Overlaid
      <4>4. now.description = IF m.description = Missing THEN live[s].description
                              ELSE m.description
        BY <4>2 DEF Overlaid
      <4>5. now.schema = IF m.schema = Missing THEN live[s].schema ELSE m.schema
        BY <4>2 DEF Overlaid
      <4> HIDE DEF now
      <4>6. CASE Pinning.enabled
        <5>1. pins'[t] = m
          BY <2>1, <2>3, <3>2, <4>6 DEF PinMaps
        <5> QED
          BY <2>4, <4>1, <4>3, <4>4, <4>5, <5>1 DEF PinAgrees
      <4>7. CASE ~Pinning.enabled
        <5>1. pins'[t] = Missing
          BY <2>1, <2>3, <3>2, <4>7 DEF PinMaps
        <5> QED
          BY <4>1, <4>3, <5>1 DEF PinAgrees
      <4> QED
        BY <4>6, <4>7
    <3> QED
      BY <3>1, <3>2
  <2> QED
    BY <2>5, <2>6 DEF PinsInv
<1>3. ASSUME UNCHANGED <<live, pins>>
      PROVE  PinMaps' /\ PinsInv'
  BY <1>3 DEF PinMaps, PinsInv
<1>4. Otherwise => \/ \E r \in Announcements : RegisterTool(r[1], r[2])
                   \/ UNCHANGED <<live, pins>>
  BY DEF Otherwise, Complete, HandlerRaises, Landed, ApproveResource, ApproveBoundary,
         SetTighten, RevokePermits, RenewLease, Tick, Operate, vars
<1> QED
  BY <1>1, <1>2, <1>3, <1>4
(* The actions of the attempts after one more attempt, at a.                *)
LEMMA ActionsAfter ==
    ASSUME StateInv, NEW a \in Actions, Attempt(a)
    PROVE  /\ Len(attempts) \in Nat /\ Len(attempts') = Len(attempts) + 1
           /\ \A i \in 1 .. Len(attempts) : attempts'[i] = attempts[i]
           /\ attempts'[Len(attempts) + 1].action = a
<1>1. PICK rec \in Recommendation(a), d \in Decisions(a), ran \in BOOLEAN :
         Attempted(a, rec, d, ran)
  BY AttemptDecided
<1>2. Len(attempts) \in Nat
  BY LenProperties DEF StateInv
<1> QED
  BY <1>1, <1>2, AttemptAppends

LEMMA RecentAttempt ==
    ASSUME StateInv, RecentInv, NEW a \in Actions, Attempt(a)
    PROVE  RecentInv'
<1> DEFINE s == watchers.recent
           W == Watch.loop_window
           L == Len(attempts)
           x == Signature(a)
           w == Windowed(s, x, W)
<1>1. W \in Nat \ {0}
  BY WatchAssumption DEF WatchType
<1>2. /\ s \in Seq(Signatures) /\ Len(s) = IF L < W THEN L ELSE W
      /\ \A i \in 1 .. Len(s) : s[i] = Signature(attempts[L - Len(s) + i].action)
  BY DEF RecentInv
<1>3. /\ L \in Nat /\ Len(attempts') = L + 1
      /\ \A i \in 1 .. L : attempts'[i] = attempts[i]
      /\ attempts'[L + 1].action = a
  BY ActionsAfter
<1>4. x \in Signatures
  BY DEF Signatures
<1>5. watchers'.recent = w
  BY DEF Attempt, Watched
<1> HIDE DEF W, x, s, L
<1>6. IsWindow(w, Signatures, s, x, W)
  BY <1>1, <1>2, <1>4, WindowedProperties
<1> HIDE DEF w
<1>7. Len(w) = IF Len(s) + 1 < W THEN Len(s) + 1 ELSE W
  BY <1>6 DEF IsWindow
<1>8. \A i \in 1 .. Len(w) : w[i] = Append(s, x)[Len(s) + 1 - Len(w) + i]
  BY <1>6 DEF IsWindow
<1>9. Len(s) \in Nat /\ w \in Seq(Signatures)
  BY <1>2, <1>6, LenProperties DEF IsWindow
<1>10. Len(w) = IF L + 1 < W THEN L + 1 ELSE W
  BY <1>1, <1>2, <1>3, <1>7
<1>11. ASSUME NEW i \in 1 .. Len(w)
       PROVE  w[i] = Signature(attempts'[L + 1 - Len(w) + i].action)
  <2> DEFINE j == Len(s) + 1 - Len(w) + i
             k == L + 1 - Len(w) + i
  <2>1. j \in 1 .. Len(s) + 1 /\ k \in 1 .. L + 1 /\ k = L - Len(s) + j
    BY <1>1, <1>2, <1>3, <1>7, <1>9, <1>10
  <2>2. w[i] = Append(s, x)[j]
    BY <1>8
  <2> HIDE DEF j, k
  <2>3. CASE j = Len(s) + 1
    <3>1. Append(s, x)[j] = x /\ k = L + 1
      BY <1>2, <1>3, <1>4, <1>9, <2>1, <2>3, AppendProperties
    <3> QED
      BY <1>3, <2>2, <3>1 DEF x, k
  <2>4. CASE j # Len(s) + 1
    <3>0. Len(s) <= L
      BY <1>1, <1>2, <1>3
    <3>1. j \in 1 .. Len(s) /\ k \in 1 .. L
      <4> DEFINE ls == Len(s)
      <4>1. /\ ls \in Nat /\ ls <= L /\ L \in Nat
            /\ j \in 1 .. ls + 1 /\ k = L - ls + j /\ j # ls + 1
        BY <1>3, <1>9, <2>1, <2>4, <3>0
      <4> HIDE DEF ls
      <4>2. j \in 1 .. ls /\ k \in 1 .. L
        BY <4>1
      <4> QED
        BY <4>2 DEF ls
    <3>2. Append(s, x)[j] = s[j]
      BY <1>2, <1>4, <3>1, AppendProperties
    <3>3. s[j] = Signature(attempts[k].action)
      BY <1>2, <2>1, <3>1
    <3> QED
      BY <1>3, <2>2, <3>1, <3>2, <3>3 DEF k
  <2> QED
    BY <2>3, <2>4
<1> DEFINE M == Len(attempts')
<1>12. Len(w) = IF M < W THEN M ELSE W
  BY <1>3, <1>10
<1>13. \A i \in 1 .. Len(w) : w[i] = Signature(attempts'[M - Len(w) + i].action)
  BY <1>3, <1>11
<1> HIDE DEF M
<1> QED
  BY <1>5, <1>9, <1>12, <1>13, Zenon DEF RecentInv, W, M

LEMMA WindowsAttempt ==
    ASSUME StateInv, WindowsInv, NEW a \in Actions, Attempt(a)
    PROVE  WindowsInv'
<1> DEFINE D == Watch.drift_window
           C == Watch.scan_window
           hits == watchers.hits
           refs == watchers.refs
           hit == InScope(a)
           ref == <<Of[a].ref, Of[a].dir>>
           h == Windowed(hits, hit, D)
           r == Windowed(refs, ref, C)
<1>1. D \in Nat \ {0} /\ C \in Nat \ {0}
  BY WatchAssumption DEF WatchType
<1>2. hit \in BOOLEAN /\ ref \in References
  BY DEF InScope, References
<1>3. hits \in Seq(BOOLEAN) /\ refs \in Seq(References) /\ Len(refs) <= C
  BY DEF WindowsInv
<1>4. watchers'.hits = h /\ (watchers'.refs = refs \/ watchers'.refs = r)
  BY DEF Attempt, Watched
<1> HIDE DEF D, C, hits, refs, hit, ref
<1>5. IsWindow(h, BOOLEAN, hits, hit, D)
  BY <1>1, <1>2, <1>3, WindowedProperties
<1>6. IsWindow(r, References, refs, ref, C)
  BY <1>1, <1>2, <1>3, WindowedProperties
<1>7. Len(hits) \in Nat /\ Len(refs) \in Nat
  BY <1>3, LenProperties
<1> HIDE DEF h, r
<1>8. Len(h) <= D /\ Len(r) <= C
  BY <1>1, <1>5, <1>6, <1>7 DEF IsWindow
<1>9. h \in Seq(BOOLEAN) /\ r \in Seq(References)
  BY <1>5, <1>6 DEF IsWindow
<1> QED
  BY <1>3, <1>4, <1>8, <1>9 DEF WindowsInv, D, C, refs

LEMMA SeenAttempt ==
    ASSUME StateInv, SeenInv, NEW a \in Actions, Attempt(a)
    PROVE  SeenInv'
<1> DEFINE L == Len(attempts)
<1>1. /\ L \in Nat /\ Len(attempts') = L + 1
      /\ \A i \in 1 .. L : attempts'[i] = attempts[i]
      /\ attempts'[L + 1].action = a
  BY ActionsAfter
<1>2. watchers'.seen = watchers.seen \cup Boundaries(a)
  BY DEF Attempt, Watched
<1>3. ASSUME NEW i \in 1 .. L + 1
      PROVE  Boundaries(attempts'[i].action) \subseteq watchers'.seen
  <2>1. CASE i \in 1 .. L
    BY <1>1, <1>2, <2>1 DEF SeenInv
  <2>2. CASE i = L + 1
    BY <1>1, <1>2, <2>2
  <2> QED
    BY <1>1, <2>1, <2>2
<1>4. ASSUME NEW b \in watchers'.seen
      PROVE  \E i \in 1 .. L + 1 : b \in Boundaries(attempts'[i].action)
  <2>1. CASE b \in watchers.seen
    <3>1. PICK i \in 1 .. L : b \in Boundaries(attempts[i].action)
      BY <2>1 DEF SeenInv
    <3>2. i \in 1 .. L + 1 /\ attempts'[i] = attempts[i]
      BY <1>1, <3>1
    <3> QED
      BY <3>1, <3>2
  <2>2. CASE b \in Boundaries(a)
    <3>1. L + 1 \in 1 .. L + 1
      BY <1>1
    <3> QED
      BY <1>1, <2>2, <3>1
  <2> QED
    BY <1>2, <2>1, <2>2
<1> QED
  BY <1>1, <1>3, <1>4 DEF SeenInv

LEMMA SessionInvInit == Init => SessionInv
<1> SUFFICES ASSUME Init PROVE SessionInv
  OBVIOUS
<1>1. attempts = <<>> /\ Len(attempts) = 0 /\ history = <<>> /\ Len(history) = 0
  BY EmptySeq DEF Init
<1>2. StateInv
  <2>1. authority \in Authorities
    BY SessionAssumption, RulesAssumption DEF Init, Authorities, RuleSets
  <2>2. Watch.history \in Nat
    BY WatchAssumption DEF WatchType
  <2>3. attempts \in Seq(AttemptRecords) /\ history \in Seq(Actions)
    BY <1>1, EmptySeq
  <2>4. config \in [advisor : Advisors, tighten : Tightenings] /\ flying = {}
    BY DEF Init
  <2>5. mode \in BOOLEAN /\ clock \in Nat /\ events \in Nat
    BY DEF Init
  <2>6. Len(history) <= Watch.history
    BY <1>1, <2>2
  <2> QED
    BY <2>1, <2>3, <2>4, <2>5, <2>6 DEF StateInv
<1>3. PinMaps /\ PinsInv
  BY DEF Init, PinMaps, PinsInv, PinAgrees, Unpinned
<1>4. watchers.recent = <<>> /\ watchers.hits = <<>> /\ watchers.refs = <<>> /\ watchers.seen = {}
  BY DEF Init, NewWatchers
<1>5. RecentInv
  <2>1. Watch.loop_window \in Nat \ {0}
    BY WatchAssumption DEF WatchType
  <2> QED
    BY <1>1, <1>4, <2>1, EmptySeq DEF RecentInv
<1>6. WindowsInv
  <2>1. Watch.drift_window \in Nat /\ Watch.scan_window \in Nat
    BY WatchAssumption DEF WatchType
  <2> QED
    BY <1>4, <2>1, EmptySeq DEF WindowsInv
<1>7. SeenInv
  BY <1>1, <1>4 DEF SeenInv
<1> QED
  BY <1>2, <1>3, <1>5, <1>6, <1>7 DEF SessionInv

LEMMA SessionInvNext == SessionInv /\ [Next]_vars => SessionInv'
<1> SUFFICES ASSUME SessionInv, [Next]_vars PROVE SessionInv'
  OBVIOUS
<1> USE DEF SessionInv
<1>1. PinMaps' /\ PinsInv'
  BY StepCases, PinsKept
<1>2. ASSUME NEW a \in Actions, Attempt(a)
      PROVE  SessionInv'
  BY <1>1, <1>2, StateInvAttempt, RecentAttempt, WindowsAttempt, SeenAttempt
<1>3. CASE Otherwise
  <2>1. StateInv' /\ UNCHANGED <<watchers, attempts>>
    BY <1>3, StateInvOtherwise, OtherwiseKeeps
  <2>2. RecentInv' /\ WindowsInv' /\ SeenInv'
    BY <2>1 DEF RecentInv, WindowsInv, SeenInv
  <2> QED
    BY <1>1, <2>1, <2>2
<1> QED
  BY <1>2, <1>3, StepCases

LEMMA SessionInvHolds == Spec => []SessionInv
BY SessionInvInit, SessionInvNext, PTL DEF Spec
-----------------------------------------------------------------------------
(* What the governors promise about every attempt that ran.                *)

(* The steps that are no attempt change nothing these properties read.      *)
LEMMA OtherwiseSafe ==
    ASSUME Otherwise
    PROVE  /\ TightenedOnlyReads => TightenedOnlyReads'
           /\ ProtectedWriteApproved => ProtectedWriteApproved'
           /\ LoopIsStopped => LoopIsStopped'
           /\ NoveltyIsFlagged => NoveltyIsFlagged'
<1>1. attempts' = attempts /\ config' = config /\ boundaries \subseteq boundaries'
  BY OtherwiseKeeps
<1>2. TightenedOnlyReads => TightenedOnlyReads'
  BY <1>1 DEF TightenedOnlyReads
<1>3. ProtectedWriteApproved => ProtectedWriteApproved'
  BY <1>1 DEF ProtectedWriteApproved
<1>4. LoopIsStopped => LoopIsStopped'
  BY <1>1 DEF LoopIsStopped
<1>5. NoveltyIsFlagged => NoveltyIsFlagged'
  BY <1>1 DEF NoveltyIsFlagged
<1> QED
  BY <1>2, <1>3, <1>4, <1>5

(* In tighten mode nothing but reads starts: TighteningGovernor refuses the *)
(* rest whatever the other governors and the monitor say.                   *)
THEOREM TightenedOnlyReadsHolds == Spec => []TightenedOnlyReads
<1>1. Init => TightenedOnlyReads
  BY EmptySeq DEF Init, TightenedOnlyReads
<1>2. TightenedOnlyReads /\ SessionInv /\ [Next]_vars => TightenedOnlyReads'
  <2> SUFFICES ASSUME TightenedOnlyReads, SessionInv, NEW a \in Actions, Attempt(a)
               PROVE  TightenedOnlyReads'
    BY StepCases, OtherwiseSafe
  <2>1. PICK rec \in Recommendation(a), d \in Decisions(a), ran \in BOOLEAN :
           Attempted(a, rec, d, ran)
    BY AttemptDecided DEF SessionInv
  <2>2. /\ Len(attempts) \in Nat /\ Len(attempts') = Len(attempts) + 1
        /\ \A i \in 1 .. Len(attempts) : attempts'[i] = attempts[i]
        /\ attempts'[Len(attempts) + 1].action = a
    BY ActionsAfter DEF SessionInv
  <2>3. attempts'[Len(attempts) + 1].ran = ran /\ attempts'[Len(attempts) + 1].tightened = mode
    BY <2>1, AttemptAppends DEF SessionInv
  <2>4. (ran /\ mode) => Reads(a)
    BY <2>1 DEF Attempted, Governed
  <2>5. ASSUME NEW i \in 1 .. Len(attempts'), attempts'[i].ran, attempts'[i].tightened
        PROVE  Of[attempts'[i].action].level = "read"
    <3>1. CASE i \in 1 .. Len(attempts)
      BY <2>2, <2>5, <3>1 DEF TightenedOnlyReads
    <3>2. CASE i = Len(attempts) + 1
      <4>1. ran /\ mode
        BY <2>3, <2>5, <3>2
      <4> QED
        BY <2>2, <2>4, <3>2, <4>1 DEF Reads
    <3> QED
      BY <2>2, <3>1, <3>2
  <2> QED
    BY <2>5 DEF TightenedOnlyReads
<1> QED
  BY <1>1, <1>2, SessionInvHolds, PTL DEF Spec

(* A write to a protected or memory path that ran had an entry for more     *)
(* than reading it: ProtectedZoneGovernor is outermost, and what the others *)
(* and the monitor decide does not lift its refusal.                        *)
THEOREM ProtectedWriteApprovedHolds == Spec => []ProtectedWriteApproved
<1>1. Init => ProtectedWriteApproved
  BY EmptySeq DEF Init, ProtectedWriteApproved
<1>2. ProtectedWriteApproved /\ SessionInv /\ [Next]_vars => ProtectedWriteApproved'
  <2> SUFFICES ASSUME ProtectedWriteApproved, SessionInv, NEW a \in Actions, Attempt(a)
               PROVE  ProtectedWriteApproved'
    BY StepCases, OtherwiseSafe
  <2>1. PICK rec \in Recommendation(a), d \in Decisions(a), ran \in BOOLEAN :
           Attempted(a, rec, d, ran)
    BY AttemptDecided DEF SessionInv
  <2>2. /\ Len(attempts) \in Nat /\ Len(attempts') = Len(attempts) + 1
        /\ \A i \in 1 .. Len(attempts) : attempts'[i] = attempts[i]
        /\ attempts'[Len(attempts) + 1].action = a
    BY ActionsAfter DEF SessionInv
  <2>3. /\ attempts'[Len(attempts) + 1].ran = ran
        /\ attempts'[Len(attempts) + 1].writable = Writable(a)
    BY <2>1, AttemptAppends DEF SessionInv
  <2>4. (ran /\ Guarded(Of[a].reference) /\ ~Reads(a)) => Writable(a)
    <3> SUFFICES ASSUME ran, Guarded(Of[a].reference), ~Reads(a)
                 PROVE  Writable(a)
      OBVIOUS
    <3>1. ExplicitlyAllowed(Of[a].reference, entries)
      BY <2>1 DEF Attempted
    <3>2. Of[a].reference # None /\ Of[a].reference.scheme = "repo_write"
      BY StackAssumption DEF Guarded, Reads
    <3> QED
      BY <3>1, <3>2 DEF ExplicitlyAllowed, Writable
  <2>5. ASSUME NEW i \in 1 .. Len(attempts'), attempts'[i].ran,
               Of[attempts'[i].action].level # "read",
               Guarded(Of[attempts'[i].action].reference)
        PROVE  attempts'[i].writable
    <3>1. CASE i \in 1 .. Len(attempts)
      BY <2>2, <2>5, <3>1 DEF ProtectedWriteApproved, Guarded
    <3>2. CASE i = Len(attempts) + 1
      <4>1. ran /\ Guarded(Of[a].reference) /\ ~Reads(a)
        BY <2>2, <2>3, <2>5, <3>2 DEF Reads
      <4> QED
        BY <2>3, <2>4, <3>2, <4>1
    <3> QED
      BY <2>2, <3>1, <3>2
  <2> QED
    BY <2>5 DEF ProtectedWriteApproved, Guarded
<1> QED
  BY <1>1, <1>2, SessionInvHolds, PTL DEF Spec

(* A tool last registered with a description is not refused for its pin:    *)
(* every registration pins anew, and absent metadata keeps the old.         *)
THEOREM PinnedToolUsableHolds == Spec => []PinnedToolUsable
<1>1. SessionInv => PinnedToolUsable
  <2> SUFFICES ASSUME SessionInv, NEW t \in Tools, t \notin Pinning.witnessed,
                      live[t].description # Missing, PinViolated(t),
                      pins[t].description # Missing
               PROVE  FALSE
    BY DEF PinnedToolUsable
  <2>1. PinAgrees(pins[t], live[t])
    BY DEF SessionInv, PinsInv
  <2>2. CASE pins[t] = Missing
    BY <2>2 DEF PinViolated, Unpinned
  <2>3. CASE pins[t] # Missing
    BY <2>1, <2>3 DEF PinViolated, PinAgrees
  <2> QED
    BY <2>2, <2>3
<1> QED
  BY <1>1, SessionInvHolds, PTL
-----------------------------------------------------------------------------
(* What the behavior monitors promise.                                     *)

(* A monitor that asks for step-up stops the call, in every configuration.  *)
LEMMA StepUpStops ==
    ASSUME StateInv, NEW a, NEW d, NEW ran, Attempted(a, "step_up", d, ran)
    PROVE  ~ran
<1>1. Advice("step_up") = "step_up"
  BY SessionAssumption DEF Advice, Recommendations
<1>2. Rules.honor_monitor \/ config.tighten.step_up \/ config.tighten.stop_renewal
  BY StackAssumption DEF StateInv
<1>3. Stops(d)
  BY <1>1, <1>2, Zenon DEF Attempted, Governed
<1> QED
  BY <1>3, Zenon DEF Attempted

LEMMA NovelAsksStepUp ==
    ASSUME NEW w, NEW a, NEW approved, Novel(a, w.seen, approved) # {}
    PROVE  CompositeAdvice(w, a, approved) = "step_up"
<1> DEFINE drift == Drift(Watched(w, a).hits)
           scan == Scan(Watched(w, a).refs)
           given == {drift, scan, "step_up"} \ {Missing}
<1>1. CompositeAdvice(w, a, approved) = Worst({drift, scan, "step_up"})
  BY DEF CompositeAdvice
<1>2. drift \in {Missing, "step_up", "allow"} /\ scan \in {Missing, "step_up", "allow"}
  BY DEF Drift, Scan
<1>3. Missing # "step_up"
  BY SessionAssumption DEF Recommendations
<1> HIDE DEF drift, scan
<1>4. "step_up" \in given /\ "deny" \notin given /\ given # {}
  BY <1>2, <1>3
<1>5. Worst({drift, scan, "step_up"}) = "step_up"
  BY <1>4, Zenon DEF Worst
<1> QED
  BY <1>1, <1>5

(* Nothing runs beyond a boundary nobody approved unless an earlier attempt *)
(* touched it: NoveltyMonitor compares before it remembers, and remembers   *)
(* refused attempts too.                                                    *)
THEOREM NoveltyIsFlaggedHolds == Spec => []NoveltyIsFlagged
<1>1. Init => NoveltyIsFlagged
  BY EmptySeq DEF Init, NoveltyIsFlagged
<1>2. NoveltyIsFlagged /\ SessionInv /\ [Next]_vars => NoveltyIsFlagged'
  <2> SUFFICES ASSUME NoveltyIsFlagged, SessionInv, NEW a \in Actions, Attempt(a),
                      config.advisor = "composite"
               PROVE  NoveltyIsFlagged'
    <3>1. (\E a \in Actions : Attempt(a)) => config' = config
      BY DEF Attempt
    <3> QED
      BY <3>1, StepCases, OtherwiseSafe DEF NoveltyIsFlagged
  <2>1. PICK rec \in Recommendation(a), d \in Decisions(a), ran \in BOOLEAN :
           Attempted(a, rec, d, ran)
    BY AttemptDecided DEF SessionInv
  <2>2. /\ Len(attempts) \in Nat /\ Len(attempts') = Len(attempts) + 1
        /\ \A i \in 1 .. Len(attempts) : attempts'[i] = attempts[i]
        /\ attempts'[Len(attempts) + 1].action = a
    BY ActionsAfter DEF SessionInv
  <2>3. attempts'[Len(attempts) + 1].ran = ran
    BY <2>1, AttemptAppends DEF SessionInv
  <2>4. boundaries' = boundaries
    BY DEF Attempt
  <2>5. rec = CompositeAdvice(watchers, a, boundaries)
    BY DEF Recommendation
  <2>6. ran => Novel(a, watchers.seen, boundaries) = {}
    BY <2>1, <2>5, NovelAsksStepUp, StepUpStops DEF SessionInv
  <2>7. ASSUME ran, NEW b \in Boundaries(a) \ boundaries
        PROVE  \/ \E j \in 1 .. Len(attempts) : b \in Boundaries(attempts[j].action)
               \/ b[1] = "class" /\ Len(attempts) = 0
    <3>1. CASE b \in watchers.seen
      BY <3>1 DEF SessionInv, SeenInv
    <3>2. CASE b \notin watchers.seen
      <4>1. b[1] = "class" /\ ~\E s \in watchers.seen : s[1] = "class"
        BY <2>6, <2>7, <3>2 DEF Novel
      <4>2. ASSUME Len(attempts) # 0
            PROVE  FALSE
        <5>1. 1 \in 1 .. Len(attempts)
          BY <2>2, <4>2
        <5> DEFINE c == <<"class", Of[attempts[1].action].class>>
        <5>2. c \in Boundaries(attempts[1].action) /\ c[1] = "class"
          BY DEF Boundaries
        <5>3. c \in watchers.seen
          BY <5>1, <5>2 DEF SessionInv, SeenInv
        <5> QED
          BY <4>1, <5>2, <5>3
      <4> QED
        BY <4>1, <4>2
    <3> QED
      BY <3>1, <3>2
  <2>8. ASSUME NEW i \in 1 .. Len(attempts'), attempts'[i].ran,
               NEW b \in Boundaries(attempts'[i].action) \ boundaries'
        PROVE  \/ \E j \in 1 .. (i - 1) : b \in Boundaries(attempts'[j].action)
               \/ b[1] = "class" /\ i = 1
    <3>1. CASE i \in 1 .. Len(attempts)
      <4>1. \/ \E j \in 1 .. (i - 1) : b \in Boundaries(attempts[j].action)
            \/ b[1] = "class" /\ i = 1
        BY <2>2, <2>4, <2>8, <3>1 DEF NoveltyIsFlagged
      <4>2. \A j \in 1 .. (i - 1) : attempts'[j] = attempts[j]
        BY <2>2, <3>1
      <4> QED
        BY <4>1, <4>2
    <3>2. CASE i = Len(attempts) + 1
      <4>1. ran /\ b \in Boundaries(a) \ boundaries
        BY <2>2, <2>3, <2>4, <2>8, <3>2
      <4>2. \/ \E j \in 1 .. Len(attempts) : b \in Boundaries(attempts[j].action)
            \/ b[1] = "class" /\ Len(attempts) = 0
        BY <2>7, <4>1
      <4>3. i - 1 = Len(attempts) /\ (Len(attempts) = 0 => i = 1)
        BY <2>2, <3>2
      <4> QED
        BY <2>2, <4>2, <4>3
    <3> QED
      BY <2>2, <3>1, <3>2
  <2> QED
    BY <2>8 DEF NoveltyIsFlagged
<1> QED
  BY <1>1, <1>2, SessionInvHolds, PTL DEF Spec
(* The lengths of a pattern and of a loop.                                  *)
Period == Watch.pattern
LoopLength == Watch.pattern * Watch.repeats

LEMMA LoopNumbers ==
    /\ Period \in Nat \ {0} /\ LoopLength \in Nat /\ LoopLength > Period
    /\ Watch.pattern * (Watch.repeats - 1) = LoopLength - Period
    /\ Watch.loop_window \in Nat \ {0} /\ Watch.loop_window >= LoopLength
<1> DEFINE n == Watch.pattern
           k == Watch.repeats
<1>1. n \in Nat \ {0} /\ k \in Nat \ {0, 1} /\ Watch.loop_window \in Nat \ {0}
  BY WatchAssumption DEF WatchType
<1>2. Watch.loop_window >= n * k
  BY SessionAssumption
<1> HIDE DEF n, k
<1>3. k >= 2 /\ n >= 1 /\ n \in Int /\ k \in Int
  BY <1>1
<1>4. n * k \in Nat /\ n * (k - 1) = n * k - n /\ n * k > n
  <2>1. n * (k - 1) = n * k - n /\ n * k \in Int
    BY <1>3, Z3
  <2>2. n * (k - 1) >= 1
    BY <1>3, Z3
  <2> DEFINE x == n * (k - 1)
             y == n * k
  <2> HIDE DEF x, y
  <2>3. x = y - n /\ x >= 1 /\ y \in Int
    BY <2>1, <2>2 DEF x, y
  <2>4. y \in Nat /\ x = y - n /\ y > n
    BY <1>3, <2>3
  <2> QED
    BY <2>4 DEF x, y
<1> QED
  BY <1>1, <1>2, <1>4 DEF Period, LoopLength, n, k

(* The last LoopLength of the first `end' attempts repeat a pattern.        *)
RepeatsUpTo(tried, end) ==
    \A i \in (end - LoopLength + 1) .. (end - Period) :
        Signature(tried[i].action) = Signature(tried[i + Period].action)

StoppedLoops ==
    config.advisor = "loop" =>
        \A end \in LoopLength .. Len(attempts) :
            RepeatsUpTo(attempts, end) => ~attempts[end].ran

LEMMA LoopIsStoppedRestated ==
    ASSUME StateInv
    PROVE  LoopIsStopped <=> StoppedLoops
<1> DEFINE sig == [i \in 1 .. Len(attempts) |-> Signature(attempts[i].action)]
<1>0. Len(attempts) \in Nat
  BY LenProperties DEF StateInv
<1>1. LoopIsStopped <=>
        (config.advisor = "loop" =>
            \A end \in LoopLength .. Len(attempts) :
                (\A i \in (end - LoopLength + 1) .. (end - Period) : sig[i] = sig[i + Period])
                    => ~attempts[end].ran)
  BY DEF LoopIsStopped, LoopLength, Period
<1>2. ASSUME NEW end \in LoopLength .. Len(attempts)
      PROVE  (\A i \in (end - LoopLength + 1) .. (end - Period) : sig[i] = sig[i + Period])
                <=> RepeatsUpTo(attempts, end)
  <2>1. ASSUME NEW i \in (end - LoopLength + 1) .. (end - Period)
        PROVE  /\ sig[i] = Signature(attempts[i].action)
               /\ sig[i + Period] = Signature(attempts[i + Period].action)
    <3>1. i \in 1 .. Len(attempts) /\ i + Period \in 1 .. Len(attempts)
      BY <1>0, LoopNumbers
    <3> QED
      BY <3>1
  <2> HIDE DEF sig
  <2> QED
    BY <2>1 DEF RepeatsUpTo
<1> HIDE DEF sig
<1> QED
  BY <1>1, <1>2 DEF StoppedLoops

(* The monitor's window is long enough to show a loop that ends now.        *)
LEMMA LoopSeen ==
    ASSUME StateInv, RecentInv, Len(attempts) >= LoopLength,
           RepeatsUpTo(attempts, Len(attempts))
    PROVE  Loops(watchers.recent)
<1> DEFINE r == watchers.recent
           W == Watch.loop_window
           L == Len(attempts)
           N == Len(r)
           P == LoopLength
           n == Period
           t == LastN(r, P)
<1>1. /\ r \in Seq(Signatures) /\ N = (IF L < W THEN L ELSE W)
      /\ \A i \in 1 .. N : r[i] = Signature(attempts[L - N + i].action)
  BY DEF RecentInv
<1>2. L \in Nat /\ N \in Nat /\ L >= P
  BY <1>1, LenProperties DEF StateInv
<1>3. n \in Nat \ {0} /\ P \in Nat \ {0} /\ P > n /\ W \in Nat /\ W >= P
  BY LoopNumbers
<1>4. \A i \in (L - P + 1) .. (L - n) :
          Signature(attempts[i].action) = Signature(attempts[i + n].action)
  BY DEF RepeatsUpTo
<1> HIDE DEF L, W, P, n, r
<1>5. /\ t \in Seq(Signatures) /\ Len(t) = (IF N < P THEN N ELSE P)
      /\ \A i \in 1 .. Len(t) : t[i] = r[N - Len(t) + i]
  BY <1>1, <1>3, LastNProperties
<1> HIDE DEF t, N
<1>6. N >= P /\ Len(t) = P /\ N <= L
  BY <1>1, <1>2, <1>3, <1>5
<1>7. ASSUME NEW i \in 1 .. P
      PROVE  t[i] = Signature(attempts[L - P + i].action)
  <2>1. t[i] = r[N - P + i]
    BY <1>5, <1>6
  <2> DEFINE j == N - P + i
  <2>2. j \in 1 .. N /\ L - N + j = L - P + i
    BY <1>2, <1>3, <1>6
  <2> HIDE DEF j
  <2>3. r[j] = Signature(attempts[L - N + j].action)
    BY <1>1, <2>2
  <2> QED
    BY <2>1, <2>2, <2>3 DEF j
<1>8. ASSUME NEW i \in 1 .. (P - n)
      PROVE  t[i] = t[i + n]
  <2> DEFINE j == L - P + i
  <2>1. i \in 1 .. P /\ i + n \in 1 .. P
    BY <1>3
  <2>2. j \in (L - P + 1) .. (L - n) /\ L - P + (i + n) = j + n
    BY <1>2, <1>3
  <2>3. t[i] = Signature(attempts[j].action)
    BY <1>7, <2>1
  <2>4. t[i + n] = Signature(attempts[L - P + (i + n)].action)
    BY <1>7, <2>1
  <2> HIDE DEF j
  <2> QED
    BY <1>4, <2>2, <2>3, <2>4
<1>9. Watch.pattern * (Watch.repeats - 1) = P - n
  BY LoopNumbers DEF P, n
<1> QED
  BY <1>6, <1>8, <1>9 DEF Loops, t, N, r, P, n, LoopLength, Period

(* A loop is stopped at its last repetition, however many other calls came  *)
(* before and whether they were refused: LoopingToolCallMonitor counts      *)
(* attempts.                                                                *)
THEOREM LoopIsStoppedHolds == Spec => []LoopIsStopped
<1>1. Init => StoppedLoops
  <2> SUFFICES ASSUME Init PROVE StoppedLoops
    OBVIOUS
  <2>1. Len(attempts) = 0
    BY EmptySeq DEF Init
  <2>2. LoopLength > 0 /\ LoopLength \in Nat
    BY LoopNumbers
  <2> QED
    BY <2>1, <2>2 DEF StoppedLoops
<1>2. StoppedLoops /\ SessionInv /\ [Next]_vars => StoppedLoops'
  <2>1. ASSUME StoppedLoops, Otherwise
        PROVE  StoppedLoops'
    BY <2>1, OtherwiseKeeps DEF StoppedLoops, RepeatsUpTo
  <2> SUFFICES ASSUME StoppedLoops, SessionInv, [Next]_vars, NEW a \in Actions, Attempt(a),
                      config.advisor = "loop"
               PROVE  StoppedLoops'
    <3>1. (\E a \in Actions : Attempt(a)) => config' = config
      BY DEF Attempt
    <3> QED
      BY <2>1, <3>1, StepCases DEF StoppedLoops
  <2>2. PICK rec \in Recommendation(a), d \in Decisions(a), ran \in BOOLEAN :
           Attempted(a, rec, d, ran)
    BY AttemptDecided DEF SessionInv
  <2>3. /\ Len(attempts) \in Nat /\ Len(attempts') = Len(attempts) + 1
        /\ \A i \in 1 .. Len(attempts) : attempts'[i] = attempts[i]
    BY ActionsAfter DEF SessionInv
  <2>4. attempts'[Len(attempts) + 1].ran = ran
    BY <2>2, AttemptAppends DEF SessionInv
  <2>5. (StateInv /\ RecentInv)'
    BY SessionInvNext DEF SessionInv
  <2>6. watchers' = Watched(watchers, a)
    BY DEF Attempt
  <2>7. Loops(watchers'.recent) => ~ran
    <3>1. rec = IF Loops(Watched(watchers, a).recent) THEN "step_up" ELSE Missing
      BY DEF Recommendation, LoopAdvice
    <3> QED
      BY <2>2, <2>6, <3>1, StepUpStops DEF SessionInv
  <2>8. (Len(attempts') >= LoopLength /\ RepeatsUpTo(attempts', Len(attempts')))
           => Loops(watchers'.recent)
    <3>1. (Len(attempts) >= LoopLength /\ RepeatsUpTo(attempts, Len(attempts))
              /\ StateInv /\ RecentInv => Loops(watchers.recent))'
      BY LoopSeen, PTL
    <3> QED
      BY <2>5, <3>1
  <2>9. ASSUME NEW end \in LoopLength .. Len(attempts'), RepeatsUpTo(attempts', end)
        PROVE  ~attempts'[end].ran
    <3>1. CASE end = Len(attempts) + 1
      <4>1. ~ran
        BY <2>3, <2>7, <2>8, <2>9, <3>1, LoopNumbers
      <4> QED
        BY <2>4, <3>1, <4>1
    <3>2. CASE end # Len(attempts) + 1
      <4>1. end \in LoopLength .. Len(attempts) /\ end \in 1 .. Len(attempts)
        BY <2>3, <3>2, LoopNumbers
      <4>2. ASSUME NEW i \in (end - LoopLength + 1) .. (end - Period)
            PROVE  attempts'[i] = attempts[i] /\ attempts'[i + Period] = attempts[i + Period]
        <5>1. i \in 1 .. Len(attempts) /\ i + Period \in 1 .. Len(attempts)
          BY <2>3, <4>1, LoopNumbers
        <5> QED
          BY <2>3, <5>1
      <4>3. RepeatsUpTo(attempts, end)
        BY <2>9, <4>2 DEF RepeatsUpTo
      <4> QED
        BY <2>3, <4>1, <4>3 DEF StoppedLoops
    <3> QED
      BY <3>1, <3>2
  <2> QED
    BY <2>9 DEF StoppedLoops
<1>3. SessionInv /\ StoppedLoops => LoopIsStopped
  BY LoopIsStoppedRestated DEF SessionInv
<1> QED
  BY <1>1, <1>2, <1>3, SessionInvHolds, PTL DEF Spec
-----------------------------------------------------------------------------
(* The whole, and the authority.                                           *)

(* The state is well formed, the windows keep their bounds, and what is in  *)
(* flight is what was let run.                                              *)
THEOREM TypeCorrect == Spec => []TypeOK
<1>1. SessionInv => TypeOK
  <2> SUFFICES ASSUME SessionInv PROVE TypeOK
    OBVIOUS
  <2> USE DEF SessionInv
  <2>1. authority \in Authorities /\ mode \in BOOLEAN /\ clock \in Nat
    BY DEF StateInv
  <2>2. Elements(history) \subseteq Actions /\ Len(history) <= Watch.history
    BY ElementOfSeq DEF StateInv, Elements
  <2>3. Len(watchers.recent) <= Watch.loop_window
    <3>1. Len(attempts) \in Nat /\ Watch.loop_window \in Nat
      BY LenProperties, LoopNumbers DEF StateInv
    <3> QED
      BY <3>1 DEF RecentInv
  <2>4. Len(watchers.hits) <= Watch.drift_window /\ Len(watchers.refs) <= Watch.scan_window
    BY DEF WindowsInv
  <2>5. \A t \in Tools :
          pins[t] \in {r[2] : r \in Announcements} \cup {Missing, Unpinned, live[t]}
    BY DEF PinsInv
  <2>6. \A c \in flying : c.nr \in 1 .. Len(attempts) /\ attempts[c.nr].ran
    BY DEF StateInv
  <2> QED
    BY <2>1, <2>2, <2>3, <2>4, <2>5, <2>6 DEF TypeOK
<1> QED
  BY <1>1, SessionInvHolds, PTL

(* No refused, repeated or unfinished attempt blinds the monitors and the   *)
(* governors to the attempts that follow.                                   *)
THEOREM StoppedInTimeHolds == Spec => []StoppedInTime
BY TypeCorrect, LoopIsStoppedHolds, NoveltyIsFlaggedHolds, TightenedOnlyReadsHolds, PTL
   DEF StoppedInTime

(* What a step does to the authority, and who may revive an expired lease.  *)
LEMMA AuthorityStep ==
    ASSUME SessionInv, [Next]_vars
    PROVE  /\ authority'.version >= authority.version /\ authority'.epoch >= authority.epoch
           /\ (Expired /\ ~Expired') => /\ authority'.version = authority.version + 1
                                        /\ events' = events + 1 /\ attempts' = attempts
<1>0. StateInv /\ authority \in Authorities
      /\ authority.version \in Nat /\ authority.epoch \in Nat
  BY DEF SessionInv, StateInv, Authorities
<1>1. ASSUME NEW a \in Actions, Attempt(a)
      PROVE  Forward(authority, authority') /\ (Expired => Expired')
  <2>1. PICK rec \in Recommendation(a), d \in Decisions(a), ran \in BOOLEAN :
           Attempted(a, rec, d, ran)
    BY <1>0, <1>1, AttemptDecided
  <2>2. /\ Governed(d, Context(a), Reads(a), Advice(rec), clock, mode, config.tighten)
        /\ authority' = IF d.enforcement = "allow" THEN d.patched ELSE authority
    BY <2>1 DEF Attempted
  <2>3. Context(a).authority = authority /\ Context(a).tool = Of[a].tool
    BY DEF Context
  <2>4. Forward(authority, authority')
    BY <1>0, <2>2, <2>3, ForwardReflexive DEF Governed
  <2>5. Expired => Structural(Context(a), clock) # "allow"
    BY <2>3, ExpiredIsStructural, StackAssumption DEF Expired, LeaseExpired
  <2>6. Expired => authority' = authority
    BY <2>2, <2>5 DEF Governed
  <2>7. clock' = clock
    BY <1>1 DEF Attempt
  <2> QED
    BY <2>4, <2>6, <2>7 DEF Expired
<1>2. CASE RevokePermits \/ RenewLease
  <2>1. Forward(authority, authority') /\ authority'.version = authority.version + 1
    BY <1>0, <1>2, OperatorForward
  <2>2. events' = events + 1 /\ attempts' = attempts
    BY <1>2 DEF RevokePermits, RenewLease, Operate, Event
  <2> QED
    BY <1>0, <2>1, <2>2 DEF Forward
<1>3. CASE Tick
  <2>1. authority' = authority /\ clock' = clock + 1 /\ clock \in Nat
    BY <1>0, <1>3 DEF Tick, StateInv
  <2>2. authority.expires \in Nat \cup {None}
    BY <1>0 DEF Authorities
  <2>3. Expired => Expired'
    BY <2>1, <2>2 DEF Expired
  <2> QED
    BY <1>0, <2>1, <2>3
<1>4. CASE UNCHANGED <<authority, clock>>
  BY <1>0, <1>4 DEF Expired
<1>5. Otherwise => RevokePermits \/ RenewLease \/ Tick \/ UNCHANGED <<authority, clock>>
  BY DEF Otherwise, Complete, HandlerRaises, Landed, RegisterTool, ApproveResource,
         ApproveBoundary, SetTighten, Operate, vars
<1> QED
  BY <1>0, <1>1, <1>2, <1>3, <1>4, <1>5, StepCases DEF Forward

(* Neither a call nor its completion takes a revocation, a renewal or a     *)
(* charge back, and no call revives a lease that has run out, although      *)
(* every allowed call renews it.                                            *)
THEOREM AuthorityMovesForwardHolds == Spec => AuthorityMovesForward
<1>1. SessionInv /\ [Next]_vars =>
         [(Expired /\ ~Expired') => authority'.version = authority.version + 1
                                 /\ events' = events + 1 /\ attempts' = attempts]_vars
  BY AuthorityStep
<1>2. SessionInv /\ [Next]_vars =>
         [authority'.version >= authority.version /\ authority'.epoch >= authority.epoch]_vars
  BY AuthorityStep
<1>3. Spec => ExpiredStaysExpired
  BY <1>1, SessionInvHolds, PTL DEF Spec, ExpiredStaysExpired
<1>4. Spec => VersionsOnlyGrow
  BY <1>2, SessionInvHolds, PTL DEF Spec, VersionsOnlyGrow
<1> QED
  BY <1>3, <1>4, PTL DEF AuthorityMovesForward
=============================================================================
