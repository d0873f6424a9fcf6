------------------------------- MODULE Scrapi -------------------------------
(***************************************************************************)
(* The SCRAPI service of verifier_server.py on several replicas, its       *)
(* middlewares (verifier_auth.py), the publishing client of scrapi.py, and *)
(* a relying party that keeps a verified root of the log.                  *)
(*                                                                         *)
(* A replica is one process with one event loop: a handler runs without    *)
(* interruption between two awaits.  POST /entries has one, the await of   *)
(* the request's body, so it is two steps: Post (middlewares and the       *)
(* writer check) and Register (everything after the body).  The log, its   *)
(* index and the rate limiter's hits are process memory and a restart      *)
(* loses them.  External Transparency Services answer as they please.      *)
(***************************************************************************)
EXTENDS Scitt, FiniteSets, Functions

CONSTANTS
    Servers,        \* replicas of the verifier server
    Clients,        \* callers of publish_signed_statement and /v1/verify
    ApiKey,         \* the key a client sends: "good", "bad" or "none"
    Requests,       \* what is posted: an envelope, and how it is sent
    Configs,        \* deployments: replicas, production, writers, pinned, auth
    Window,         \* the 60 seconds of the rate limiter, in ticks
    Limit,          \* requests per window; 0 or less is no limit
    MaxWait,        \* max_wait of the client, in ticks
    Delays,         \* Retry-After values of an external service
    MaxTime,        \* bound: the clock stops here
    MaxPosts,       \* bound: requests of all clients together
    MaxRestarts     \* bound: restarts of all replicas together

ASSUME ScrapiAssumption ==
    /\ IsFiniteSet(Servers)
    /\ ApiKey \in [Clients -> {"good", "bad", "none"}]
    /\ \A cf \in Configs : /\ cf.production \in BOOLEAN
                           /\ cf.pinned \in BOOLEAN
                           /\ cf.writers \subseteq cf.replicas
                           /\ cf.replicas \subseteq Servers
                           /\ cf.auth \in {"off", "set", "missing"}
    /\ \A q \in Requests : /\ q.shape \in {"cose", "too_large", "wrong_type"}
    /\ {Window, Limit, MaxWait, MaxTime, MaxPosts, MaxRestarts} \cup Delays \subseteq Nat

VARIABLES
    config,         \* the environment variables of the deployment
    log,            \* server -> _transparency_service._entries
    entryIndex,     \* server -> _entry_index: statement -> position from 0
    incarnation,    \* server -> how often its process was restarted
    hits,           \* server -> RateLimitMiddleware._hits: identity -> hits
    awaiting,       \* requests whose handler awaits the body
    client,         \* client -> its call of publish_signed_statement
    anchor,         \* the relying party: the log it follows and its root
    now,            \* the monotonic clock
    issued,         \* history: every receipt a replica sent
    admitted,       \* history: server -> identity -> hits let through
    posts           \* history: requests made so far

vars == <<config, log, entryIndex, incarnation, hits, awaiting, client, anchor,
          now, issued, admitted, posts>>
serverVars == <<log, entryIndex, incarnation>>
limiterVars == <<hits, admitted>>

(* _rate_limit_identity: the API key as sent, else the address.             *)
Identity(c) == IF ApiKey[c] # "none" THEN <<"key", ApiKey[c]>> ELSE <<"ip", c>>
Identities == {Identity(c) : c \in Clients}

Statements == {q.statement : q \in Requests}
Idle == [pc |-> "idle", deadline |-> 0, wake |-> 0]
NoAnchor == [on |-> FALSE, alarm |-> FALSE]

Restarts == FoldFunction(+, 0, incarnation)
Restarted == \E s \in Servers : incarnation[s] > 0

(***************************************************************************)
(* load_service_signing_key: the key of the environment, the same for      *)
(* every replica and every restart, or a fresh one per process.            *)
(***************************************************************************)
(* Fault: the environment is not consulted.                                 *)
ServiceKey_Ephemeral(s) == <<s, incarnation[s]>>

ServiceKey(s) == IF config.pinned THEN <<"pinned">> ELSE <<s, incarnation[s]>>

(***************************************************************************)
(* The middlewares, outermost first: ApiKeyMiddleware, then the limiter.   *)
(***************************************************************************)
Authorized(c) == config.auth = "off" \/ (config.auth = "set" /\ ApiKey[c] = "good")

(* The next entry of a bucket: the time, and its number among those of the  *)
(* same tick.                                                               *)
Hit(s, id) == [at |-> now, nr |-> Cardinality({h \in hits[s][id] : h.at = now})]

(* Fault: the hits of the window's last tick are forgotten.                 *)
RecentHits_ShortWindow(s, id) == {h \in hits[s][id] : now - h.at < Window - 1}

RecentHits(s, id) == {h \in hits[s][id] : now - h.at < Window}

WithinLimit(s, id) == Limit = 0 \/ Cardinality(RecentHits(s, id)) < Limit

CountHit(s, id) ==
    /\ hits' = IF Limit = 0 THEN hits
               ELSE [hits EXCEPT ![s][id] = RecentHits(s, id) \cup {Hit(s, id)}]
    /\ admitted' = [admitted EXCEPT ![s][id] = @ \cup {Hit(s, id)}]

RefuseHit(s, id) ==
    /\ hits' = [hits EXCEPT ![s][id] = RecentHits(s, id)]
    /\ UNCHANGED admitted

(* Fault: every replica accepts writes.                                     *)
TransparencyWriterAllowed_Always(s) == TRUE

TransparencyWriterAllowed(s) == ~config.production \/ s \in config.writers

(***************************************************************************)
(* The call of publish_signed_statement ends with a result or an exception;*)
(* `now + delay > deadline' is tested before each sleep.                   *)
(***************************************************************************)
Returns(c, statement, receipt, s) ==
    client' = [client EXCEPT ![c] = [pc |-> "returned", deadline |-> 0, wake |-> 0,
                                     statement |-> statement, receipt |-> receipt, server |-> s]]

Raises(c) == client' = [client EXCEPT ![c] = [Idle EXCEPT !.pc = "raised"]]

SleepOrGiveUp(c, delay, deadline) ==
    IF now + delay > deadline THEN Raises(c)
    ELSE client' = [client EXCEPT ![c] = [pc |-> "polling", deadline |-> deadline,
                                          wake |-> now + delay]]

CanPost(c) ==
    /\ client[c].pc \in {"idle", "returned", "raised"}
    /\ posts < MaxPosts
    /\ now + MaxWait < MaxTime

(***************************************************************************)
(* POST /entries at a replica, up to the await of the body.                *)
(***************************************************************************)
Post(c, s, request) ==
    /\ CanPost(c)
    /\ posts' = posts + 1
    /\ \/ /\ ~Authorized(c)                            \* 401 or 503
          /\ Raises(c)
          /\ UNCHANGED <<limiterVars, awaiting>>
       \/ /\ Authorized(c) /\ ~WithinLimit(s, Identity(c))   \* 429
          /\ RefuseHit(s, Identity(c))
          /\ Raises(c)
          /\ UNCHANGED awaiting
       \/ /\ Authorized(c) /\ WithinLimit(s, Identity(c))
          /\ CountHit(s, Identity(c))
          /\ IF TransparencyWriterAllowed(s)
             THEN /\ awaiting' = awaiting \cup
                        {[client |-> c, server |-> s, request |-> request, live |-> TRUE]}
                  /\ client' = [client EXCEPT ![c] = [Idle EXCEPT !.pc = "waiting"]]
             ELSE Raises(c) /\ UNCHANGED awaiting      \* 409
    /\ UNCHANGED <<config, serverVars, anchor, now, issued>>

(***************************************************************************)
(* POST /v1/verify: stateless but for the limiter it shares.               *)
(***************************************************************************)
VerifyCall(c, s) ==
    /\ posts < MaxPosts
    /\ Authorized(c)
    /\ posts' = posts + 1
    /\ IF WithinLimit(s, Identity(c)) THEN CountHit(s, Identity(c))
                                      ELSE RefuseHit(s, Identity(c))
    /\ UNCHANGED <<config, serverVars, awaiting, client, anchor, now, issued>>

(***************************************************************************)
(* The rest of POST /entries, once the body is there.                      *)
(***************************************************************************)
RegistrationVerdict(r) ==
    CASE r.request.shape = "too_large" -> "Payload Too Large"
      [] r.request.shape = "wrong_type" -> "Unsupported Content Type"
      [] OTHER -> CheckRegistrationPolicy(r.request.statement)

Refuse(r) ==
    /\ RegistrationVerdict(r) # "registered"
    /\ awaiting' = awaiting \ {r}
    /\ IF r.live THEN Raises(r.client) ELSE UNCHANGED client
    /\ UNCHANGED <<config, serverVars, limiterVars, anchor, now, issued, posts>>

(* Fault: a new entry is not put into the index.                            *)
Register_NotIndexed(r) ==
    LET s == r.server
        statement == r.request.statement
        known == statement \in DOMAIN entryIndex[s]
        index == IF known THEN entryIndex[s][statement] ELSE Len(log[s])
        newLog == IF known THEN log[s] ELSE Append(log[s], statement)
        receipt == IssueInclusionReceipt(newLog, index, ServiceKey(s))
    IN /\ RegistrationVerdict(r) = "registered"
       /\ log' = [log EXCEPT ![s] = newLog]
       /\ issued' = issued \cup {[server |-> s, statement |-> statement, receipt |-> receipt]}
       /\ awaiting' = awaiting \ {r}
       /\ IF r.live THEN Returns(r.client, statement, receipt, s) ELSE UNCHANGED client
       /\ UNCHANGED <<config, entryIndex, incarnation, limiterVars, anchor, now, posts>>

Register(r) ==
    LET s == r.server
        statement == r.request.statement
        known == statement \in DOMAIN entryIndex[s]
        index == IF known THEN entryIndex[s][statement] ELSE Len(log[s])
        newLog == IF known THEN log[s] ELSE Append(log[s], statement)
        receipt == IssueInclusionReceipt(newLog, index, ServiceKey(s))
    IN /\ RegistrationVerdict(r) = "registered"
       /\ log' = [log EXCEPT ![s] = newLog]
       /\ entryIndex' = [entryIndex EXCEPT ![s] = Put(@, statement, index)]
       /\ issued' = issued \cup {[server |-> s, statement |-> statement, receipt |-> receipt]}
       /\ awaiting' = awaiting \ {r}
       /\ IF r.live THEN Returns(r.client, statement, receipt, s) ELSE UNCHANGED client
       /\ UNCHANGED <<config, incarnation, limiterVars, anchor, now, posts>>

(***************************************************************************)
(* The client's timeout or a lost connection.  The replica may not have    *)
(* had the body (its await fails and nothing is registered), or it may     *)
(* still register the statement and answer nobody.                         *)
(***************************************************************************)
Disconnect(r) ==
    /\ r.live
    /\ Raises(r.client)
    /\ \/ awaiting' = awaiting \ {r}
       \/ awaiting' = (awaiting \ {r}) \cup {[r EXCEPT !.live = FALSE]}
    /\ UNCHANGED <<config, serverVars, limiterVars, anchor, now, issued, posts>>

(***************************************************************************)
(* GET /entries/{entry_id}: a fresh receipt under the current root, or 404 *)
(* and nothing.  The limiter does not count it.                            *)
(***************************************************************************)
Resolve(c, s, statement) ==
    /\ posts < MaxPosts
    /\ posts' = posts + 1
    /\ Authorized(c)
    /\ statement \in DOMAIN entryIndex[s]
    /\ issued' = issued \cup
          {[server |-> s, statement |-> statement,
            receipt |-> IssueInclusionReceipt(log[s], entryIndex[s][statement], ServiceKey(s))]}
    /\ UNCHANGED <<config, serverVars, limiterVars, awaiting, client, anchor, now>>

(***************************************************************************)
(* publish_signed_statement to an external service: its first answer, and  *)
(* the answers to the polls of its Location.  A poll sends no API key.     *)
(***************************************************************************)
PublishExternal(c) ==
    /\ CanPost(c)
    /\ posts' = posts + 1
    /\ \/ client' = [client EXCEPT ![c] = [Idle EXCEPT !.pc = "returned"]]  \* 201
       \/ Raises(c)               \* an error, no or a refused Location, no answer
       \/ \E d \in Delays : SleepOrGiveUp(c, d, now + MaxWait)  \* 202
    /\ UNCHANGED <<config, serverVars, limiterVars, awaiting, anchor, now, issued>>

(* Fault: the deadline is computed anew in every round.                     *)
PollDeadline_Sliding(c) == now + MaxWait

PollDeadline(c) == client[c].deadline

Poll(c) ==
    /\ client[c].pc = "polling"
    /\ now >= client[c].wake
    /\ \/ client' = [client EXCEPT ![c] = [Idle EXCEPT !.pc = "returned"]]  \* 200
       \/ \E d \in Delays : SleepOrGiveUp(c, d, PollDeadline(c))     \* 204
       \/ Raises(c)                                                        \* other
    /\ UNCHANGED <<config, serverVars, limiterVars, awaiting, anchor, now, issued, posts>>

(***************************************************************************)
(* The relying party takes a key and a root (scitt_keys, root()), and      *)
(* later moves to the current root with a consistency receipt.  A receipt  *)
(* that does not verify, or that the service cannot issue because its log  *)
(* is now shorter, is an alarm.                                            *)
(***************************************************************************)
TakeAnchor(s) ==
    /\ ~anchor.on
    /\ log[s] # <<>>
    /\ anchor' = [on |-> TRUE, alarm |-> FALSE, server |-> s, key |-> ServiceKey(s), root |-> log[s]]
    /\ UNCHANGED <<config, serverVars, limiterVars, awaiting, client, now, issued, posts>>

FollowLog ==
    /\ anchor.on /\ ~anchor.alarm
    /\ LET s == anchor.server
           size == Len(anchor.root)
           verified == /\ size <= Len(log[s])
                       /\ VerifyConsistencyReceipt(
                             IssueConsistencyReceipt(log[s], size, ServiceKey(s)),
                             anchor.root, anchor.key)
       IN anchor' = IF verified THEN [anchor EXCEPT !.root = log[s]]
                    ELSE [anchor EXCEPT !.alarm = TRUE]
    /\ UNCHANGED <<config, serverVars, limiterVars, awaiting, client, now, issued, posts>>

(***************************************************************************)
(* A replica's process ends and a new one starts; its connections break.   *)
(***************************************************************************)
FreshIndex(s) == <<>>

Restart(s) ==
    /\ Restarts < MaxRestarts
    /\ log' = [log EXCEPT ![s] = <<>>]
    /\ entryIndex' = [entryIndex EXCEPT ![s] = FreshIndex(s)]
    /\ incarnation' = [incarnation EXCEPT ![s] = @ + 1]
    /\ hits' = [hits EXCEPT ![s] = [id \in Identities |-> {}]]
    /\ admitted' = [admitted EXCEPT ![s] = [id \in Identities |-> {}]]
    /\ awaiting' = {r \in awaiting : r.server # s}
    /\ client' = [c \in Clients |->
                    IF \E r \in awaiting : r.server = s /\ r.client = c /\ r.live
                    THEN [Idle EXCEPT !.pc = "raised"] ELSE client[c]]
    /\ UNCHANGED <<config, anchor, now, issued, posts>>

Tick ==
    /\ now < MaxTime
    /\ now' = now + 1
    /\ UNCHANGED <<config, serverVars, limiterVars, awaiting, client, anchor, issued, posts>>

Init ==
    /\ config \in Configs
    /\ log = [s \in Servers |-> <<>>]
    /\ entryIndex = [s \in Servers |-> <<>>]
    /\ incarnation = [s \in Servers |-> 0]
    /\ hits = [s \in Servers |-> [id \in Identities |-> {}]]
    /\ admitted = [s \in Servers |-> [id \in Identities |-> {}]]
    /\ awaiting = {}
    /\ client = [c \in Clients |-> Idle]
    /\ anchor = NoAnchor
    /\ now = 0
    /\ issued = {}
    /\ posts = 0

Next ==
    \/ \E c \in Clients, s \in config.replicas, q \in Requests : Post(c, s, q)
    \/ \E c \in Clients, s \in config.replicas : VerifyCall(c, s)
    \/ \E r \in awaiting : Refuse(r) \/ Register(r) \/ Disconnect(r)
    \/ \E c \in Clients, s \in Servers, st \in Statements : Resolve(c, s, st)
    \/ \E c \in Clients : PublishExternal(c) \/ Poll(c)
    \/ \E s \in config.replicas : TakeAnchor(s) \/ Restart(s)
    \/ FollowLog
    \/ Tick

Spec == Init /\ [][Next]_vars

(* A request is answered or its client gives up on it (httpx has a timeout);*)
(* a client that polls runs; the clock advances.                            *)
Answered(c) == \E r \in awaiting : /\ r.client = c /\ r.live
                                   /\ Refuse(r) \/ Register(r) \/ Disconnect(r)
FairSpec == /\ Spec
            /\ WF_vars(Tick)
            /\ \A c \in Clients : WF_vars(Answered(c)) /\ WF_vars(Poll(c))

-----------------------------------------------------------------------------
(* The types of the replicas' memory, the requests and the clients.         *)
TypeOK ==
    /\ config \in Configs
    /\ log \in [Servers -> Seq(Statements)]
    /\ \A s \in Servers : /\ DOMAIN entryIndex[s] \subseteq Statements
                          /\ Range(entryIndex[s]) \subseteq 0 .. (Len(log[s]) - 1)
    /\ hits \in [Servers -> [Identities -> SUBSET [at : 0 .. now, nr : Nat]]]
    /\ posts \in 0 .. MaxPosts
    /\ awaiting \subseteq [client : Clients, server : Servers, request : Requests,
                           live : BOOLEAN]
    /\ \A c \in Clients : client[c].pc \in {"idle", "waiting", "polling", "returned", "raised"}
    /\ now \in 0 .. MaxTime

(* A statement has one place in a replica's log however often it is posted, *)
(* answered late or posted again after a lost answer, and the index finds   *)
(* it there (scrapi_register's idempotent re-registration).                 *)
OneEntryPerStatement ==
    \A s \in Servers : \A i, j \in DOMAIN log[s] :
        /\ log[s][i] = log[s][j] => i = j
        /\ log[s][i] \in DOMAIN entryIndex[s] /\ entryIndex[s][log[s][i]] = i - 1

(* A receipt proves what it says to whoever holds it: when it verifies for  *)
(* some statement under a replica's key, that statement is what the replica *)
(* issued it for, whichever other statements the receipt is tried with.     *)
ReceiptBindsStatement ==
    \A x \in issued : \A st \in Statements, s \in Servers :
        VerifyReceipt(st, x.receipt, ServiceKey(s)) => st = x.statement

(* With a pinned key a receipt verifies for ever, under the key any replica *)
(* now publishes, restarts and later entries notwithstanding ("so receipts  *)
(* stay verifiable across restarts", verifier_server.py:7).                 *)
ReceiptsStayVerifiable ==
    config.pinned => \A x \in issued, s \in Servers :
                        VerifyReceipt(x.statement, x.receipt, ServiceKey(s))

(* In production, with at most one replica flagged as the writer and no     *)
(* restart, all receipts are about one history: of the roots two of them    *)
(* sign, one extends the other (_transparency_writer_allowed: the tree must *)
(* not fork).                                                               *)
SingleHistory ==
    (config.production /\ Cardinality(config.writers) <= 1 /\ ~Restarted) =>
        \A x, y \in issued : LET p == x.receipt.signature.over
                                 q == y.receipt.signature.over
                             IN IsPrefix(p, q) \/ IsPrefix(q, p)

(* In every window of the limiter, wherever it starts, a replica lets at    *)
(* most Limit requests of one identity through.                             *)
RateBound ==
    Limit > 0 => \A s \in Servers, id \in Identities, last \in 0 .. now :
        Cardinality({h \in admitted[s][id] : h.at <= last /\ last - h.at < Window}) <= Limit

(* A relying party that follows a log by consistency receipts is never      *)
(* alarmed by a service that was not restarted.                             *)
HonestLogNoAlarm == anchor.alarm => incarnation[anchor.server] > 0

(* What a publisher gets back makes its statement transparent: attached to  *)
(* a statement that was posted as sign_statement writes it, the receipt is  *)
(* accepted, and so is a second copy of it next to the first.               *)
TransparentVerifies ==
    \A c \in Clients :
        (client[c].pc = "returned" /\ "receipt" \in DOMAIN client[c]
         /\ client[c].statement = Bare(client[c].statement)
         /\ ~Restarted) =>
            LET once == AttachReceipt(client[c].statement, client[c].receipt)
                twice == AttachReceipt(once, client[c].receipt)
            IN \A st \in {once, twice} : VerifyTransparentStatement(st, ServiceKey(client[c].server))

(* Every call of publish_signed_statement ends, with a result or an         *)
(* exception: requests are answered or time out and polling has a deadline. *)
(* That a single request ends is assumed (see Fairness).                    *)
PublishEnds ==
    \A c \in Clients : client[c].pc \in {"waiting", "polling"}
                          ~> client[c].pc \in {"returned", "raised"}

(* A replica's log and index agree after every retry and restart, and a     *)
(* relying party that follows the log agrees with them.                     *)
LogAndIndexAgree == TypeOK /\ OneEntryPerStatement /\ HonestLogNoAlarm

(* A receipt that was issued verifies: for the service's later keys and in  *)
(* the statement that its publisher attaches it to.                         *)
ReceiptsVerify == ReceiptsStayVerifiable /\ TransparentVerifies
=============================================================================
