------------------------------ MODULE Monitors ------------------------------
(***************************************************************************)
(* What watches a session: the session action monitor (action_monitor.py,  *)
(* model_canary.py) that scores an action against the actions before it,   *)
(* and the behavior monitors (loop, drift, scanning, novelty, composite)   *)
(* that recommend allow, step_up or deny.  All are functions of bounded    *)
(* windows over the past attempts.  Scores are in hundredths.              *)
(***************************************************************************)
EXTENDS Naturals, Sequences, FiniteSets

CONSTANTS Actions,     \* the actions an agent attempts
          Of,          \* Of[a]: what the monitors read off action a
          Missing,     \* Python's None
          Watch        \* thresholds and windows, see WatchType

Levels == [read |-> 0, bounded |-> 1, external |-> 2, privileged |-> 3]

(* An action with everything the monitors read off its names: the           *)
(* subsystem, directory, network domain and protected zone of its resource, *)
(* the class of its tool, whether its name has a high-risk marker and       *)
(* whether it has a keyword that the task's summary lacks.                  *)
ActionType(a) ==
    /\ Of[a].level \in DOMAIN Levels
    /\ {Of[a].risky, Of[a].off_task} \subseteq BOOLEAN
    /\ {"tool", "class", "args", "ref", "dir", "subsystem", "domain", "zone"} \subseteq DOMAIN Of[a]

WatchType ==
    [history : Nat \ {0}, review : Nat, block : Nat,
     loop_window : Nat \ {0}, pattern : Nat \ {0}, repeats : Nat \ {0, 1},
     drift_window : Nat \ {0}, drift_percent : Nat, scope : SUBSET {Of[a].ref : a \in DOMAIN Of},
     scan_window : Nat \ {0}, max_dirs : Nat, max_files : Nat, dir_entropy : Nat,
     canary : BOOLEAN, expected : SUBSET {Of[a].tool : a \in DOMAIN Of},
     forbidden : SUBSET {Of[a].tool : a \in DOMAIN Of}, tool_entropy : Nat]

ASSUME ActionsAssumption ==
    Actions \subseteq DOMAIN Of /\ \A a \in Actions : ActionType(a)
ASSUME WatchAssumption == Watch \in WatchType

-----------------------------------------------------------------------------
(* The last n elements of a sequence, and a bounded window after an append. *)
LastN(s, n) == SubSeq(s, IF Len(s) > n THEN Len(s) - n + 1 ELSE 1, Len(s))

Windowed(s, x, n) == LastN(Append(s, x), n)

Elements(s) == {s[i] : i \in 1..Len(s)}

Occurrences(s, x) == Cardinality({i \in 1..Len(s) : s[i] = x})

Product[s \in Seq(Nat)] == IF s = <<>> THEN 1 ELSE Head(s) * Product[Tail(s)]

(* The Shannon entropy of the values in s is above h bits:                  *)
(* n^n > 2^(h n) * product of c^c over the counts c.                        *)
EntropyAbove(s, h) ==
    LET n == Len(s)
        firsts == {i \in 1..n : \A j \in 1..(i - 1) : s[j] # s[i]}
        term(i) == IF i \in firsts THEN Occurrences(s, s[i]) ^ Occurrences(s, s[i]) ELSE 1
    IN  n > 1 /\ n ^ n > 2 ^ (h * n) * Product[[i \in 1..n |-> term(i)]]

-----------------------------------------------------------------------------
(* evaluate_heuristic_suspiciousness over the session's history.            *)
Heuristic(history, a) ==
    LET prior == LastN(history, Watch.history)
        external == Levels[Of[a].level] >= Levels["external"]
        escalates == /\ external /\ Len(prior) >= 2
                     /\ \A i \in 1..Len(prior) : Of[prior[i]].level = "read"
        repeated == Cardinality({i \in 1..Len(prior) : Of[prior[i]].tool = Of[a].tool}) >= 2
        novel == external /\ \A i \in 1..Len(prior) : Of[prior[i]].tool # Of[a].tool
        points(flag, p) == IF flag THEN p ELSE 0
        sum == points(escalates, 45) + points(repeated, 20) + points(Of[a].risky, 25)
               + points(Of[a].off_task, 15) + points(novel, 15)
    IN  IF history = <<>> THEN 0 ELSE IF sum > 100 THEN 100 ELSE sum

(* evaluate_canary_delta: looks at the history only, not at the action.     *)
CanaryScore(history) ==
    LET tools == [i \in 1..Len(history) |-> Of[history[i]].tool]
        scores == {IF Elements(tools) \cap Watch.forbidden # {} THEN 100 ELSE 0,
                   IF Watch.expected # {} /\ ~(Elements(tools) \subseteq Watch.expected)
                   THEN 70 ELSE 0,
                   IF EntropyAbove(tools, Watch.tool_entropy) THEN 55 ELSE 0}
    IN  IF ~Watch.canary THEN 0 ELSE CHOOSE x \in scores : \A y \in scores : y <= x

(* SessionActionMonitor.evaluate: score and review_required.                *)
Score(history, a) ==
    LET h == Heuristic(history, a)  c == CanaryScore(history)
    IN  IF c > h THEN c ELSE h

(* _monitoring_violations.                                                  *)
ScoreBlocks(score) == score >= Watch.block

(* Whoever reads the receipt is asked to review it.                         *)
ReviewRequired(score) == score >= Watch.review

-----------------------------------------------------------------------------
(* LoopingToolCallMonitor, after the signature was appended to recent.      *)
Loops(recent) ==
    LET n == Watch.pattern  k == Watch.repeats
        tail == LastN(recent, n * k)
    IN  Len(recent) >= n * k /\ \A i \in 1..(n * (k - 1)) : tail[i] = tail[i + n]

Signature(a) == <<Of[a].tool, Of[a].args>>

(* DriftScorer, after the hit was appended.                                 *)
InScope(a) == Of[a].ref # Missing /\ Of[a].ref \in Watch.scope

Drift(hits) ==
    IF Len(hits) < 2 THEN Missing
    ELSE IF 100 * Occurrences(hits, FALSE) >= Watch.drift_percent * Len(hits)
    THEN "step_up" ELSE "allow"

(* ScanningScorer, after the reference was appended: refs holds <<ref, dir>>*)
Scan(refs) ==
    LET dirs == [i \in 1..Len(refs) |-> refs[i][2]]
    IN  IF Len(refs) < 3 THEN Missing
        ELSE IF \/ Cardinality(Elements(dirs)) > Watch.max_dirs
                \/ Cardinality(Elements(refs)) > Watch.max_files
                \/ EntropyAbove(dirs, Watch.dir_entropy)
        THEN "step_up" ELSE "allow"

(* NoveltyMonitor: the boundaries an action touches.  The first tool class  *)
(* of a session is not novel.                                               *)
Boundaries(a) ==
    {<<"class", Of[a].class>>}
    \cup {b \in {<<"subsystem", Of[a].subsystem>>, <<"domain", Of[a].domain>>, <<"zone", Of[a].zone>>} :
              b[2] # Missing}

Novel(a, seen, approved) ==
    {b \in Boundaries(a) \ (seen \cup approved) :
        b[1] = "class" => \E s \in seen : s[1] = "class"}

(* CompositeMonitor: the worst of the results, None when there are none.    *)
Worst(results) ==
    LET given == results \ {Missing}
    IN  IF given = {} THEN Missing
        ELSE IF "deny" \in given THEN "deny"
        ELSE IF "step_up" \in given THEN "step_up" ELSE "allow"

-----------------------------------------------------------------------------
(* The state of the behavior monitors, and how an attempt updates it.       *)
NewWatchers == [recent |-> <<>>, hits |-> <<>>, refs |-> <<>>, seen |-> {}]

Watched(w, a) ==
    [recent |-> Windowed(w.recent, Signature(a), Watch.loop_window),
     hits |-> Windowed(w.hits, InScope(a), Watch.drift_window),
     refs |-> IF Of[a].ref = Missing THEN w.refs
              ELSE Windowed(w.refs, <<Of[a].ref, Of[a].dir>>, Watch.scan_window),
     seen |-> w.seen \cup Boundaries(a)]

(* Fault: the boundaries are marked as seen before they are compared.       *)
CompositeAdvice_SeenFirst(w, a, approved) ==
    Worst({Drift(Watched(w, a).hits), Scan(Watched(w, a).refs),
           IF Novel(a, Watched(w, a).seen, approved) # {} THEN "step_up" ELSE Missing})

(* What the composite and the loop monitor recommend for an attempt.        *)
CompositeAdvice(w, a, approved) ==
    Worst({Drift(Watched(w, a).hits), Scan(Watched(w, a).refs),
           IF Novel(a, w.seen, approved) # {} THEN "step_up" ELSE Missing})

LoopAdvice(w, a) == IF Loops(Watched(w, a).recent) THEN "step_up" ELSE Missing
=============================================================================
