------------------------------- MODULE Witness ------------------------------
(***************************************************************************)
(* Checkpoint witnessing (agentauth/receipts/witness.py) and the consumer  *)
(* that requires a quorum of co-signatures (audit.py).                     *)
(*                                                                         *)
(* The log is not trusted: it may show any checkpoint it can sign, forks   *)
(* of its history included, to any witness, in any order and any number of *)
(* times.  Co-signatures are over the checkpoint core, so whoever collects *)
(* them can put them together.  A refusal changes nothing and is therefore *)
(* not a step.  Its names are its own, for a module that EXTENDS the log   *)
(* and its witnesses.                                                      *)
(***************************************************************************)
EXTENDS Naturals, Sequences, FiniteSets

CONSTANTS Witnesses,     \* the consumer's trusted witnesses
          Faulty,        \* those that sign without following the protocol
          Required,      \* required_witnesses
          Entries,       \* log entries
          Checkpoints,   \* the cores the log is able to sign
          None,          \* a witness that has endorsed nothing yet
          MaxRestarts    \* bound: witnesses that ever lose their memory

Cores == [count : Nat, tip : Seq(Entries), root : Seq(Entries)]

ASSUME WitnessAssumption == /\ IsFiniteSet(Witnesses)
                            /\ Faulty \subseteq Witnesses
                            /\ Required \in Nat
ASSUME CheckpointAssumption == Checkpoints \subseteq Cores /\ None \notin Cores
ASSUME RestartAssumption == MaxRestarts \in Nat

VARIABLES last,          \* last[w]: _last_seen of witness w
          cosigned,      \* pairs <<w, core>> that w has signed
          restarted      \* witnesses that lost their memory at least once

witnessVars == <<last, cosigned, restarted>>

WitnessInit == /\ last = [w \in Witnesses |-> None]
        /\ cosigned = {}
        /\ restarted = {}

Extends(s, t) == Len(s) <= Len(t) /\ \A i \in 1..Len(s) : t[i] = s[i]

(* A consistency proof, by the sizes it claims and the two roots its path   *)
(* rebuilds.  Whoever presents one claims any sizes, of trees of any shape, *)
(* and rebuilds any root that extends the one he starts from and no other   *)
(* (that is what the runs and theorems on ConsistencyVerifier show).        *)
Roots == {c.root : c \in Checkpoints} \cup {<<>>}
Counts == {c.count : c \in Checkpoints}
ConsistencyProofs ==
    {p \in [old_size : Counts, new_size : Counts, from : Roots, to : Roots] :
        Extends(p.from, p.to)}

(* AuditChain.verify_consistency: the proof is for the sizes the two cores  *)
(* state and rebuilds their roots; from size 0 its path must be empty.      *)
VerifyConsistency(old, new, p) ==
    /\ p.old_size = old.count /\ p.new_size = new.count
    /\ IF old.count = 0 THEN p.from = <<>>
                        ELSE p.from = old.root /\ p.to = new.root

(* The cores that some proof leads to from core c.                          *)
ProvableFrom ==
    [c \in Checkpoints |->
        {d \in Checkpoints : \E p \in ConsistencyProofs : VerifyConsistency(c, d, p)}]

(* Fault: equal sizes are re-endorsed without comparing the core.           *)
WouldEndorse_SameSize(w, c) ==
    \/ last[w] = None
    \/ last[w] # None /\ c.count = last[w].count
    \/ /\ last[w] # None /\ c.count > last[w].count
       /\ c \in ProvableFrom[last[w]]

WouldEndorse(w, c) ==
    \/ last[w] = None                                  \* first sighting
    \/ c = last[w]                                     \* idempotent
    \/ /\ last[w] # None /\ c.count > last[w].count
       /\ c \in ProvableFrom[last[w]]

(* Fault: _last_seen is kept only on the first sighting.                    *)
Cosign_KeepsFirst(w, c) ==
    /\ WouldEndorse(w, c)
    /\ cosigned' = cosigned \cup {<<w, c>>}
    /\ last' = IF last[w] = None THEN [last EXCEPT ![w] = c] ELSE last
    /\ UNCHANGED restarted

Cosign(w, c) ==
    /\ WouldEndorse(w, c)
    /\ cosigned' = cosigned \cup {<<w, c>>}
    /\ last' = [last EXCEPT ![w] = c]
    /\ UNCHANGED restarted

SignAnything(w, c) ==             \* add_witness_cosignature, unsafe
    /\ w \in Faulty
    /\ cosigned' = cosigned \cup {<<w, c>>}
    /\ UNCHANGED <<last, restarted>>

Restart(w) ==                     \* _last_seen lives in process memory only
    /\ Cardinality(restarted \cup {w}) <= MaxRestarts
    /\ last' = [last EXCEPT ![w] = None]
    /\ restarted' = restarted \cup {w}
    /\ UNCHANGED cosigned

WitnessNext == \E w \in Witnesses : \/ \E c \in Checkpoints : Cosign(w, c) \/ SignAnything(w, c)
                             \/ Restart(w)

WitnessSpec == WitnessInit /\ [][WitnessNext]_witnessVars

-----------------------------------------------------------------------------
(* count_valid_witness_cosignatures: distinct trusted keys that signed c.   *)
Signers(c) == {w \in Witnesses : <<w, c>> \in cosigned}
Accepted(c) == Cardinality(Signers(c)) >= Required

WitnessTypeOK ==
    /\ last \in [Witnesses -> Checkpoints \cup {None}]
    /\ cosigned \subseteq Witnesses \X Checkpoints
    /\ restarted \subseteq Witnesses

(* Two cores that belong to one growing history.                            *)
OneHistory(c, d) ==
    /\ c.count = d.count => c = d
    /\ 0 < c.count /\ c.count < d.count => Extends(c.root, d.root)

Linear(w) ==
    \A c, d \in Checkpoints :
        <<w, c>> \in cosigned /\ <<w, d>> \in cosigned => OneHistory(c, d)

Steady == Witnesses \ (Faulty \cup restarted)

(* Whatever the log shows a correct witness that keeps running, in whatever *)
(* order, any two cores it has signed belong to one history.                *)
SteadyIsLinear == \A w \in Steady : Linear(w)

(* witness.py: "the fork can never be laundered into a quorum-signed        *)
(* checkpoint that a verifier would accept".  Two checkpoints that both     *)
(* reach the consumer's quorum belong to one history.                       *)
QuorumNoFork ==
    \A c, d \in Checkpoints : Accepted(c) /\ Accepted(d) => OneHistory(c, d)
=============================================================================
