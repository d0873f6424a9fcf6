------------------------------ MODULE Recorder ------------------------------
(***************************************************************************)
(* AgentWrapper.record (wrapper.py): what a receipt says about a call.     *)
(* Output data is reduced to whether the policy accepts it, and to whether *)
(* the caller gets it or a blocked sentinel in its place.                  *)
(***************************************************************************)
EXTENDS Naturals

Modes == {"shadow", "recommend", "bounded_auto", "prove"}

Allowing == {"allow", "allow_with_obligations", "allow_with_review"}

Outcomes == Allowing \cup {"deny", "pending_step_up", "pending_approval",
                           "budget_reservation_required"}

(* default_outcome, without obligations.                                    *)
DefaultOutcome(ok, review) ==
    IF ~ok THEN "deny" ELSE IF review THEN "allow_with_review" ELSE "allow"

(* The outcome: the reservation hook overrides what the caller asked for,   *)
(* and the caller's outcome overrides the policy's.                         *)
Resolved(explicit, reserve, ok, review) ==
    IF reserve THEN "budget_reservation_required"
    ELSE IF explicit \in Outcomes THEN explicit
    ELSE DefaultOutcome(ok, review)

(* The sentinel replaces the output when bounded_auto finds a violation;    *)
(* the policy is then evaluated again, on the sentinel.                     *)
Withheld(mode, violated) == mode = "bounded_auto" /\ violated

Satisfied(mode, standing, outputBad, sentinelBad) ==
    IF Withheld(mode, standing \/ outputBad) THEN ~(standing \/ sentinelBad)
    ELSE ~(standing \/ outputBad)

(* A requested prover that returns no proof makes record() raise.           *)
StrictProver(mode) == mode \in {"prove", "bounded_auto"}
=============================================================================
