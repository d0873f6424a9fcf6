------------------------------ MODULE Receipts ------------------------------
(***************************************************************************)
(* The life of a receipt: an action is recorded in the audit log, its      *)
(* bundle is assembled while other actions append to the log, signed,      *)
(* co-signed by the tool, exported for an audience, and handed to relying  *)
(* parties who verify it at any later time.  On the way somebody without   *)
(* the keys may change it, as tamper.py does: mutate a leaf, swap a        *)
(* section for another receipt's, drop a section, or sign it anew.         *)
(***************************************************************************)
EXTENDS ReceiptVerifier

CONSTANTS Shapes,      \* the shapes of the actions recorded
          MaxLog,      \* bound: records in the log
          MaxTime,     \* bound: clock
          MaxEdits,    \* bound: changes to a bundle by others
          Deep         \* bound: the shapes that are changed more than once

ASSUME ShapesAssumption == \A shape \in Shapes : shape \subseteq ShapeOptions
ASSUME BoundsAssumption == MaxLog \in Nat /\ MaxTime \in Nat /\ MaxEdits \in Nat

VARIABLES stage,       \* "new", "recorded", "proved", "built"
          shape,       \* of the action
          log,         \* number of records in the audit log
          now,         \* the clock
          at,          \* when the action ran: proof.created_at
          seq,         \* the action's position in the log
          size,        \* tree size of the inclusion proof read so far
          bundle,      \* the document
          original,    \* the document before anybody else changed it
          edits,       \* how often it was changed
          touched,     \* the leaf or section changed last
          signed       \* what the gate's key has signed

vars == <<stage, shape, log, now, at, seq, size, bundle, original, edits, touched, signed>>

Run == 1                \* the run this receipt is about
DonorRun == 2           \* another run, whose receipt sections are taken from
NoBundle == [s \in {} |-> Absent]

Init == /\ stage = "new" /\ shape = {} /\ log = 0 /\ now = 0 /\ at = 0
        /\ seq = 0 /\ size = 0
        /\ bundle = NoBundle /\ original = NoBundle
        /\ edits = 0 /\ touched = <<>> /\ signed = {}

-----------------------------------------------------------------------------
(* The action and its record in the log.                                    *)
Record(sh) ==
    /\ stage = "new" /\ log < MaxLog
    /\ stage' = "recorded" /\ shape' = sh
    /\ log' = log + 1 /\ seq' = log + 1 /\ at' = now
    /\ UNCHANGED <<now, size, bundle, original, edits, touched, signed>>

(* Any other action appends to the same log.                                *)
OtherAppend ==
    /\ log < MaxLog /\ stage # "built"
    /\ log' = log + 1
    /\ UNCHANGED <<stage, shape, now, at, seq, size, bundle, original, edits, touched, signed>>

(* build_receipt_bundle reads the inclusion proof and then, in a separate   *)
(* read of the log, the checkpoint that goes with it.                       *)
ReadInclusion ==
    /\ stage = "recorded"
    /\ stage' = "proved" /\ size' = log
    /\ UNCHANGED <<shape, log, now, at, seq, bundle, original, edits, touched, signed>>

Assemble ==
    /\ stage = "proved"
    /\ stage' = "built"
    /\ bundle' = BuildBundle(Run, shape, at, <<size, log>>, seq)
    /\ original' = bundle'
    /\ UNCHANGED <<shape, log, now, at, seq, size, edits, touched, signed>>

(* The gate signs what it built; the tool co-signs input and output.        *)
Gate ==
    /\ stage = "built" /\ edits = 0 /\ signed = {}
    /\ bundle' = SignBundle(bundle, "gate", "gate")
    /\ original' = bundle'
    /\ signed' = {Without(bundle, "signatures")}
    /\ UNCHANGED <<stage, shape, log, now, at, seq, size, edits, touched>>

ToolCosigns ==
    /\ stage = "built" /\ edits = 0 /\ ToolWitnesses(bundle) = {}
    /\ bundle' = ToolWitness(bundle, "gate")    \* even a tool the verifier trusts
    /\ original' = bundle'
    /\ UNCHANGED <<stage, shape, log, now, at, seq, size, edits, touched, signed>>

Tick == /\ now < MaxTime
        /\ now' = now + 1
        /\ UNCHANGED <<stage, shape, log, at, seq, size, bundle, original, edits, touched, signed>>

-----------------------------------------------------------------------------
(* Changes by others.                                                       *)
Change(b, what) ==
    /\ stage = "built" /\ b # bundle
    /\ edits < MaxEdits /\ (edits > 0 => shape \in Deep)
    /\ bundle' = b /\ touched' = what /\ edits' = edits + 1
    /\ UNCHANGED <<stage, shape, log, now, at, seq, size, original, signed>>

(* export_bundle_for_audience and migration.                                *)
Export == \/ Change(CompactBundle(bundle), <<"compact", "">>)
          \/ Change(RedactBundle(bundle), <<"redacted", "">>)
          \/ {"v1", "decision", "evidence"} \subseteq DOMAIN bundle
             /\ Change(MigrateBundle(bundle), <<"migrated", "">>)

(* _mutated_scalar: another value of the leaf's type.                       *)
HashLeaves == {"certificate_ref", "context_hash", "bound_context", "record_hash", "leaf",
               "execution_proof_hash", "commitment", "dsig", "binding", "summary"}
SignatureLeaves == {"issuer_signature", "signature", "svid", "statement",
                    "checkpoint_signature"}
FlagLeaves == {"evidence_verified", "side_effect", "credential_ok", "artifact_ok",
               "policy_satisfied", "proved", "composed", "valid", "folded"}

Mutated(s, l, v) ==
    CASE l \in HashLeaves /\ ~(s = "policy" \/ (s = "budget" /\ l = "summary")) -> Junk
      [] l \in SignatureLeaves -> [v EXCEPT !.over = Junk]
      [] l \in FlagLeaves -> ~v
      [] l \in {"outcome", "id", "attestation_path", "assurance", "binding_state",
                "log_public_key"} -> "tampered"
      [] s = "budget" \/ l \in {"budget_effects", "limit"} -> v + 1
      [] OTHER -> 0

LeafMutation ==
    \E s \in DOMAIN bundle \ {"signatures"} : \E l \in DOMAIN bundle[s] :
        Change([bundle EXCEPT ![s][l] = Mutated(s, l, @)], <<s, l>>)

(* The same, with every hash that covers the leaf computed anew, for which  *)
(* no key is needed.                                                        *)
Rehashed(b) ==
    LET p == [b["execution_proof"] EXCEPT
                !.context_hash = IF Has(b, "execution_context")
                                 THEN Hash(b["execution_context"]) ELSE @,
                !.output_hash = IF Has(b, "output") THEN b["output"].body ELSE @,
                !.certificate_ref = IF Has(b, "certificate") THEN Hash(b["certificate"]) ELSE @]
        a == [b["audit_record"] EXCEPT !.execution_proof_hash = Hash(p)]
        summarised == IF Has(b, "evidence")
                      THEN [b EXCEPT !["execution_proof"] = p,
                                     !["evidence"].summary = EvidenceSummary(p)]
                      ELSE [b EXCEPT !["execution_proof"] = p]
    IN  IF Has(b, "audit_record")
        THEN [summarised EXCEPT !["audit_record"] =
                 [a EXCEPT !.record_hash = Hash(AuditBody(a))]]
        ELSE summarised

Forgery ==
    /\ Has(bundle, "execution_proof")
    /\ \E s \in DOMAIN bundle \ {"signatures"} : \E l \in DOMAIN bundle[s] :
           Change(Rehashed([bundle EXCEPT ![s][l] = Mutated(s, l, @)]), <<"forged", l>>)

(* cross_bundle_replay_mutations: the same section of another run's receipt.*)
SwappedSections == {"execution_proof", "certificate", "decision", "output",
                    "execution_context", "authority"}
Donor == BuildBundle(DonorRun, shape, at, <<log, log>>, seq)

SectionSwap ==
    \E s \in SwappedSections \cap DOMAIN bundle :
        Change([bundle EXCEPT ![s] = Donor[s]], <<s, "">>)

DropSection == \E s \in DOMAIN bundle : Change(Without(bundle, s), <<s, "dropped">>)

(* attacker_resign_mutation: only the attacker's signature is left.         *)
AttackerResign ==
    Change(SignBundle(Without(bundle, "signatures"), "attacker", "attacker"),
           <<"signatures", "">>)

Next == \/ \E sh \in Shapes : Record(sh)
        \/ OtherAppend \/ ReadInclusion \/ Assemble \/ Gate \/ ToolCosigns \/ Tick
        \/ Export \/ LeafMutation \/ Forgery \/ SectionSwap \/ DropSection \/ AttackerResign

Spec == Init /\ [][Next]_vars

-----------------------------------------------------------------------------
(* Relying parties.  Default: what verify_receipt_bundle requires when only *)
(* the trust anchors are configured.  Structural: no signature asked for,   *)
(* so that the bundle has to hold together by itself.  Floor: Structural    *)
(* with an assurance floor.                                                 *)
Default == [require_signatures |-> TRUE, trusted_signers |-> {"gate"}, trusted_log |-> TRUE,
            require_identity |-> FALSE, min_tier |-> "none",
            require_mandate_for_budgets |-> TRUE]
Structural == [Default EXCEPT !.require_signatures = FALSE, !.trusted_log = FALSE]
Floor == [Structural EXCEPT !.min_tier = "policy_proved"]

TypeOK ==
    /\ stage \in {"new", "recorded", "proved", "built"}
    /\ shape \in Shapes \cup {{}}
    /\ log \in 0..MaxLog /\ now \in 0..MaxTime /\ at \in 0..now
    /\ seq \in 0..log /\ size \in 0..log /\ edits \in 0..MaxEdits
    /\ {Default, Structural, Floor} \subseteq Environments
    /\ stage = "built" => AuthorityLeaves \subseteq DOMAIN original["authority"]

(* The leaves that no check covers: the time of export, the mirrors of the  *)
(* action, the stored verification, the ordinal of the audit record, the    *)
(* approval section, the monitoring evidence copied from the context, the   *)
(* time of a proof that has no audit record, the credential hash of an      *)
(* identity without a workload proof, the session of a folded proof for an  *)
(* action outside any session, and budget effects added, within a mandate,  *)
(* to the decision of a receipt without a budget section.                   *)
Informational ==
    UNION {{<<"exported_at", "at">>, <<"action", "name">>, <<"verification", "valid">>,
            <<"audit_record", "seq">>, <<"approval", "state">>,
            <<"v1", "recommended_action">>, <<"evidence", "score">>},
           IF "audit" \in shape THEN {} ELSE {<<"execution_proof", "created_at">>},
           IF "workload" \in shape THEN {} ELSE {<<"identity", "credential">>},
           IF "session" \in shape THEN {} ELSE {<<"session_proof", "session">>},
           IF "budget" \notin shape /\ "mandate" \in shape
           THEN {<<"decision", "budget_effects">>} ELSE {}}

(* A receipt that verified does not survive one change to a leaf that is    *)
(* bound to the proof, nor one section of another receipt, even when no     *)
(* signature is asked for (the gate of test_tamper_analysis.py, for every   *)
(* shape of receipt).                                                       *)
SingleMutationDetected ==
    (/\ edits = 1 /\ "signatures" \notin DOMAIN bundle
     /\ Valid(original, Structural, now)
     /\ touched[2] # "dropped" /\ touched[1] \notin {"compact", "redacted", "migrated", "forged"}
     /\ touched \notin Informational)
    => ~Valid(bundle, Structural, now)

(* Whatever is done to a receipt in however many steps, a relying party     *)
(* with the default options only accepts what the gate signed.              *)
AcceptedIsSigned ==
    (stage = "built" /\ Valid(bundle, Default, now))
    => Without(bundle, "signatures") \in signed

(* A receipt accepted under an assurance floor names, in the context its    *)
(* proof commits to, the subject that the identity provider vouched for:    *)
(* the authority section links the two, which only the v2 layout requires   *)
(* to be there.                                                             *)
FloorBindsIdentity ==
    (/\ stage = "built" /\ Has(bundle, "execution_context") /\ Has(bundle, "authority")
     /\ Valid(bundle, Floor, now))
    => /\ Has(bundle, "identity")
       /\ bundle["identity"].svid = Signature("idp", bundle["execution_context"].who)
       /\ bundle["execution_proof"].context_hash = Hash(bundle["execution_context"])

(* The state is well formed, and what verify_receipt_bundle accepts is      *)
(* signed by the gate and, under a floor, about the vouched-for subject.    *)
AcceptedIsVouchedFor == TypeOK /\ AcceptedIsSigned /\ FloorBindsIdentity

(* A verdict on a receipt that did not run under a delegation does not      *)
(* change with time: it stays checkable when its certificate, mandate and   *)
(* identity have expired.                                                   *)
VerdictIsStable ==
    [][(bundle' = bundle /\ "delegation" \notin shape /\ stage = "built"
        /\ Valid(bundle, Default, now)) => Valid(bundle, Default, now')]_vars
=============================================================================
