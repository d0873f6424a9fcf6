-------------------------- MODULE ReceiptVerifier --------------------------
(***************************************************************************)
(* verify_receipt_bundle (export.py) and the checks it calls: each is the  *)
(* set of issues it reports for a bundle b, given the relying party's      *)
(* options env and the time now.  A bundle is valid when none reports any. *)
(***************************************************************************)
EXTENDS ReceiptFormat

(* The environment of a relying party: variables and call options.          *)
Environments ==
    [require_signatures : BOOLEAN, trusted_signers : SUBSET {"gate", "attacker"},
     trusted_log : BOOLEAN, require_identity : BOOLEAN,
     min_tier : {"none", "shadow", "policy_proved", "composed_proved"},
     require_mandate_for_budgets : BOOLEAN]

Has(b, s) == s \in DOMAIN b
Issue(condition, code) == IF condition THEN {code} ELSE {}

-----------------------------------------------------------------------------
(* Schema and required sections.                                            *)
SchemaIssues(b) ==
    Issue(Has(b, "schema") => b["schema"].id \notin {"v1", "v2"}, "schema_mismatch")
    \cup Issue(/\ Has(b, "schema") /\ b["schema"].id = "v2"
               /\ \E s \in {"decision", "authority", "action", "evidence"} : ~Has(b, s),
               "schema_mismatch")

(* The arguments hash of an MCP call covers the input it carries.           *)
McpArgumentsHashIssues(b) ==
    Issue(/\ Has(b, "execution_context")
          /\ b["execution_context"].arguments_hash # b["execution_context"].input,
          "context_mismatch")

(* Monitoring, credential and artifact attestations against the outcome,    *)
(* for a policy that enables the three of them.                             *)
ReviewThreshold == 1    \* a score from here on sets review_required
Score(b) == IF Has(b, "evidence") /\ b["evidence"].score # Absent THEN b["evidence"].score
            ELSE IF Has(b, "execution_context") THEN b["execution_context"].score
            ELSE Absent

AttestationIssues(b) ==
    LET allowed == Has(b, "decision") /\ b["decision"].outcome = "allow"
        ctx == b["execution_context"]
    IN  Issue(/\ Has(b, "policy") /\ allowed
              /\ \/ Score(b) # Absent /\ Score(b) >= ReviewThreshold
                 \/ Has(b, "execution_context") /\ ~(ctx.credential_ok /\ ctx.artifact_ok),
              "decision_mismatch")

(* Output and context against the hashes in the proof.                      *)
OutputContextIssues(b, p) ==
    Issue(Has(b, "output") /\ b["output"].body # p.output_hash, "output_mismatch")
    \cup Issue(Has(b, "execution_context") /\ Hash(b["execution_context"]) # p.context_hash,
               "context_mismatch")

-----------------------------------------------------------------------------
(* A record's inclusion: the checkpoint's signature, then one tree for both.*)
AuditInclusionIssues(b, env) ==
    Issue(/\ Has(b, "audit_inclusion")
          /\ LET i == b["audit_inclusion"]
                 sig == i.checkpoint_signature
             IN  \/ ~Has(b, "audit_record")
                 \/ ~Verifies(sig, i.count)
                 \/ env.trusted_log /\ sig.key # "log"
                 \/ i.tree_size # i.count
                 \/ i.leaf # b["audit_record"].record_hash,
          "audit_inclusion_invalid")

(* The audit record against the proof of this bundle, its own hash and the  *)
(* log key the bundle carries.                                              *)
AuditRecordIssues(b, p) ==
    Issue(/\ Has(b, "audit_record")
          /\ LET a == b["audit_record"]
             IN  \/ Hash(AuditBody(a)) # a.record_hash
                 \/ a.proof_id # p.proof_id
                 \/ a.execution_proof_hash # Hash(p)
                 \/ /\ Has(b, "audit_inclusion")
                    /\ \/ a.signature.key # b["audit_inclusion"].log_public_key
                       \/ a.signature.over # a.record_hash,
          "audit_inclusion_invalid")

-----------------------------------------------------------------------------
(* Identity evidence: the SVID's signature, and its claims against the      *)
(* authority block.  The SVID's expiry is not checked.                      *)
IdentityIssues(b) ==
    Issue(/\ Has(b, "identity")
          /\ \/ ~Verifies(b["identity"].svid, b["identity"].sub)
             \/ Has(b, "authority") /\ b["authority"].who # b["identity"].sub,
          "authority_mismatch")

IdentityBound(b) == Has(b, "identity") /\ IdentityIssues(b) = {}

(* The workload's signature over this proof, by the authority's presenter.  *)
WorkloadProofIssues(b, p) ==
    Issue(/\ Has(b, "workload_proof")
          /\ LET w == b["workload_proof"]
                 who == IF Has(b, "execution_context") THEN b["execution_context"].who
                        ELSE IF Has(b, "authority") THEN b["authority"].who ELSE w.signature.key
                 credential == IF Has(b, "identity") THEN b["identity"].credential
                               ELSE IF w.binding = Junk THEN Junk ELSE w.binding[5]
             IN  \/ w.binding # WorkloadBinding(p, credential)
                 \/ ~Verifies(w.signature, w.binding)
                 \/ w.signature.key # who,
          "proof_invalid")

WorkloadProved(b, p) == Has(b, "workload_proof") /\ WorkloadProofIssues(b, p) = {}

(* The SCITT statement covers the canonical encoding of all but itself.     *)
ScittIssues(b) ==
    Issue(/\ Has(b, "scitt")
          /\ ~Verifies(b["scitt"].statement, Without(b, "scitt")),
          "scitt_invalid")

(* Tool co-signatures are checked on their own; an action with side effects *)
(* must carry one.                                                          *)
ToolWitnesses(b) == {d \in Descriptors(b) : d.role = "tool"}

ToolWitnessIssues(b) ==
    Issue(\E d \in ToolWitnesses(b) : d.over # Hash(d.body), "signature_invalid")
    \cup Issue(Has(b, "action") /\ b["action"].side_effect /\ ToolWitnesses(b) = {},
               "witness_divergence")

SessionProofIssues(b, p) ==
    Issue(/\ Has(b, "session_proof")
          /\ LET s == b["session_proof"]
             IN  \/ p.session # Absent /\ s.session # p.session
                 \/ s.policy # p.policy_commitment
                 \/ s.action_output # p.output_hash
                 \/ ~s.folded,
          "session_proof_invalid")

(* The delegation the call ran under, still valid at the time of checking.  *)
DelegationIssues(b, now) ==
    Issue(/\ Has(b, "execution_context")
          /\ LET c == b["execution_context"]
             IN  /\ c.delegation_id # Absent \/ c.ddoc # Absent
                 /\ \/ c.ddoc = Absent
                    \/ c.dsig # Hash(<<c.ddoc, c.duntil>>)
                    \/ c.delegation_id # c.ddoc
                    \/ now >= c.duntil,
          "delegation_invalid")

(* ExecutionProof.verify and the composed envelope's bindings.              *)
ProofVerifies(p) ==
    /\ p.attestation_path # "shadow"
    /\ p.policy_satisfied
    /\ p.proved
    /\ p.composed => p.bound_context = p.context_hash

ProofIssues(b, p) ==
    Issue(~ProofVerifies(p), "proof_invalid")
    \cup Issue(Has(b, "verification") /\ b["verification"].valid /\ ~ProofVerifies(p),
               "stored_verification_mismatch")

-----------------------------------------------------------------------------
(* The decision, authority and session sections against the proof.          *)
DecisionIssues(b, p) ==
    Issue(/\ Has(b, "decision")
          /\ LET d == b["decision"]
             IN  \/ d.outcome # p.outcome \/ d.version # p.version
                 \/ d.session # p.session \/ d.obligations # p.obligations
                 \/ d.policy_satisfied # p.policy_satisfied,
          "decision_mismatch")

AuthorityOf(section) == [l \in AuthorityLeaves |-> section[l]]

AuthorityProjectionIssues(b, p) ==
    Issue(/\ Has(b, "authority")
          /\ LET a == b["authority"]
             IN  \/ a.version # p.version \/ a.session # p.session
                 \/ /\ Has(b, "execution_context")
                    /\ AuthorityOf(a) # AuthorityOf(b["execution_context"]),
          "authority_mismatch")

LineageIssues(b) ==
    Issue(/\ Has(b, "authority") /\ Has(b, "lineage")
          /\ \/ b["lineage"].authority_id # b["authority"].authority_id
             \/ b["lineage"].version # b["authority"].version,
          "authority_mismatch")

SessionIssues(b, p) ==
    Issue(/\ Has(b, "session")
          /\ \/ b["session"].session # p.session \/ b["session"].version # p.version,
          "session_mismatch")

(* The time a receipt's documents are judged at: when the action ran, not   *)
(* when it is verified.                                                     *)
JudgedAt_Clock(p, now) == now

JudgedAt(p, now) == p.created_at

(* The certificate, which has to be there: the proof's reference to it, its *)
(* validity when the proof was made, its issuer, its model and its policy.  *)
CertificateIssues(b, p, now) ==
    Issue(\/ ~Has(b, "certificate")
          \/ LET c == b["certificate"]
             IN  \/ p.certificate_ref # Hash(c)
                 \/ p.agent_id # c.agent
                 \/ ~(c.not_before <= JudgedAt(p, now) /\ JudgedAt(p, now) < c.not_after)
                 \/ ~Verifies(c.issuer_signature, CertificateDocument(c))
                 \/ p.composed /\ p.bound_model # c.model
                 \/ c.policy # p.policy_commitment,
          "certificate_mismatch")

PolicyIssues(b, p) ==
    Issue(/\ Has(b, "policy")
          /\ LET s == b["policy"]
             IN  \/ s.commitment # p.policy_commitment
                 \/ s.inputs # p.policy_commitment
                 \/ s.name # s.inputs,
          "certificate_mismatch")

BindingState(b, p) == DeriveBindingState(b, IdentityBound(b), WorkloadProved(b, p))

BindingStateIssues(b, p) ==
    Issue(Has(b, "authority") /\ b["authority"].binding_state # BindingState(b, p),
          "authority_mismatch")

-----------------------------------------------------------------------------
(* Assurance: what is stored, and the floor the relying party asks for.     *)
Tiers == [none |-> 0, shadow |-> 0, policy_proved |-> 1, composed_proved |-> 2]

StoredAssuranceIssues(b, p) ==
    Issue(\/ Has(b, "v1") /\ b["v1"].assurance # AssuranceLevel(p)
          \/ /\ Has(b, "evidence") /\ b["evidence"].assurance # "none"
             /\ b["evidence"].assurance # AssuranceLevel(p),
          "unsupported_assurance")

FloorIssues_TierOnly(b, p, env) ==
    Issue(env.require_identity /\ ~IdentityBound(b), "authority_unbound")
    \cup Issue(env.min_tier # "none" /\ Tiers[AssuranceLevel(p)] < Tiers[env.min_tier],
               "assurance_threshold_not_met")

FloorIssues(b, p, env) ==
    Issue(/\ env.require_identity \/ env.min_tier # "none"
          /\ ~IdentityBound(b),
          "authority_unbound")
    \cup Issue(env.min_tier # "none" /\ Tiers[AssuranceLevel(p)] < Tiers[env.min_tier],
               "assurance_threshold_not_met")

-----------------------------------------------------------------------------
(* The evidence block: the parts the proof determines, and the decision     *)
(* record as a mirror of the decision section.                              *)
SummaryIssues(b, p) ==
    Issue(Has(b, "evidence") /\ b["evidence"].summary # EvidenceSummary(p), "decision_mismatch")

DecisionRecordIssues(b, p) ==
    Issue(/\ Has(b, "decision_record")
          /\ LET r == b["decision_record"]
             IN  \/ r.outcome # p.outcome \/ r.policy_satisfied # p.policy_satisfied
                 \/ r.version # p.version \/ r.session # p.session
                 \/ /\ Has(b, "execution_context")
                    /\ r.authority_id # b["execution_context"].authority_id,
          "decision_mismatch")

MirrorIssues_NoViolations(b) ==
    Issue(/\ Has(b, "decision_record") /\ Has(b, "decision")
          /\ \/ \E l \in {"recommended_action", "approval", "obligations"} :
                    b["decision"][l] # b["decision_record"][l]
             \/ Has(b, "evidence") /\ b["evidence"].obligations # b["decision"].obligations,
          "decision_mismatch")

MirrorIssues(b) ==
    Issue(/\ Has(b, "decision_record") /\ Has(b, "decision")
          /\ \/ \E l \in {"violations", "recommended_action", "approval", "obligations"} :
                    b["decision"][l] # b["decision_record"][l]
             \/ Has(b, "evidence") /\ b["evidence"].obligations # b["decision"].obligations,
          "decision_mismatch")

(* The v1 copies of the violations, and the budget section.                 *)
CopyIssues(b) ==
    Issue(/\ Has(b, "v1") /\ Has(b, "decision")
          /\ b["v1"].policy_violations # b["decision"].violations,
          "decision_mismatch")
    \cup Issue(/\ Has(b, "budget") /\ Has(b, "decision")
               /\ \/ /\ b["budget"].effects > 0
                     /\ b["budget"].effects # b["decision"].budget_effects
                  \/ /\ b["budget"].summary > 0
                     /\ b["budget"].summary # (IF b["budget"].effects > 0
                            THEN b["budget"].effects ELSE b["decision"].budget_effects),
               "decision_mismatch")

(* verify_bundle_signatures: every descriptor, tool witnesses included, must *)
(* verify over the bundle and come from a trusted signer.                    *)
BundleSignatureIssues(b, env) ==
    Issue(\/ \E d \in Descriptors(b) : \/ d.over # Hash(Without(b, "signatures"))
                                       \/ d.key \notin env.trusted_signers
          \/ Descriptors(b) = {} /\ env.require_signatures,
          "signature_invalid")

(* Who the receipt says acted, in any of the places that name an actor.     *)
AuthorityIdentities(b, p) ==
    UNION {{p.agent_id},
           IF Has(b, "authority") THEN {b["authority"].who, b["authority"].authority_id} ELSE {},
           IF Has(b, "certificate") THEN {b["certificate"].agent} ELSE {}}

(* verify_bundle_mandate: required for budget effects; valid when the action *)
(* ran; issued to its authority; the effects within its limit.               *)
MandateIssues(b, p, env, now) ==
    LET effects == IF Has(b, "budget") THEN b["budget"].effects
                   ELSE IF Has(b, "decision") THEN b["decision"].budget_effects ELSE 0
    IN  Issue(~Has(b, "mandate") /\ env.require_mandate_for_budgets /\ effects > 0,
              "mandate_violation")
        \cup Issue(/\ Has(b, "mandate")
                   /\ LET m == b["mandate"]
                      IN  \/ ~Verifies(m.signature, MandateDocument(m))
                          \/ m.commitment # Hash(MandateDocument(m))
                          \/ m.delegate \notin AuthorityIdentities(b, p)
                          \/ ~(m.issued_at <= JudgedAt(p, now) /\ JudgedAt(p, now) < m.expires_at)
                          \/ Has(b, "decision") /\ b["decision"].budget_effects > m.limit,
                   "mandate_violation")

-----------------------------------------------------------------------------
(* verify_receipt_bundle.  Without an execution proof it raises, which the  *)
(* verifier service reports as a malformed bundle.                          *)
ContentIssues(b, env, now) ==
    IF ~Has(b, "execution_proof") THEN {"schema_mismatch"}
    ELSE LET p == b["execution_proof"]
         IN  UNION {SchemaIssues(b), McpArgumentsHashIssues(b), AttestationIssues(b),
                    OutputContextIssues(b, p), AuditInclusionIssues(b, env),
                    AuditRecordIssues(b, p), IdentityIssues(b), WorkloadProofIssues(b, p),
                    ScittIssues(b), ToolWitnessIssues(b), SessionProofIssues(b, p),
                    DelegationIssues(b, now), ProofIssues(b, p), DecisionIssues(b, p),
                    AuthorityProjectionIssues(b, p), LineageIssues(b), SessionIssues(b, p),
                    CertificateIssues(b, p, now), PolicyIssues(b, p), BindingStateIssues(b, p),
                    StoredAssuranceIssues(b, p), FloorIssues(b, p, env), SummaryIssues(b, p),
                    DecisionRecordIssues(b, p), MirrorIssues(b), CopyIssues(b),
                    MandateIssues(b, p, env, now)}

Issues(b, env, now) == ContentIssues(b, env, now) \cup BundleSignatureIssues(b, env)

Valid(b, env, now) == Issues(b, env, now) = {}
=============================================================================
