--------------------------- MODULE ReceiptFormat ---------------------------
(***************************************************************************)
(* A portable receipt bundle (export.py, receipt_schema.py, evidence.py,   *)
(* binding_state.py, scitt_bundle.py, core/signing.py) as a function from  *)
(* section names to records of leaves.  A hash is the value it is taken    *)
(* over, a signature is the key with the value it covers, and the honest   *)
(* value of a leaf that carries no meaning here is the number of its run.  *)
(* Documents of different runs therefore agree in nothing but their shape. *)
(***************************************************************************)
EXTENDS Naturals, FiniteSets, Functions

Absent == 99            \* Python's None
Junk == <<>>            \* what a tampered hash or signature covers
Lifetime == 1           \* validity of certificates, delegations and mandates

Hash(value) == <<value>>                      \* injective, and never Junk
Signature(key, value) == [key |-> key, over |-> Hash(value)]
Verifies(sig, value) == sig.over = Hash(value)

-----------------------------------------------------------------------------
(* What a run brings along: a shape is a set of these.                      *)
ShapeOptions == {"v1", "shadow", "composed", "session", "policy", "audit",
                 "lineage", "identity", "evidence_verified", "workload",
                 "side_effect", "delegation", "budget", "mandate", "approval",
                 "monitoring", "scitt", "session_proof"}

Maybe(shape, option, value) == IF option \in shape THEN value ELSE Absent

AuthorityLeaves == {"version", "session", "authority_id", "who", "evidence_verified"}

(* The ExecutionContext of run r at time t.  who stands for the subject,    *)
(* principal, issuer and presenter key of the authority; dsig is the issuer *)
(* signature in the delegation envelope.  The side effect level is whether  *)
(* it asks for a tool's co-signature (_witness_divergence_issues): which of *)
(* the levels on either side of that it names is bound to nothing else in   *)
(* the action section.                                                      *)
ExecutionContext(r, shape, t) ==
    LET d == "delegation" \in shape
    IN  [version |-> r, session |-> Maybe(shape, "session", r),
         authority_id |-> r, who |-> r,
         evidence_verified |-> "evidence_verified" \in shape,
         input |-> r, arguments_hash |-> r, side_effect |-> "side_effect" \in shape,
         score |-> Maybe(shape, "monitoring", 0),
         credential_ok |-> TRUE, artifact_ok |-> TRUE,
         delegation_id |-> IF d THEN r ELSE Absent,
         ddoc |-> IF d THEN r ELSE Absent,
         duntil |-> IF d THEN t + Lifetime ELSE Absent,
         dsig |-> IF d THEN Hash(<<r, t + Lifetime>>) ELSE Junk]

(* AgentCertificate, its issuer's signature covering every other field.     *)
CertificateDocument(c) == <<c.agent, c.model, c.policy, c.not_before, c.not_after>>

Certificate(r, t) ==
    LET c == [agent |-> r, model |-> r, policy |-> r,
              not_before |-> t, not_after |-> t + Lifetime]
    IN  [agent |-> c.agent, model |-> c.model, policy |-> c.policy,
         not_before |-> c.not_before, not_after |-> c.not_after,
         issuer_signature |-> Signature("issuer", CertificateDocument(c))]

(* ExecutionProof.from_action with its proof blobs.                         *)
ExecutionProof(r, shape, t, ctx, cert) ==
    [proof_id |-> r, agent_id |-> cert.agent, certificate_ref |-> Hash(cert),
     policy_commitment |-> cert.policy, context_hash |-> Hash(ctx), output_hash |-> r,
     attestation_path |-> IF "shadow" \in shape THEN "shadow" ELSE "full_zk",
     policy_satisfied |-> TRUE, outcome |-> "allow",
     version |-> ctx.version, session |-> ctx.session,
     created_at |-> t, obligations |-> r,
     proved |-> TRUE, composed |-> "composed" \in shape,
     bound_context |-> IF "composed" \in shape THEN Hash(ctx) ELSE Junk,
     bound_model |-> IF "composed" \in shape THEN cert.model ELSE 0]

-----------------------------------------------------------------------------
(* Execution assurance: AssuranceLevel of a proof.                          *)
AssuranceLevel(p) ==
    CASE p.composed -> "composed_proved"
      [] ~p.composed /\ p.attestation_path = "full_zk" -> "policy_proved"
      [] OTHER -> "shadow"

EvidenceSummary(p) ==
    <<p.proof_id, p.attestation_path, AssuranceLevel(p), p.policy_satisfied>>

(* How strongly the authority is bound to an identity; the authority is the *)
(* one of the execution context before the projection of it.                *)
AuthoritySections(b) == {"execution_context", "authority"} \cap DOMAIN b
AuthorityBlock(b) == IF "execution_context" \in DOMAIN b THEN b["execution_context"]
                                                         ELSE b["authority"]

DeriveBindingState(b, identity_bound, workload_valid) ==
    CASE identity_bound /\ workload_valid -> "workload_attested"
      [] ~identity_bound ->
             IF AuthoritySections(b) = {} THEN "unbound" ELSE "declared"
      [] identity_bound /\ ~workload_valid /\ "workload_proof" \in DOMAIN b ->
             "agentauth_verified"
      [] identity_bound /\ "workload_proof" \notin DOMAIN b
             /\ AuthoritySections(b) # {} /\ AuthorityBlock(b).evidence_verified ->
             "agentauth_verified"
      [] OTHER -> IF "signatures" \in DOMAIN b THEN "signed" ELSE "declared"

-----------------------------------------------------------------------------
(* Sections.                                                                *)
DecisionSection(r, shape, p) ==
    [outcome |-> p.outcome, version |-> p.version, session |-> p.session,
     obligations |-> p.obligations, policy_satisfied |-> p.policy_satisfied,
     violations |-> r, recommended_action |-> r, approval |-> Maybe(shape, "approval", r),
     budget_effects |-> IF "budget" \in shape THEN 1 ELSE 0]

DecisionRecord(d, ctx) ==
    [outcome |-> d.outcome, policy_satisfied |-> d.policy_satisfied,
     violations |-> d.violations, recommended_action |-> d.recommended_action,
     approval |-> d.approval, obligations |-> d.obligations,
     authority_id |-> ctx.authority_id, version |-> ctx.version, session |-> ctx.session]

(* The v2 layout keeps assurance in the evidence block, v1 at the top.  The  *)
(* block's decision_record is a section of its own here.                    *)
EvidenceBlock(shape, p, d, ctx) ==
    [summary |-> EvidenceSummary(p),
     obligations |-> d.obligations, score |-> ctx.score,
     assurance |-> IF "v1" \in shape THEN "none" ELSE AssuranceLevel(p)]

WorkloadBinding(p, credential) ==
    <<p.proof_id, p.context_hash, p.output_hash, p.policy_commitment, credential>>

MandateDocument(m) == <<m.grant_id, m.delegate, m.issued_at, m.expires_at, m.limit>>

AuditBody(a) == <<a.proof_id, a.execution_proof_hash, a.action, a.prev_hash>>

AuditRecord(r, p, seq) ==
    LET a == [proof_id |-> p.proof_id, execution_proof_hash |-> Hash(p),
              action |-> r, prev_hash |-> seq - 1]
    IN  [proof_id |-> a.proof_id, execution_proof_hash |-> a.execution_proof_hash,
         action |-> a.action, prev_hash |-> a.prev_hash, seq |-> seq,
         record_hash |-> Hash(AuditBody(a)), signature |-> Signature("log", AuditBody(a))]

(* audit_inclusion: a proof for a tree of size `size`, and a checkpoint of  *)
(* `count` records.  The log only grows, so that a size determines a root.  *)
InclusionSection(a, size, count) ==
    [leaf |-> a.record_hash, tree_size |-> size, count |-> count,
     checkpoint_signature |-> Signature("log", count), log_public_key |-> "log"]

(* Everything but the section named s, which is what a signature over the   *)
(* bundle covers (s = "signatures"), or a SCITT statement (s = "scitt").    *)
Without(b, s) == Restrict(b, DOMAIN b \ {s})

V1Section(d, p) == [policy_violations |-> d.violations,
                    recommended_action |-> d.recommended_action,
                    assurance |-> AssuranceLevel(p)]

(* build_receipt_bundle: the sections in the order they are added, each     *)
(* filled in whether this receipt has it or not.                            *)
AllSections(r, shape, t, p, ctx, cert, inclusion, seq) ==
    LET d == DecisionSection(r, shape, p)
        a == AuditRecord(r, p, seq)
        m == [grant_id |-> r, delegate |-> ctx.who, issued_at |-> t,
              expires_at |-> t + Lifetime, limit |-> 1]
    IN  [schema |-> [id |-> IF "v1" \in shape THEN "v1" ELSE "v2"],
         exported_at |-> [at |-> r], execution_proof |-> p, output |-> [body |-> r],
         verification |-> [valid |-> p.attestation_path # "shadow" /\ p.policy_satisfied],
         certificate |-> cert, decision |-> d,
         authority |-> [version |-> ctx.version, session |-> ctx.session,
                        authority_id |-> ctx.authority_id, who |-> ctx.who,
                        evidence_verified |-> ctx.evidence_verified,
                        binding_state |-> "declared"],
         action |-> [name |-> r, side_effect |-> ctx.side_effect],
         execution_context |-> ctx, evidence |-> EvidenceBlock(shape, p, d, ctx),
         decision_record |-> DecisionRecord(d, ctx),
         v1 |-> V1Section(d, p),
         session |-> [session |-> p.session, version |-> p.version],
         policy |-> [commitment |-> p.policy_commitment, inputs |-> r, name |-> r],
         audit_record |-> a,
         audit_inclusion |-> InclusionSection(a, inclusion[1], inclusion[2]),
         lineage |-> [authority_id |-> ctx.authority_id, version |-> ctx.version],
         identity |-> [sub |-> ctx.who, svid |-> Signature("idp", ctx.who), credential |-> r],
         budget |-> [effects |-> d.budget_effects, summary |-> d.budget_effects],
         approval |-> [state |-> d.approval],
         mandate |-> [grant_id |-> r, delegate |-> m.delegate, issued_at |-> m.issued_at,
                      expires_at |-> m.expires_at, limit |-> m.limit,
                      commitment |-> Hash(MandateDocument(m)),
                      signature |-> Signature("owner", MandateDocument(m))],
         workload_proof |-> [binding |-> WorkloadBinding(p, r),
                             signature |-> Signature(ctx.who, WorkloadBinding(p, r))],
         session_proof |-> [session |-> p.session, policy |-> p.policy_commitment,
                            action_output |-> p.output_hash, folded |-> TRUE]]

(* The sections that only some receipts have, with the option that adds     *)
(* them; the v1 layout has no place for three of them.                      *)
OptionalSections ==
    [session |-> "session", policy |-> "policy", audit_record |-> "audit",
     audit_inclusion |-> "audit", lineage |-> "lineage",
     identity |-> "identity", budget |-> "budget", approval |-> "approval",
     mandate |-> "mandate", workload_proof |-> "workload",
     session_proof |-> "session_proof", v1 |-> "v1"]

Present(s, shape) ==
    /\ s \in DOMAIN OptionalSections => OptionalSections[s] \in shape
    /\ s \in {"session", "approval", "budget"} => "v1" \notin shape

(* binding_state once the evidence is there, the SCITT statement over it    *)
(* all.                                                                     *)
Sections(r, shape, t, p, ctx, cert, inclusion, seq) ==
    LET all == AllSections(r, shape, t, p, ctx, cert, inclusion, seq)
    IN  Restrict(all, {s \in DOMAIN all : Present(s, shape)})

BuildBundle(r, shape, t, inclusion, seq) ==
    LET ctx == ExecutionContext(r, shape, t)
        cert == Certificate(r, t)
        p == ExecutionProof(r, shape, t, ctx, cert)
        b == Sections(r, shape, t, p, ctx, cert, inclusion, seq)
        annotated == [b EXCEPT !["authority"].binding_state =
            DeriveBindingState(b, "identity" \in shape, "workload" \in shape)]
    IN  IF "scitt" \in shape
        THEN [s \in DOMAIN annotated \cup {"scitt"} |->
                IF s = "scitt" THEN [statement |-> Signature("statement", annotated)]
                               ELSE annotated[s]]
        ELSE annotated

-----------------------------------------------------------------------------
(* sign_bundle: one more descriptor over everything but the signatures.     *)
(* sign_tool_witness: a descriptor over the hashes of input and output.     *)
Descriptors(b) == IF "signatures" \in DOMAIN b THEN b["signatures"] ELSE {}

WithDescriptor(b, d) ==
    [s \in DOMAIN b \cup {"signatures"} |->
        IF s = "signatures" THEN Descriptors(b) \cup {d} ELSE b[s]]

SignBundle(b, key, role) ==
    WithDescriptor(b, [role |-> role, key |-> key, over |-> Hash(Without(b, "signatures")),
                       body |-> Junk])

ToolWitness(b, key) ==
    LET body == [input_hash |-> b["execution_context"].input,
                 output_hash |-> b["execution_proof"].output_hash,
                 action_name |-> b["action"].name]
    IN  WithDescriptor(b, [role |-> "tool", key |-> key, over |-> Hash(body), body |-> body])

(* compact_receipt_bundle keeps these sections.                             *)
CompactSections ==
    {"schema", "exported_at", "execution_proof", "output", "execution_context",
     "certificate", "decision", "authority", "action", "evidence", "decision_record", "session",
     "approval", "budget", "v1", "verification", "signatures", "audit_inclusion",
     "audit_record", "scitt", "mandate", "policy", "session_proof"}

CompactBundle(b) == Restrict(b, DOMAIN b \cap CompactSections)

(* redact_receipt_bundle overwrites the leaves of DEFAULT_REDACT_PATHS that *)
(* are there; a leaf of this model stands for several of them.              *)
Redacted == 98
RedactPaths ==
    {<<"output", "body">>, <<"execution_context", "input">>,
     <<"execution_context", "session">>, <<"execution_context", "who">>,
     <<"authority", "session">>, <<"authority", "who">>, <<"session", "session">>,
     <<"decision", "session">>, <<"decision", "approval">>, <<"approval", "state">>,
     <<"lineage", "authority_id">>, <<"budget", "summary">>, <<"budget", "effects">>}

RedactBundle(b) ==
    [s \in DOMAIN b |->
        IF \E path \in RedactPaths : path[1] = s
        THEN [l \in DOMAIN b[s] |-> IF <<s, l>> \in RedactPaths THEN Redacted ELSE b[s][l]]
        ELSE b[s]]

(* migrate_v1_to_v2: the same content in the v2 layout.                     *)
MigrateBundle(b) ==
    LET session == IF b["decision"].session # Absent THEN {"session"} ELSE {}
        approval == IF b["decision"].approval # Absent THEN {"approval"} ELSE {}
        budget == IF b["decision"].budget_effects > 0 THEN {"budget"} ELSE {}
    IN  [s \in (DOMAIN b \ {"v1"}) \cup session \cup approval \cup budget |->
            CASE s = "schema" -> [id |-> "v2"]
              [] s = "evidence" -> [b["evidence"] EXCEPT !.assurance = b["v1"].assurance]
              [] s = "session" -> [session |-> b["decision"].session,
                                   version |-> b["decision"].version]
              [] s = "approval" -> [state |-> b["decision"].approval]
              [] s = "budget" -> [effects |-> b["decision"].budget_effects,
                                  summary |-> b["decision"].budget_effects]
              [] OTHER -> b[s]]
=============================================================================
