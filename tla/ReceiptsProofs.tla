--------------------------- MODULE ReceiptsProofs ---------------------------
(***************************************************************************)
(* Proofs about Receipts for any shapes of receipt, any number of records, *)
(* any clock and any number of changes by others.                          *)
(***************************************************************************)
EXTENDS Receipts, TLAPS

(* What the receipt's own run assembled; nothing it depends on changes any  *)
(* more once the receipt is built.                                          *)
Built == BuildBundle(Run, shape, at, <<size, log>>, seq)

-----------------------------------------------------------------------------
(* Documents as functions from section names.                               *)
IsBundle(b) == b = [s \in DOMAIN b |-> b[s]]

LEMMA RestrictIsBundle == \A f, S : IsBundle(Restrict(f, S))
BY DEF Restrict, IsBundle

LEMMA WithoutIsBundle ==
    ASSUME NEW b, NEW s
    PROVE  /\ DOMAIN Without(b, s) = DOMAIN b \ {s}
           /\ \A x \in DOMAIN b \ {s} : Without(b, s)[x] = b[x]
           /\ IsBundle(Without(b, s))
BY DEF Without, Restrict, IsBundle

LEMMA WithoutAbsent ==
    ASSUME NEW b, NEW s, IsBundle(b), s \notin DOMAIN b
    PROVE  Without(b, s) = b
BY DEF Without, Restrict, IsBundle

LEMMA SameWithout ==
    ASSUME NEW b, NEW c, NEW s, DOMAIN c \ {s} = DOMAIN b \ {s},
           \A x \in DOMAIN b \ {s} : c[x] = b[x]
    PROVE  Without(c, s) = Without(b, s)
BY DEF Without, Restrict

(* Adding a descriptor leaves what is signed unchanged.                     *)
LEMMA DescriptorAdded ==
    ASSUME NEW b, NEW d
    PROVE  /\ Without(WithDescriptor(b, d), "signatures") = Without(b, "signatures")
           /\ Descriptors(WithDescriptor(b, d)) = Descriptors(b) \cup {d}
           /\ \A s \in DOMAIN b : s # "signatures" => WithDescriptor(b, d)[s] = b[s]
           /\ DOMAIN WithDescriptor(b, d) = DOMAIN b \cup {"signatures"}
<1> DEFINE c == WithDescriptor(b, d)
<1>1. /\ DOMAIN c = DOMAIN b \cup {"signatures"}
      /\ \A s \in DOMAIN b : s # "signatures" => c[s] = b[s]
      /\ c["signatures"] = Descriptors(b) \cup {d}
  BY DEF WithDescriptor
<1>2. Without(c, "signatures") = Without(b, "signatures")
  <2> HIDE DEF c
  <2> QED
    BY <1>1, SameWithout
<1>3. Descriptors(c) = Descriptors(b) \cup {d}
  <2> HIDE DEF c
  <2>1. Descriptors(c) = c["signatures"]
    BY <1>1 DEF Descriptors
  <2> QED
    BY <1>1, <2>1
<1> QED
  BY <1>1, <1>2, <1>3

-----------------------------------------------------------------------------
(* What build_receipt_bundle puts into a document.                          *)
AlwaysThere == {"schema", "exported_at", "execution_proof", "output", "verification",
                "certificate", "decision", "authority", "action", "execution_context",
                "evidence", "decision_record"}

LEMMA BuiltShape ==
    ASSUME NEW r, NEW sh, NEW t, NEW i, NEW n
    PROVE  LET b == BuildBundle(r, sh, t, i, n)
           IN  /\ IsBundle(b)
               /\ AlwaysThere \subseteq DOMAIN b
               /\ "signatures" \notin DOMAIN b
               /\ b["execution_context"] = ExecutionContext(r, sh, t)
               /\ Has(b, "identity") => /\ "svid" \in DOMAIN b["identity"]
                                       /\ b["identity"].svid = Signature("idp", r)
               /\ AuthorityLeaves \subseteq DOMAIN b["authority"]
<1> DEFINE ctx == ExecutionContext(r, sh, t)
           cert == Certificate(r, t)
           p == ExecutionProof(r, sh, t, ctx, cert)
           b == Sections(r, sh, t, p, ctx, cert, i, n)
<1> HIDE DEF p, cert
<1>0. IsBundle(b)
  BY RestrictIsBundle DEF Sections
<1> DEFINE all == AllSections(r, sh, t, p, ctx, cert, i, n)
<1>2. all["execution_context"] = ctx
  <2> HIDE DEF ctx
  <2> QED
    BY DEF AllSections
<1>3. AuthorityLeaves \subseteq DOMAIN all["authority"]
  <2> HIDE DEF ctx
  <2>1. all["authority"] = [version |-> ctx.version, session |-> ctx.session,
                            authority_id |-> ctx.authority_id, who |-> ctx.who,
                            evidence_verified |-> ctx.evidence_verified,
                            binding_state |-> "declared"]
    BY DEF AllSections
  <2> HIDE DEF all
  <2> QED
    BY <2>1 DEF AuthorityLeaves
<1>7. /\ "svid" \in DOMAIN all["identity"]
      /\ all["identity"].svid = Signature("idp", r)
  <2>1. all["identity"] = [sub |-> ctx.who, svid |-> Signature("idp", ctx.who),
                           credential |-> r]
    <3> HIDE DEF ctx
    <3> QED
      BY DEF AllSections
  <2>2. ctx.who = r
    BY DEF ExecutionContext
  <2> HIDE DEF all, ctx
  <2> QED
    BY <2>1, <2>2
<1>8. AlwaysThere \subseteq DOMAIN all /\ "signatures" \notin DOMAIN all
  <2> HIDE DEF ctx
  <2>1. AlwaysThere \subseteq DOMAIN all
    BY DEF AllSections, AlwaysThere
  <2>2. "signatures" \notin DOMAIN all
    BY DEF AllSections
  <2> QED
    BY <2>1, <2>2
<1>9. \A s \in AlwaysThere : Present(s, sh)
  BY DEF Present, OptionalSections, AlwaysThere
<1>10. /\ DOMAIN b = {s \in DOMAIN all : Present(s, sh)}
       /\ \A s \in DOMAIN b : b[s] = all[s]
  <2>1. b = Restrict(all, {s \in DOMAIN all : Present(s, sh)})
    BY DEF Sections
  <2> HIDE DEF all, b
  <2> QED
    BY <2>1 DEF Restrict
<1>1. /\ AlwaysThere \subseteq DOMAIN b
      /\ "signatures" \notin DOMAIN b
      /\ b["execution_context"] = ctx
      /\ AuthorityLeaves \subseteq DOMAIN b["authority"]
      /\ Has(b, "identity") => /\ "svid" \in DOMAIN b["identity"]
                               /\ b["identity"].svid = Signature("idp", r)
  <2> HIDE DEF all, b, ctx
  <2>1. AlwaysThere \subseteq DOMAIN b /\ "signatures" \notin DOMAIN b
    BY <1>8, <1>9, <1>10
  <2>2. "execution_context" \in DOMAIN b /\ "authority" \in DOMAIN b
    BY <2>1 DEF AlwaysThere
  <2> QED
    BY <1>2, <1>3, <1>7, <1>10, <2>1, <2>2 DEF Has
<1> DEFINE k == [b EXCEPT !["authority"].binding_state =
                      DeriveBindingState(b, "identity" \in sh, "workload" \in sh)]
           q == [s \in DOMAIN k \cup {"scitt"} |->
                   IF s = "scitt" THEN [statement |-> Signature("statement", k)] ELSE k[s]]
<1>4. /\ DOMAIN k = DOMAIN b
      /\ \A s \in DOMAIN b : s # "authority" => k[s] = b[s]
      /\ DOMAIN k["authority"] = DOMAIN b["authority"]
      /\ IsBundle(k)
  <2> HIDE DEF b
  <2> QED
    BY <1>0, <1>1 DEF AlwaysThere, IsBundle
<1>5. /\ BuildBundle(r, sh, t, i, n) = IF "scitt" \in sh THEN q ELSE k
      /\ ctx = ExecutionContext(r, sh, t)
  BY DEF BuildBundle, p, cert
<1> HIDE DEF b, k, ctx
<1>6. /\ DOMAIN q = DOMAIN k \cup {"scitt"} /\ IsBundle(q)
      /\ \A s \in DOMAIN k : s # "scitt" => q[s] = k[s]
  BY DEF IsBundle
<1> HIDE DEF q
<1> QED
  BY <1>1, <1>4, <1>5, <1>6 DEF AlwaysThere, Has

-----------------------------------------------------------------------------
(* What verify_receipt_bundle has established when it reports no issue.     *)
LEMMA ContentChecked ==
    ASSUME NEW b, NEW env, NEW t, Valid(b, env, t)
    PROVE  LET p == b["execution_proof"]
           IN  /\ Has(b, "execution_proof")
               /\ SchemaIssues(b) = {} /\ McpArgumentsHashIssues(b) = {}
               /\ AttestationIssues(b) = {} /\ OutputContextIssues(b, p) = {}
               /\ AuditInclusionIssues(b, env) = {} /\ AuditRecordIssues(b, p) = {}
               /\ IdentityIssues(b) = {} /\ WorkloadProofIssues(b, p) = {}
               /\ ScittIssues(b) = {} /\ ToolWitnessIssues(b) = {}
               /\ SessionProofIssues(b, p) = {} /\ DelegationIssues(b, t) = {}
               /\ ProofIssues(b, p) = {} /\ DecisionIssues(b, p) = {}
               /\ AuthorityProjectionIssues(b, p) = {} /\ LineageIssues(b) = {}
               /\ SessionIssues(b, p) = {} /\ CertificateIssues(b, p, t) = {}
               /\ PolicyIssues(b, p) = {} /\ BindingStateIssues(b, p) = {}
               /\ StoredAssuranceIssues(b, p) = {} /\ FloorIssues(b, p, env) = {}
               /\ SummaryIssues(b, p) = {} /\ DecisionRecordIssues(b, p) = {}
               /\ MirrorIssues(b) = {} /\ CopyIssues(b) = {}
               /\ MandateIssues(b, p, env, t) = {}
               /\ BundleSignatureIssues(b, env) = {}
<1>1. ContentIssues(b, env, t) = {} /\ BundleSignatureIssues(b, env) = {}
  BY DEF Valid, Issues
<1>2. Has(b, "execution_proof")
  BY <1>1 DEF ContentIssues
<1> QED
  BY <1>1, <1>2 DEF ContentIssues

(* Only the delegation is judged at the time of verification.               *)
LEMMA OnlyDelegationAges ==
    ASSUME NEW b, NEW env, NEW t, NEW u, Valid(b, env, t), DelegationIssues(b, u) = {}
    PROVE  Valid(b, env, u)
<1> DEFINE p == b["execution_proof"]
<1>1. Has(b, "execution_proof") /\ BundleSignatureIssues(b, env) = {}
  BY ContentChecked
<1>2. /\ CertificateIssues(b, p, u) = CertificateIssues(b, p, t)
      /\ MandateIssues(b, p, env, u) = MandateIssues(b, p, env, t)
  BY DEF CertificateIssues, MandateIssues, JudgedAt
<1>3. ContentIssues(b, env, u) = {}
  BY <1>1, <1>2, ContentChecked DEF ContentIssues
<1> QED
  BY <1>1, <1>3 DEF Valid, Issues

(* Every descriptor covers the bundle and is by a trusted signer; with      *)
(* signatures required there is one.                                        *)
LEMMA SignaturesChecked ==
    ASSUME NEW b, NEW env, NEW t, Valid(b, env, t)
    PROVE  /\ \A d \in Descriptors(b) : /\ d.over = Hash(Without(b, "signatures"))
                                         /\ d.key \in env.trusted_signers
           /\ env.require_signatures => Descriptors(b) # {}
<1>1. BundleSignatureIssues(b, env) = {}
  BY ContentChecked
<1> QED
  BY <1>1 DEF BundleSignatureIssues, Issue

LEMMA ContextChecked ==
    ASSUME NEW b, NEW env, NEW t, Valid(b, env, t), Has(b, "execution_context")
    PROVE  b["execution_proof"].context_hash = Hash(b["execution_context"])
<1>1. OutputContextIssues(b, b["execution_proof"]) = {}
  BY ContentChecked
<1> QED
  BY <1>1 DEF OutputContextIssues, Issue

LEMMA AuthorityChecked ==
    ASSUME NEW b, NEW env, NEW t, Valid(b, env, t),
           Has(b, "authority"), Has(b, "execution_context")
    PROVE  AuthorityOf(b["authority"]) = AuthorityOf(b["execution_context"])
<1>1. AuthorityProjectionIssues(b, b["execution_proof"]) = {}
  BY ContentChecked
<1> QED
  BY <1>1 DEF AuthorityProjectionIssues, Issue

LEMMA IdentityChecked ==
    ASSUME NEW b, NEW env, NEW t, Valid(b, env, t), Has(b, "identity")
    PROVE  /\ b["identity"].svid.over = Hash(b["identity"].sub)
           /\ Has(b, "authority") => b["authority"].who = b["identity"].sub
<1>1. IdentityIssues(b) = {}
  BY ContentChecked
<1> QED
  BY <1>1 DEF IdentityIssues, Issue, Verifies

LEMMA FloorChecked ==
    ASSUME NEW b, NEW env, NEW t, Valid(b, env, t), env.min_tier # "none"
    PROVE  Has(b, "identity")
<1>1. FloorIssues(b, b["execution_proof"], env) = {}
  BY ContentChecked
<1> QED
  BY <1>1 DEF FloorIssues, Issue, IdentityBound

-----------------------------------------------------------------------------
(* The two things nobody without the keys can make: a descriptor by the     *)
(* gate's key, which covers what the gate signed or is a tool's co-signature *)
(* of three hashes; and a signature by the identity provider.               *)
GateDescriptor(d, doc, sg) ==
    \/ doc \in sg /\ d.over = Hash(doc)
    \/ \E x, y, z : d.over = Hash([input_hash |-> x, output_hash |-> y, action_name |-> z])

GateKeyUse(b, doc, sg) ==
    \A d \in Descriptors(b) : d.key = "gate" => GateDescriptor(d, doc, sg)

Svid(v) == \E o : v = [key |-> "idp", over |-> o]

SvidKept(b) ==
    Has(b, "identity") => "svid" \in DOMAIN b["identity"] /\ Svid(b["identity"].svid)

(* What _mutated_scalar makes of a leaf.                                    *)
TextLeaves == {"outcome", "id", "attestation_path", "assurance", "binding_state",
               "log_public_key"}

LEMMA LeafClasses ==
    /\ \A l \in HashLeaves : /\ l \notin SignatureLeaves /\ l \notin FlagLeaves
                              /\ l \notin TextLeaves /\ l \notin {"budget_effects", "limit"}
    /\ \A l \in SignatureLeaves : /\ l \notin FlagLeaves /\ l \notin TextLeaves
                                   /\ l \notin {"budget_effects", "limit"}
    /\ \A l \in FlagLeaves : l \notin TextLeaves /\ l \notin {"budget_effects", "limit"}
    /\ \A l \in TextLeaves : l \notin {"budget_effects", "limit"}
BY DEF HashLeaves, SignatureLeaves, FlagLeaves, TextLeaves

LEMMA MutatedValue ==
    ASSUME NEW s, NEW l, NEW v, s # "budget", s # "policy"
    PROVE  /\ l \in HashLeaves => Mutated(s, l, v) = Junk
           /\ l \in SignatureLeaves => Mutated(s, l, v) = [v EXCEPT !.over = Junk]
           /\ l \in FlagLeaves => Mutated(s, l, v) = ~v
           /\ l \in TextLeaves => Mutated(s, l, v) = "tampered"
           /\ l \in {"budget_effects", "limit"} => Mutated(s, l, v) = v + 1
           /\ l = "bound_model" => Mutated(s, l, v) = 0
<1>1. l \in HashLeaves => Mutated(s, l, v) = Junk
  BY LeafClasses, Zenon DEF Mutated, TextLeaves
<1>2. l \in SignatureLeaves => Mutated(s, l, v) = [v EXCEPT !.over = Junk]
  BY LeafClasses, Zenon DEF Mutated, TextLeaves
<1>3. l \in FlagLeaves => Mutated(s, l, v) = ~v
  BY LeafClasses, Zenon DEF Mutated, TextLeaves
<1>4. l \in TextLeaves => Mutated(s, l, v) = "tampered"
  BY LeafClasses, Zenon DEF Mutated, TextLeaves
<1>5. l \in {"budget_effects", "limit"} => Mutated(s, l, v) = v + 1
  BY LeafClasses, Zenon DEF Mutated, TextLeaves
<1>6. l = "bound_model" => Mutated(s, l, v) = 0
  <2>1. "bound_model" \notin HashLeaves \cup SignatureLeaves \cup FlagLeaves \cup TextLeaves
                             \cup {"budget_effects", "limit"}
    BY DEF HashLeaves, SignatureLeaves, FlagLeaves, TextLeaves
  <2> QED
    BY <2>1, Zenon DEF Mutated, TextLeaves
<1> QED
  BY <1>1, <1>2, <1>3, <1>4, <1>5, <1>6

(* c was made from b without either key.                                    *)
NoKeyUsed(b, c) ==
    /\ \A d \in Descriptors(c) : d \in Descriptors(b) \/ d.key # "gate"
    /\ SvidKept(b) => SvidKept(c)

LEMMA SameTrust ==
    ASSUME NEW b, NEW c, Descriptors(c) \subseteq Descriptors(b),
           Has(c, "identity") => Has(b, "identity") /\ c["identity"] = b["identity"]
    PROVE  NoKeyUsed(b, c)
BY DEF NoKeyUsed, SvidKept

LEMMA CompactTrust == ASSUME NEW b PROVE NoKeyUsed(b, CompactBundle(b))
<1> DEFINE c == CompactBundle(b)
<1>1. /\ DOMAIN c = DOMAIN b \cap CompactSections
      /\ \A s \in DOMAIN c : c[s] = b[s]
  BY DEF CompactBundle, Restrict
<1> HIDE DEF c
<1>8. Descriptors(c) = Descriptors(b)
  BY <1>1 DEF Descriptors, CompactSections
<1>9. Has(c, "identity") => Has(b, "identity") /\ c["identity"] = b["identity"]
  BY <1>1 DEF Has
<1>10. NoKeyUsed(b, c)
  BY <1>8, <1>9, SameTrust
<1> QED
  BY <1>10 DEF c

LEMMA RedactTrust == ASSUME NEW b PROVE NoKeyUsed(b, RedactBundle(b))
<1> DEFINE c == RedactBundle(b)
<1>1. \A path \in RedactPaths : path[1] \notin {"signatures", "identity"}
  BY DEF RedactPaths
<1>2. /\ DOMAIN c = DOMAIN b
      /\ \A s \in DOMAIN b : s \in {"signatures", "identity"} => c[s] = b[s]
  BY <1>1 DEF RedactBundle
<1> HIDE DEF c
<1>8. Descriptors(c) = Descriptors(b)
  BY <1>2 DEF Descriptors
<1>9. Has(c, "identity") => Has(b, "identity") /\ c["identity"] = b["identity"]
  BY <1>2 DEF Has
<1>10. NoKeyUsed(b, c)
  BY <1>8, <1>9, SameTrust
<1> QED
  BY <1>10 DEF c

LEMMA MigrateTrust == ASSUME NEW b PROVE NoKeyUsed(b, MigrateBundle(b))
<1> DEFINE c == MigrateBundle(b)
<1>1. \A s \in DOMAIN c : s \in {"signatures", "identity"} => s \in DOMAIN b /\ c[s] = b[s]
  BY DEF MigrateBundle
<1>2. "signatures" \in DOMAIN b => "signatures" \in DOMAIN c
  BY DEF MigrateBundle
<1> HIDE DEF c
<1>8. Descriptors(c) = Descriptors(b)
  BY <1>1, <1>2 DEF Descriptors
<1>9. Has(c, "identity") => Has(b, "identity") /\ c["identity"] = b["identity"]
  BY <1>1 DEF Has
<1>10. NoKeyUsed(b, c)
  BY <1>8, <1>9, SameTrust
<1> QED
  BY <1>10 DEF c

LEMMA LeafTrust ==
    ASSUME NEW b, NEW s \in DOMAIN b \ {"signatures"}, NEW l \in DOMAIN b[s]
    PROVE  NoKeyUsed(b, [b EXCEPT ![s][l] = Mutated(s, l, @)])
<1> DEFINE v == Mutated(s, l, b[s][l])
           c == [b EXCEPT ![s][l] = Mutated(s, l, @)]
<1>1. SvidKept(b) /\ s = "identity" /\ l = "svid" => Svid(v)
  <2> SUFFICES ASSUME SvidKept(b), s = "identity", l = "svid" PROVE Svid(v)
    OBVIOUS
  <2>1. PICK o : b["identity"].svid = [key |-> "idp", over |-> o]
    BY DEF SvidKept, Svid, Has
  <2>2. v = [b["identity"].svid EXCEPT !.over = Junk]
    BY MutatedValue DEF SignatureLeaves
  <2>3. v = [key |-> "idp", over |-> Junk]
    BY <2>1, <2>2
  <2> QED
    BY <2>3 DEF Svid
<1>2. /\ DOMAIN c = DOMAIN b
      /\ \A x \in DOMAIN b : x # s => c[x] = b[x]
      /\ DOMAIN c[s] = DOMAIN b[s]
      /\ \A k \in DOMAIN b[s] : k # l => c[s][k] = b[s][k]
      /\ c[s][l] = v
  OBVIOUS
<1> HIDE DEF c, v
<1>3. Descriptors(c) = Descriptors(b)
  BY <1>2 DEF Descriptors
<1>4. SvidKept(b) => SvidKept(c)
  BY <1>1, <1>2 DEF SvidKept, Has
<1>5. NoKeyUsed(b, c)
  BY <1>3, <1>4 DEF NoKeyUsed
<1> QED
  BY <1>5 DEF c

LEMMA RehashTrust == ASSUME NEW b PROVE NoKeyUsed(b, Rehashed(b))
<1> DEFINE c == Rehashed(b)
<1>1. /\ DOMAIN c = DOMAIN b
      /\ \A s \in DOMAIN b : s \in {"signatures", "identity"} => c[s] = b[s]
  BY DEF Rehashed
<1> HIDE DEF c
<1>8. Descriptors(c) = Descriptors(b)
  BY <1>1 DEF Descriptors
<1>9. Has(c, "identity") => Has(b, "identity") /\ c["identity"] = b["identity"]
  BY <1>1 DEF Has
<1>10. NoKeyUsed(b, c)
  BY <1>8, <1>9, SameTrust
<1> QED
  BY <1>10 DEF c

LEMMA DropTrust == ASSUME NEW b, NEW s PROVE NoKeyUsed(b, Without(b, s))
<1> DEFINE c == Without(b, s)
<1>1. DOMAIN c = DOMAIN b \ {s} /\ \A x \in DOMAIN c : c[x] = b[x]
  BY WithoutIsBundle
<1> HIDE DEF c
<1>8. Descriptors(c) \subseteq Descriptors(b)
  BY <1>1 DEF Descriptors
<1>9. Has(c, "identity") => Has(b, "identity") /\ c["identity"] = b["identity"]
  BY <1>1 DEF Has
<1>10. NoKeyUsed(b, c)
  BY <1>8, <1>9, SameTrust
<1> QED
  BY <1>10 DEF c

LEMMA SwapTrust ==
    ASSUME NEW b, NEW s \in SwappedSections \cap DOMAIN b, NEW v
    PROVE  NoKeyUsed(b, [b EXCEPT ![s] = v])
<1> DEFINE c == [b EXCEPT ![s] = v]
<1>1. /\ DOMAIN c = DOMAIN b
      /\ \A x \in DOMAIN b : x \in {"signatures", "identity"} => c[x] = b[x]
  BY DEF SwappedSections
<1> HIDE DEF c
<1>8. Descriptors(c) = Descriptors(b)
  BY <1>1 DEF Descriptors
<1>9. Has(c, "identity") => Has(b, "identity") /\ c["identity"] = b["identity"]
  BY <1>1 DEF Has
<1>2. NoKeyUsed(b, c)
  BY <1>8, <1>9, SameTrust
<1> QED
  BY <1>2 DEF c

LEMMA ResignTrust ==
    ASSUME NEW b
    PROVE  NoKeyUsed(b, SignBundle(Without(b, "signatures"), "attacker", "attacker"))
<1> DEFINE w == Without(b, "signatures")
           d == [role |-> "attacker", key |-> "attacker",
                 over |-> Hash(Without(w, "signatures")), body |-> Junk]
           c == WithDescriptor(w, d)
<1>1. DOMAIN w = DOMAIN b \ {"signatures"} /\ \A x \in DOMAIN w : w[x] = b[x]
  BY WithoutIsBundle
<1>6. Descriptors(w) = {}
  BY <1>1 DEF Descriptors
<1>2. d.key = "attacker"
  OBVIOUS
<1>3. c = SignBundle(w, "attacker", "attacker")
  BY DEF SignBundle
<1> HIDE DEF w, d
<1>7. /\ Descriptors(c) = Descriptors(w) \cup {d}
      /\ \A x \in DOMAIN w : x # "signatures" => c[x] = w[x]
      /\ DOMAIN c = DOMAIN w \cup {"signatures"}
  BY DescriptorAdded
<1> HIDE DEF c
<1>4. /\ Descriptors(c) = {d} /\ DOMAIN c = DOMAIN b \cup {"signatures"}
      /\ \A x \in DOMAIN b : x # "signatures" => c[x] = b[x]
  BY <1>1, <1>6, <1>7
<1>5. NoKeyUsed(b, c)
  BY <1>2, <1>4 DEF NoKeyUsed, SvidKept, Has
<1> QED
  BY <1>3, <1>5 DEF w

-----------------------------------------------------------------------------
(* The inductive invariant: what the original document and the keys are     *)
(* used for, and what no change by others can bring about.                  *)
NotYetBuilt ==
    stage # "built" => bundle = NoBundle /\ original = NoBundle /\ edits = 0 /\ signed = {}

OriginalIsBuilt ==
    stage = "built" => Without(original, "signatures") = Built /\ signed \subseteq {Built}

UntilChanged == edits = 0 => bundle = original

KeysKept == GateKeyUse(bundle, Built, signed) /\ SvidKept(bundle)

Types ==
    /\ stage \in {"new", "recorded", "proved", "built"}
    /\ shape \in Shapes \cup {{}}
    /\ log \in 0..MaxLog /\ now \in 0..MaxTime /\ at \in 0..now
    /\ seq \in 0..log /\ size \in 0..log /\ edits \in 0..MaxEdits

IInv == Types /\ NotYetBuilt /\ OriginalIsBuilt /\ UntilChanged /\ KeysKept

LEMMA NothingInNoBundle ==
    ASSUME NEW doc, NEW sg
    PROVE  GateKeyUse(NoBundle, doc, sg) /\ SvidKept(NoBundle)
<1>1. DOMAIN NoBundle = {}
  BY DEF NoBundle
<1>2. Descriptors(NoBundle) = {} /\ ~Has(NoBundle, "identity")
  BY <1>1 DEF Descriptors, Has
<1> QED
  BY <1>2 DEF GateKeyUse, SvidKept

LEMMA IInvInit == Init => IInv
<1> SUFFICES ASSUME Init PROVE IInv
  OBVIOUS
<1>1. KeysKept
  BY NothingInNoBundle DEF Init, KeysKept
<1> QED
  BY <1>1, BoundsAssumption DEF Init, IInv, Types, NotYetBuilt, OriginalIsBuilt, UntilChanged

LEMMA KeepKeys ==
    ASSUME NEW b, NEW c, NEW doc, NEW sg,
           GateKeyUse(b, doc, sg), SvidKept(b), NoKeyUsed(b, c)
    PROVE  GateKeyUse(c, doc, sg) /\ SvidKept(c)
BY DEF GateKeyUse, NoKeyUsed

(* A change by others is made without either key.                           *)
LEMMA ChangeKeeps ==
    ASSUME IInv, NEW b, NEW what, Change(b, what), NoKeyUsed(bundle, b)
    PROVE  IInv'
<1>1. /\ stage = "built" /\ edits' = edits + 1 /\ bundle' = b /\ edits < MaxEdits
      /\ UNCHANGED <<stage, shape, log, now, at, seq, size, original, signed>>
  BY DEF Change
<1>2. Built' = Built
  BY <1>1 DEF Built
<1>3. GateKeyUse(b, Built, signed) /\ SvidKept(b)
  BY KeepKeys DEF IInv, KeysKept
<1>4. KeysKept'
  BY <1>1, <1>2, <1>3 DEF KeysKept
<1>5. Types' /\ edits' # 0
  BY <1>1, BoundsAssumption DEF IInv, Types
<1> QED
  BY <1>1, <1>2, <1>4, <1>5 DEF IInv, NotYetBuilt, OriginalIsBuilt, UntilChanged

LEMMA ChangesKeep ==
    ASSUME IInv, Export \/ LeafMutation \/ Forgery \/ SectionSwap \/ DropSection
                 \/ AttackerResign
    PROVE  IInv'
<1>1. CASE Export
  BY <1>1, CompactTrust, RedactTrust, MigrateTrust, ChangeKeeps DEF Export
<1>2. CASE LeafMutation
  BY <1>2, LeafTrust, ChangeKeeps DEF LeafMutation
<1>3. CASE Forgery
  <2>1. PICK s \in DOMAIN bundle \ {"signatures"} : \E l \in DOMAIN bundle[s] :
           Change(Rehashed([bundle EXCEPT ![s][l] = Mutated(s, l, @)]), <<"forged", l>>)
    BY <1>3 DEF Forgery
  <2>2. PICK l \in DOMAIN bundle[s] :
           Change(Rehashed([bundle EXCEPT ![s][l] = Mutated(s, l, @)]), <<"forged", l>>)
    BY <2>1
  <2> DEFINE c == [bundle EXCEPT ![s][l] = Mutated(s, l, @)]
  <2>3. NoKeyUsed(bundle, c)
    BY LeafTrust
  <2>4. Change(Rehashed(c), <<"forged", l>>)
    BY <2>2
  <2> HIDE DEF c
  <2>5. NoKeyUsed(c, Rehashed(c))
    BY RehashTrust
  <2>6. NoKeyUsed(bundle, Rehashed(c))
    BY <2>3, <2>5 DEF NoKeyUsed
  <2> QED
    BY <2>4, <2>6, ChangeKeeps
<1>4. CASE SectionSwap
  BY <1>4, SwapTrust, ChangeKeeps DEF SectionSwap
<1>5. CASE DropSection
  BY <1>5, DropTrust, ChangeKeeps DEF DropSection
<1>6. CASE AttackerResign
  BY <1>6, ResignTrust, ChangeKeeps DEF AttackerResign
<1> QED
  BY <1>1, <1>2, <1>3, <1>4, <1>5, <1>6

LEMMA AssembleKeeps == ASSUME IInv, Assemble PROVE IInv'
<1>1. /\ stage = "proved" /\ stage' = "built" /\ bundle' = Built /\ original' = Built
      /\ UNCHANGED <<shape, log, now, at, seq, size, edits, touched, signed>>
  BY DEF Assemble, Built
<1>2. Built' = Built
  BY <1>1 DEF Built
<1>3. IsBundle(Built) /\ "signatures" \notin DOMAIN Built
  BY BuiltShape DEF Built
<1>4. Without(Built, "signatures") = Built /\ Descriptors(Built) = {}
  BY <1>3, WithoutAbsent DEF Descriptors
<1>5. SvidKept(Built)
  <2>1. Has(Built, "identity") => /\ "svid" \in DOMAIN Built["identity"]
                                  /\ Built["identity"].svid = Signature("idp", Run)
    BY BuiltShape DEF Built
  <2>2. Svid(Signature("idp", Run))
    BY DEF Svid, Signature
  <2> QED
    BY <2>1, <2>2 DEF SvidKept
<1>6. KeysKept'
  <2>1. GateKeyUse(Built, Built, signed)
    BY <1>4 DEF GateKeyUse
  <2>2. KeysKept' = (GateKeyUse(bundle', Built', signed') /\ SvidKept(bundle'))
    BY DEF KeysKept, GateKeyUse, SvidKept, Descriptors, Has
  <2> QED
    BY <1>1, <1>2, <1>5, <2>1, <2>2
<1>7. edits = 0 /\ signed = {}
  BY <1>1 DEF IInv, NotYetBuilt
<1> QED
  BY <1>1, <1>2, <1>4, <1>6, <1>7 DEF IInv, Types, NotYetBuilt, OriginalIsBuilt, UntilChanged

(* A descriptor that the gate or a tool adds while nobody else has touched  *)
(* the document.                                                            *)
LEMMA SigningKeeps ==
    ASSUME IInv, stage = "built", edits = 0, NEW d, NEW sg, sg \subseteq {Built},
           signed \subseteq sg, d.key = "gate" => GateDescriptor(d, Built, sg),
           bundle' = WithDescriptor(bundle, d), original' = bundle', signed' = sg,
           UNCHANGED <<stage, shape, log, now, at, seq, size, edits>>
    PROVE  IInv'
<1>1. Built' = Built /\ bundle = original /\ Without(bundle, "signatures") = Built
  BY DEF Built, IInv, UntilChanged, OriginalIsBuilt
<1>2. /\ Without(bundle', "signatures") = Built
      /\ Descriptors(bundle') = Descriptors(bundle) \cup {d}
      /\ \A s \in DOMAIN bundle : s # "signatures" => bundle'[s] = bundle[s]
      /\ DOMAIN bundle' = DOMAIN bundle \cup {"signatures"}
  BY <1>1, DescriptorAdded
<1>3. GateKeyUse(bundle', Built, sg)
  <2>1. GateKeyUse(bundle, Built, signed)
    BY DEF IInv, KeysKept
  <2>2. \A g : GateDescriptor(g, Built, signed) => GateDescriptor(g, Built, sg)
    BY DEF GateDescriptor
  <2> QED
    BY <1>2, <2>1, <2>2 DEF GateKeyUse
<1>4. SvidKept(bundle')
  <2>1. SvidKept(bundle)
    BY DEF IInv, KeysKept
  <2>2. /\ Has(bundle', "identity") <=> Has(bundle, "identity")
        /\ Has(bundle, "identity") => bundle'["identity"] = bundle["identity"]
    BY <1>2 DEF Has
  <2> QED
    BY <2>1, <2>2 DEF SvidKept
<1>5. KeysKept'
  BY <1>1, <1>3, <1>4 DEF KeysKept
<1> QED
  BY <1>1, <1>2, <1>5 DEF IInv, Types, NotYetBuilt, OriginalIsBuilt, UntilChanged

LEMMA GateKeeps == ASSUME IInv, Gate PROVE IInv'
<1> DEFINE d == [role |-> "gate", key |-> "gate",
                 over |-> Hash(Without(bundle, "signatures")), body |-> Junk]
<1>1. /\ stage = "built" /\ edits = 0 /\ signed = {} /\ bundle' = WithDescriptor(bundle, d)
      /\ original' = bundle' /\ signed' = {Without(bundle, "signatures")}
      /\ UNCHANGED <<stage, shape, log, now, at, seq, size, edits>>
  BY DEF Gate, SignBundle
<1>2. Without(bundle, "signatures") = Built
  BY <1>1 DEF IInv, UntilChanged, OriginalIsBuilt
<1>3. GateDescriptor(d, Built, {Built})
  BY <1>2 DEF GateDescriptor
<1> HIDE DEF d
<1> QED
  BY <1>1, <1>2, <1>3, SigningKeeps

LEMMA ToolKeeps == ASSUME IInv, ToolCosigns PROVE IInv'
<1> DEFINE body == [input_hash |-> bundle["execution_context"].input,
                    output_hash |-> bundle["execution_proof"].output_hash,
                    action_name |-> bundle["action"].name]
           d == [role |-> "tool", key |-> "gate", over |-> Hash(body), body |-> body]
<1>1. /\ stage = "built" /\ edits = 0 /\ bundle' = WithDescriptor(bundle, d)
      /\ original' = bundle' /\ signed' = signed
      /\ UNCHANGED <<stage, shape, log, now, at, seq, size, edits>>
  BY DEF ToolCosigns, ToolWitness
<1>2. GateDescriptor(d, Built, signed)
  BY DEF GateDescriptor
<1>3. signed \subseteq {Built}
  BY <1>1 DEF IInv, OriginalIsBuilt
<1> HIDE DEF d
<1> QED
  BY <1>1, <1>2, <1>3, SigningKeeps

(* Before the bundle is built nothing of it can be disturbed.               *)
LEMMA BeforeBuiltKeeps ==
    ASSUME IInv, stage # "built", stage' # "built", Types',
           UNCHANGED <<bundle, original, edits, signed>>
    PROVE  IInv'
<1>1. bundle = NoBundle
  BY DEF IInv, NotYetBuilt
<1>2. KeysKept'
  BY <1>1, NothingInNoBundle DEF KeysKept
<1> QED
  BY <1>2 DEF IInv, NotYetBuilt, OriginalIsBuilt, UntilChanged

LEMMA IInvNext == IInv /\ [Next]_vars => IInv'
<1> SUFFICES ASSUME IInv, [Next]_vars PROVE IInv'
  OBVIOUS
<1>1. ASSUME NEW sh \in Shapes, Record(sh) PROVE IInv'
  <2>1. Types'
    BY <1>1, BoundsAssumption DEF Record, IInv, Types
  <2> QED
    BY <1>1, <2>1, BeforeBuiltKeeps DEF Record
<1>2. CASE OtherAppend
  <2>1. Types'
    BY <1>2, BoundsAssumption DEF OtherAppend, IInv, Types
  <2> QED
    BY <1>2, <2>1, BeforeBuiltKeeps DEF OtherAppend
<1>3. CASE ReadInclusion
  <2>1. Types'
    BY <1>3, BoundsAssumption DEF ReadInclusion, IInv, Types
  <2> QED
    BY <1>3, <2>1, BeforeBuiltKeeps DEF ReadInclusion
<1>4. CASE Tick
  <2>1. Types' /\ Built' = Built
    BY <1>4, BoundsAssumption DEF Tick, IInv, Types, Built
  <2> QED
    BY <1>4, <2>1 DEF Tick, IInv, NotYetBuilt, OriginalIsBuilt, UntilChanged, KeysKept
<1>5. CASE UNCHANGED vars
  BY <1>5 DEF vars, IInv, Types, NotYetBuilt, OriginalIsBuilt, UntilChanged, KeysKept, Built
<1> QED
  BY <1>1, <1>2, <1>3, <1>4, <1>5, AssembleKeeps, GateKeeps, ToolKeeps, ChangesKeep DEF Next

LEMMA InvariantHolds == Spec => []IInv
BY IInvInit, IInvNext, PTL DEF Spec

LEMMA Typed == IInv => TypeOK
<1> SUFFICES ASSUME IInv PROVE TypeOK
  OBVIOUS
<1>1. stage = "built" => AuthorityLeaves \subseteq DOMAIN original["authority"]
  <2> SUFFICES ASSUME stage = "built"
               PROVE  AuthorityLeaves \subseteq DOMAIN original["authority"]
    OBVIOUS
  <2>1. Without(original, "signatures") = Built
    BY DEF IInv, OriginalIsBuilt
  <2>2. /\ AuthorityLeaves \subseteq DOMAIN Built["authority"]
        /\ "authority" \in DOMAIN Built
    BY BuiltShape DEF Built, AlwaysThere
  <2>3. original["authority"] = Built["authority"]
    BY <2>1, <2>2, WithoutIsBundle
  <2> QED
    BY <2>2, <2>3
<1>2. {Default, Structural, Floor} \subseteq Environments
  <2>1. /\ TRUE \in BOOLEAN /\ FALSE \in BOOLEAN
        /\ {"gate"} \in SUBSET {"gate", "attacker"}
    OBVIOUS
  <2>2. Default \in Environments
    BY <2>1 DEF Default, Environments
  <2>3. Structural \in Environments
    BY <2>1, <2>2 DEF Structural, Environments
  <2>4. Floor \in Environments
    BY <2>3 DEF Floor, Environments
  <2> QED
    BY <2>2, <2>3, <2>4
<1> QED
  BY <1>1, <1>2 DEF IInv, Types, TypeOK

(* The receipt, the log it is recorded in and the options of the relying    *)
(* parties are well typed in every state.                                   *)
THEOREM TypeCorrect == Spec => []TypeOK
BY InvariantHolds, Typed, PTL

(* A tool's co-signature of three hashes is never one of a bundle.          *)
LEMMA WitnessIsNoBundle ==
    ASSUME NEW b, Has(b, "execution_proof"), NEW x, NEW y, NEW z
    PROVE  Without(b, "signatures")
               # [input_hash |-> x, output_hash |-> y, action_name |-> z]
<1>1. "execution_proof" \in DOMAIN Without(b, "signatures")
  BY WithoutIsBundle DEF Has
<1> QED
  BY <1>1

LEMMA SignedByGate ==
    ASSUME IInv, Valid(bundle, Default, now)
    PROVE  Without(bundle, "signatures") = Built /\ Built \in signed
<1>1. /\ Default.require_signatures /\ Default.trusted_signers = {"gate"}
  BY DEF Default
<1>2. PICK d \in Descriptors(bundle) : d.over = Hash(Without(bundle, "signatures"))
                                       /\ d.key = "gate"
  BY <1>1, SignaturesChecked
<1>3. GateDescriptor(d, Built, signed)
  BY <1>2 DEF IInv, KeysKept, GateKeyUse
<1>4. Has(bundle, "execution_proof")
  BY ContentChecked
<1>5. CASE Built \in signed /\ d.over = Hash(Built)
  BY <1>2, <1>5 DEF Hash
<1>6. CASE \E x, y, z : d.over = Hash([input_hash |-> x, output_hash |-> y, action_name |-> z])
  BY <1>2, <1>4, <1>6, WitnessIsNoBundle DEF Hash
<1> QED
  BY <1>3, <1>5, <1>6 DEF GateDescriptor

(* However often a receipt is exported, redacted, migrated, mutated, forged, *)
(* stripped or signed by others, verify_receipt_bundle with its default     *)
(* options accepts only what the gate's key signed.                         *)
THEOREM OnlySignedAccepted == Spec => []AcceptedIsSigned
<1>1. IInv => AcceptedIsSigned
  BY SignedByGate DEF AcceptedIsSigned
<1> QED
  BY <1>1, InvariantHolds, PTL

LEMMA FloorVouched == IInv => FloorBindsIdentity
<1> SUFFICES ASSUME IInv, Has(bundle, "execution_context"), Has(bundle, "authority"),
                    Valid(bundle, Floor, now)
             PROVE  /\ Has(bundle, "identity")
                    /\ bundle["identity"].svid
                           = Signature("idp", bundle["execution_context"].who)
                    /\ bundle["execution_proof"].context_hash
                           = Hash(bundle["execution_context"])
  BY DEF FloorBindsIdentity
<1> DEFINE who == bundle["execution_context"].who
           svid == bundle["identity"].svid
<1>1. Has(bundle, "identity")
  <2>1. Floor.min_tier # "none"
    BY DEF Floor
  <2> QED
    BY <2>1, FloorChecked
<1>2. svid.over = Hash(bundle["authority"].who)
  BY <1>1, IdentityChecked
<1>3. bundle["authority"].who = who
  <2>1. AuthorityOf(bundle["authority"]) = AuthorityOf(bundle["execution_context"])
    BY AuthorityChecked
  <2> QED
    BY <2>1 DEF AuthorityOf, AuthorityLeaves
<1>4. PICK o : svid = [key |-> "idp", over |-> o]
  BY <1>1 DEF IInv, KeysKept, SvidKept, Svid
<1>5. svid = Signature("idp", who)
  BY <1>2, <1>3, <1>4 DEF Signature
<1> QED
  BY <1>1, <1>5, ContextChecked

(* A receipt accepted under an assurance floor that carries its context and *)
(* authority names, in the context its proof commits to, the subject whom   *)
(* the identity provider vouched for (identity_issues, the projection check *)
(* of the authority block and the context hash together).                   *)
THEOREM FloorNamesVouchedSubject == Spec => []FloorBindsIdentity
BY FloorVouched, InvariantHolds, PTL

(* Well-formed receipts, accepted only as signed by the gate and, under a   *)
(* floor, about the vouched-for subject.                                    *)
THEOREM AcceptedVouchedFor == Spec => []AcceptedIsVouchedFor
<1>1. IInv => AcceptedIsVouchedFor
  BY Typed, FloorVouched, SignedByGate DEF AcceptedIsVouchedFor, AcceptedIsSigned
<1> QED
  BY <1>1, InvariantHolds, PTL

(* A receipt without a delegation does not change its verdict while time    *)
(* passes: certificate, mandate and identity are judged at the time of the  *)
(* action, and what is accepted is what the gate signed, in which there is  *)
(* no delegation to expire.                                                 *)
THEOREM VerdictStable == Spec => VerdictIsStable
<1> DEFINE A == (bundle' = bundle /\ "delegation" \notin shape /\ stage = "built"
                 /\ Valid(bundle, Default, now)) => Valid(bundle, Default, now')
<1>1. IInv /\ [Next]_vars => [A]_vars
  <2> SUFFICES ASSUME IInv, "delegation" \notin shape, Valid(bundle, Default, now)
               PROVE  Valid(bundle, Default, now')
    OBVIOUS
  <2>1. Without(bundle, "signatures") = Built
    BY SignedByGate
  <2>2. Has(bundle, "execution_context")
            => bundle["execution_context"] = ExecutionContext(Run, shape, at)
    <3>1. Built["execution_context"] = ExecutionContext(Run, shape, at)
      BY BuiltShape DEF Built
    <3> QED
      BY <2>1, <3>1, WithoutIsBundle DEF Has
  <2>3. /\ ExecutionContext(Run, shape, at).delegation_id = Absent
        /\ ExecutionContext(Run, shape, at).ddoc = Absent
    BY DEF ExecutionContext
  <2>4. DelegationIssues(bundle, now') = {}
    BY <2>2, <2>3 DEF DelegationIssues, Issue
  <2> QED
    BY <2>4, OnlyDelegationAges
<1> QED
  BY <1>1, InvariantHolds, PTL DEF Spec, VerdictIsStable

-----------------------------------------------------------------------------
(* The sections build_receipt_bundle fills in, leaf by leaf.                *)
Parts(r, sh, t, i, n) ==
    LET ctx == ExecutionContext(r, sh, t)
        cert == Certificate(r, t)
    IN  AllSections(r, sh, t, ExecutionProof(r, sh, t, ctx, cert), ctx, cert, i, n)

(* The leaves of every section.                                             *)
Leaves ==
    [schema |-> {"id"}, exported_at |-> {"at"}, output |-> {"body"},
     verification |-> {"valid"},
     execution_proof |-> {"proof_id", "agent_id", "certificate_ref", "policy_commitment",
                          "context_hash", "output_hash", "attestation_path",
                          "policy_satisfied", "outcome", "version", "session", "created_at",
                          "obligations", "proved", "composed", "bound_context", "bound_model"},
     certificate |-> {"agent", "model", "policy", "not_before", "not_after",
                      "issuer_signature"},
     decision |-> {"outcome", "version", "session", "obligations", "policy_satisfied",
                   "violations", "recommended_action", "approval", "budget_effects"},
     authority |-> AuthorityLeaves \cup {"binding_state"},
     action |-> {"name", "side_effect"},
     execution_context |-> AuthorityLeaves \cup {"input", "arguments_hash", "side_effect",
                           "score", "credential_ok", "artifact_ok", "delegation_id", "ddoc",
                           "duntil", "dsig"},
     evidence |-> {"summary", "obligations", "score", "assurance"},
     decision_record |-> {"outcome", "policy_satisfied", "violations", "recommended_action",
                          "approval", "obligations", "authority_id", "version", "session"},
     v1 |-> {"policy_violations", "recommended_action", "assurance"},
     session |-> {"session", "version"},
     policy |-> {"commitment", "inputs", "name"},
     audit_record |-> {"proof_id", "execution_proof_hash", "action", "prev_hash", "seq",
                       "record_hash", "signature"},
     audit_inclusion |-> {"leaf", "tree_size", "count", "checkpoint_signature",
                          "log_public_key"},
     lineage |-> {"authority_id", "version"},
     identity |-> {"sub", "svid", "credential"},
     budget |-> {"effects", "summary"},
     approval |-> {"state"},
     mandate |-> {"grant_id", "delegate", "issued_at", "expires_at", "limit", "commitment",
                  "signature"},
     workload_proof |-> {"binding", "signature"},
     session_proof |-> {"session", "policy", "action_output", "folded"}]

LEMMA PartsLeaves ==
    ASSUME NEW r, NEW sh, NEW t, NEW i, NEW n
    PROVE  LET a == Parts(r, sh, t, i, n)
           IN  DOMAIN a = DOMAIN Leaves /\ \A s \in DOMAIN a : DOMAIN a[s] = Leaves[s]
<1> DEFINE ctx == ExecutionContext(r, sh, t)
           cert == Certificate(r, t)
           p == ExecutionProof(r, sh, t, ctx, cert)
           a == AllSections(r, sh, t, p, ctx, cert, i, n)
<1>0. a = Parts(r, sh, t, i, n)
  BY DEF Parts
<1>1. DOMAIN p = Leaves.execution_proof
  BY DEF ExecutionProof, Leaves
<1>2. DOMAIN cert = Leaves.certificate
  BY DEF Certificate, Leaves
<1>3. DOMAIN ctx = Leaves.execution_context
  BY DEF ExecutionContext, Leaves, AuthorityLeaves
<1> HIDE DEF p, cert, ctx
<1>4. DOMAIN a = DOMAIN Leaves
  BY DEF AllSections, Leaves
<1>5. \A s \in DOMAIN a : DOMAIN a[s] = Leaves[s]
  <2>1. /\ a.execution_proof = p /\ a.certificate = cert /\ a.execution_context = ctx
    BY DEF AllSections
  <2>2. /\ DOMAIN a.schema = Leaves.schema /\ DOMAIN a.exported_at = Leaves.exported_at
        /\ DOMAIN a.output = Leaves.output /\ DOMAIN a.verification = Leaves.verification
        /\ DOMAIN a.authority = Leaves.authority /\ DOMAIN a.action = Leaves.action
    <3>1. /\ DOMAIN a.schema = Leaves.schema /\ DOMAIN a.exported_at = Leaves.exported_at
          /\ DOMAIN a.output = Leaves.output
      BY DEF AllSections, Leaves
    <3>2. DOMAIN a.verification = Leaves.verification /\ DOMAIN a.action = Leaves.action
      BY DEF AllSections, Leaves
    <3>3. DOMAIN a.authority = Leaves.authority
      BY DEF AllSections, Leaves, AuthorityLeaves
    <3> QED
      BY <3>1, <3>2, <3>3
  <2>3. /\ DOMAIN a.decision = Leaves.decision
        /\ DOMAIN a.decision_record = Leaves.decision_record
    BY DEF AllSections, Leaves, DecisionSection, DecisionRecord
  <2>4. /\ DOMAIN a.evidence = Leaves.evidence /\ DOMAIN a.v1 = Leaves.v1
        /\ DOMAIN a.session = Leaves.session /\ DOMAIN a.policy = Leaves.policy
    BY DEF AllSections, Leaves, EvidenceBlock, V1Section
  <2>5. /\ DOMAIN a.audit_record = Leaves.audit_record
        /\ DOMAIN a.audit_inclusion = Leaves.audit_inclusion
    BY DEF AllSections, Leaves, AuditRecord, InclusionSection
  <2>6. /\ DOMAIN a.lineage = Leaves.lineage /\ DOMAIN a.identity = Leaves.identity
        /\ DOMAIN a.budget = Leaves.budget /\ DOMAIN a.approval = Leaves.approval
    BY DEF AllSections, Leaves
  <2>7. /\ DOMAIN a.mandate = Leaves.mandate /\ DOMAIN a.workload_proof = Leaves.workload_proof
        /\ DOMAIN a.session_proof = Leaves.session_proof
    <3>1. DOMAIN a.mandate = Leaves.mandate
      BY DEF AllSections, Leaves
    <3>2. DOMAIN a.workload_proof = Leaves.workload_proof
      BY DEF AllSections, Leaves
    <3>3. DOMAIN a.session_proof = Leaves.session_proof
      BY DEF AllSections, Leaves
    <3> QED
      BY <3>1, <3>2, <3>3
  <2>8. \A s \in DOMAIN Leaves : s \in
          {"schema", "exported_at", "output", "verification", "execution_proof", "certificate",
           "decision", "authority", "action", "execution_context", "evidence",
           "decision_record", "v1", "session", "policy", "audit_record", "audit_inclusion",
           "lineage", "identity", "budget", "approval", "mandate", "workload_proof",
           "session_proof"}
    BY DEF Leaves
  <2> HIDE DEF a
  <2> QED
    BY <1>1, <1>2, <1>3, <1>4, <2>1, <2>2, <2>3, <2>4, <2>5, <2>6, <2>7, <2>8
<1> QED
  BY <1>0, <1>4, <1>5

LEMMA PartsAreFunctions ==
    ASSUME NEW r, NEW sh, NEW t, NEW i, NEW n
    PROVE  LET a == Parts(r, sh, t, i, n)
           IN  \A s \in DOMAIN a : IsBundle(a[s])
<1> DEFINE ctx == ExecutionContext(r, sh, t)
           cert == Certificate(r, t)
           p == ExecutionProof(r, sh, t, ctx, cert)
           a == AllSections(r, sh, t, p, ctx, cert, i, n)
<1>0. a = Parts(r, sh, t, i, n)
  BY DEF Parts
<1>1. IsBundle(p)
  BY DEF ExecutionProof, IsBundle
<1>2. IsBundle(cert)
  BY DEF Certificate, IsBundle
<1>3. IsBundle(ctx)
  BY DEF ExecutionContext, IsBundle
<1> HIDE DEF p, cert, ctx
<1>4. DOMAIN a = DOMAIN Leaves
  BY <1>0, PartsLeaves
<1>5. a.execution_proof = p /\ a.certificate = cert /\ a.execution_context = ctx
  BY DEF AllSections
<1>6. /\ IsBundle(a.schema) /\ IsBundle(a.exported_at) /\ IsBundle(a.output)
      /\ IsBundle(a.verification) /\ IsBundle(a.authority) /\ IsBundle(a.action)
  <2>1. IsBundle(a.schema) /\ IsBundle(a.exported_at) /\ IsBundle(a.output)
    BY DEF AllSections, IsBundle
  <2>2. IsBundle(a.verification) /\ IsBundle(a.action)
    BY DEF AllSections, IsBundle
  <2>3. IsBundle(a.authority)
    BY DEF AllSections, IsBundle
  <2> QED
    BY <2>1, <2>2, <2>3
<1>7. IsBundle(a.decision)
  BY DEF AllSections, DecisionSection, IsBundle
<1>8. IsBundle(a.decision_record)
  BY DEF AllSections, DecisionRecord, IsBundle
<1>9. IsBundle(a.evidence) /\ IsBundle(a.v1) /\ IsBundle(a.session) /\ IsBundle(a.policy)
  <2>1. IsBundle(a.evidence)
    BY DEF AllSections, EvidenceBlock, IsBundle
  <2>2. IsBundle(a.v1)
    BY DEF AllSections, V1Section, IsBundle
  <2>3. IsBundle(a.session) /\ IsBundle(a.policy)
    BY DEF AllSections, IsBundle
  <2> QED
    BY <2>1, <2>2, <2>3
<1>10. IsBundle(a.audit_record) /\ IsBundle(a.audit_inclusion)
  <2>1. IsBundle(a.audit_record)
    BY DEF AllSections, AuditRecord, IsBundle
  <2>2. IsBundle(a.audit_inclusion)
    BY DEF AllSections, InclusionSection, IsBundle
  <2> QED
    BY <2>1, <2>2
<1>11. /\ IsBundle(a.lineage) /\ IsBundle(a.identity) /\ IsBundle(a.budget)
       /\ IsBundle(a.approval)
  <2>1. IsBundle(a.lineage) /\ IsBundle(a.identity)
    BY DEF AllSections, IsBundle
  <2>2. IsBundle(a.budget) /\ IsBundle(a.approval)
    BY DEF AllSections, IsBundle
  <2> QED
    BY <2>1, <2>2
<1>12. IsBundle(a.mandate) /\ IsBundle(a.workload_proof) /\ IsBundle(a.session_proof)
  <2>1. IsBundle(a.mandate)
    BY DEF AllSections, IsBundle
  <2>2. IsBundle(a.workload_proof)
    BY DEF AllSections, IsBundle
  <2>3. IsBundle(a.session_proof)
    BY DEF AllSections, IsBundle
  <2> QED
    BY <2>1, <2>2, <2>3
<1> HIDE DEF a
<1>13. \A s \in DOMAIN a : IsBundle(a[s])
  BY <1>1, <1>2, <1>3, <1>4, <1>5, <1>6, <1>7, <1>8, <1>9, <1>10, <1>11, <1>12 DEF Leaves
<1> QED
  BY <1>0, <1>13

(* A built document, section by section.                                    *)
IsBuiltFrom(b, a, sh) ==
    /\ IsBundle(b)
    /\ DOMAIN b = {s \in DOMAIN a : Present(s, sh)}
                  \cup (IF "scitt" \in sh THEN {"scitt"} ELSE {})
    /\ \A s \in DOMAIN b : s \notin {"authority", "scitt"} => b[s] = a[s]
    /\ \E x : b["authority"] = [a["authority"] EXCEPT !.binding_state = x]
    /\ "scitt" \in DOMAIN b => \E x : b["scitt"] = [statement |-> Signature("statement", x)]

LEMMA BuiltFrom ==
    ASSUME NEW r, NEW sh, NEW t, NEW i, NEW n
    PROVE  IsBuiltFrom(BuildBundle(r, sh, t, i, n), Parts(r, sh, t, i, n), sh)
<1> DEFINE ctx == ExecutionContext(r, sh, t)
           cert == Certificate(r, t)
           p == ExecutionProof(r, sh, t, ctx, cert)
           a == AllSections(r, sh, t, p, ctx, cert, i, n)
           b == Sections(r, sh, t, p, ctx, cert, i, n)
           x == DeriveBindingState(b, "identity" \in sh, "workload" \in sh)
           k == [b EXCEPT !["authority"].binding_state = x]
           q == [s \in DOMAIN k \cup {"scitt"} |->
                   IF s = "scitt" THEN [statement |-> Signature("statement", k)] ELSE k[s]]
<1>1. /\ BuildBundle(r, sh, t, i, n) = IF "scitt" \in sh THEN q ELSE k
      /\ a = Parts(r, sh, t, i, n)
  BY DEF BuildBundle, Parts
<1>2. DOMAIN a = DOMAIN Leaves
  BY <1>1, PartsLeaves
<1> HIDE DEF p, cert, ctx
<1>3. /\ DOMAIN b = {s \in DOMAIN a : Present(s, sh)}
      /\ \A s \in DOMAIN b : b[s] = a[s]
  BY DEF Sections, Restrict
<1>4. "authority" \in DOMAIN b /\ "scitt" \notin DOMAIN b
  BY <1>2, <1>3 DEF Leaves, Present, OptionalSections
<1> HIDE DEF a, b, x
<1>5. /\ DOMAIN k = DOMAIN b /\ IsBundle(k)
      /\ \A s \in DOMAIN b : s # "authority" => k[s] = b[s]
      /\ k["authority"] = [a["authority"] EXCEPT !.binding_state = x]
  BY <1>3, <1>4 DEF IsBundle
<1> HIDE DEF k
<1>6. /\ DOMAIN q = DOMAIN b \cup {"scitt"} /\ IsBundle(q)
      /\ \A s \in DOMAIN b : q[s] = k[s]
      /\ q["scitt"] = [statement |-> Signature("statement", k)]
  BY <1>4, <1>5 DEF IsBundle
<1> HIDE DEF q
<1>7. CASE "scitt" \in sh
  BY <1>1, <1>3, <1>4, <1>5, <1>6, <1>7 DEF IsBuiltFrom
<1>8. CASE "scitt" \notin sh
  BY <1>1, <1>3, <1>4, <1>5, <1>8 DEF IsBuiltFrom
<1> QED
  BY <1>7, <1>8

(* The values the checks compare with constants.                            *)
PartsValues(a, r, sh) ==
    /\ a.execution_proof.proof_id = r /\ a.execution_proof.proved = TRUE
    /\ a.execution_proof.policy_satisfied = TRUE
    /\ a.execution_proof.composed = ("composed" \in sh)
    /\ "composed" \notin sh => /\ a.execution_proof.bound_context = Junk
                               /\ a.execution_proof.bound_model = 0
    /\ a.execution_proof.session = Maybe(sh, "session", r)
    /\ a.decision.obligations = r
    /\ a.decision.budget_effects = (IF "budget" \in sh THEN 1 ELSE 0)
    /\ a.output.body = r /\ a.authority.version = r
    /\ a.action.side_effect = ("side_effect" \in sh)
    /\ a.budget.effects = a.decision.budget_effects
    /\ a.budget.summary = a.decision.budget_effects
    /\ a.mandate.limit = 1 /\ a.session_proof.folded = TRUE
    /\ \E k, v : a.identity.svid = Signature(k, v)
    /\ \E k, v : a.mandate.signature = Signature(k, v)
    /\ \E k, v : a.workload_proof.signature = Signature(k, v)
    /\ \E k, v : a.audit_record.signature = Signature(k, v)
    /\ \E k, v : a.audit_inclusion.checkpoint_signature = Signature(k, v)

LEMMA PartsHaveValues ==
    ASSUME NEW r, NEW sh, NEW t, NEW i, NEW n
    PROVE  PartsValues(Parts(r, sh, t, i, n), r, sh)
<1> DEFINE ctx == ExecutionContext(r, sh, t)
           cert == Certificate(r, t)
           p == ExecutionProof(r, sh, t, ctx, cert)
           a == AllSections(r, sh, t, p, ctx, cert, i, n)
<1>0. a = Parts(r, sh, t, i, n)
  BY DEF Parts
<1>1. /\ p.proof_id = r /\ p.proved = TRUE /\ p.policy_satisfied = TRUE
      /\ p.composed = ("composed" \in sh)
      /\ "composed" \notin sh => p.bound_context = Junk /\ p.bound_model = 0
      /\ p.session = ctx.session
  BY DEF ExecutionProof
<1>2. /\ ctx.session = Maybe(sh, "session", r) /\ ctx.version = r
      /\ ctx.side_effect = ("side_effect" \in sh)
      /\ p.obligations = r
  BY DEF ExecutionContext, ExecutionProof
<1> HIDE DEF p, cert, ctx
<1>3. /\ a.execution_proof = p
      /\ a.output.body = r /\ a.authority.version = ctx.version
      /\ a.action.side_effect = ctx.side_effect
      /\ a.session_proof.folded = TRUE
  BY DEF AllSections
<1>4. /\ a.decision.obligations = p.obligations
      /\ a.decision.budget_effects = (IF "budget" \in sh THEN 1 ELSE 0)
      /\ a.budget.effects = a.decision.budget_effects
      /\ a.budget.summary = a.decision.budget_effects
  BY DEF AllSections, DecisionSection
<1>5. a.mandate.limit = 1
  BY DEF AllSections
<1>6. \E k, v : a.identity.svid = Signature(k, v)
  BY DEF AllSections
<1>7. \E k, v : a.mandate.signature = Signature(k, v)
  BY DEF AllSections
<1>8. \E k, v : a.workload_proof.signature = Signature(k, v)
  BY DEF AllSections
<1>9. /\ \E k, v : a.audit_record.signature = Signature(k, v)
      /\ \E k, v : a.audit_inclusion.checkpoint_signature = Signature(k, v)
  BY DEF AllSections, AuditRecord, InclusionSection
<1> HIDE DEF a
<1>10. PartsValues(a, r, sh)
  BY <1>1, <1>2, <1>3, <1>4, <1>5, <1>6, <1>7, <1>8, <1>9 DEF PartsValues
<1> QED
  BY <1>0, <1>10

-----------------------------------------------------------------------------
(* One leaf of b, in section s, has another value in c.                     *)
Edited(b, c, s, l) ==
    /\ s \in DOMAIN b /\ l \in DOMAIN b[s] /\ DOMAIN c = DOMAIN b
    /\ \A x \in DOMAIN b : x # s => c[x] = b[x]
    /\ DOMAIN c[s] = DOMAIN b[s]
    /\ \A k \in DOMAIN b[s] : k # l => c[s][k] = b[s][k]
    /\ c[s][l] = Mutated(s, l, b[s][l]) /\ c[s][l] # b[s][l]

LEMMA SameBundle ==
    ASSUME NEW b, NEW c, IsBundle(b), IsBundle(c), DOMAIN c = DOMAIN b,
           \A x \in DOMAIN b : c[x] = b[x]
    PROVE  c = b
BY DEF IsBundle

LEMMA LeafEdited ==
    ASSUME NEW b, NEW s \in DOMAIN b, NEW l \in DOMAIN b[s], IsBundle(b), IsBundle(b[s]),
           [b EXCEPT ![s][l] = Mutated(s, l, @)] # b
    PROVE  Edited(b, [b EXCEPT ![s][l] = Mutated(s, l, @)], s, l)
<1> DEFINE v == Mutated(s, l, b[s][l])
           c == [b EXCEPT ![s][l] = Mutated(s, l, @)]
<1>1. /\ DOMAIN c = DOMAIN b /\ IsBundle(c)
      /\ \A x \in DOMAIN b : x # s => c[x] = b[x]
      /\ DOMAIN c[s] = DOMAIN b[s] /\ IsBundle(c[s])
      /\ \A k \in DOMAIN b[s] : k # l => c[s][k] = b[s][k]
      /\ c[s][l] = v
  BY DEF IsBundle
<1>2. c # b
  OBVIOUS
<1> HIDE DEF c
<1>3. c[s][l] # b[s][l]
  <2> SUFFICES ASSUME c[s][l] = b[s][l] PROVE FALSE
    OBVIOUS
  <2>1. \A k \in DOMAIN b[s] : c[s][k] = b[s][k]
    BY <1>1
  <2>2. c[s] = b[s]
    BY <1>1, <2>1, SameBundle
  <2>3. \A x \in DOMAIN b : c[x] = b[x]
    BY <1>1, <2>2
  <2>4. c = b
    BY <1>1, <2>3, SameBundle
  <2> QED
    BY <1>2, <2>4
<1>4. Edited(b, c, s, l)
  BY <1>1, <1>3 DEF Edited
<1> QED
  BY <1>4 DEF c

-----------------------------------------------------------------------------
(* What each check ties together.                                           *)
LEMMA SchemaChecked ==
    ASSUME NEW b, NEW env, NEW t, Valid(b, env, t), Has(b, "schema")
    PROVE  b["schema"].id \in {"v1", "v2"}
<1>1. SchemaIssues(b) = {}
  BY ContentChecked
<1> QED
  BY <1>1 DEF SchemaIssues, Issue

LEMMA OutputChecked ==
    ASSUME NEW b, NEW env, NEW t, Valid(b, env, t), Has(b, "output")
    PROVE  b["output"].body = b["execution_proof"].output_hash
<1>1. OutputContextIssues(b, b["execution_proof"]) = {}
  BY ContentChecked
<1> QED
  BY <1>1 DEF OutputContextIssues, Issue

LEMMA ProofChecked ==
    ASSUME NEW b, NEW env, NEW t, Valid(b, env, t)
    PROVE  /\ b["execution_proof"].policy_satisfied /\ b["execution_proof"].proved
           /\ b["execution_proof"].composed =>
                  b["execution_proof"].bound_context = b["execution_proof"].context_hash
<1>1. ProofIssues(b, b["execution_proof"]) = {}
  BY ContentChecked
<1> QED
  BY <1>1 DEF ProofIssues, Issue, ProofVerifies

LEMMA DecisionChecked ==
    ASSUME NEW b, NEW env, NEW t, Valid(b, env, t), Has(b, "decision")
    PROVE  LET d == b["decision"]
               p == b["execution_proof"]
           IN  /\ d.outcome = p.outcome /\ d.version = p.version /\ d.session = p.session
               /\ d.obligations = p.obligations /\ d.policy_satisfied = p.policy_satisfied
<1>1. DecisionIssues(b, b["execution_proof"]) = {}
  BY ContentChecked
<1> QED
  BY <1>1 DEF DecisionIssues, Issue

LEMMA AuthorityProofChecked ==
    ASSUME NEW b, NEW env, NEW t, Valid(b, env, t), Has(b, "authority")
    PROVE  /\ b["authority"].version = b["execution_proof"].version
           /\ b["authority"].session = b["execution_proof"].session
<1>1. AuthorityProjectionIssues(b, b["execution_proof"]) = {}
  BY ContentChecked
<1> QED
  BY <1>1 DEF AuthorityProjectionIssues, Issue

LEMMA LineageChecked ==
    ASSUME NEW b, NEW env, NEW t, Valid(b, env, t), Has(b, "lineage"), Has(b, "authority")
    PROVE  /\ b["lineage"].authority_id = b["authority"].authority_id
           /\ b["lineage"].version = b["authority"].version
<1>1. LineageIssues(b) = {}
  BY ContentChecked
<1> QED
  BY <1>1 DEF LineageIssues, Issue

LEMMA SessionChecked ==
    ASSUME NEW b, NEW env, NEW t, Valid(b, env, t), Has(b, "session")
    PROVE  /\ b["session"].session = b["execution_proof"].session
           /\ b["session"].version = b["execution_proof"].version
<1>1. SessionIssues(b, b["execution_proof"]) = {}
  BY ContentChecked
<1> QED
  BY <1>1 DEF SessionIssues, Issue

LEMMA CertificateChecked ==
    ASSUME NEW b, NEW env, NEW t, Valid(b, env, t), Has(b, "certificate")
    PROVE  LET c == b["certificate"]
               p == b["execution_proof"]
           IN  /\ p.certificate_ref = Hash(c) /\ p.agent_id = c.agent
               /\ p.composed => p.bound_model = c.model
               /\ c.policy = p.policy_commitment
<1>1. CertificateIssues(b, b["execution_proof"], t) = {}
  BY ContentChecked
<1> QED
  BY <1>1 DEF CertificateIssues, Issue

LEMMA PolicyChecked ==
    ASSUME NEW b, NEW env, NEW t, Valid(b, env, t), Has(b, "policy")
    PROVE  /\ b["policy"].commitment = b["execution_proof"].policy_commitment
           /\ b["policy"].inputs = b["execution_proof"].policy_commitment
           /\ b["policy"].name = b["policy"].inputs
<1>1. PolicyIssues(b, b["execution_proof"]) = {}
  BY ContentChecked
<1> QED
  BY <1>1 DEF PolicyIssues, Issue

LEMMA BindingChecked ==
    ASSUME NEW b, NEW env, NEW t, Valid(b, env, t), Has(b, "authority")
    PROVE  b["authority"].binding_state = BindingState(b, b["execution_proof"])
<1>1. BindingStateIssues(b, b["execution_proof"]) = {}
  BY ContentChecked
<1> QED
  BY <1>1 DEF BindingStateIssues, Issue

LEMMA AssuranceChecked ==
    ASSUME NEW b, NEW env, NEW t, Valid(b, env, t)
    PROVE  /\ Has(b, "v1") => b["v1"].assurance = AssuranceLevel(b["execution_proof"])
           /\ Has(b, "evidence") =>
                  b["evidence"].assurance \in {"none", AssuranceLevel(b["execution_proof"])}
<1>1. StoredAssuranceIssues(b, b["execution_proof"]) = {}
  BY ContentChecked
<1> QED
  BY <1>1 DEF StoredAssuranceIssues, Issue

LEMMA SummaryChecked ==
    ASSUME NEW b, NEW env, NEW t, Valid(b, env, t), Has(b, "evidence")
    PROVE  b["evidence"].summary = EvidenceSummary(b["execution_proof"])
<1>1. SummaryIssues(b, b["execution_proof"]) = {}
  BY ContentChecked
<1> QED
  BY <1>1 DEF SummaryIssues, Issue

LEMMA DecisionRecordChecked ==
    ASSUME NEW b, NEW env, NEW t, Valid(b, env, t), Has(b, "decision_record")
    PROVE  LET r == b["decision_record"]
               p == b["execution_proof"]
           IN  /\ r.outcome = p.outcome /\ r.policy_satisfied = p.policy_satisfied
               /\ r.version = p.version /\ r.session = p.session
               /\ Has(b, "execution_context") =>
                      r.authority_id = b["execution_context"].authority_id
<1>1. DecisionRecordIssues(b, b["execution_proof"]) = {}
  BY ContentChecked
<1> QED
  BY <1>1 DEF DecisionRecordIssues, Issue

LEMMA MirrorChecked ==
    ASSUME NEW b, NEW env, NEW t, Valid(b, env, t), Has(b, "decision_record"), Has(b, "decision")
    PROVE  LET r == b["decision_record"]
               d == b["decision"]
           IN  /\ d.violations = r.violations /\ d.obligations = r.obligations
               /\ d.recommended_action = r.recommended_action /\ d.approval = r.approval
               /\ Has(b, "evidence") => b["evidence"].obligations = d.obligations
<1>1. MirrorIssues(b) = {}
  BY ContentChecked
<1> QED
  BY <1>1 DEF MirrorIssues, Issue

LEMMA CopyChecked ==
    ASSUME NEW b, NEW env, NEW t, Valid(b, env, t), Has(b, "decision")
    PROVE  LET d == b["decision"]
               g == b["budget"]
           IN  /\ Has(b, "v1") => b["v1"].policy_violations = d.violations
               /\ Has(b, "budget") /\ g.effects > 0 => g.effects = d.budget_effects
               /\ Has(b, "budget") /\ g.summary > 0 =>
                      g.summary = IF g.effects > 0 THEN g.effects ELSE d.budget_effects
<1>1. CopyIssues(b) = {}
  BY ContentChecked
<1> QED
  BY <1>1 DEF CopyIssues, Issue

LEMMA MandateChecked ==
    ASSUME NEW b, NEW env, NEW t, Valid(b, env, t), Has(b, "mandate")
    PROVE  LET m == b["mandate"]
           IN  /\ m.signature.over = Hash(MandateDocument(m))
               /\ m.commitment = Hash(MandateDocument(m))
               /\ Has(b, "decision") => ~(b["decision"].budget_effects > m.limit)
<1>1. MandateIssues(b, b["execution_proof"], env, t) = {}
  BY ContentChecked
<1> QED
  BY <1>1 DEF MandateIssues, Issue, Verifies

LEMMA MandateRequired ==
    ASSUME NEW b, NEW env, NEW t, Valid(b, env, t), Has(b, "decision"),
           env.require_mandate_for_budgets, ~Has(b, "budget")
    PROVE  Has(b, "mandate") \/ ~(b["decision"].budget_effects > 0)
<1>1. MandateIssues(b, b["execution_proof"], env, t) = {}
  BY ContentChecked
<1> QED
  BY <1>1 DEF MandateIssues, Issue

LEMMA AuditRecordChecked ==
    ASSUME NEW b, NEW env, NEW t, Valid(b, env, t), Has(b, "audit_record")
    PROVE  LET a == b["audit_record"]
               p == b["execution_proof"]
           IN  /\ a.record_hash = Hash(AuditBody(a)) /\ a.proof_id = p.proof_id
               /\ a.execution_proof_hash = Hash(p)
               /\ Has(b, "audit_inclusion") =>
                      /\ a.signature.key = b["audit_inclusion"].log_public_key
                      /\ a.signature.over = a.record_hash
<1>1. AuditRecordIssues(b, b["execution_proof"]) = {}
  BY ContentChecked
<1> QED
  BY <1>1 DEF AuditRecordIssues, Issue

LEMMA InclusionChecked ==
    ASSUME NEW b, NEW env, NEW t, Valid(b, env, t), Has(b, "audit_inclusion")
    PROVE  LET i == b["audit_inclusion"]
           IN  /\ i.checkpoint_signature.over = Hash(i.count) /\ i.tree_size = i.count
               /\ i.leaf = b["audit_record"].record_hash
<1>1. AuditInclusionIssues(b, env) = {}
  BY ContentChecked
<1> QED
  BY <1>1 DEF AuditInclusionIssues, Issue, Verifies

LEMMA WorkloadChecked ==
    ASSUME NEW b, NEW env, NEW t, Valid(b, env, t), Has(b, "workload_proof")
    PROVE  LET w == b["workload_proof"]
               p == b["execution_proof"]
           IN  /\ w.signature.over = Hash(w.binding)
               /\ Has(b, "identity") =>
                      w.binding = WorkloadBinding(p, b["identity"].credential)
               /\ \E x : w.binding = WorkloadBinding(p, x)
<1>1. WorkloadProofIssues(b, b["execution_proof"]) = {}
  BY ContentChecked
<1> QED
  BY <1>1 DEF WorkloadProofIssues, Issue, Verifies

LEMMA ScittChecked ==
    ASSUME NEW b, NEW env, NEW t, Valid(b, env, t), Has(b, "scitt")
    PROVE  b["scitt"].statement.over = Hash(Without(b, "scitt"))
<1>1. ScittIssues(b) = {}
  BY ContentChecked
<1> QED
  BY <1>1 DEF ScittIssues, Issue, Verifies

LEMMA SideEffectChecked ==
    ASSUME NEW b, NEW env, NEW t, Valid(b, env, t), Has(b, "action")
    PROVE  ~b["action"].side_effect \/ ToolWitnesses(b) # {}
<1>1. ToolWitnessIssues(b) = {}
  BY ContentChecked
<1> QED
  BY <1>1 DEF ToolWitnessIssues, Issue

LEMMA SessionProofChecked ==
    ASSUME NEW b, NEW env, NEW t, Valid(b, env, t), Has(b, "session_proof")
    PROVE  LET s == b["session_proof"]
               p == b["execution_proof"]
           IN  /\ p.session # Absent => s.session = p.session
               /\ s.policy = p.policy_commitment /\ s.action_output = p.output_hash
               /\ s.folded
<1>1. SessionProofIssues(b, b["execution_proof"]) = {}
  BY ContentChecked
<1> QED
  BY <1>1 DEF SessionProofIssues, Issue

-----------------------------------------------------------------------------
(* A built document and its parts; a change of one leaf that both documents *)
(* survive.                                                                 *)
Genuine(b, a, sh) ==
    /\ DOMAIN a = DOMAIN Leaves /\ \A s \in DOMAIN a : DOMAIN a[s] = Leaves[s]
    /\ IsBuiltFrom(b, a, sh) /\ PartsValues(a, Run, sh)

Undetected(b, c, a, sh, t, s, l) ==
    /\ Genuine(b, a, sh) /\ Edited(b, c, s, l)
    /\ Valid(b, Structural, t) /\ Valid(c, Structural, t)

LEMMA GenuineSections ==
    ASSUME NEW b, NEW a, NEW sh, Genuine(b, a, sh)
    PROVE  /\ AlwaysThere \subseteq DOMAIN b /\ "signatures" \notin DOMAIN b
           /\ \A s \in DOMAIN b : s # "scitt" => s \in DOMAIN Leaves /\ DOMAIN b[s] = Leaves[s]
           /\ \A s \in DOMAIN Leaves : s \in DOMAIN b <=> Present(s, sh)
           /\ "scitt" \in DOMAIN b => DOMAIN b["scitt"] = {"statement"}
<1>1. /\ DOMAIN b = {s \in DOMAIN Leaves : Present(s, sh)}
                    \cup (IF "scitt" \in sh THEN {"scitt"} ELSE {})
      /\ \A s \in DOMAIN b : s \notin {"authority", "scitt"} => b[s] = a[s]
      /\ \A s \in DOMAIN Leaves : DOMAIN a[s] = Leaves[s]
  BY DEF Genuine, IsBuiltFrom
<1>2. /\ AlwaysThere \subseteq DOMAIN Leaves
      /\ "signatures" \notin DOMAIN Leaves /\ "scitt" \notin DOMAIN Leaves
      /\ \A s \in AlwaysThere : Present(s, sh)
  BY DEF AlwaysThere, Leaves, Present, OptionalSections
<1>3. DOMAIN b["authority"] = DOMAIN a["authority"]
  BY DEF Genuine, IsBuiltFrom
<1>4. "authority" \in DOMAIN Leaves
  BY DEF Leaves
<1>5. "scitt" \in DOMAIN b => DOMAIN b["scitt"] = {"statement"}
  BY DEF Genuine, IsBuiltFrom
<1> QED
  BY <1>1, <1>2, <1>3, <1>4, <1>5

(* schema: an unknown id is no schema.                                      *)
LEMMA SchemaDetected ==
    ASSUME NEW b, NEW c, NEW a, NEW sh, NEW t, NEW l, Undetected(b, c, a, sh, t, "schema", l)
    PROVE  FALSE
<1>0. /\ Genuine(b, a, sh) /\ Edited(b, c, "schema", l)
      /\ Valid(b, Structural, t) /\ Valid(c, Structural, t)
      /\ AlwaysThere \subseteq DOMAIN b
  BY GenuineSections DEF Undetected
<1>1. l = "id" /\ Has(c, "schema")
  BY <1>0, GenuineSections DEF Edited, AlwaysThere, Has, Leaves
<1>2. c["schema"].id = "tampered"
  BY <1>0, <1>1, MutatedValue DEF Edited, TextLeaves
<1> QED
  BY <1>0, <1>1, <1>2, SchemaChecked

(* output: its hash is in the proof.                                        *)
LEMMA OutputDetected ==
    ASSUME NEW b, NEW c, NEW a, NEW sh, NEW t, NEW l, Undetected(b, c, a, sh, t, "output", l)
    PROVE  FALSE
<1>0. /\ Genuine(b, a, sh) /\ Edited(b, c, "output", l)
      /\ Valid(b, Structural, t) /\ Valid(c, Structural, t)
      /\ AlwaysThere \subseteq DOMAIN b
  BY GenuineSections DEF Undetected
<1>1. /\ l = "body" /\ Has(b, "output") /\ Has(c, "output")
      /\ c["execution_proof"] = b["execution_proof"] /\ c["output"].body # b["output"].body
  BY <1>0, GenuineSections DEF Edited, AlwaysThere, Has, Leaves
<1> QED
  BY <1>0, <1>1, OutputChecked

(* certificate, execution_context: the proof refers to their hashes.        *)
LEMMA CertificateDetected ==
    ASSUME NEW b, NEW c, NEW a, NEW sh, NEW t, NEW l, Undetected(b, c, a, sh, t, "certificate", l)
    PROVE  FALSE
<1>0. /\ Genuine(b, a, sh) /\ Edited(b, c, "certificate", l)
      /\ Valid(b, Structural, t) /\ Valid(c, Structural, t)
      /\ AlwaysThere \subseteq DOMAIN b
  BY GenuineSections DEF Undetected
<1>1. /\ Has(b, "certificate") /\ Has(c, "certificate")
      /\ c["execution_proof"] = b["execution_proof"] /\ c["certificate"] # b["certificate"]
  BY <1>0 DEF Edited, AlwaysThere, Has
<1>2. Hash(c["certificate"]) = Hash(b["certificate"])
  BY <1>0, <1>1, CertificateChecked
<1> QED
  BY <1>1, <1>2 DEF Hash

LEMMA ContextDetected ==
    ASSUME NEW b, NEW c, NEW a, NEW sh, NEW t, NEW l, Undetected(b, c, a, sh, t, "execution_context", l)
    PROVE  FALSE
<1>0. /\ Genuine(b, a, sh) /\ Edited(b, c, "execution_context", l)
      /\ Valid(b, Structural, t) /\ Valid(c, Structural, t)
      /\ AlwaysThere \subseteq DOMAIN b
  BY GenuineSections DEF Undetected
<1>1. /\ Has(b, "execution_context") /\ Has(c, "execution_context")
      /\ c["execution_proof"] = b["execution_proof"]
      /\ c["execution_context"] # b["execution_context"]
  BY <1>0 DEF Edited, AlwaysThere, Has
<1>2. Hash(c["execution_context"]) = Hash(b["execution_context"])
  BY <1>0, <1>1, ContextChecked
<1> QED
  BY <1>1, <1>2 DEF Hash

LEMMA LevelOfComposed ==
    ASSUME NEW p
    PROVE  /\ p.composed = TRUE => AssuranceLevel(p) = "composed_proved"
           /\ p.composed = FALSE => AssuranceLevel(p) \in {"policy_proved", "shadow"}
<1>1. p.composed = TRUE => AssuranceLevel(p) = "composed_proved"
  BY Zenon DEF AssuranceLevel
<1>2. p.composed = FALSE => AssuranceLevel(p) \in {"policy_proved", "shadow"}
  BY Zenon DEF AssuranceLevel
<1> QED
  BY <1>1, <1>2

(* execution_proof: the decision, certificate, context, output, summary and *)
(* audit record refer to it.                                                *)
LEMMA ProofDetected ==
    ASSUME NEW b, NEW c, NEW a, NEW sh, NEW t, NEW l,
           Undetected(b, c, a, sh, t, "execution_proof", l),
           l = "created_at" => "audit" \in sh
    PROVE  FALSE
<1> DEFINE p == b["execution_proof"]
           q == c["execution_proof"]
<1>0. /\ Genuine(b, a, sh) /\ Edited(b, c, "execution_proof", l)
      /\ Valid(b, Structural, t) /\ Valid(c, Structural, t)
      /\ AlwaysThere \subseteq DOMAIN b
  BY GenuineSections DEF Undetected
<1>1. /\ l \in Leaves.execution_proof /\ q[l] # p[l]
      /\ q[l] = Mutated("execution_proof", l, p[l])
      /\ \A k \in Leaves.execution_proof : k # l => q[k] = p[k]
  BY <1>0, GenuineSections DEF Edited, AlwaysThere, Leaves
<1>2. \A s \in AlwaysThere : /\ Has(b, s) /\ Has(c, s)
                             /\ s # "execution_proof" => c[s] = b[s]
  BY <1>0 DEF Edited, Has
<1>3. /\ p.proved = TRUE /\ p.composed = ("composed" \in sh)
      /\ "composed" \notin sh => p.bound_context = Junk /\ p.bound_model = 0
  BY <1>0 DEF Genuine, IsBuiltFrom, PartsValues, AlwaysThere
<1>4. /\ q.outcome = p.outcome /\ q.version = p.version /\ q.session = p.session
      /\ q.obligations = p.obligations /\ q.policy_satisfied = p.policy_satisfied
  <2>1. Has(b, "decision") /\ Has(c, "decision") /\ c["decision"] = b["decision"]
    BY <1>2 DEF AlwaysThere
  <2> QED
    BY <1>0, <2>1, DecisionChecked
<1>5. /\ q.certificate_ref = p.certificate_ref /\ q.agent_id = p.agent_id
      /\ q.policy_commitment = p.policy_commitment
      /\ p.composed /\ q.composed => q.bound_model = p.bound_model
  <2>1. Has(b, "certificate") /\ Has(c, "certificate") /\ c["certificate"] = b["certificate"]
    BY <1>2 DEF AlwaysThere
  <2> QED
    BY <1>0, <2>1, CertificateChecked
<1>6. q.context_hash = p.context_hash
  <2>1. /\ Has(b, "execution_context") /\ Has(c, "execution_context")
        /\ c["execution_context"] = b["execution_context"]
    BY <1>2 DEF AlwaysThere
  <2> QED
    BY <1>0, <2>1, ContextChecked
<1>7. q.output_hash = p.output_hash
  <2>1. Has(b, "output") /\ Has(c, "output") /\ c["output"] = b["output"]
    BY <1>2 DEF AlwaysThere
  <2> QED
    BY <1>0, <2>1, OutputChecked
<1>8. /\ q.proof_id = p.proof_id /\ q.attestation_path = p.attestation_path
      /\ AssuranceLevel(q) = AssuranceLevel(p)
  <2>1. Has(b, "evidence") /\ Has(c, "evidence") /\ c["evidence"] = b["evidence"]
    BY <1>2 DEF AlwaysThere
  <2>2. EvidenceSummary(q) = EvidenceSummary(p)
    BY <1>0, <2>1, SummaryChecked
  <2> HIDE DEF p, q
  <2> QED
    BY <2>2 DEF EvidenceSummary
<1>9. CASE l = "created_at"
  <2>1. Present("audit_record", sh)
    BY <1>9 DEF Present, OptionalSections
  <2>2. "audit_record" \in DOMAIN b
    BY <1>0, <2>1, GenuineSections DEF Leaves
  <2>3. Has(b, "audit_record") /\ Has(c, "audit_record") /\ c["audit_record"] = b["audit_record"]
    BY <1>0, <2>2 DEF Edited, Has
  <2>4. Hash(q) = Hash(p)
    BY <1>0, <2>3, AuditRecordChecked
  <2> QED
    BY <1>1, <2>4 DEF Hash
<1>10. CASE l = "proved"
  <2>1. q.proved = ~p.proved
    BY <1>1, <1>10, MutatedValue DEF FlagLeaves
  <2>2. q.proved
    BY <1>0, ProofChecked
  <2> QED
    BY <1>3, <2>1, <2>2
<1>11. CASE l = "composed"
  <2>1. q.composed = ~p.composed
    BY <1>1, <1>11, MutatedValue DEF FlagLeaves
  <2>2. p.composed = TRUE \/ p.composed = FALSE
    BY <1>3
  <2>3. /\ p.composed = TRUE => q.composed = FALSE
        /\ p.composed = FALSE => q.composed = TRUE
    BY <2>1
  <2> HIDE DEF p, q
  <2> QED
    BY <1>8, <2>2, <2>3, LevelOfComposed
<1>12. CASE l \in {"bound_context", "bound_model"}
  <2>1. q.composed = p.composed
    BY <1>1, <1>12 DEF Leaves
  <2>2. CASE "composed" \in sh
    <3>1. p.composed /\ q.composed
      BY <1>3, <2>1, <2>2
    <3>2. p.bound_context = p.context_hash /\ q.bound_context = q.context_hash
      BY <1>0, <3>1, ProofChecked
    <3> QED
      BY <1>1, <1>5, <1>6, <1>12, <3>1, <3>2
  <2>3. CASE "composed" \notin sh
    <3>1. CASE l = "bound_context"
      <4>1. q.bound_context = Junk
        BY <1>1, <3>1, MutatedValue DEF HashLeaves
      <4> QED
        BY <1>1, <1>3, <2>3, <3>1, <4>1
    <3>2. CASE l = "bound_model"
      <4>1. q.bound_model = 0
        BY <1>1, <3>2, MutatedValue
      <4> QED
        BY <1>1, <1>3, <2>3, <3>2, <4>1
    <3> QED
      BY <1>12, <3>1, <3>2
  <2> QED
    BY <2>2, <2>3
<1> HIDE DEF p, q
<1> QED
  BY <1>1, <1>4, <1>5, <1>6, <1>7, <1>8, <1>9, <1>10, <1>11, <1>12 DEF Leaves

(* decision: mirrored in the proof, the decision record, the budget and     *)
(* what a mandate allows.                                                   *)
LEMMA DecisionDetected ==
    ASSUME NEW b, NEW c, NEW a, NEW sh, NEW t, NEW l, Undetected(b, c, a, sh, t, "decision", l),
           l = "budget_effects" => "budget" \in sh \/ "mandate" \notin sh
    PROVE  FALSE
<1>0. /\ Genuine(b, a, sh) /\ Edited(b, c, "decision", l)
      /\ Valid(b, Structural, t) /\ Valid(c, Structural, t)
      /\ AlwaysThere \subseteq DOMAIN b
  BY GenuineSections DEF Undetected
<1>1. /\ l \in Leaves.decision /\ c["decision"][l] # b["decision"][l]
      /\ c["decision"][l] = Mutated("decision", l, b["decision"][l])
      /\ \A k \in Leaves.decision : k # l => c["decision"][k] = b["decision"][k]
  BY <1>0, GenuineSections DEF Edited, Leaves
<1>2. Has(b, "decision") /\ Has(c, "decision")
  BY <1>0 DEF Edited, Has
<1>3. \A s \in AlwaysThere : Has(b, s) /\ Has(c, s) /\ (s # "decision" => c[s] = b[s])
  BY <1>0 DEF Edited, Has
<1>4. Has(b, "execution_proof") /\ Has(c, "execution_proof") /\ c["execution_proof"] = b["execution_proof"]
  BY <1>3 DEF AlwaysThere
<1>5. Has(b, "decision_record") /\ Has(c, "decision_record") /\ c["decision_record"] = b["decision_record"]
  BY <1>3 DEF AlwaysThere
<1>6. l \notin {"outcome", "version", "session", "obligations", "policy_satisfied"}
  <2>1. LET d == b["decision"]
            e == c["decision"]
        IN  /\ e.outcome = d.outcome /\ e.version = d.version /\ e.session = d.session
            /\ e.obligations = d.obligations /\ e.policy_satisfied = d.policy_satisfied
    BY <1>0, <1>2, <1>4, DecisionChecked
  <2> QED
    BY <1>1, <2>1
<1>7. l \notin {"violations", "recommended_action", "approval"}
  <2>1. LET d == b["decision"]
            e == c["decision"]
        IN  /\ e.violations = d.violations /\ e.approval = d.approval
            /\ e.recommended_action = d.recommended_action
    BY <1>0, <1>2, <1>5, MirrorChecked
  <2> QED
    BY <1>1, <2>1
<1>8. CASE l = "budget_effects"
  <2> DEFINE d == b["decision"].budget_effects
             e == c["decision"].budget_effects
  <2>1. e = d + 1
    BY <1>1, <1>8, MutatedValue
  <2>2. d = IF "budget" \in sh THEN 1 ELSE 0
    BY <1>0 DEF Genuine, IsBuiltFrom, PartsValues, AlwaysThere
  <2> HIDE DEF d, e
  <2>3. CASE Has(b, "budget")
    <3>1. b["budget"].effects = d /\ "budget" \in sh
      BY <1>0, <2>3 DEF Genuine, IsBuiltFrom, PartsValues, AlwaysThere, Has, Present,
                        OptionalSections, Leaves, d
    <3>2. Has(c, "budget") /\ c["budget"] = b["budget"]
      BY <1>0, <2>3 DEF Edited, Has
    <3>3. d > 0 => d = e
      BY <1>0, <1>2, <3>1, <3>2, CopyChecked DEF e
    <3> QED
      BY <2>1, <2>2, <3>1, <3>3
  <2>4. CASE ~Has(b, "budget")
    <3>1. ~Has(c, "budget") /\ Has(c, "mandate") = Has(b, "mandate")
      BY <1>0, <2>4 DEF Edited, Has
    <3>2. CASE Has(b, "mandate")
      <4>1. c["mandate"] = b["mandate"]
        BY <1>0, <3>2 DEF Edited, Has
      <4>2. "mandate" \in sh /\ b["mandate"].limit = 1
        BY <1>0, <3>2 DEF Genuine, IsBuiltFrom, PartsValues, Has, Present,
                          OptionalSections, Leaves
      <4>3. ~(e > 1)
        BY <1>0, <1>2, <3>1, <3>2, <4>1, <4>2, MandateChecked DEF e
      <4> QED
        BY <1>8, <2>1, <2>2, <4>2, <4>3
    <3>3. CASE ~Has(b, "mandate")
      <4>1. Structural.require_mandate_for_budgets
        BY DEF Structural, Default
      <4>2. ~(e > 0)
        BY <1>0, <1>2, <3>1, <3>3, <4>1, MandateRequired DEF e
      <4> QED
        BY <2>1, <2>2, <4>2
    <3> QED
      BY <3>2, <3>3
  <2> QED
    BY <2>3, <2>4
<1> QED
  BY <1>1, <1>6, <1>7, <1>8 DEF Leaves

LEMMA BindingStates ==
    \A b, x, y : DeriveBindingState(b, x, y) \in
        {"workload_attested", "unbound", "declared", "agentauth_verified", "signed"}
BY Zenon DEF DeriveBindingState

(* authority: a projection of the context, with the binding state that the  *)
(* evidence allows.                                                         *)
LEMMA AuthorityDetected ==
    ASSUME NEW b, NEW c, NEW a, NEW sh, NEW t, NEW l, Undetected(b, c, a, sh, t, "authority", l)
    PROVE  FALSE
<1>0. /\ Genuine(b, a, sh) /\ Edited(b, c, "authority", l)
      /\ Valid(b, Structural, t) /\ Valid(c, Structural, t)
      /\ AlwaysThere \subseteq DOMAIN b
  BY GenuineSections DEF Undetected
<1>1. /\ l \in Leaves.authority /\ c["authority"][l] # b["authority"][l]
      /\ c["authority"][l] = Mutated("authority", l, b["authority"][l])
      /\ \A k \in Leaves.authority : k # l => c["authority"][k] = b["authority"][k]
  BY <1>0, GenuineSections DEF Edited, Leaves
<1>2. Has(b, "authority") /\ Has(c, "authority")
  BY <1>0 DEF Edited, Has
<1>3. \A s \in AlwaysThere : Has(b, s) /\ Has(c, s) /\ (s # "authority" => c[s] = b[s])
  BY <1>0 DEF Edited, Has
<1>4. Has(b, "execution_context") /\ Has(c, "execution_context") /\ c["execution_context"] = b["execution_context"]
  BY <1>3 DEF AlwaysThere
<1>5. l \notin AuthorityLeaves
  <2>1. AuthorityOf(c["authority"]) = AuthorityOf(b["authority"])
    BY <1>0, <1>2, <1>4, AuthorityChecked
  <2> QED
    BY <1>1, <2>1 DEF AuthorityOf
<1>6. l # "binding_state"
  <2> SUFFICES ASSUME l = "binding_state" PROVE FALSE
    OBVIOUS
  <2>1. c["authority"].binding_state = "tampered"
    BY <1>1, MutatedValue DEF TextLeaves
  <2> QED
    BY <1>0, <1>2, <2>1, BindingChecked, BindingStates DEF BindingState
<1> QED
  BY <1>1, <1>5, <1>6 DEF Leaves

(* action: an action with side effects needs a tool's co-signature.         *)
LEMMA ActionDetected ==
    ASSUME NEW b, NEW c, NEW a, NEW sh, NEW t, NEW l, Undetected(b, c, a, sh, t, "action", l), l # "name"
    PROVE  FALSE
<1>0. /\ Genuine(b, a, sh) /\ Edited(b, c, "action", l)
      /\ Valid(b, Structural, t) /\ Valid(c, Structural, t)
      /\ AlwaysThere \subseteq DOMAIN b
  BY GenuineSections DEF Undetected
<1>1. /\ l \in Leaves.action /\ c["action"][l] # b["action"][l]
      /\ c["action"][l] = Mutated("action", l, b["action"][l])
      /\ \A k \in Leaves.action : k # l => c["action"][k] = b["action"][k]
  BY <1>0, GenuineSections DEF Edited, Leaves
<1>2. Has(b, "action") /\ Has(c, "action")
  BY <1>0 DEF Edited, Has
<1>3. \A s \in AlwaysThere : Has(b, s) /\ Has(c, s) /\ (s # "action" => c[s] = b[s])
  BY <1>0 DEF Edited, Has
<1>4. l = "side_effect"
  BY <1>1 DEF Leaves
<1>5. b["action"].side_effect = ("side_effect" \in sh)
  BY <1>0 DEF Genuine, IsBuiltFrom, PartsValues, AlwaysThere
<1>6. c["action"].side_effect = ~b["action"].side_effect
  BY <1>1, <1>4, MutatedValue DEF FlagLeaves
<1>7. ToolWitnesses(b) = {} /\ ToolWitnesses(c) = {}
  <2>1. "signatures" \notin DOMAIN b /\ "signatures" \notin DOMAIN c
    BY <1>0, GenuineSections DEF Edited
  <2> QED
    BY <2>1 DEF ToolWitnesses, Descriptors
<1>8. ~b["action"].side_effect /\ ~c["action"].side_effect
  BY <1>0, <1>2, <1>7, SideEffectChecked
<1> QED
  BY <1>5, <1>6, <1>8

LEMMA Levels == \A p : AssuranceLevel(p) \in {"composed_proved", "policy_proved", "shadow"}
BY Zenon DEF AssuranceLevel

(* evidence: the summary of the proof, its assurance, and the obligations   *)
(* of the decision.                                                         *)
LEMMA EvidenceDetected ==
    ASSUME NEW b, NEW c, NEW a, NEW sh, NEW t, NEW l, Undetected(b, c, a, sh, t, "evidence", l), l # "score"
    PROVE  FALSE
<1>0. /\ Genuine(b, a, sh) /\ Edited(b, c, "evidence", l)
      /\ Valid(b, Structural, t) /\ Valid(c, Structural, t)
      /\ AlwaysThere \subseteq DOMAIN b
  BY GenuineSections DEF Undetected
<1>1. /\ l \in Leaves.evidence /\ c["evidence"][l] # b["evidence"][l]
      /\ c["evidence"][l] = Mutated("evidence", l, b["evidence"][l])
      /\ \A k \in Leaves.evidence : k # l => c["evidence"][k] = b["evidence"][k]
  BY <1>0, GenuineSections DEF Edited, Leaves
<1>2. Has(b, "evidence") /\ Has(c, "evidence")
  BY <1>0 DEF Edited, Has
<1>3. \A s \in AlwaysThere : Has(b, s) /\ Has(c, s) /\ (s # "evidence" => c[s] = b[s])
  BY <1>0 DEF Edited, Has
<1>4. Has(b, "execution_proof") /\ Has(c, "execution_proof") /\ c["execution_proof"] = b["execution_proof"]
  BY <1>3 DEF AlwaysThere
<1>5. Has(b, "decision_record") /\ Has(c, "decision_record") /\ c["decision_record"] = b["decision_record"]
  BY <1>3 DEF AlwaysThere
<1>6. Has(b, "decision") /\ Has(c, "decision") /\ c["decision"] = b["decision"]
  BY <1>3 DEF AlwaysThere
<1>7. l # "summary"
  BY <1>0, <1>1, <1>2, <1>4, SummaryChecked
<1>8. l # "obligations"
  BY <1>0, <1>1, <1>2, <1>5, <1>6, MirrorChecked
<1>9. l # "assurance"
  <2> SUFFICES ASSUME l = "assurance" PROVE FALSE
    OBVIOUS
  <2>1. c["evidence"].assurance = "tampered"
    BY <1>1, MutatedValue DEF TextLeaves
  <2>2. c["evidence"].assurance \in {"none", AssuranceLevel(c["execution_proof"])}
    BY <1>0, <1>2, AssuranceChecked
  <2>3. AssuranceLevel(c["execution_proof"]) \in {"composed_proved", "policy_proved", "shadow"}
    BY Levels
  <2> QED
    BY <2>1, <2>2, <2>3
<1> QED
  BY <1>1, <1>7, <1>8, <1>9 DEF Leaves

(* decision_record: a mirror of the proof, the decision and the context.    *)
LEMMA DecisionRecordDetected ==
    ASSUME NEW b, NEW c, NEW a, NEW sh, NEW t, NEW l, Undetected(b, c, a, sh, t, "decision_record", l)
    PROVE  FALSE
<1>0. /\ Genuine(b, a, sh) /\ Edited(b, c, "decision_record", l)
      /\ Valid(b, Structural, t) /\ Valid(c, Structural, t)
      /\ AlwaysThere \subseteq DOMAIN b
  BY GenuineSections DEF Undetected
<1>1. /\ l \in Leaves.decision_record /\ c["decision_record"][l] # b["decision_record"][l]
      /\ c["decision_record"][l] = Mutated("decision_record", l, b["decision_record"][l])
      /\ \A k \in Leaves.decision_record : k # l => c["decision_record"][k] = b["decision_record"][k]
  BY <1>0, GenuineSections DEF Edited, Leaves
<1>2. Has(b, "decision_record") /\ Has(c, "decision_record")
  BY <1>0 DEF Edited, Has
<1>3. \A s \in AlwaysThere : Has(b, s) /\ Has(c, s) /\ (s # "decision_record" => c[s] = b[s])
  BY <1>0 DEF Edited, Has
<1>4. Has(b, "execution_proof") /\ Has(c, "execution_proof") /\ c["execution_proof"] = b["execution_proof"]
  BY <1>3 DEF AlwaysThere
<1>5. Has(b, "decision") /\ Has(c, "decision") /\ c["decision"] = b["decision"]
  BY <1>3 DEF AlwaysThere
<1>6. Has(b, "execution_context") /\ Has(c, "execution_context") /\ c["execution_context"] = b["execution_context"]
  BY <1>3 DEF AlwaysThere
<1>7. l \notin {"outcome", "policy_satisfied", "version", "session", "authority_id"}
  <2>1. LET r == b["decision_record"]
            q == c["decision_record"]
        IN  /\ q.outcome = r.outcome /\ q.policy_satisfied = r.policy_satisfied
            /\ q.version = r.version /\ q.session = r.session
            /\ q.authority_id = r.authority_id
    BY <1>0, <1>2, <1>4, <1>6, DecisionRecordChecked
  <2> QED
    BY <1>1, <2>1
<1>8. l \notin {"violations", "recommended_action", "approval", "obligations"}
  <2>1. LET r == b["decision_record"]
            q == c["decision_record"]
        IN  /\ q.violations = r.violations /\ q.approval = r.approval
            /\ q.recommended_action = r.recommended_action /\ q.obligations = r.obligations
    BY <1>0, <1>2, <1>5, MirrorChecked
  <2> QED
    BY <1>1, <2>1
<1> QED
  BY <1>1, <1>7, <1>8 DEF Leaves

(* v1: the violations of the decision and the assurance of the proof.       *)
LEMMA V1Detected ==
    ASSUME NEW b, NEW c, NEW a, NEW sh, NEW t, NEW l, Undetected(b, c, a, sh, t, "v1", l), l # "recommended_action"
    PROVE  FALSE
<1>0. /\ Genuine(b, a, sh) /\ Edited(b, c, "v1", l)
      /\ Valid(b, Structural, t) /\ Valid(c, Structural, t)
      /\ AlwaysThere \subseteq DOMAIN b
  BY GenuineSections DEF Undetected
<1>1. /\ l \in Leaves.v1 /\ c["v1"][l] # b["v1"][l]
      /\ c["v1"][l] = Mutated("v1", l, b["v1"][l])
      /\ \A k \in Leaves.v1 : k # l => c["v1"][k] = b["v1"][k]
  BY <1>0, GenuineSections DEF Edited, Leaves
<1>2. Has(b, "v1") /\ Has(c, "v1")
  BY <1>0 DEF Edited, Has
<1>3. \A s \in AlwaysThere : Has(b, s) /\ Has(c, s) /\ (s # "v1" => c[s] = b[s])
  BY <1>0 DEF Edited, Has
<1>4. Has(b, "execution_proof") /\ Has(c, "execution_proof") /\ c["execution_proof"] = b["execution_proof"]
  BY <1>3 DEF AlwaysThere
<1>5. Has(b, "decision") /\ Has(c, "decision") /\ c["decision"] = b["decision"]
  BY <1>3 DEF AlwaysThere
<1>6. l # "policy_violations"
  BY <1>0, <1>1, <1>2, <1>5, CopyChecked
<1>7. l # "assurance"
  BY <1>0, <1>1, <1>2, <1>4, AssuranceChecked
<1> QED
  BY <1>1, <1>6, <1>7 DEF Leaves

(* session, policy: what the proof says of them.                            *)
LEMMA SessionDetected ==
    ASSUME NEW b, NEW c, NEW a, NEW sh, NEW t, NEW l, Undetected(b, c, a, sh, t, "session", l)
    PROVE  FALSE
<1>0. /\ Genuine(b, a, sh) /\ Edited(b, c, "session", l)
      /\ Valid(b, Structural, t) /\ Valid(c, Structural, t)
      /\ AlwaysThere \subseteq DOMAIN b
  BY GenuineSections DEF Undetected
<1>1. /\ l \in Leaves.session /\ c["session"][l] # b["session"][l]
      /\ c["session"][l] = Mutated("session", l, b["session"][l])
      /\ \A k \in Leaves.session : k # l => c["session"][k] = b["session"][k]
  BY <1>0, GenuineSections DEF Edited, Leaves
<1>2. Has(b, "session") /\ Has(c, "session")
  BY <1>0 DEF Edited, Has
<1>3. \A s \in AlwaysThere : Has(b, s) /\ Has(c, s) /\ (s # "session" => c[s] = b[s])
  BY <1>0 DEF Edited, Has
<1>4. Has(b, "execution_proof") /\ Has(c, "execution_proof") /\ c["execution_proof"] = b["execution_proof"]
  BY <1>3 DEF AlwaysThere
<1>5. /\ c["session"].session = b["session"].session
      /\ c["session"].version = b["session"].version
  BY <1>0, <1>2, <1>4, SessionChecked
<1> QED
  BY <1>1, <1>5 DEF Leaves

LEMMA PolicyDetected ==
    ASSUME NEW b, NEW c, NEW a, NEW sh, NEW t, NEW l, Undetected(b, c, a, sh, t, "policy", l)
    PROVE  FALSE
<1>0. /\ Genuine(b, a, sh) /\ Edited(b, c, "policy", l)
      /\ Valid(b, Structural, t) /\ Valid(c, Structural, t)
      /\ AlwaysThere \subseteq DOMAIN b
  BY GenuineSections DEF Undetected
<1>1. /\ l \in Leaves.policy /\ c["policy"][l] # b["policy"][l]
      /\ c["policy"][l] = Mutated("policy", l, b["policy"][l])
      /\ \A k \in Leaves.policy : k # l => c["policy"][k] = b["policy"][k]
  BY <1>0, GenuineSections DEF Edited, Leaves
<1>2. Has(b, "policy") /\ Has(c, "policy")
  BY <1>0 DEF Edited, Has
<1>3. \A s \in AlwaysThere : Has(b, s) /\ Has(c, s) /\ (s # "policy" => c[s] = b[s])
  BY <1>0 DEF Edited, Has
<1>4. Has(b, "execution_proof") /\ Has(c, "execution_proof") /\ c["execution_proof"] = b["execution_proof"]
  BY <1>3 DEF AlwaysThere
<1>5. /\ c["policy"].commitment = b["policy"].commitment
      /\ c["policy"].inputs = b["policy"].inputs /\ c["policy"].name = b["policy"].name
  BY <1>0, <1>2, <1>4, PolicyChecked
<1> QED
  BY <1>1, <1>5 DEF Leaves

(* lineage: the authority and its version.                                  *)
LEMMA LineageDetected ==
    ASSUME NEW b, NEW c, NEW a, NEW sh, NEW t, NEW l, Undetected(b, c, a, sh, t, "lineage", l)
    PROVE  FALSE
<1>0. /\ Genuine(b, a, sh) /\ Edited(b, c, "lineage", l)
      /\ Valid(b, Structural, t) /\ Valid(c, Structural, t)
      /\ AlwaysThere \subseteq DOMAIN b
  BY GenuineSections DEF Undetected
<1>1. /\ l \in Leaves.lineage /\ c["lineage"][l] # b["lineage"][l]
      /\ c["lineage"][l] = Mutated("lineage", l, b["lineage"][l])
      /\ \A k \in Leaves.lineage : k # l => c["lineage"][k] = b["lineage"][k]
  BY <1>0, GenuineSections DEF Edited, Leaves
<1>2. Has(b, "lineage") /\ Has(c, "lineage")
  BY <1>0 DEF Edited, Has
<1>3. \A s \in AlwaysThere : Has(b, s) /\ Has(c, s) /\ (s # "lineage" => c[s] = b[s])
  BY <1>0 DEF Edited, Has
<1>4. Has(b, "authority") /\ Has(c, "authority") /\ c["authority"] = b["authority"]
  BY <1>3 DEF AlwaysThere
<1>5. /\ c["lineage"].authority_id = b["lineage"].authority_id
      /\ c["lineage"].version = b["lineage"].version
  BY <1>0, <1>2, <1>4, LineageChecked
<1> QED
  BY <1>1, <1>5 DEF Leaves

LEMMA HashIsNotJunk == \A x : Hash(x) # Junk
BY DEF Hash, Junk

LEMMA MutatedSignature ==
    ASSUME NEW s, NEW l \in SignatureLeaves, NEW v, s \notin {"budget", "policy"},
           \E x, y : v = Signature(x, y)
    PROVE  Mutated(s, l, v).over = Junk
<1>1. Mutated(s, l, v) = [v EXCEPT !.over = Junk]
  BY MutatedValue
<1>2. PICK x, y : v = Signature(x, y)
  OBVIOUS
<1>3. v = [key |-> x, over |-> Hash(y)]
  BY <1>2 DEF Signature
<1>4. [v EXCEPT !.over = Junk].over = Junk
  BY <1>3
<1> QED
  BY <1>1, <1>4

(* audit_record: the proof is in it, its hash in the inclusion proof, and   *)
(* its signature covers that hash.                                          *)
LEMMA AuditRecordDetected ==
    ASSUME NEW b, NEW c, NEW a, NEW sh, NEW t, NEW l, Undetected(b, c, a, sh, t, "audit_record", l), l # "seq"
    PROVE  FALSE
<1>0. /\ Genuine(b, a, sh) /\ Edited(b, c, "audit_record", l)
      /\ Valid(b, Structural, t) /\ Valid(c, Structural, t)
      /\ AlwaysThere \subseteq DOMAIN b
  BY GenuineSections DEF Undetected
<1>1. /\ l \in Leaves.audit_record /\ c["audit_record"][l] # b["audit_record"][l]
      /\ c["audit_record"][l] = Mutated("audit_record", l, b["audit_record"][l])
      /\ \A k \in Leaves.audit_record : k # l => c["audit_record"][k] = b["audit_record"][k]
  BY <1>0, GenuineSections DEF Edited, Leaves
<1>2. Has(b, "audit_record") /\ Has(c, "audit_record")
  BY <1>0 DEF Edited, Has
<1>3. \A s \in AlwaysThere : Has(b, s) /\ Has(c, s) /\ (s # "audit_record" => c[s] = b[s])
  BY <1>0 DEF Edited, Has
<1>4. Has(b, "execution_proof") /\ Has(c, "execution_proof") /\ c["execution_proof"] = b["execution_proof"]
  BY <1>3 DEF AlwaysThere
<1>5. "audit" \in sh
  BY <1>0, GenuineSections DEF Edited, Leaves, Present, OptionalSections
<1>6. Present("audit_inclusion", sh)
  BY <1>5 DEF Present, OptionalSections
<1>7. Has(b, "audit_inclusion") /\ Has(c, "audit_inclusion") /\ c["audit_inclusion"] = b["audit_inclusion"]
  BY <1>0, <1>6, GenuineSections DEF Edited, Has, Leaves
<1> DEFINE r == b["audit_record"]
           q == c["audit_record"]
<1>8. /\ q.proof_id = r.proof_id /\ q.execution_proof_hash = r.execution_proof_hash
      /\ r.record_hash = Hash(AuditBody(r)) /\ q.record_hash = Hash(AuditBody(q))
      /\ q.signature.over = q.record_hash
  BY <1>0, <1>2, <1>4, <1>7, AuditRecordChecked
<1>9. q.record_hash = r.record_hash
  BY <1>0, <1>7, InclusionChecked
<1>10. /\ q.action = r.action /\ q.prev_hash = r.prev_hash
  BY <1>8, <1>9 DEF Hash, AuditBody
<1>11. l # "signature"
  <2> SUFFICES ASSUME l = "signature" PROVE FALSE
    OBVIOUS
  <2>1. \E x, y : r.signature = Signature(x, y)
    BY <1>0, <1>2 DEF Genuine, IsBuiltFrom, PartsValues, Has
  <2>2. Mutated("audit_record", "signature", r.signature).over = Junk
    BY <2>1, MutatedSignature DEF SignatureLeaves
  <2>3. q.signature.over = Junk
    BY <1>1, <2>2
  <2> QED
    BY <1>8, <2>3, HashIsNotJunk
<1> HIDE DEF r, q
<1>12. \A k \in {"proof_id", "execution_proof_hash", "record_hash", "action", "prev_hash"} :
          q[k] = r[k]
  BY <1>8, <1>9, <1>10
<1> QED
  BY <1>1, <1>11, <1>12 DEF Leaves, q, r

(* audit_inclusion: the record's hash and key, and one size for the tree    *)
(* and the signed checkpoint.                                               *)
LEMMA InclusionDetected ==
    ASSUME NEW b, NEW c, NEW a, NEW sh, NEW t, NEW l, Undetected(b, c, a, sh, t, "audit_inclusion", l)
    PROVE  FALSE
<1>0. /\ Genuine(b, a, sh) /\ Edited(b, c, "audit_inclusion", l)
      /\ Valid(b, Structural, t) /\ Valid(c, Structural, t)
      /\ AlwaysThere \subseteq DOMAIN b
  BY GenuineSections DEF Undetected
<1>1. /\ l \in Leaves.audit_inclusion /\ c["audit_inclusion"][l] # b["audit_inclusion"][l]
      /\ c["audit_inclusion"][l] = Mutated("audit_inclusion", l, b["audit_inclusion"][l])
      /\ \A k \in Leaves.audit_inclusion : k # l => c["audit_inclusion"][k] = b["audit_inclusion"][k]
  BY <1>0, GenuineSections DEF Edited, Leaves
<1>2. Has(b, "audit_inclusion") /\ Has(c, "audit_inclusion")
  BY <1>0 DEF Edited, Has
<1>3. \A s \in AlwaysThere : Has(b, s) /\ Has(c, s) /\ (s # "audit_inclusion" => c[s] = b[s])
  BY <1>0 DEF Edited, Has
<1>4. "audit" \in sh
  BY <1>0, GenuineSections DEF Edited, Leaves, Present, OptionalSections
<1>5. Present("audit_record", sh)
  BY <1>4 DEF Present, OptionalSections
<1>6. Has(b, "audit_record") /\ Has(c, "audit_record") /\ c["audit_record"] = b["audit_record"]
  BY <1>0, <1>5, GenuineSections DEF Edited, Has, Leaves
<1> DEFINE r == b["audit_inclusion"]
           q == c["audit_inclusion"]
<1>7. /\ q.leaf = r.leaf /\ r.tree_size = r.count /\ q.tree_size = q.count
      /\ q.checkpoint_signature.over = Hash(q.count)
  BY <1>0, <1>2, <1>6, InclusionChecked
<1>8. q.log_public_key = r.log_public_key
  BY <1>0, <1>2, <1>6, AuditRecordChecked
<1>9. l # "checkpoint_signature"
  <2> SUFFICES ASSUME l = "checkpoint_signature" PROVE FALSE
    OBVIOUS
  <2>1. \E x, y : r.checkpoint_signature = Signature(x, y)
    BY <1>0, <1>2 DEF Genuine, IsBuiltFrom, PartsValues, Has
  <2>2. Mutated("audit_inclusion", "checkpoint_signature", r.checkpoint_signature).over = Junk
    BY <2>1, MutatedSignature DEF SignatureLeaves
  <2>3. q.checkpoint_signature.over = Junk
    BY <1>1, <2>2
  <2> QED
    BY <1>7, <2>3, HashIsNotJunk
<1> HIDE DEF r, q
<1>10. l \in {"leaf", "tree_size", "count", "log_public_key"}
  BY <1>1, <1>9 DEF Leaves
<1>11. l = "tree_size" => q.count = r.count
  BY <1>1 DEF Leaves, q, r
<1>12. l = "count" => q.tree_size = r.tree_size
  BY <1>1 DEF Leaves, q, r
<1>13. q[l] = r[l]
  BY <1>7, <1>8, <1>10, <1>11, <1>12
<1> QED
  BY <1>1, <1>13 DEF q, r

(* identity: the provider signed the subject, and the workload proof covers *)
(* the credential.                                                          *)
LEMMA IdentityDetected ==
    ASSUME NEW b, NEW c, NEW a, NEW sh, NEW t, NEW l, Undetected(b, c, a, sh, t, "identity", l), l = "credential" => "workload" \in sh
    PROVE  FALSE
<1>0. /\ Genuine(b, a, sh) /\ Edited(b, c, "identity", l)
      /\ Valid(b, Structural, t) /\ Valid(c, Structural, t)
      /\ AlwaysThere \subseteq DOMAIN b
  BY GenuineSections DEF Undetected
<1>1. /\ l \in Leaves.identity /\ c["identity"][l] # b["identity"][l]
      /\ c["identity"][l] = Mutated("identity", l, b["identity"][l])
      /\ \A k \in Leaves.identity : k # l => c["identity"][k] = b["identity"][k]
  BY <1>0, GenuineSections DEF Edited, Leaves
<1>2. Has(b, "identity") /\ Has(c, "identity")
  BY <1>0 DEF Edited, Has
<1>3. \A s \in AlwaysThere : Has(b, s) /\ Has(c, s) /\ (s # "identity" => c[s] = b[s])
  BY <1>0 DEF Edited, Has
<1> DEFINE r == b["identity"]
           q == c["identity"]
<1>4. r.svid.over = Hash(r.sub) /\ q.svid.over = Hash(q.sub)
  BY <1>0, <1>2, IdentityChecked
<1>5. l # "sub"
  <2> SUFFICES ASSUME l = "sub" PROVE FALSE
    OBVIOUS
  <2>1. q.svid = r.svid
    BY <1>1 DEF Leaves
  <2>2. Hash(q.sub) = Hash(r.sub)
    BY <1>4, <2>1
  <2> QED
    BY <1>1, <2>2 DEF Hash
<1>6. l # "svid"
  <2> SUFFICES ASSUME l = "svid" PROVE FALSE
    OBVIOUS
  <2>1. \E x, y : r.svid = Signature(x, y)
    BY <1>0, <1>2 DEF Genuine, IsBuiltFrom, PartsValues, Has
  <2>2. Mutated("identity", "svid", r.svid).over = Junk
    BY <2>1, MutatedSignature DEF SignatureLeaves
  <2>3. q.svid.over = Junk
    BY <1>1, <2>2
  <2> QED
    BY <1>4, <2>3, HashIsNotJunk
<1>7. l # "credential"
  <2> SUFFICES ASSUME l = "credential" PROVE FALSE
    OBVIOUS
  <2>1. Present("workload_proof", sh)
    BY DEF Present, OptionalSections
  <2>2. /\ Has(b, "workload_proof") /\ Has(c, "workload_proof")
        /\ c["workload_proof"] = b["workload_proof"]
    BY <1>0, <2>1, GenuineSections DEF Edited, Has, Leaves
  <2>3. /\ Has(b, "execution_proof") /\ Has(c, "execution_proof")
        /\ c["execution_proof"] = b["execution_proof"]
    BY <1>3 DEF AlwaysThere
  <2>4. WorkloadBinding(b["execution_proof"], r.credential)
          = WorkloadBinding(b["execution_proof"], q.credential)
    BY <1>0, <1>2, <2>2, <2>3, WorkloadChecked
  <2>5. r.credential = q.credential
    <3> HIDE DEF r, q
    <3> QED
      BY <2>4 DEF WorkloadBinding
  <2> QED
    BY <1>1, <2>5
<1> QED
  BY <1>1, <1>5, <1>6, <1>7 DEF Leaves

(* budget: the decision's effects.                                          *)
LEMMA MutatedBudget == \A l \in {"effects", "summary"} : \A v : Mutated("budget", l, v) = v + 1
<1>1. \A l \in {"effects", "summary"} : /\ l \notin SignatureLeaves /\ l \notin FlagLeaves
                                        /\ l \notin TextLeaves
  BY DEF SignatureLeaves, FlagLeaves, TextLeaves
<1>2. "effects" \notin HashLeaves
  BY DEF HashLeaves
<1>3. \A v : Mutated("budget", "effects", v) = v + 1
  BY <1>1, <1>2, Zenon DEF Mutated, TextLeaves
<1>4. \A v : Mutated("budget", "summary", v) = v + 1
  BY <1>1, Zenon DEF Mutated, TextLeaves
<1> QED
  BY <1>3, <1>4

LEMMA BudgetDetected ==
    ASSUME NEW b, NEW c, NEW a, NEW sh, NEW t, NEW l, Undetected(b, c, a, sh, t, "budget", l)
    PROVE  FALSE
<1>0. /\ Genuine(b, a, sh) /\ Edited(b, c, "budget", l)
      /\ Valid(b, Structural, t) /\ Valid(c, Structural, t)
      /\ AlwaysThere \subseteq DOMAIN b
  BY GenuineSections DEF Undetected
<1>1. /\ l \in Leaves.budget /\ c["budget"][l] # b["budget"][l]
      /\ c["budget"][l] = Mutated("budget", l, b["budget"][l])
      /\ \A k \in Leaves.budget : k # l => c["budget"][k] = b["budget"][k]
  BY <1>0, GenuineSections DEF Edited, Leaves
<1>2. Has(b, "budget") /\ Has(c, "budget")
  BY <1>0 DEF Edited, Has
<1>3. \A s \in AlwaysThere : Has(b, s) /\ Has(c, s) /\ (s # "budget" => c[s] = b[s])
  BY <1>0 DEF Edited, Has
<1>4. Has(b, "decision") /\ Has(c, "decision") /\ c["decision"] = b["decision"]
  BY <1>3 DEF AlwaysThere
<1> DEFINE r == b["budget"]
           q == c["budget"]
           d == b["decision"].budget_effects
<1>5. "budget" \in sh
  BY <1>0, GenuineSections DEF Edited, Leaves, Present, OptionalSections
<1>6. d = 1 /\ r.effects = 1 /\ r.summary = 1
  BY <1>0, <1>2, <1>4, <1>5 DEF Genuine, IsBuiltFrom, PartsValues, Has
<1>7. /\ q.effects > 0 => q.effects = d
      /\ q.summary > 0 => q.summary = IF q.effects > 0 THEN q.effects ELSE d
  BY <1>0, <1>2, <1>4, CopyChecked
<1>8. l \in {"effects", "summary"}
  BY <1>1 DEF Leaves
<1>9. q[l] = r[l] + 1
  BY <1>1, <1>8, MutatedBudget
<1>10. l = "summary" => q.effects = r.effects
  BY <1>1 DEF Leaves
<1> HIDE DEF r, q, d
<1> QED
  BY <1>6, <1>7, <1>8, <1>9, <1>10

(* mandate: commitment and signature cover the document.                    *)
LEMMA MandateDetected ==
    ASSUME NEW b, NEW c, NEW a, NEW sh, NEW t, NEW l, Undetected(b, c, a, sh, t, "mandate", l)
    PROVE  FALSE
<1>0. /\ Genuine(b, a, sh) /\ Edited(b, c, "mandate", l)
      /\ Valid(b, Structural, t) /\ Valid(c, Structural, t)
      /\ AlwaysThere \subseteq DOMAIN b
  BY GenuineSections DEF Undetected
<1>1. /\ l \in Leaves.mandate /\ c["mandate"][l] # b["mandate"][l]
      /\ c["mandate"][l] = Mutated("mandate", l, b["mandate"][l])
      /\ \A k \in Leaves.mandate : k # l => c["mandate"][k] = b["mandate"][k]
  BY <1>0, GenuineSections DEF Edited, Leaves
<1>2. Has(b, "mandate") /\ Has(c, "mandate")
  BY <1>0 DEF Edited, Has
<1>3. \A s \in AlwaysThere : Has(b, s) /\ Has(c, s) /\ (s # "mandate" => c[s] = b[s])
  BY <1>0 DEF Edited, Has
<1> DEFINE r == b["mandate"]
           q == c["mandate"]
<1>4. /\ r.signature.over = Hash(MandateDocument(r)) /\ r.commitment = Hash(MandateDocument(r))
      /\ q.signature.over = Hash(MandateDocument(q)) /\ q.commitment = Hash(MandateDocument(q))
  BY <1>0, <1>2, MandateChecked
<1>5. l # "signature"
  <2> SUFFICES ASSUME l = "signature" PROVE FALSE
    OBVIOUS
  <2>1. \E x, y : r.signature = Signature(x, y)
    BY <1>0, <1>2 DEF Genuine, IsBuiltFrom, PartsValues, Has
  <2>2. Mutated("mandate", "signature", r.signature).over = Junk
    BY <2>1, MutatedSignature DEF SignatureLeaves
  <2>3. q.signature.over = Junk
    BY <1>1, <2>2
  <2> QED
    BY <1>4, <2>3, HashIsNotJunk
<1>6. q.signature = r.signature
  BY <1>1, <1>5 DEF Leaves
<1>7. MandateDocument(q) = MandateDocument(r)
  BY <1>4, <1>6 DEF Hash
<1>8. q.commitment = r.commitment
  BY <1>4, <1>7
<1> HIDE DEF r, q
<1>9. \A k \in {"grant_id", "delegate", "issued_at", "expires_at", "limit"} : q[k] = r[k]
  BY <1>7 DEF MandateDocument
<1> QED
  BY <1>1, <1>5, <1>8, <1>9 DEF Leaves, r, q

(* workload_proof: the signature covers the binding.                        *)
LEMMA WorkloadDetected ==
    ASSUME NEW b, NEW c, NEW a, NEW sh, NEW t, NEW l, Undetected(b, c, a, sh, t, "workload_proof", l)
    PROVE  FALSE
<1>0. /\ Genuine(b, a, sh) /\ Edited(b, c, "workload_proof", l)
      /\ Valid(b, Structural, t) /\ Valid(c, Structural, t)
      /\ AlwaysThere \subseteq DOMAIN b
  BY GenuineSections DEF Undetected
<1>1. /\ l \in Leaves.workload_proof /\ c["workload_proof"][l] # b["workload_proof"][l]
      /\ c["workload_proof"][l] = Mutated("workload_proof", l, b["workload_proof"][l])
      /\ \A k \in Leaves.workload_proof : k # l => c["workload_proof"][k] = b["workload_proof"][k]
  BY <1>0, GenuineSections DEF Edited, Leaves
<1>2. Has(b, "workload_proof") /\ Has(c, "workload_proof")
  BY <1>0 DEF Edited, Has
<1>3. \A s \in AlwaysThere : Has(b, s) /\ Has(c, s) /\ (s # "workload_proof" => c[s] = b[s])
  BY <1>0 DEF Edited, Has
<1> DEFINE r == b["workload_proof"]
           q == c["workload_proof"]
<1>4. r.signature.over = Hash(r.binding) /\ q.signature.over = Hash(q.binding)
  BY <1>0, <1>2, WorkloadChecked
<1>5. l # "signature"
  <2> SUFFICES ASSUME l = "signature" PROVE FALSE
    OBVIOUS
  <2>1. \E x, y : r.signature = Signature(x, y)
    BY <1>0, <1>2 DEF Genuine, IsBuiltFrom, PartsValues, Has
  <2>2. Mutated("workload_proof", "signature", r.signature).over = Junk
    BY <2>1, MutatedSignature DEF SignatureLeaves
  <2>3. q.signature.over = Junk
    BY <1>1, <2>2
  <2> QED
    BY <1>4, <2>3, HashIsNotJunk
<1>6. l # "binding"
  <2> SUFFICES ASSUME l = "binding" PROVE FALSE
    OBVIOUS
  <2>1. q.signature = r.signature
    BY <1>1 DEF Leaves
  <2>2. Hash(q.binding) = Hash(r.binding)
    BY <1>4, <2>1
  <2> QED
    BY <1>1, <2>2 DEF Hash
<1> QED
  BY <1>1, <1>5, <1>6 DEF Leaves

(* session_proof: the proof's session, policy and output, and the folding   *)
(* itself.                                                                  *)
LEMMA SessionProofDetected ==
    ASSUME NEW b, NEW c, NEW a, NEW sh, NEW t, NEW l, Undetected(b, c, a, sh, t, "session_proof", l), l = "session" => "session" \in sh
    PROVE  FALSE
<1>0. /\ Genuine(b, a, sh) /\ Edited(b, c, "session_proof", l)
      /\ Valid(b, Structural, t) /\ Valid(c, Structural, t)
      /\ AlwaysThere \subseteq DOMAIN b
  BY GenuineSections DEF Undetected
<1>1. /\ l \in Leaves.session_proof /\ c["session_proof"][l] # b["session_proof"][l]
      /\ c["session_proof"][l] = Mutated("session_proof", l, b["session_proof"][l])
      /\ \A k \in Leaves.session_proof : k # l => c["session_proof"][k] = b["session_proof"][k]
  BY <1>0, GenuineSections DEF Edited, Leaves
<1>2. Has(b, "session_proof") /\ Has(c, "session_proof")
  BY <1>0 DEF Edited, Has
<1>3. \A s \in AlwaysThere : Has(b, s) /\ Has(c, s) /\ (s # "session_proof" => c[s] = b[s])
  BY <1>0 DEF Edited, Has
<1>4. Has(b, "execution_proof") /\ Has(c, "execution_proof") /\ c["execution_proof"] = b["execution_proof"]
  BY <1>3 DEF AlwaysThere
<1> DEFINE r == b["session_proof"]
           q == c["session_proof"]
           p == b["execution_proof"]
<1>5. /\ p.session # Absent => r.session = p.session /\ q.session = p.session
      /\ r.policy = p.policy_commitment /\ q.policy = p.policy_commitment
      /\ r.action_output = p.output_hash /\ q.action_output = p.output_hash
      /\ r.folded /\ q.folded
  BY <1>0, <1>2, <1>4, SessionProofChecked
<1>6. l # "folded"
  <2> SUFFICES ASSUME l = "folded" PROVE FALSE
    OBVIOUS
  <2>1. r.folded = TRUE
    BY <1>0, <1>2 DEF Genuine, IsBuiltFrom, PartsValues, Has
  <2>2. q.folded = ~r.folded
    BY <1>1, MutatedValue DEF FlagLeaves
  <2> QED
    BY <1>5, <2>1, <2>2
<1>7. l # "session"
  <2> SUFFICES ASSUME l = "session" PROVE FALSE
    OBVIOUS
  <2>1. p.session = Run
    BY <1>0, <1>4 DEF Genuine, IsBuiltFrom, PartsValues, Has, Maybe
  <2>2. p.session # Absent
    BY <2>1 DEF Run, Absent
  <2> QED
    BY <1>1, <1>5, <2>2
<1> QED
  BY <1>1, <1>5, <1>6, <1>7 DEF Leaves

(* scitt: the statement covers all the rest.                                *)
LEMMA ScittDetected ==
    ASSUME NEW b, NEW c, NEW a, NEW sh, NEW t, NEW l, Undetected(b, c, a, sh, t, "scitt", l)
    PROVE  FALSE
<1>0. /\ Genuine(b, a, sh) /\ Edited(b, c, "scitt", l) /\ Valid(c, Structural, t)
  BY DEF Undetected
<1>1. Has(b, "scitt") /\ Has(c, "scitt")
  BY <1>0 DEF Edited, Has
<1>2. PICK x : b["scitt"] = [statement |-> Signature("statement", x)]
  BY <1>0, <1>1 DEF Genuine, IsBuiltFrom, Has
<1>3. l = "statement"
  BY <1>0, <1>2 DEF Edited
<1>4. \E x1, y1 : b["scitt"].statement = Signature(x1, y1)
  BY <1>2
<1>5. Mutated("scitt", "statement", b["scitt"].statement).over = Junk
  BY <1>4, MutatedSignature DEF SignatureLeaves
<1>6. c["scitt"].statement.over = Junk
  BY <1>0, <1>3, <1>5 DEF Edited
<1> QED
  BY <1>0, <1>1, <1>6, ScittChecked, HashIsNotJunk

(* A section of another run's receipt: its proof, decision, output and      *)
(* authority name the other run, and the hashes of certificate and context  *)
(* are in the proof.                                                        *)
Swapped(b, c, s, d) ==
    /\ DOMAIN c = DOMAIN b /\ \A x \in DOMAIN b : x # s => c[x] = b[x]
    /\ c[s] = d[s] /\ c[s] # b[s]

LEMMA SwapDetected ==
    ASSUME NEW b, NEW c, NEW a, NEW sh, NEW t, NEW d, NEW e, NEW s \in SwappedSections,
           Genuine(b, a, sh), IsBuiltFrom(d, e, sh), PartsValues(e, DonorRun, sh),
           AlwaysThere \subseteq DOMAIN d, Swapped(b, c, s, d),
           Valid(b, Structural, t), Valid(c, Structural, t)
    PROVE  FALSE
<1>1. AlwaysThere \subseteq DOMAIN b
  BY GenuineSections
<1>2. \A x \in AlwaysThere : Has(b, x) /\ Has(c, x) /\ (x # s => c[x] = b[x])
  BY <1>1 DEF Swapped, Has
<1>3. \A x \in AlwaysThere : x # "authority" => b[x] = a[x] /\ d[x] = e[x]
  BY <1>1 DEF Genuine, IsBuiltFrom, AlwaysThere
<1>4. b["authority"].version = Run /\ d["authority"].version = DonorRun
  BY DEF Genuine, IsBuiltFrom, PartsValues
<1>5. Run # DonorRun
  BY DEF Run, DonorRun
<1>6. CASE s = "execution_proof"
  <2>1. /\ b["execution_proof"].proof_id = Run
        /\ c["execution_proof"].proof_id = DonorRun
    BY <1>3, <1>6 DEF Genuine, PartsValues, Swapped, AlwaysThere
  <2>2. /\ Has(b, "evidence") /\ Has(c, "evidence") /\ c["evidence"] = b["evidence"]
    BY <1>2, <1>6 DEF AlwaysThere
  <2>3. EvidenceSummary(b["execution_proof"]) = EvidenceSummary(c["execution_proof"])
    BY <2>2, SummaryChecked
  <2> QED
    BY <1>5, <2>1, <2>3 DEF EvidenceSummary
<1>7. CASE s = "certificate"
  <2>1. /\ Has(b, "certificate") /\ Has(c, "certificate")
        /\ c["execution_proof"] = b["execution_proof"]
    BY <1>2, <1>7 DEF AlwaysThere
  <2>2. Hash(c["certificate"]) = Hash(b["certificate"])
    BY <2>1, CertificateChecked
  <2> QED
    BY <1>7, <2>2 DEF Hash, Swapped
<1>8. CASE s = "execution_context"
  <2>1. /\ Has(b, "execution_context") /\ Has(c, "execution_context")
        /\ c["execution_proof"] = b["execution_proof"]
    BY <1>2, <1>8 DEF AlwaysThere
  <2>2. Hash(c["execution_context"]) = Hash(b["execution_context"])
    BY <2>1, ContextChecked
  <2> QED
    BY <1>8, <2>2 DEF Hash, Swapped
<1>9. CASE s = "decision"
  <2>1. b["decision"].obligations = Run /\ c["decision"].obligations = DonorRun
    BY <1>3, <1>9 DEF Genuine, PartsValues, Swapped, AlwaysThere
  <2>2. /\ Has(b, "decision") /\ Has(c, "decision")
        /\ c["execution_proof"] = b["execution_proof"]
    BY <1>2, <1>9 DEF AlwaysThere
  <2> QED
    BY <1>5, <2>1, <2>2, DecisionChecked
<1>10. CASE s = "output"
  <2>1. b["output"].body = Run /\ c["output"].body = DonorRun
    BY <1>3, <1>10 DEF Genuine, PartsValues, Swapped, AlwaysThere
  <2>2. /\ Has(b, "output") /\ Has(c, "output")
        /\ c["execution_proof"] = b["execution_proof"]
    BY <1>2, <1>10 DEF AlwaysThere
  <2> QED
    BY <1>5, <2>1, <2>2, OutputChecked
<1>11. CASE s = "authority"
  <2>1. c["authority"].version = DonorRun
    BY <1>4, <1>11 DEF Swapped
  <2>2. /\ Has(b, "authority") /\ Has(c, "authority")
        /\ c["execution_proof"] = b["execution_proof"]
    BY <1>2, <1>11 DEF AlwaysThere
  <2> QED
    BY <1>4, <1>5, <2>1, <2>2, AuthorityProofChecked
<1> QED
  BY <1>6, <1>7, <1>8, <1>9, <1>10, <1>11 DEF SwappedSections

-----------------------------------------------------------------------------
(* What one change by others makes of the document o, given another run's   *)
(* document d.                                                              *)
Rewrites == {"compact", "redacted", "migrated", "forged"}

LeafChanged(o, b, what) ==
    \E s \in DOMAIN o \ {"signatures"} : \E l \in DOMAIN o[s] :
        what = <<s, l>> /\ b = [o EXCEPT ![s][l] = Mutated(s, l, @)]

SectionSwapped(o, b, what, d) ==
    \E s \in SwappedSections \cap DOMAIN o : what = <<s, "">> /\ b = [o EXCEPT ![s] = d[s]]

ChangedOnce(o, b, what, d) ==
    \/ what[2] = "dropped"
    \/ what[1] \in Rewrites
    \/ "signatures" \in DOMAIN b
    \/ LeafChanged(o, b, what)
    \/ SectionSwapped(o, b, what, d)

(* The first change is a change of the original.                            *)
OneChange ==
    edits = 1 => /\ stage = "built" /\ bundle # original
                 /\ ChangedOnce(original, bundle, touched, Donor)

LEMMA OneChangeInit == Init => OneChange
BY DEF Init, OneChange

LEMMA OneChangeKept ==
    ASSUME OneChange, UNCHANGED <<stage, shape, log, at, seq, bundle, original, edits, touched>>
    PROVE  OneChange'
<1>1. Donor' = Donor
  BY DEF Donor
<1> QED
  BY <1>1 DEF OneChange

LEMMA OneChangeMade ==
    ASSUME IInv, NEW b, NEW what, Change(b, what), ChangedOnce(bundle, b, what, Donor)
    PROVE  OneChange'
<1> SUFFICES ASSUME edits' = 1 PROVE OneChange'
  BY DEF OneChange
<1>1. /\ stage' = "built" /\ b # bundle /\ bundle' = b /\ touched' = what
      /\ edits' = edits + 1 /\ original' = original
  BY DEF Change
<1>2. edits = 0
  BY <1>1, BoundsAssumption DEF IInv, Types
<1>3. bundle = original
  BY <1>2 DEF IInv, UntilChanged
<1>4. Donor' = Donor
  BY DEF Change, Donor
<1> QED
  BY <1>1, <1>3, <1>4 DEF OneChange

LEMMA OneChangeNext == IInv /\ OneChange /\ [Next]_vars => OneChange'
<1> SUFFICES ASSUME IInv, OneChange, [Next]_vars PROVE OneChange'
  OBVIOUS
<1>1. ASSUME edits' = 0 PROVE OneChange'
  BY <1>1 DEF OneChange
<1>2. CASE stage # "built" /\ UNCHANGED edits
  BY <1>1, <1>2 DEF IInv, NotYetBuilt
<1>3. ASSUME NEW sh \in Shapes, Record(sh) PROVE OneChange'
  BY <1>2, <1>3 DEF Record
<1>4. CASE OtherAppend \/ ReadInclusion \/ Assemble
  BY <1>2, <1>4 DEF OtherAppend, ReadInclusion, Assemble
<1>5. CASE Gate \/ ToolCosigns
  BY <1>1, <1>5 DEF Gate, ToolCosigns
<1>6. CASE Tick
  BY <1>6, OneChangeKept DEF Tick
<1>7. CASE Export
  <2>1. ASSUME NEW b, NEW w \in Rewrites, Change(b, <<w, "">>) PROVE OneChange'
    BY <2>1, OneChangeMade DEF ChangedOnce
  <2> QED
    BY <1>7, <2>1 DEF Export, Rewrites
<1>8. CASE LeafMutation
  BY <1>8, OneChangeMade DEF LeafMutation, ChangedOnce, LeafChanged
<1>9. CASE Forgery
  <2>1. \E b, l : Change(b, <<"forged", l>>)
    BY <1>9 DEF Forgery
  <2> QED
    BY <2>1, OneChangeMade DEF ChangedOnce, Rewrites
<1>10. CASE SectionSwap
  BY <1>10, OneChangeMade DEF SectionSwap, ChangedOnce, SectionSwapped
<1>11. CASE DropSection
  BY <1>11, OneChangeMade DEF DropSection, ChangedOnce
<1>12. CASE AttackerResign
  <2> DEFINE b == SignBundle(Without(bundle, "signatures"), "attacker", "attacker")
  <2>1. "signatures" \in DOMAIN b
    BY DEF SignBundle, WithDescriptor
  <2>2. Change(b, <<"signatures", "">>)
    BY <1>12 DEF AttackerResign
  <2> HIDE DEF b
  <2> QED
    BY <2>1, <2>2, OneChangeMade DEF ChangedOnce
<1>13. CASE UNCHANGED vars
  BY <1>13, OneChangeKept DEF vars
<1> QED
  BY <1>3, <1>4, <1>5, <1>6, <1>7, <1>8, <1>9, <1>10, <1>11, <1>12, <1>13 DEF Next

LEMMA BundleInit == Init => IsBundle(original)
BY DEF Init, NoBundle, IsBundle

LEMMA BundleNext == IsBundle(original) /\ [Next]_vars => IsBundle(original')
<1> SUFFICES ASSUME IsBundle(original), [Next]_vars PROVE IsBundle(original')
  OBVIOUS
<1>1. CASE UNCHANGED original
  BY <1>1
<1>2. CASE Assemble
  BY <1>2, BuiltShape DEF Assemble
<1>3. \A b, d : IsBundle(WithDescriptor(b, d))
  BY DEF WithDescriptor, IsBundle
<1>4. CASE Gate \/ ToolCosigns
  BY <1>3, <1>4 DEF Gate, ToolCosigns, SignBundle, ToolWitness
<1>5. CASE \E b, what : Change(b, what)
  BY <1>1, <1>5 DEF Change
<1>6. CASE Export \/ LeafMutation \/ Forgery
  BY <1>5, <1>6 DEF Export, LeafMutation, Forgery
<1>7. CASE SectionSwap \/ DropSection \/ AttackerResign
  BY <1>5, <1>7 DEF SectionSwap, DropSection, AttackerResign
<1>8. CASE (\E sh \in Shapes : Record(sh)) \/ OtherAppend \/ ReadInclusion \/ Tick
  BY <1>1, <1>8 DEF Record, OtherAppend, ReadInclusion, Tick
<1> QED
  BY <1>1, <1>2, <1>4, <1>6, <1>7, <1>8 DEF Next, vars

(* The sections whose leaves are all covered, or all but some.              *)
LEMMA LeafDetected ==
    ASSUME NEW b, NEW c, NEW a, NEW t, NEW s, NEW l,
           Undetected(b, c, a, shape, t, s, l), <<s, l>> \notin Informational
    PROVE  FALSE
<1>1. /\ s \in DOMAIN Leaves \cup {"scitt"}
      /\ s # "scitt" => l \in Leaves[s]
  <2>1. Genuine(b, a, shape) /\ s \in DOMAIN b /\ l \in DOMAIN b[s]
    BY DEF Undetected, Edited
  <2> QED
    BY <2>1, GenuineSections
<1>2. s \in {"exported_at", "verification", "approval"} => FALSE
  BY <1>1 DEF Leaves, Informational
<1>3. s \notin {"schema", "output", "certificate", "execution_context", "authority", "decision_record", "policy",
             "lineage", "session", "audit_inclusion", "budget", "mandate", "workload_proof", "scitt"}
  BY SchemaDetected, OutputDetected, CertificateDetected, ContextDetected,
     AuthorityDetected, DecisionRecordDetected, PolicyDetected, LineageDetected,
     SessionDetected, InclusionDetected, BudgetDetected, MandateDetected,
     WorkloadDetected, ScittDetected
<1>4. s # "execution_proof"
  <2> SUFFICES ASSUME s = "execution_proof" PROVE FALSE
    OBVIOUS
  <2>1. l = "created_at" => "audit" \in shape
    BY DEF Informational
  <2> QED
    BY <2>1, ProofDetected
<1>5. s # "decision"
  <2> SUFFICES ASSUME s = "decision" PROVE FALSE
    OBVIOUS
  <2>1. l = "budget_effects" => "budget" \in shape \/ "mandate" \notin shape
    BY DEF Informational
  <2> QED
    BY <2>1, DecisionDetected
<1>6. s # "identity"
  <2> SUFFICES ASSUME s = "identity" PROVE FALSE
    OBVIOUS
  <2>1. l = "credential" => "workload" \in shape
    BY DEF Informational
  <2> QED
    BY <2>1, IdentityDetected
<1>7. s # "session_proof"
  <2> SUFFICES ASSUME s = "session_proof" PROVE FALSE
    OBVIOUS
  <2>1. l = "session" => "session" \in shape
    BY DEF Informational
  <2> QED
    BY <2>1, SessionProofDetected
<1>8. /\ s = "action" => l # "name"
      /\ s = "evidence" => l # "score"
      /\ s = "v1" => l # "recommended_action"
      /\ s = "audit_record" => l # "seq"
  BY DEF Informational
<1>9. s \notin {"action", "evidence", "v1", "audit_record"}
  BY <1>8, ActionDetected, EvidenceDetected, V1Detected, AuditRecordDetected
<1> QED
  BY <1>1, <1>2, <1>3, <1>4, <1>5, <1>6, <1>7, <1>9 DEF Leaves

LEMMA OriginalGenuine ==
    ASSUME IInv, IsBundle(original), stage = "built", "signatures" \notin DOMAIN original
    PROVE  /\ Genuine(original, Parts(Run, shape, at, <<size, log>>, seq), shape)
           /\ \A s \in DOMAIN original : IsBundle(original[s])
<1> DEFINE a == Parts(Run, shape, at, <<size, log>>, seq)
<1>1. original = Built
  BY WithoutAbsent DEF IInv, OriginalIsBuilt
<1>2. IsBuiltFrom(original, a, shape)
  BY <1>1, BuiltFrom DEF Built
<1>3. Genuine(original, a, shape)
  BY <1>2, PartsLeaves, PartsHaveValues DEF Genuine
<1>4. \A s \in DOMAIN a : IsBundle(a[s])
  BY PartsAreFunctions
<1> HIDE DEF a
<1>5. IsBundle(original["authority"])
  <2>1. "authority" \in DOMAIN a
    BY <1>3 DEF Genuine, Leaves
  <2> QED
    BY <1>2, <1>4, <2>1 DEF IsBuiltFrom, IsBundle
<1>6. "scitt" \in DOMAIN original => IsBundle(original["scitt"])
  BY <1>2 DEF IsBuiltFrom, IsBundle
<1>7. \A s \in DOMAIN original : s \notin {"authority", "scitt"} => IsBundle(original[s])
  <2>1. \A s \in DOMAIN original : s # "scitt" => s \in DOMAIN a
    BY <1>2 DEF IsBuiltFrom
  <2> QED
    BY <1>2, <1>4, <2>1 DEF IsBuiltFrom
<1>8. Genuine(original, a, shape) /\ \A s \in DOMAIN original : IsBundle(original[s])
  BY <1>3, <1>5, <1>6, <1>7
<1> QED
  BY <1>8 DEF a

LEMMA OneChangeDetected == IInv /\ IsBundle(original) /\ OneChange => SingleMutationDetected
<1> SUFFICES ASSUME IInv, IsBundle(original), OneChange, edits = 1,
                    "signatures" \notin DOMAIN bundle, Valid(original, Structural, now),
                    touched[2] # "dropped", touched[1] \notin Rewrites,
                    touched \notin Informational, Valid(bundle, Structural, now)
             PROVE  FALSE
  BY DEF SingleMutationDetected, Rewrites
<1> DEFINE a == Parts(Run, shape, at, <<size, log>>, seq)
           e == Parts(DonorRun, shape, at, <<log, log>>, seq)
<1>1. /\ stage = "built" /\ bundle # original
      /\ LeafChanged(original, bundle, touched)
         \/ SectionSwapped(original, bundle, touched, Donor)
  BY DEF OneChange, ChangedOnce
<1>2. DOMAIN bundle = DOMAIN original
  <2>1. CASE LeafChanged(original, bundle, touched)
    BY <2>1 DEF LeafChanged
  <2>2. CASE SectionSwapped(original, bundle, touched, Donor)
    BY <2>2 DEF SectionSwapped
  <2> QED
    BY <1>1, <2>1, <2>2
<1>3. Genuine(original, a, shape) /\ \A s \in DOMAIN original : IsBundle(original[s])
  BY <1>1, <1>2, OriginalGenuine
<1> HIDE DEF a
<1>4. CASE LeafChanged(original, bundle, touched)
  <2>0. PICK s \in DOMAIN original : \E l \in DOMAIN original[s] :
            touched = <<s, l>> /\ bundle = [original EXCEPT ![s][l] = Mutated(s, l, @)]
    BY <1>4 DEF LeafChanged
  <2>1. PICK l \in DOMAIN original[s] :
            touched = <<s, l>> /\ bundle = [original EXCEPT ![s][l] = Mutated(s, l, @)]
    BY <2>0
  <2>2. Edited(original, bundle, s, l)
    BY <1>1, <1>3, <2>1, LeafEdited
  <2>3. Undetected(original, bundle, a, shape, now, s, l)
    BY <1>3, <2>2 DEF Undetected
  <2> QED
    BY <2>1, <2>3, LeafDetected
<1>5. CASE SectionSwapped(original, bundle, touched, Donor)
  <2>1. PICK s \in SwappedSections \cap DOMAIN original :
            bundle = [original EXCEPT ![s] = Donor[s]]
    BY <1>5 DEF SectionSwapped
  <2>2. /\ \A x \in DOMAIN original : x # s => bundle[x] = original[x]
        /\ bundle[s] = Donor[s]
    BY <2>1
  <2>3. bundle[s] # original[s]
    <3> SUFFICES ASSUME bundle[s] = original[s] PROVE FALSE
      OBVIOUS
    <3>1. [original EXCEPT ![s] = Donor[s]] = original
      BY <2>1, <2>2 DEF IsBundle
    <3> QED
      BY <1>1, <2>1, <3>1
  <2>4. Swapped(original, bundle, s, Donor)
    BY <1>2, <2>2, <2>3 DEF Swapped
  <2>5. IsBuiltFrom(Donor, e, shape) /\ PartsValues(e, DonorRun, shape)
    BY BuiltFrom, PartsHaveValues DEF Donor
  <2>6. AlwaysThere \subseteq DOMAIN Donor
    BY BuiltShape DEF Donor
  <2> HIDE DEF e
  <2> QED
    BY <1>3, <2>1, <2>4, <2>5, <2>6, SwapDetected
<1> QED
  BY <1>1, <1>4, <1>5

(* A receipt that verifies without signatures stops doing so when one leaf  *)
(* that is bound to its proof is given another value, or one section is     *)
(* taken from another run's receipt, whatever the receipt's shape: the      *)
(* mutations of tamper.py are all found by verify_receipt_bundle.           *)
THEOREM SingleMutationsDetected == Spec => []SingleMutationDetected
<1>1. IInv /\ OneChange /\ IsBundle(original) /\ [Next]_vars
          => (OneChange /\ IsBundle(original))'
  BY OneChangeNext, BundleNext
<1>2. Init => OneChange /\ IsBundle(original)
  BY OneChangeInit, BundleInit
<1> QED
  BY <1>1, <1>2, InvariantHolds, OneChangeDetected, PTL DEF Spec
=============================================================================
