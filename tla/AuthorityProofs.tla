--------------------------- MODULE AuthorityProofs ---------------------------
(***************************************************************************)
(* Proofs about Authority for every set of capabilities, keys, operations  *)
(* and mandate terms and for every bound: outside shadow mode authority    *)
(* only shrinks along a delegation chain, honest chains stay usable at any *)
(* depth, and a child mandate allows nothing its embedded parent refuses.  *)
(***************************************************************************)
EXTENDS Authority, SequenceTheorems, FiniteSetTheorems, WellFoundedInduction, TLAPS

-----------------------------------------------------------------------------
(* The inductive invariant.                                                *)

Caps == UNION CapabilityOffers
Bodies == [id : Nat, caps : SUBSET Caps, depth : Nat, issued : Nat, expires : Nat]
Issues == [caps : SUBSET Caps, honest : BOOLEAN, parent : Nat]

(* What an issuer relies on of a parent: a chain no longer than its leaf's  *)
(* id, which was issued.                                                    *)
WellFormed(t) ==
    /\ t \in Seq(Bodies) /\ t # <<>>
    /\ Len(t) <= Head(t).id /\ Head(t).id \in Ids

(* A token object is what the lineage says was issued under its leaf's id.  *)
Recorded(t) ==
    LET issue == lineage[Head(t).id]
    IN  /\ issue.caps = Head(t).caps
        /\ issue.parent = IF Len(t) = 1 THEN 0 ELSE t[2].id
        /\ issue.honest => Attenuated(Head(t).caps, Tail(t))

LineageInv ==
    /\ mode \in {"shadow", "enforce"} /\ now \in 0 .. MaxTime
    /\ lineage \in Seq(Issues) /\ Len(lineage) <= MaxTokens
    /\ IsFiniteSet(tokens) /\ Cardinality(tokens) = Len(lineage)
    /\ \A t \in tokens : WellFormed(t) /\ Recorded(t)

(* Whoever signs a child holds the signed envelope of its parent: with a    *)
(* document, those of all its ancestors are signed.                         *)
SignedInv ==
    /\ signed \subseteq tokens
    /\ \A t \in signed : \A k \in 1 .. Len(t) : SubSeq(t, k, Len(t)) \in signed

(* Outside shadow mode a call is let through under a signed document, and   *)
(* every delegation of its chain allows the operation.                      *)
AllowedBy(t, r) ==
    /\ Head(t).id = r.leaf
    /\ \A k \in 1 .. Len(t) :
          CapabilityAllows(t[k].caps, [resource |-> r.resource_type, action |-> r.action])

ReceiptInv ==
    \A r \in receipts :
        /\ r.leaf \in {0} \cup Ids /\ r.spend \in Spends /\ r.at \in 0 .. MaxTime
        /\ mode # "shadow" /\ r.leaf # 0 => \E t \in signed : AllowedBy(t, r)

MandateInv ==
    /\ IsFiniteSet(mandates)
    /\ \A m \in mandates : \E id \in 1 .. MaxGrants, key \in Keys, terms \in MandateTerms,
                              at \in 0 .. MaxTime : m = Envelope(id, key, terms, at)

AuthorityInv == LineageInv /\ SignedInv /\ ReceiptInv /\ MandateInv

-----------------------------------------------------------------------------
(* Sequences and numbers.                                                  *)

(* A set of numbers that is not empty has a least one.                      *)
LEMMA LeastNumber ==
    ASSUME NEW A, A \subseteq Nat, A # {}
    PROVE  \E m \in A : \A a \in A : m <= a
<1>1. PICK m \in A : \A a \in A : ~(<<a, m>> \in OpToRel(<, Nat))
  BY NatLessThanWellFounded, WFMin
<1>2. \A a \in A : ~(a < m)
  BY <1>1 DEF OpToRel
<1> QED
  BY <1>2

(* What is passed on from a link of a chain to the next all links have.     *)
LEMMA AlongChain ==
    ASSUME NEW n \in Nat, NEW P, 1 \in P,
           \A k \in 1 .. n - 1 : k \in P => k + 1 \in P
    PROVE  \A k \in 1 .. n : k \in P
<1> DEFINE bad == {k \in 1 .. n : k \notin P}
<1> SUFFICES ASSUME bad # {} PROVE FALSE
  OBVIOUS
<1>1. bad \subseteq Nat
  OBVIOUS
<1>2. PICK m \in bad : \A a \in bad : m <= a
  <2> HIDE DEF bad
  <2> QED BY <1>1, LeastNumber
<1>3. m \in 2 .. n /\ m - 1 \in 1 .. n - 1
  BY <1>2
<1>4. m - 1 \notin bad
  BY <1>2, <1>3
<1> QED
  BY <1>2, <1>3, <1>4

(* The head of a chain put before another, and the one taken off.           *)
LEMMA ConsProperties ==
    ASSUME NEW S, NEW b \in S, NEW p \in Seq(S)
    PROVE  /\ <<b>> \o p \in Seq(S) /\ <<b>> \o p # <<>>
           /\ Len(<<b>> \o p) = Len(p) + 1
           /\ Head(<<b>> \o p) = b /\ Tail(<<b>> \o p) = p
           /\ \A k \in 1 .. Len(p) : (<<b>> \o p)[k + 1] = p[k]
<1> DEFINE t == <<b>> \o p
<1>1. <<b>> \in Seq(S) /\ Len(<<b>>) = 1 /\ <<b>>[1] = b
  OBVIOUS
<1>2. /\ t \in Seq(S) /\ Len(t) = 1 + Len(p)
      /\ \A i \in 1 .. 1 + Len(p) : t[i] = IF i <= 1 THEN <<b>>[i] ELSE p[i - 1]
  BY <1>1, ConcatProperties
<1>3. Len(p) \in Nat
  BY LenProperties
<1> HIDE DEF t
<1>4. t # <<>> /\ Head(t) = b
  BY <1>1, <1>2, <1>3
<1>5. \A k \in 1 .. Len(p) : t[k + 1] = p[k]
  BY <1>2, <1>3
<1>6. /\ Tail(t) \in Seq(S) /\ Len(Tail(t)) = Len(p)
      /\ \A i \in 1 .. Len(Tail(t)) : Tail(t)[i] = t[i + 1]
  BY <1>2, <1>3, <1>4, HeadTailProperties
<1>7. Tail(t) = p
  BY <1>5, <1>6, SeqEqual
<1> QED
  BY <1>2, <1>3, <1>4, <1>5, <1>7 DEF t

-----------------------------------------------------------------------------
(* Issuing.                                                                *)

(* Whatever a holder edits, a token object keeps its leaf's id and gets no  *)
(* longer.                                                                  *)
LEMMA HeldWellFormed ==
    ASSUME LineageInv, NEW h \in Held
    PROVE  WellFormed(h)
<1>1. PICK t \in tokens : h \in Edited(t)
  BY DEF Held
<1>2. /\ t \in Seq(Bodies) /\ t # <<>> /\ Len(t) <= Head(t).id /\ Head(t).id \in Ids
      /\ Len(t) \in Nat \ {0} /\ Head(t) = t[1] /\ t[1] \in Bodies
  <2>1. t \in Seq(Bodies) /\ t # <<>> /\ Len(t) <= Head(t).id /\ Head(t).id \in Ids
    BY DEF LineageInv, WellFormed
  <2> QED
    BY <2>1, EmptySeq, ElementOfSeq
<1>3. \A b \in Bodies : Widened(b) \in Bodies /\ Widened(b).id = b.id
  BY DEF Widened, Bodies, Caps
<1> DEFINE w1 == Widened(t[1])
           w2 == Widened(t[2])
           rest == SubSeq(t, 3, Len(t))
<1>4. w1 \in Bodies /\ w1.id = t[1].id
  BY <1>2, <1>3
<1>5. Tail(t) \in Seq(Bodies) /\ Len(Tail(t)) = Len(t) - 1
  BY <1>2, HeadTailProperties
<1>6. CASE h = t
  BY <1>2, <1>6 DEF WellFormed
<1>7. CASE h = <<t[1]>>
  <2>1. h \in Seq(Bodies) /\ h # <<>> /\ Len(h) = 1 /\ Head(h) = t[1]
    BY <1>2, <1>7
  <2> DEFINE leaf == Head(t).id
  <2>2. Head(h).id = leaf /\ leaf \in Ids /\ Len(t) <= leaf
    BY <1>2, <2>1
  <2> HIDE DEF leaf
  <2>3. leaf \in Nat
    BY <2>2 DEF Ids
  <2>4. Len(h) <= leaf
    BY <1>2, <2>1, <2>2, <2>3
  <2> QED
    BY <2>1, <2>2, <2>4 DEF WellFormed
<1>8. CASE h = <<w1>> \o Tail(t)
  <2> HIDE DEF w1
  <2>1. h \in Seq(Bodies) /\ h # <<>> /\ Len(h) = Len(t) /\ Head(h) = w1
    BY <1>2, <1>4, <1>5, <1>8, ConsProperties
  <2> QED
    BY <1>2, <1>4, <2>1 DEF WellFormed
<1>9. CASE Len(t) > 1 /\ h = <<t[1], w2>> \o rest
  <2>1. w2 \in Bodies
    BY <1>2, <1>3, <1>9, ElementOfSeq
  <2>2. rest \in Seq(Bodies) /\ Len(rest) = Len(t) - 2
    <3>1. \A i \in 3 .. Len(t) : t[i] \in Bodies
      BY <1>2, ElementOfSeq
    <3> QED
      BY <1>2, <1>9, <3>1, SubSeqProperties
  <2> HIDE DEF w2, rest
  <2>3. /\ <<t[1], w2>> \in Seq(Bodies) /\ Len(<<t[1], w2>>) = 2
        /\ <<t[1], w2>>[1] = t[1]
    BY <1>2, <2>1
  <2>4. /\ h \in Seq(Bodies) /\ Len(h) = 2 + (Len(t) - 2)
        /\ \A i \in 1 .. 2 + (Len(t) - 2) :
              h[i] = IF i <= 2 THEN <<t[1], w2>>[i] ELSE rest[i - 2]
    BY <1>9, <2>2, <2>3, ConcatProperties
  <2>5. h # <<>> /\ Head(h) = t[1]
    BY <1>2, <1>9, <2>3, <2>4
  <2> QED
    BY <1>2, <1>9, <2>4, <2>5 DEF WellFormed
<1> QED
  BY <1>1, <1>2, <1>6, <1>7, <1>8, <1>9 DEF Edited

(* A new token object over a parent that is empty or well formed: its id is *)
(* fresh, and what the lineage says of it and of the others is so.          *)
LEMMA AddTokenKeeps ==
    ASSUME BoundsAssumption, LineageInv, UNCHANGED <<mode, now>>,
           NEW parent \in Seq(Bodies), parent # <<>> => WellFormed(parent),
           NEW caps \in CapabilityOffers, NEW ttl \in Ttls, NEW honest \in BOOLEAN,
           honest => Attenuated(caps, parent),
           AddToken(Child(parent, Len(lineage) + 1, caps, now, ttl), honest)
    PROVE  LineageInv' /\ tokens \subseteq tokens' /\ Ids \subseteq Ids'
<1> DEFINE n == Len(lineage) + 1
           depth == IF parent = <<>> THEN 0 ELSE Head(parent).depth + 1
           b == Body(n, caps, depth, now, now + ttl)
           t == <<b>> \o parent
           issue == [caps |-> Head(t).caps, honest |-> honest,
                     parent |-> IF Len(t) = 1 THEN 0 ELSE t[2].id]
<1>1. /\ Len(lineage) < MaxTokens /\ tokens' = tokens \cup {t} /\ lineage' = Append(lineage, issue)
  BY DEF AddToken, Child
<1>2. Len(lineage) \in Nat /\ n \in Nat /\ MaxTokens \in Nat
  BY LenProperties DEF LineageInv, BoundsAssumption
<1>3. b \in Bodies /\ b.id = n /\ b.caps = caps
  <2>1. depth \in Nat
    <3>1. parent # <<>> => Head(parent) \in Bodies
      BY HeadTailProperties
    <3> QED
      BY <3>1, SMTT(30) DEF Bodies
  <2>2. now \in Nat /\ ttl \in Nat
    BY DEF LineageInv, BoundsAssumption
  <2>3. caps \in SUBSET Caps
    BY DEF Caps
  <2> HIDE DEF depth
  <2> QED
    BY <1>2, <2>1, <2>2, <2>3 DEF Body, Bodies
<1>4. /\ t \in Seq(Bodies) /\ t # <<>> /\ Len(t) = Len(parent) + 1 /\ Head(t) = b /\ Tail(t) = parent
      /\ \A k \in 1 .. Len(parent) : t[k + 1] = parent[k]
  <2> HIDE DEF b
  <2> QED
    BY <1>3, ConsProperties
<1> HIDE DEF b, t, n
<1>5. /\ Len(parent) \in Nat
      /\ parent # <<>> =>
            /\ Len(parent) \in Nat \ {0} /\ Len(parent) <= Head(parent).id
            /\ Head(parent).id \in Ids /\ t[2] = Head(parent)
  <2>1. Len(parent) \in Nat /\ (parent # <<>> => Len(parent) \in Nat \ {0})
    BY EmptySeq, LenProperties
  <2>2. parent # <<>> => t[1 + 1] = parent[1]
    BY <1>4, <2>1
  <2> QED
    BY <2>1, <2>2 DEF WellFormed
<1>6. issue \in Issues /\ issue.caps = caps /\ issue.honest = honest
      /\ issue.parent = IF Len(t) = 1 THEN 0 ELSE t[2].id
  <2>1. Len(t) # 1 => parent # <<>>
    BY <1>4, <1>5, EmptySeq
  <2>2. (IF Len(t) = 1 THEN 0 ELSE t[2].id) \in Nat
    BY <1>2, <1>5, <2>1 DEF Ids
  <2>3. Head(t).caps = caps /\ caps \in SUBSET Caps
    BY <1>3, <1>4 DEF Caps
  <2> QED
    BY <2>2, <2>3 DEF Issues
<1> HIDE DEF issue
<1>7. /\ lineage' \in Seq(Issues) /\ Len(lineage') = n /\ lineage'[n] = issue
      /\ \A i \in Ids : lineage'[i] = lineage[i]
  <2>1. lineage \in Seq(Issues)
    BY DEF LineageInv
  <2> QED
    BY <1>1, <1>2, <1>6, <2>1 DEF n, Ids
<1>8. Ids \subseteq Ids' /\ n \in Ids' /\ n \notin Ids
  BY <1>2, <1>7 DEF Ids, n
<1>9. t \notin tokens
  BY <1>3, <1>4, <1>8 DEF LineageInv, WellFormed
<1>10. IsFiniteSet(tokens') /\ Cardinality(tokens') = n
  <2>1. IsFiniteSet(tokens) /\ Cardinality(tokens) = Len(lineage)
    BY DEF LineageInv
  <2> QED
    BY <1>1, <1>9, <2>1, FS_AddElement DEF n
<1>11. ASSUME NEW u \in tokens', u = t PROVE (WellFormed(u) /\ Recorded(u))'
  <2>1. Len(t) <= Head(t).id
    <3>1. CASE parent = <<>>
      BY <1>2, <1>3, <1>4, <3>1, EmptySeq DEF n
    <3>2. CASE parent # <<>>
      BY <1>2, <1>3, <1>4, <1>5, <3>2 DEF Ids, n
    <3> QED BY <3>1, <3>2
  <2>2. lineage'[Head(u).id] = issue
    BY <1>3, <1>4, <1>7, <1>11
  <2>3. /\ issue.caps = Head(u).caps
        /\ issue.parent = IF Len(u) = 1 THEN 0 ELSE u[2].id
        /\ issue.honest => Attenuated(Head(u).caps, Tail(u))
    BY <1>3, <1>4, <1>6, <1>11
  <2>4. WellFormed(u)'
    BY <1>3, <1>4, <1>8, <1>11, <2>1 DEF WellFormed
  <2> QED
    BY <2>2, <2>3, <2>4 DEF Recorded
<1>12. ASSUME NEW u \in tokens PROVE (WellFormed(u) /\ Recorded(u))'
  <2>1. WellFormed(u) /\ Recorded(u)
    BY DEF LineageInv
  <2> QED
    BY <1>7, <1>8, <2>1 DEF WellFormed, Recorded
<1>13. Len(lineage') <= MaxTokens
  BY <1>1, <1>2, <1>7 DEF n
<1>14. (mode \in {"shadow", "enforce"} /\ now \in 0 .. MaxTime)'
  BY DEF LineageInv
<1> QED
  BY <1>1, <1>7, <1>8, <1>10, <1>11, <1>12, <1>13, <1>14 DEF LineageInv

-----------------------------------------------------------------------------
(* Signing and presenting.                                                 *)

(* What a link of a signed document is: the document of an ancestor.        *)
LEMMA SuffixProperties ==
    ASSUME NEW t \in Seq(Bodies), NEW k \in 1 .. Len(t)
    PROVE  LET s == SubSeq(t, k, Len(t))
           IN  /\ s \in Seq(Bodies) /\ s # <<>> /\ Len(s) = Len(t) - k + 1
               /\ \A i \in 1 .. Len(t) - k + 1 : s[i] = t[k + i - 1]
               /\ Head(s) = t[k] /\ Tail(s) = SubSeq(t, k + 1, Len(t))
<1>1. Len(t) \in Nat /\ k \in Int /\ \A i \in k .. Len(t) : t[i] \in Bodies
  BY LenProperties, ElementOfSeq
<1> DEFINE s == SubSeq(t, k, Len(t))
<1>2. /\ s \in Seq(Bodies) /\ Len(s) = Len(t) - k + 1
      /\ \A i \in 1 .. Len(t) - k + 1 : s[i] = t[k + i - 1]
  BY <1>1, SubSeqProperties
<1>3. Head(s) = t[k] /\ Tail(s) = SubSeq(t, k + 1, Len(t))
  BY <1>1, HeadTailOfSubSeq
<1> HIDE DEF s
<1>4. s # <<>>
  BY <1>1, <1>2
<1> QED
  BY <1>2, <1>3, <1>4 DEF s

(* The links above the leaf of a document are those of its parent's.        *)
LEMMA TailSuffixes ==
    ASSUME NEW t \in Seq(Bodies), t # <<>>, NEW k \in 1 .. Len(t), k # 1
    PROVE  /\ k - 1 \in 1 .. Len(Tail(t))
           /\ SubSeq(t, k, Len(t)) = SubSeq(Tail(t), k - 1, Len(Tail(t)))
<1>1. Len(t) \in Nat
  BY LenProperties
<1>2. /\ Tail(t) \in Seq(Bodies) /\ Len(Tail(t)) = Len(t) - 1
      /\ \A i \in 1 .. Len(Tail(t)) : Tail(t)[i] = t[i + 1]
  BY HeadTailProperties
<1>3. k - 1 \in 1 .. Len(Tail(t))
  BY <1>1, <1>2
<1> DEFINE a == SubSeq(t, k, Len(t))
           b == SubSeq(Tail(t), k - 1, Len(Tail(t)))
<1>4. a \in Seq(Bodies) /\ Len(a) = Len(t) - k + 1
      /\ \A i \in 1 .. Len(t) - k + 1 : a[i] = t[k + i - 1]
  BY SuffixProperties
<1>5. b \in Seq(Bodies) /\ Len(b) = Len(Tail(t)) - (k - 1) + 1
      /\ \A i \in 1 .. Len(Tail(t)) - (k - 1) + 1 : b[i] = Tail(t)[k - 1 + i - 1]
  BY <1>2, <1>3, SuffixProperties
<1> HIDE DEF a, b
<1>6. Len(a) = Len(b) /\ \A i \in 1 .. Len(a) : a[i] = b[i]
  <2>1. Len(a) = Len(b) /\ Len(b) = Len(t) - k + 1
    BY <1>1, <1>2, <1>4, <1>5
  <2>2. ASSUME NEW i \in 1 .. Len(a) PROVE a[i] = b[i]
    <3> DEFINE p == Tail(t)
               j == k - 1 + i - 1
    <3>1. j \in 1 .. Len(p) /\ j + 1 = k + i - 1
      BY <1>1, <1>2, <2>1
    <3>2. b[i] = p[j]
      BY <1>5, <2>1
    <3>3. p[j] = t[j + 1]
      BY <1>2, <3>1
    <3> HIDE DEF p, j
    <3> QED
      BY <1>4, <2>1, <3>1, <3>2, <3>3
  <2> QED
    BY <2>1, <2>2
<1>7. a = b
  BY <1>4, <1>5, <1>6, SeqEqual
<1> QED
  BY <1>3, <1>7 DEF a, b

(* The token a verified envelope spells is the signed document it opens     *)
(* with, parents and all.                                                   *)
LEMMA VerifiedDocument ==
    ASSUME LineageInv, SignedInv, NEW e \in Envelopes, EnvelopeVerifies(e, signed)
    PROVE  TokenOf(e) \in signed
<1>1. PICK n \in 0 .. MaxTokens : e \in [1 .. n -> signed]
  BY DEF Envelopes
<1>2. e \in Seq(signed) /\ Len(e) = n /\ DOMAIN e = 1 .. n /\ n \in Nat
  BY <1>1
<1>3. n \in Nat \ {0}
  BY <1>2, EmptySeq DEF EnvelopeVerifies
<1> DEFINE t == e[1]
           rest == SubSeq(e, 2, n)
<1>4. t \in signed /\ Tail(t) = TokenOf(rest)
  <2>1. 1 \in DOMAIN e
    BY <1>2, <1>3
  <2>2. e[1] \in signed /\ Tail(e[1]) = TokenOf(SubSeq(e, 1 + 1, Len(e)))
    BY <2>1 DEF EnvelopeVerifies
  <2> QED
    BY <1>2, <2>2
<1>5. t \in Seq(Bodies) /\ t # <<>>
  BY <1>4 DEF SignedInv, LineageInv, WellFormed
<1>6. rest \in Seq(signed) /\ Len(rest) = n - 1 /\ \A i \in 1 .. n - 1 : rest[i] = e[i + 1]
  <2>1. \A i \in 2 .. n : e[i] \in signed
    BY <1>1, <1>3
  <2>2. /\ rest \in Seq(signed) /\ Len(rest) = IF 2 <= n THEN n - 2 + 1 ELSE 0
        /\ \A i \in 1 .. n - 2 + 1 : rest[i] = e[2 + i - 1]
    BY <1>3, <2>1, SubSeqProperties
  <2> QED
    BY <1>3, <2>2
<1>7. DOMAIN rest = 1 .. n - 1
  BY <1>6, LenProperties
<1> HIDE DEF rest, t
<1>8. /\ TokenOf(rest) = [k \in 1 .. n - 1 |-> Head(rest[k])]
      /\ TokenOf(e) = [k \in 1 .. n |-> Head(e[k])]
  BY <1>2, <1>7 DEF TokenOf
<1>9. /\ Tail(t) \in Seq(Bodies) /\ Len(Tail(t)) = Len(t) - 1
      /\ \A i \in 1 .. Len(Tail(t)) : Tail(t)[i] = t[i + 1]
  BY <1>5, HeadTailProperties
<1>10. Len(Tail(t)) = n - 1 /\ Len(t) = n
  <2>1. DOMAIN Tail(t) = 1 .. n - 1
    BY <1>4, <1>8
  <2>2. DOMAIN Tail(t) = 1 .. Len(Tail(t)) /\ Len(Tail(t)) \in Nat /\ Len(t) \in Nat
    BY <1>5, <1>9, LenProperties
  <2>3. Len(Tail(t)) = n - 1
    BY <1>3, <2>1, <2>2
  <2>4. Len(Tail(t)) = Len(t) - 1
    BY <1>9
  <2> QED
    BY <1>3, <2>2, <2>3, <2>4
<1>12. \A k \in 1 .. n : Head(e[k]) = t[k]
  <2> SUFFICES ASSUME NEW k \in 1 .. n PROVE Head(e[k]) = t[k]
    OBVIOUS
  <2>1. CASE k = 1
    BY <2>1, <1>5 DEF t
  <2>2. CASE k # 1
    <3>1. k - 1 \in 1 .. n - 1 /\ (k - 1) + 1 = k
      BY <1>3, <2>2
    <3>2. Tail(t)[k - 1] = Head(rest[k - 1])
      BY <1>4, <1>8, <3>1
    <3>3. Tail(t)[k - 1] = t[k] /\ rest[k - 1] = e[k]
      BY <1>6, <1>9, <1>10, <3>1
    <3> QED BY <3>2, <3>3
  <2> QED BY <2>1, <2>2
<1>13. t = [k \in 1 .. n |-> t[k]]
  BY <1>5, <1>10
<1>14. TokenOf(e) = t
  BY <1>8, <1>12, <1>13
<1> QED
  BY <1>4, <1>14

(* A chain that passes on what its parents had allows nothing they do not.  *)
LEMMA ChainAllows ==
    ASSUME NEW t \in Seq(Bodies), NEW op, CapabilityAllows(t[1].caps, op), ChainExtras(t) = {}
    PROVE  \A k \in 1 .. Len(t) : CapabilityAllows(t[k].caps, op)
<1> DEFINE P == {k \in 1 .. Len(t) : CapabilityAllows(t[k].caps, op)}
<1>1. Len(t) \in Nat
  BY LenProperties
<1>2. CASE Len(t) = 0
  BY <1>2
<1>3. CASE Len(t) # 0
  <2>1. 1 \in P
    BY <1>1, <1>3
  <2>2. ASSUME NEW k \in 1 .. Len(t) - 1, k \in P PROVE k + 1 \in P
    <3>1. CapabilityExtras(t[k].caps, t[k + 1].caps) = {}
      BY DEF ChainExtras
    <3>2. PICK c \in t[k].caps : c.resource = op.resource /\ c.action \in {Wildcard, op.action}
      BY <2>2 DEF CapabilityAllows
    <3>3. CapabilityAllows(t[k + 1].caps, c)
      BY <3>1 DEF CapabilityExtras
    <3>4. CapabilityAllows(t[k + 1].caps, op)
      BY <3>2, <3>3 DEF CapabilityAllows
    <3> QED
      BY <1>1, <3>4
  <2> HIDE DEF P
  <2>3. \A k \in 1 .. Len(t) : k \in P
    BY <1>1, <2>1, <2>2, AlongChain
  <2> QED
    BY <2>3 DEF P
<1> QED
  BY <1>2, <1>3

-----------------------------------------------------------------------------
(* The steps.                                                              *)

(* Signing, granting and calls left alone, an issued token disturbs nothing *)
(* that was said of signed documents, receipts and mandates.                *)
LEMMA IssueKeeps ==
    ASSUME AuthorityInv, LineageInv', tokens \subseteq tokens', Ids \subseteq Ids',
           UNCHANGED <<mode, signed, mandates, receipts, now>>
    PROVE  AuthorityInv'
<1>1. SignedInv'
  BY DEF AuthorityInv, SignedInv
<1>2. ReceiptInv'
  BY DEF AuthorityInv, ReceiptInv, AllowedBy
<1>3. MandateInv'
  BY DEF AuthorityInv, MandateInv
<1> QED
  BY <1>1, <1>2, <1>3 DEF AuthorityInv

(* While neither the lineage nor a token object changes, LineageInv stays.  *)
LEMMA LineageKept ==
    ASSUME LineageInv, UNCHANGED <<mode, lineage, tokens>>, now' \in 0 .. MaxTime
    PROVE  LineageInv' /\ Ids' = Ids
BY DEF LineageInv, WellFormed, Recorded, Ids

LEMMA InitEstablishes == Init => AuthorityInv
<1> SUFFICES ASSUME Init PROVE AuthorityInv
  OBVIOUS
<1>1. lineage \in Seq(Issues) /\ Len(lineage) = 0
  BY DEF Init
<1>2. IsFiniteSet(tokens) /\ Cardinality(tokens) = 0 /\ IsFiniteSet(mandates)
  BY FS_EmptySet DEF Init
<1> QED
  BY <1>1, <1>2, BoundsAssumption
     DEF Init, AuthorityInv, LineageInv, SignedInv, ReceiptInv, MandateInv

LEMMA StepKeeps == AuthorityInv /\ [Next]_vars => AuthorityInv'
<1> SUFFICES ASSUME AuthorityInv, [Next]_vars PROVE AuthorityInv'
  OBVIOUS
<1> USE BoundsAssumption
<1>1. LineageInv /\ SignedInv /\ ReceiptInv /\ MandateInv
  BY DEF AuthorityInv
<1>2. now \in 0 .. MaxTime
  BY <1>1 DEF LineageInv
<1>3. ASSUME NEW e \in Verified PROVE TokenOf(e) \in signed /\ WellFormed(TokenOf(e))
  <2>1. TokenOf(e) \in signed
    BY <1>1, VerifiedDocument DEF Verified
  <2> QED
    BY <1>1, <2>1 DEF SignedInv, LineageInv
<1>4. ASSUME NEW caps \in CapabilityOffers, NEW ttl \in Ttls, NEW parent \in {<<>>} \cup Held,
             IssueFromToken(parent, caps, ttl)
      PROVE  AuthorityInv'
  <2>1. parent \in Seq(Bodies) /\ (parent # <<>> => WellFormed(parent))
    <3>1. parent # <<>> => WellFormed(parent)
      BY <1>1, HeldWellFormed
    <3> QED
      BY <3>1, EmptySeq DEF WellFormed
  <2>2. /\ Attenuated(caps, parent) /\ UNCHANGED <<mode, signed, mandates, receipts, now>>
        /\ AddToken(Child(parent, Len(lineage) + 1, caps, now, ttl), TRUE)
    BY <1>4 DEF IssueFromToken
  <2>3. LineageInv' /\ tokens \subseteq tokens' /\ Ids \subseteq Ids'
    BY <1>1, <2>1, <2>2, AddTokenKeeps
  <2> QED
    BY <2>2, <2>3, IssueKeeps
<1>5. ASSUME NEW caps \in CapabilityOffers, NEW ttl \in Ttls, NEW e \in Verified,
             IssueFromEnvelope(e, caps, ttl) \/ ConstructChild(e, caps, ttl)
      PROVE  AuthorityInv'
  <2> DEFINE parent == TokenOf(e)
  <2>1. parent \in Seq(Bodies) /\ WellFormed(parent)
    BY <1>3 DEF WellFormed
  <2>2. PICK honest \in BOOLEAN :
           /\ honest => Attenuated(caps, parent)
           /\ UNCHANGED <<mode, signed, mandates, receipts, now>>
           /\ AddToken(Child(parent, Len(lineage) + 1, caps, now, ttl), honest)
    BY <1>5 DEF IssueFromEnvelope, ConstructChild
  <2> HIDE DEF parent
  <2>3. LineageInv' /\ tokens \subseteq tokens' /\ Ids \subseteq Ids'
    BY <1>1, <2>1, <2>2, AddTokenKeeps
  <2> QED
    BY <2>2, <2>3, IssueKeeps
<1>6. ASSUME NEW t \in tokens, NEW e \in Envelopes, SignDelegation(t, e)
      PROVE  AuthorityInv'
  <2>1. /\ MaySign(t, e, signed) /\ signed' = signed \cup {t}
        /\ UNCHANGED <<mode, lineage, tokens, mandates, receipts, now>>
    BY <1>6 DEF SignDelegation
  <2>2. t \in Seq(Bodies) /\ t # <<>> /\ Len(t) \in Nat
    BY <1>1, LenProperties DEF LineageInv, WellFormed
  <2>3. Tail(t) # <<>> => Tail(t) \in signed
    BY <1>1, <2>1, VerifiedDocument DEF MaySign
  <2>4. ASSUME NEW k \in 1 .. Len(t) PROVE SubSeq(t, k, Len(t)) \in signed'
    <3>1. CASE k = 1
      <4>1. SubSeq(t, 1, Len(t)) = t
        BY <2>2, SubSeqFull
      <4> QED
        BY <2>1, <3>1, <4>1
    <3>2. CASE k # 1
      <4>1. /\ k - 1 \in 1 .. Len(Tail(t))
            /\ SubSeq(t, k, Len(t)) = SubSeq(Tail(t), k - 1, Len(Tail(t)))
        BY <2>2, <3>2, TailSuffixes
      <4>2. Tail(t) # <<>>
        <5> DEFINE p == Tail(t)
        <5>1. k - 1 \in 1 .. Len(p)
          BY <4>1
        <5> HIDE DEF p
        <5>2. p # <<>>
          BY <5>1
        <5> QED
          BY <5>2 DEF p
      <4>3. SubSeq(Tail(t), k - 1, Len(Tail(t))) \in signed
        BY <1>1, <2>3, <4>1, <4>2 DEF SignedInv
      <4> QED
        BY <2>1, <4>1, <4>3
    <3> QED BY <3>1, <3>2
  <2>5. SignedInv'
    BY <1>1, <2>1, <2>4 DEF SignedInv
  <2>6. LineageInv' /\ Ids' = Ids
    BY <1>1, <1>2, <2>1, LineageKept
  <2>7. ReceiptInv' /\ MandateInv'
    BY <1>1, <2>1, <2>6 DEF ReceiptInv, MandateInv, AllowedBy
  <2> QED
    BY <2>5, <2>6, <2>7 DEF AuthorityInv
<1>7. ASSUME NEW key \in Keys, NEW terms \in MandateTerms, IssueMandate(key, terms)
      PROVE  AuthorityInv'
  <2> DEFINE m == Envelope(Cardinality(mandates) + 1, key, terms, now)
  <2>1. /\ Len(lineage) + Cardinality(mandates) < MaxGrants /\ mandates' = mandates \cup {m}
        /\ UNCHANGED <<mode, lineage, tokens, signed, receipts, now>>
    BY <1>7 DEF IssueMandate, GrantLeft
  <2>2. Cardinality(mandates) \in Nat /\ Len(lineage) \in Nat
    BY <1>1, FS_CardinalityType, LenProperties DEF MandateInv, LineageInv
  <2>3. Cardinality(mandates) + 1 \in 1 .. MaxGrants
    BY <2>1, <2>2
  <2>4. IsFiniteSet(mandates')
    BY <1>1, <2>1, FS_AddElement DEF MandateInv
  <2>5. \E id \in 1 .. MaxGrants, k \in Keys, tm \in MandateTerms, at \in 0 .. MaxTime :
           m = Envelope(id, k, tm, at)
    BY <1>2, <2>3
  <2> HIDE DEF m
  <2>6. MandateInv'
    BY <1>1, <2>1, <2>4, <2>5 DEF MandateInv
  <2>7. LineageInv' /\ Ids' = Ids
    BY <1>1, <1>2, <2>1, LineageKept
  <2>8. SignedInv' /\ ReceiptInv'
    BY <1>1, <2>1, <2>7 DEF ReceiptInv, SignedInv, AllowedBy
  <2> QED
    BY <2>6, <2>7, <2>8 DEF AuthorityInv
<1>8. ASSUME NEW t \in {<<>>} \cup Held, NEW e \in Envelopes, NEW op \in Operations,
             NEW who \in Keys, NEW spend \in Spends, Call(t, e, op, who, spend)
      PROVE  AuthorityInv'
  <2> DEFINE r == [leaf |-> IF t = <<>> THEN 0 ELSE Head(t).id, identities |-> {who},
                   action |-> op.action, resource |-> op.target,
                   resource_type |-> op.resource, spend |-> spend, at |-> now]
  <2>1. /\ ChainViolations(t, e, op, signed, now, mode # "shadow") = {}
        /\ receipts' = receipts \cup {r}
        /\ UNCHANGED <<mode, lineage, tokens, signed, mandates, now>>
    BY <1>8 DEF Call
  <2>2. /\ r.leaf = IF t = <<>> THEN 0 ELSE Head(t).id
        /\ r.spend = spend /\ r.at = now /\ r.action = op.action /\ r.resource_type = op.resource
    OBVIOUS
  <2> HIDE DEF r
  <2>3. t # <<>> => WellFormed(t)
    BY <1>1, HeldWellFormed
  <2>4. r.leaf \in {0} \cup Ids /\ r.spend \in Spends /\ r.at \in 0 .. MaxTime
    BY <1>2, <2>2, <2>3 DEF WellFormed
  <2>5. mode # "shadow" /\ r.leaf # 0 => \E u \in signed : AllowedBy(u, r)
    <3> SUFFICES ASSUME mode # "shadow", t # <<>> PROVE \E u \in signed : AllowedBy(u, r)
      BY <2>2
    <3>1. e # <<>> /\ EnvelopeVerifies(e, signed) /\ TokenOf(e) = t
          /\ CapabilityAllows(Head(t).caps, op) /\ ChainExtras(t) = {}
      BY <2>1 DEF ChainViolations
    <3>2. t \in signed
      BY <1>1, <3>1, VerifiedDocument
    <3>3. t \in Seq(Bodies) /\ Head(t) = t[1]
      BY <2>3 DEF WellFormed
    <3>4. \A k \in 1 .. Len(t) : CapabilityAllows(t[k].caps, op)
      BY <3>1, <3>3, ChainAllows
    <3>5. AllowedBy(t, r)
      BY <2>2, <3>4 DEF AllowedBy, CapabilityAllows
    <3> QED BY <3>2, <3>5
  <2>6. LineageInv' /\ Ids' = Ids
    BY <1>1, <1>2, <2>1, LineageKept
  <2>7. ReceiptInv'
    <3>1. ASSUME NEW x \in receipts'
          PROVE  /\ x.leaf \in {0} \cup Ids /\ x.spend \in Spends /\ x.at \in 0 .. MaxTime
                 /\ mode # "shadow" /\ x.leaf # 0 => \E u \in signed : AllowedBy(u, x)
      BY <1>1, <2>1, <2>4, <2>5 DEF ReceiptInv
    <3> QED
      BY <2>1, <2>6, <3>1 DEF ReceiptInv, AllowedBy
  <2>8. SignedInv' /\ MandateInv'
    BY <1>1, <2>1 DEF SignedInv, MandateInv
  <2> QED
    BY <2>6, <2>7, <2>8 DEF AuthorityInv
<1>9. ASSUME Tick PROVE AuthorityInv'
  <2>1. LineageInv' /\ Ids' = Ids
    BY <1>1, <1>2, <1>9, LineageKept DEF Tick
  <2>2. ReceiptInv'
    BY <1>1, <1>9, <2>1 DEF Tick, ReceiptInv, AllowedBy
  <2> QED
    BY <1>1, <1>9, <2>1, <2>2 DEF Tick, AuthorityInv, SignedInv, MandateInv
<1>10. ASSUME UNCHANGED vars PROVE AuthorityInv'
  <2>1. LineageInv' /\ Ids' = Ids
    BY <1>1, <1>2, <1>10, LineageKept DEF vars
  <2> QED
    BY <1>1, <1>10, <2>1
       DEF vars, AuthorityInv, SignedInv, ReceiptInv, MandateInv, AllowedBy
<1> QED
  BY <1>4, <1>5, <1>6, <1>7, <1>8, <1>9, <1>10 DEF Next

(* The invariant holds in every state: chains are recorded and no longer    *)
(* than they can be, documents are signed along with their ancestors'.      *)
THEOREM InvariantHolds == Spec => []AuthorityInv
BY InitEstablishes, StepKeeps, PTL DEF Spec

-----------------------------------------------------------------------------
(* What a signed document says of its ancestors.                           *)

(* Each link was issued with the capabilities it carries, from the next one *)
(* as its parent; an honest link widens nothing.                            *)
LEMMA LinkRecorded ==
    ASSUME LineageInv, SignedInv, NEW t \in signed, NEW k \in 1 .. Len(t)
    PROVE  /\ t \in Seq(Bodies) /\ Len(t) <= Len(lineage)
           /\ t[k].id \in Ids /\ lineage[t[k].id].caps = t[k].caps
           /\ lineage[t[k].id].parent = IF k = Len(t) THEN 0 ELSE t[k + 1].id
           /\ k # Len(t) /\ lineage[t[k].id].honest =>
                 CapabilityExtras(t[k].caps, t[k + 1].caps) = {}
<1> DEFINE s == SubSeq(t, k, Len(t))
<1>1. t \in Seq(Bodies) /\ Len(t) \in Nat /\ Len(t) <= Head(t).id /\ Head(t).id \in Ids
  BY LenProperties DEF LineageInv, SignedInv, WellFormed
<1>2. Len(lineage) \in Nat
  BY LenProperties DEF LineageInv
<1>3. /\ s \in Seq(Bodies) /\ s # <<>> /\ Len(s) = Len(t) - k + 1
      /\ \A i \in 1 .. Len(t) - k + 1 : s[i] = t[k + i - 1]
      /\ Head(s) = t[k]
  BY <1>1, SuffixProperties
<1>4. s \in signed
  BY DEF SignedInv
<1> HIDE DEF s
<1>5. WellFormed(s) /\ Recorded(s)
  BY <1>4 DEF SignedInv, LineageInv
<1> DEFINE p == Tail(s)
<1>6. /\ p \in Seq(Bodies) /\ Len(p) = Len(s) - 1
      /\ \A i \in 1 .. Len(p) : p[i] = s[i + 1]
  BY <1>3, HeadTailProperties
<1>7. /\ t[k].id \in Ids /\ lineage[t[k].id].caps = t[k].caps
      /\ lineage[t[k].id].parent = IF Len(s) = 1 THEN 0 ELSE s[2].id
  BY <1>3, <1>5 DEF WellFormed, Recorded
<1>8. lineage[t[k].id].honest => Attenuated(t[k].caps, p)
  <2>1. lineage[Head(s).id].honest => Attenuated(Head(s).caps, Tail(s))
    BY <1>5 DEF Recorded
  <2> HIDE DEF p
  <2> QED
    BY <1>3, <2>1, Zenon DEF p
<1> HIDE DEF p
<1>9. k # Len(t) => Len(s) # 1 /\ s[2] = t[k + 1]
  BY <1>1, <1>3
<1>10. k = Len(t) => Len(s) = 1
  BY <1>1, <1>3
<1>11. k # Len(t) => p # <<>> /\ Head(p) = t[k + 1]
  <2> SUFFICES ASSUME k # Len(t) PROVE p # <<>> /\ Head(p) = t[k + 1]
    OBVIOUS
  <2>1. Len(p) \in Nat \ {0}
    BY <1>1, <1>3, <1>6
  <2>2. p[1] = s[1 + 1]
    BY <1>6, <2>1
  <2> QED
    BY <1>6, <1>9, <2>1, <2>2
<1>12. ASSUME k # Len(t), lineage[t[k].id].honest
       PROVE  CapabilityExtras(t[k].caps, t[k + 1].caps) = {}
  BY <1>8, <1>11, <1>12, Zenon DEF Attenuated
<1>13. Len(t) <= Len(lineage)
  BY <1>1, <1>2 DEF Ids
<1>14. lineage[t[k].id].parent = IF k = Len(t) THEN 0 ELSE t[k + 1].id
  BY <1>7, <1>9, <1>10
<1> QED
  BY <1>1, <1>7, <1>12, <1>13, <1>14, Zenon

(* The delegations a signed document's leaf descends from are its links.    *)
LEMMA AncestorsAreLinks ==
    ASSUME LineageInv, SignedInv, NEW t \in signed
    PROVE  /\ \A k \in 1 .. Len(t) : t[k].id \in Ancestors(Head(t).id)
           /\ \A a \in Ancestors(Head(t).id) : \E k \in 1 .. Len(t) : a = t[k].id
<1>1. t \in Seq(Bodies) /\ t # <<>> /\ Head(t) = t[1]
  BY DEF LineageInv, SignedInv, WellFormed
<1>2. Len(t) \in Nat \ {0}
  BY <1>1, EmptySeq
<1>3. Len(lineage) \in Nat /\ 0 \notin Ids
  BY LenProperties DEF LineageInv, Ids
<1>4. \A k \in 1 .. Len(t) :
         /\ t[k].id \in Ids /\ Len(t) <= Len(lineage)
         /\ lineage[t[k].id].parent = IF k = Len(t) THEN 0 ELSE t[k + 1].id
  BY LinkRecorded
<1>5. ASSUME NEW k \in 1 .. Len(t) PROVE t[k].id \in Ancestors(Head(t).id)
  <2> DEFINE n == k - 1
             line == [j \in 0 .. n |-> t[j + 1].id]
  <2>1. n \in 0 .. Len(lineage) - 1 /\ n + 1 = k
    BY <1>2, <1>3, <1>4
  <2>2. \A j \in 0 .. n : j + 1 \in 1 .. Len(t)
    BY <1>2, <2>1
  <2>3. line \in [0 .. n -> Ids]
    BY <1>4, <2>2
  <2>4. line[0] = Head(t).id /\ line[n] = t[k].id
    BY <1>1, <2>1
  <2>5. \A j \in 1 .. n : line[j] = lineage[line[j - 1]].parent
    <3> SUFFICES ASSUME NEW j \in 1 .. n PROVE line[j] = lineage[line[j - 1]].parent
      OBVIOUS
    <3>1. j \in 1 .. Len(t) /\ j # Len(t) /\ j \in 0 .. n /\ j - 1 \in 0 .. n /\ (j - 1) + 1 = j
      BY <1>2, <2>1
    <3>2. line[j - 1] = t[j].id /\ line[j] = t[j + 1].id
      BY <3>1
    <3> HIDE DEF line
    <3> QED
      BY <1>4, <3>1, <3>2
  <2>6. t[k].id \in Ids
    BY <1>4
  <2> HIDE DEF line, n
  <2> QED
    BY <2>1, <2>3, <2>4, <2>5, <2>6 DEF Ancestors
<1>6. ASSUME NEW a \in Ancestors(Head(t).id) PROVE \E k \in 1 .. Len(t) : a = t[k].id
  <2>0. PICK n \in 0 .. Len(lineage) - 1 : \E line \in [0 .. n -> Ids] :
           /\ line[0] = Head(t).id /\ line[n] = a
           /\ \A k \in 1 .. n : line[k] = lineage[line[k - 1]].parent
    BY DEF Ancestors
  <2>1. PICK line \in [0 .. n -> Ids] :
           /\ line[0] = Head(t).id /\ line[n] = a
           /\ \A k \in 1 .. n : line[k] = lineage[line[k - 1]].parent
    BY <2>0
  <2>2. n \in Nat
    BY <1>3
  <2> DEFINE P == {k \in 1 .. n + 1 : k <= Len(t) /\ line[k - 1] = t[k].id}
  <2>3. 1 \in P
    BY <1>1, <1>2, <2>1, <2>2
  <2>4. ASSUME NEW k \in 1 .. (n + 1) - 1, k \in P PROVE k + 1 \in P
    <3>1. k \in 1 .. Len(t) /\ k \in 1 .. n /\ line[k - 1] = t[k].id
      BY <1>2, <2>2, <2>4
    <3>2. line[k] = lineage[t[k].id].parent /\ line[k] \in Ids
      BY <2>1, <2>2, <3>1
    <3>3. k # Len(t)
      BY <1>3, <1>4, <3>1, <3>2
    <3>4. line[k] = t[k + 1].id
      BY <1>4, <3>1, <3>2, <3>3
    <3> QED
      BY <1>2, <2>2, <3>1, <3>3, <3>4
  <2> DEFINE m == n + 1
  <2>5. m \in Nat /\ m \in 1 .. m /\ \A k \in 1 .. m - 1 : k \in P => k + 1 \in P
    BY <2>2, <2>4
  <2> HIDE DEF P, m
  <2>all. \A k \in 1 .. m : k \in P
    BY <2>3, <2>5, AlongChain
  <2>6. n + 1 \in P
    BY <2>5, <2>all DEF m
  <2>7. n + 1 <= Len(t) /\ line[(n + 1) - 1] = t[n + 1].id
    BY <2>6 DEF P
  <2>8. n + 1 \in 1 .. Len(t)
    BY <1>2, <2>2, <2>7
  <2>9. line[n] = t[n + 1].id
    BY <2>2, <2>7
  <2> QED
    BY <2>1, <2>8, <2>9
<1> QED
  BY <1>5, <1>6

-----------------------------------------------------------------------------
(* The properties.                                                         *)

(* Outside shadow mode, whatever was dropped or widened in token objects on *)
(* the way, an operation let through is allowed by every delegation that    *)
(* its leaf descends from (delegation.py issue_delegation and               *)
(* verify_delegation_chain).                                                *)
THEOREM AttenuationHolds == Spec => []Attenuation
<1>1. AuthorityInv => Attenuation
  <2> SUFFICES ASSUME AuthorityInv, mode # "shadow", NEW r \in receipts, r.leaf # 0,
                      NEW a \in Ancestors(r.leaf)
               PROVE  CapabilityAllows(lineage[a].caps,
                                       [resource |-> r.resource_type, action |-> r.action])
    BY DEF Attenuation
  <2>1. PICK t \in signed : AllowedBy(t, r)
    BY DEF AuthorityInv, ReceiptInv
  <2>2. PICK k \in 1 .. Len(t) : a = t[k].id
    BY <2>1, AncestorsAreLinks DEF AuthorityInv, AllowedBy
  <2>3. lineage[a].caps = t[k].caps
    BY <2>2, LinkRecorded DEF AuthorityInv
  <2> QED
    BY <2>1, <2>3 DEF AllowedBy
<1> QED
  BY <1>1, InvariantHolds, PTL

(* At the gateway a chain that was issued and signed as delegation.py asks  *)
(* for passes, with the envelope that nests its ancestors' documents, while *)
(* its leaf is valid and allows the operation.                              *)
LEMMA HonestChainPasses == AuthorityInv => HonestChainAccepted
<1> SUFFICES ASSUME AuthorityInv, NEW t \in signed, NEW op \in Operations,
                    \A a \in Ancestors(Head(t).id) : lineage[a].honest,
                    ValidAt(Head(t), now), CapabilityAllows(Head(t).caps, op)
             PROVE  \E e \in Envelopes : ChainViolations(t, e, op, signed, now, TRUE) = {}
  BY DEF HonestChainAccepted
<1>1. LineageInv /\ SignedInv
  BY DEF AuthorityInv
<1>2. t \in Seq(Bodies) /\ t # <<>>
  BY <1>1 DEF LineageInv, SignedInv, WellFormed
<1>3. Len(t) \in Nat \ {0}
  BY <1>2, EmptySeq
<1> DEFINE n == Len(t)
           e == [k \in 1 .. n |-> SubSeq(t, k, n)]
<1>4. n \in Nat \ {0} /\ Len(lineage) \in Nat /\ Len(lineage) <= MaxTokens /\ MaxTokens \in Nat
  BY <1>1, <1>3, LenProperties, BoundsAssumption DEF LineageInv
<1>5. n \in 0 .. MaxTokens
  BY <1>1, <1>4, LinkRecorded
<1>6. \A k \in 1 .. n : SubSeq(t, k, n) \in signed
  BY <1>1 DEF SignedInv
<1>7. \A k \in 1 .. n : /\ Head(SubSeq(t, k, n)) = t[k]
                        /\ Tail(SubSeq(t, k, n)) = SubSeq(t, k + 1, n)
  BY <1>2, SuffixProperties
<1>8. t \in [1 .. n -> Bodies] /\ DOMAIN t = 1 .. n
  BY <1>2, LenProperties
<1> HIDE DEF n
<1>9. e \in [1 .. n -> signed] /\ e \in Seq(signed) /\ Len(e) = n /\ DOMAIN e = 1 .. n
  BY <1>4, <1>6
<1>10. \A k \in 1 .. n : e[k] = SubSeq(t, k, n)
  OBVIOUS
<1> HIDE DEF e
<1>11. e \in Envelopes
  BY <1>5, <1>9 DEF Envelopes
<1>12. TokenOf(e) = t
  BY <1>7, <1>8, <1>9, <1>10 DEF TokenOf
<1>13. ASSUME NEW k \in 1 .. n PROVE Tail(e[k]) = TokenOf(SubSeq(e, k + 1, n))
  <2> DEFINE rest == SubSeq(e, k + 1, n)
             s == SubSeq(t, k + 1, n)
  <2>1. \A i \in k + 1 .. n : e[i] \in signed /\ t[i] \in Bodies
    BY <1>4, <1>8, <1>9
  <2>2. /\ rest \in Seq(signed) /\ Len(rest) = n - k
        /\ \A i \in 1 .. n - k : rest[i] = e[k + i]
    <3>1. /\ rest \in Seq(signed) /\ Len(rest) = IF k + 1 <= n THEN n - (k + 1) + 1 ELSE 0
          /\ \A i \in 1 .. n - (k + 1) + 1 : rest[i] = e[k + 1 + i - 1]
      BY <1>4, <2>1, SubSeqProperties
    <3> QED
      BY <1>4, <3>1
  <2>3. /\ s \in Seq(Bodies) /\ Len(s) = n - k
        /\ \A i \in 1 .. n - k : s[i] = t[k + i]
    <3>1. /\ s \in Seq(Bodies) /\ Len(s) = IF k + 1 <= n THEN n - (k + 1) + 1 ELSE 0
          /\ \A i \in 1 .. n - (k + 1) + 1 : s[i] = t[k + 1 + i - 1]
      BY <1>4, <2>1, SubSeqProperties
    <3> QED
      BY <1>4, <3>1
  <2> HIDE DEF rest, s
  <2>4. DOMAIN rest = 1 .. n - k /\ DOMAIN s = 1 .. n - k /\ s = [i \in 1 .. n - k |-> s[i]]
    BY <2>2, <2>3, LenProperties
  <2>5. \A i \in 1 .. n - k : Head(rest[i]) = s[i]
    <3> SUFFICES ASSUME NEW i \in 1 .. n - k PROVE Head(rest[i]) = s[i]
      OBVIOUS
    <3>1. k + i \in 1 .. n
      BY <1>4
    <3> QED
      BY <1>7, <1>10, <2>2, <2>3, <3>1
  <2>6. TokenOf(rest) = s
    BY <2>4, <2>5 DEF TokenOf
  <2> QED
    BY <1>7, <1>10, <2>6 DEF rest, s
<1>14. EnvelopeVerifies(e, signed)
  <2>1. e # <<>>
    BY <1>4, <1>9
  <2> QED
    BY <1>9, <1>13, <2>1 DEF EnvelopeVerifies
<1>15. ChainExtras(t) = {}
  <2>1. ASSUME NEW k \in 1 .. n - 1 PROVE CapabilityExtras(t[k].caps, t[k + 1].caps) = {}
    <3>1. k \in 1 .. Len(t) /\ k # Len(t)
      BY <1>4 DEF n
    <3>2. t[k].id \in Ancestors(Head(t).id)
      BY <1>1, <3>1, AncestorsAreLinks
    <3> QED
      BY <1>1, <3>1, <3>2, LinkRecorded
  <2> QED
    BY <2>1 DEF ChainExtras, n
<1>16. ChainViolations(t, e, op, signed, now, TRUE) = {}
  <2>1. e # <<>>
    BY <1>14 DEF EnvelopeVerifies
  <2> QED
    BY <1>2, <1>12, <1>14, <1>15, <2>1 DEF ChainViolations
<1> QED
  BY <1>11, <1>16

(* The state is well formed and honest chains of any depth are accepted.    *)
THEOREM DelegationsUsableHolds == Spec => []DelegationsUsable
<1>1. AuthorityInv => TypeOK
  BY DEF AuthorityInv, LineageInv, SignedInv, ReceiptInv, TypeOK, WellFormed, Recorded
<1> QED
  BY <1>1, HonestChainPasses, InvariantHolds, PTL DEF DelegationsUsable

(* A receipt accepted under a child mandate is within its embedded parent's *)
(* window, actions, resources and budget (mandate.py _mandate_parent_issues *)
(* and check_receipt_against_mandate).                                      *)
THEOREM ChildWithinParentHolds == Spec => []ChildWithinParent
<1>1. AuthorityInv => ChildWithinParent
  <2> SUFFICES ASSUME AuthorityInv, NEW r \in receipts, NEW m \in mandates, NEW p \in mandates,
                      m.parent # None, BundleMandateIssues(r, m, p) = {}
               PROVE  /\ p.grant_id = m.parent
                      /\ "expired" \notin ReceiptIssues(p, r)
                      /\ m.actions # {} => "action" \notin ReceiptIssues(p, r)
                      /\ m.resources # {} => "resource" \notin ReceiptIssues(p, r)
                      /\ m.limit # None => p.limit # None /\ "budget" \notin ReceiptIssues(p, r)
    BY DEF ChildWithinParent
  <2>1. r.at \in Int /\ r.spend \in Int
    <3>1. r.at \in 0 .. MaxTime /\ r.spend \in Spends
      BY DEF AuthorityInv, ReceiptInv
    <3>2. MaxTime \in Nat /\ Spends \subseteq Nat
      BY BoundsAssumption
    <3> DEFINE at == r.at
               spend == r.spend
    <3>3. at \in 0 .. MaxTime /\ spend \in Nat
      BY <3>1, <3>2
    <3> HIDE DEF at, spend
    <3>4. at \in Int /\ spend \in Int
      BY <3>2, <3>3
    <3> QED
      BY <3>4 DEF at, spend
  <2>2. ASSUME NEW g \in mandates
        PROVE  g # None /\ g.issued \in Int /\ g.expires \in Int /\ g.limit \in Int \cup {None}
    <3>1. PICK id \in 1 .. MaxGrants, key \in Keys, terms \in MandateTerms, at \in 0 .. MaxTime :
             g = Envelope(id, key, terms, at)
      BY DEF AuthorityInv, MandateInv
    <3>2. Envelope(id, key, terms, at) # None /\ terms.ttl \in Int /\ terms.limit \in Int \cup {None}
      BY BoundsAssumption
    <3>3. g.issued = at /\ g.expires = at + terms.ttl /\ g.limit = terms.limit
      BY <3>1 DEF Envelope
    <3> QED
      BY <3>1, <3>2, <3>3
  <2>3. m # None /\ p # None
    BY <2>2
  <2>4. ParentIssues(m, p) = {} /\ ReceiptIssues(m, r) = {}
    BY <2>3 DEF BundleMandateIssues
  <2>5. /\ m.parent = p.grant_id /\ ~(m.issued < p.issued) /\ ~(m.expires > p.expires)
        /\ ScopeSubset(m.actions, p.actions) /\ ScopeSubset(m.resources, p.resources)
        /\ BudgetSubset(m, p)
    BY <2>3, <2>4 DEF ParentIssues
  <2>6. /\ WindowCovers(m, r.at)
        /\ m.actions # {} => r.action \in m.actions
        /\ ResourceMatches(m.resources, r)
        /\ m.limit # None => ~(r.spend > m.limit)
    BY <2>4 DEF ReceiptIssues
  <2>7. WindowCovers(p, r.at)
    BY <2>1, <2>2, <2>5, <2>6 DEF WindowCovers
  <2>8. m.actions # {} => p.actions = {} \/ r.action \in p.actions
    BY <2>5, <2>6 DEF ScopeSubset
  <2>9. m.resources # {} => ResourceMatches(p.resources, r)
    BY <2>5, <2>6 DEF ScopeSubset, ResourceMatches
  <2>10. m.limit # None => p.limit # None /\ ~(r.spend > p.limit)
    BY <2>1, <2>2, <2>5, <2>6 DEF BudgetSubset
  <2> QED
    BY <2>5, <2>7, <2>8, <2>9, <2>10 DEF ReceiptIssues
<1> QED
  BY <1>1, InvariantHolds, PTL
=============================================================================
