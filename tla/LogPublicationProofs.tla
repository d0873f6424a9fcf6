------------------------ MODULE LogPublicationProofs ------------------------
(***************************************************************************)
(* Proofs about LogPublication for every tile width, set of keys, trust    *)
(* policy and bound: what third parties verify was logged, what they were  *)
(* told is not taken back, and checkpoints agree with record checks about  *)
(* revoked signers.                                                        *)
(***************************************************************************)
EXTENDS LogPublication, SequenceTheorems, FiniteSetTheorems, WellFoundedInduction, TLAPS

-----------------------------------------------------------------------------
(* Sequences: removing an entry and putting one in.                        *)

(* The audit path of an entry: the other entries in their order.            *)
LEMMA RemoveProperties ==
    ASSUME NEW S, NEW s \in Seq(S), NEW i \in 1 .. Len(s)
    PROVE  /\ RemoveAt(s, i) \in Seq(S)
           /\ Len(RemoveAt(s, i)) = Len(s) - 1
           /\ \A j \in 1 .. Len(s) - 1 :
                 RemoveAt(s, i)[j] = IF j < i THEN s[j] ELSE s[j + 1]
<1> DEFINE a == SubSeq(s, 1, i - 1)
           b == SubSeq(s, i + 1, Len(s))
<1>1. Len(s) \in Nat /\ i \in Int /\ i - 1 \in Int /\ i + 1 \in Int
  BY LenProperties
<1>2. a \in Seq(S) /\ Len(a) = i - 1 /\ \A j \in 1 .. i - 1 : a[j] = s[j]
  BY <1>1, SubSeqProperties, ElementOfSeq
<1>3. b \in Seq(S) /\ Len(b) = Len(s) - i /\ \A j \in 1 .. Len(s) - i : b[j] = s[i + j]
  BY <1>1, SubSeqProperties, ElementOfSeq
<1>4. RemoveAt(s, i) = a \o b
  BY DEF RemoveAt
<1> HIDE DEF a, b
<1>5. /\ a \o b \in Seq(S) /\ Len(a \o b) = Len(a) + Len(b)
      /\ \A j \in 1 .. Len(a) + Len(b) :
            (a \o b)[j] = IF j <= Len(a) THEN a[j] ELSE b[j - Len(a)]
  BY <1>2, <1>3, ConcatProperties
<1> QED
  BY <1>1, <1>2, <1>3, <1>4, <1>5

(* The root rebuilt from a leaf and a path: the leaf stands at its index.   *)
LEMMA InsertProperties ==
    ASSUME NEW S, NEW s \in Seq(S), NEW e \in S, NEW i \in 1 .. Len(s) + 1
    PROVE  /\ InsertAt(s, i, e) \in Seq(S)
           /\ Len(InsertAt(s, i, e)) = Len(s) + 1
           /\ \A j \in 1 .. Len(s) + 1 :
                 InsertAt(s, i, e)[j] = IF j < i THEN s[j] ELSE IF j = i THEN e ELSE s[j - 1]
<1> DEFINE a == SubSeq(s, 1, i - 1)
           m == a \o <<e>>
           b == SubSeq(s, i, Len(s))
<1>1. Len(s) \in Nat /\ i \in Int /\ i - 1 \in Int
  BY LenProperties
<1>2. a \in Seq(S) /\ Len(a) = i - 1 /\ \A j \in 1 .. i - 1 : a[j] = s[j]
  BY <1>1, SubSeqProperties, ElementOfSeq
<1>3. b \in Seq(S) /\ Len(b) = Len(s) + 1 - i
      /\ \A j \in 1 .. Len(s) + 1 - i : b[j] = s[i + j - 1]
  BY <1>1, SubSeqProperties, ElementOfSeq
<1>4. InsertAt(s, i, e) = m \o b
  BY DEF InsertAt
<1>5. <<e>> \in Seq(S) /\ Len(<<e>>) = 1 /\ <<e>>[1] = e
  OBVIOUS
<1> HIDE DEF a, b
<1>6. /\ m \in Seq(S) /\ Len(m) = i
      /\ \A j \in 1 .. i : m[j] = IF j < i THEN a[j] ELSE e
  BY <1>1, <1>2, <1>5, ConcatProperties
<1> HIDE DEF m
<1>7. /\ m \o b \in Seq(S) /\ Len(m \o b) = Len(m) + Len(b)
      /\ \A j \in 1 .. Len(m) + Len(b) :
            (m \o b)[j] = IF j <= Len(m) THEN m[j] ELSE b[j - Len(m)]
  BY <1>3, <1>6, ConcatProperties
<1>8. ASSUME NEW j \in 1 .. Len(s) + 1
      PROVE  (m \o b)[j] = IF j < i THEN s[j] ELSE IF j = i THEN e ELSE s[j - 1]
  <2>0. j \in Int /\ (j < i \/ j = i \/ j > i)
    BY <1>1
  <2>1. CASE j < i
    BY <1>1, <1>2, <1>3, <1>6, <1>7, <2>1
  <2>2. CASE j = i
    BY <1>1, <1>3, <1>6, <1>7, <2>2
  <2>3. CASE j > i
    <3>1. j - i \in 1 .. Len(s) + 1 - i /\ ~(j <= i) /\ i + (j - i) - 1 = j - 1
      BY <1>1, <2>3
    <3> QED
      BY <1>1, <1>3, <1>6, <1>7, <2>3, <3>1
  <2> QED
    BY <2>0, <2>1, <2>2, <2>3
<1> QED
  BY <1>1, <1>3, <1>4, <1>6, <1>7, <1>8

-----------------------------------------------------------------------------
(* Receipts.                                                               *)

(* The inclusion receipt that a log issues verifies for exactly one         *)
(* statement, the entry at its index, and under exactly its own key.        *)
LEMMA InclusionReceiptBinds ==
    ASSUME NEW S, NEW l \in Seq(S), NEW i \in 0 .. Len(l) - 1, NEW key, NEW key2,
           NEW st \in S
    PROVE  VerifyReceipt(st, IssueInclusionReceipt(l, i, key), key2)
              <=> key2 = key /\ st = l[i + 1]
<1> DEFINE path == RemoveAt(l, i + 1)
           root == InsertAt(path, i + 1, st)
<1>1. Len(l) \in Nat /\ i \in Nat /\ i + 1 \in 1 .. Len(l)
  BY LenProperties
<1>2. /\ path \in Seq(S) /\ Len(path) = Len(l) - 1
      /\ \A j \in 1 .. Len(l) - 1 : path[j] = IF j < i + 1 THEN l[j] ELSE l[j + 1]
  BY <1>1, RemoveProperties
<1> HIDE DEF path
<1>3. i + 1 \in 1 .. Len(path) + 1
  BY <1>1, <1>2
<1>4. /\ root \in Seq(S) /\ Len(root) = Len(path) + 1
      /\ \A j \in 1 .. Len(path) + 1 :
            root[j] = IF j < i + 1 THEN path[j] ELSE IF j = i + 1 THEN st ELSE path[j - 1]
  BY <1>2, <1>3, InsertProperties
<1> HIDE DEF root
<1>5. ASSUME NEW j \in 1 .. Len(l)
      PROVE  root[j] = IF j = i + 1 THEN st ELSE l[j]
  <2>1. CASE j < i + 1
    BY <1>1, <1>2, <1>4, <2>1, SMTT(30)
  <2>2. CASE j = i + 1
    BY <1>1, <1>2, <1>4, <2>2
  <2>3. CASE j > i + 1
    <3>1. j - 1 \in 1 .. Len(l) - 1 /\ ~(j - 1 < i + 1) /\ (j - 1) + 1 = j
      BY <1>1, <2>3
    <3> QED
      BY <1>1, <1>2, <1>4, <2>3, <3>1
  <2> QED
    BY <1>1, <2>1, <2>2, <2>3
<1>6. root = l <=> st = l[i + 1]
  <2>1. root = l => st = l[i + 1]
    BY <1>1, <1>5
  <2>2. st = l[i + 1] => root = l
    BY <1>1, <1>2, <1>4, <1>5, SeqEqual
  <2> QED
    BY <2>1, <2>2
<1>7. VerifyReceipt(st, IssueInclusionReceipt(l, i, key), key2)
         <=> SignCose(key, l) = SignCose(key2, root)
  BY <1>1, <1>2
     DEF VerifyReceipt, IssueInclusionReceipt, VerifyCose, RootFromPath, path, root
<1>8. SignCose(key, l) = SignCose(key2, root) <=> key = key2 /\ l = root
  BY DEF SignCose
<1> QED
  BY <1>6, <1>7, <1>8

-----------------------------------------------------------------------------
(* A set of numbers that is not empty has a least one.                      *)
LEMMA LeastNumber ==
    ASSUME NEW A, A \subseteq Nat, A # {}
    PROVE  \E m \in A : \A a \in A : m <= a
<1>1. PICK m \in A : \A a \in A : ~(<<a, m>> \in OpToRel(<, Nat))
    BY NatLessThanWellFounded, WFMin
<1>2. \A a \in A : ~(a < m)
    BY <1>1 DEF OpToRel
<1> QED
    BY <1>2

(* Induction over the numbers of a set.                                     *)
LEMMA NumberInduction ==
    ASSUME NEW P, 0 \in P, \A n \in Nat : n \in P => n + 1 \in P
    PROVE  Nat \subseteq P
<1> DEFINE Bad == Nat \ P
<1> SUFFICES ASSUME Bad # {} PROVE FALSE
    OBVIOUS
<1>0. Bad \subseteq Nat
    OBVIOUS
<1>4. \A n \in Nat : n \notin P => n \in Bad
    OBVIOUS
<1>5. \A n \in Bad : n \in Nat /\ n \notin P
    OBVIOUS
<1> HIDE DEF Bad
<1>1. PICK m \in Bad : \A n \in Bad : m <= n
    BY <1>0, LeastNumber
<1>2. \A n \in Bad : ~(n < m)
    BY <1>0, <1>1
<1>3. m \in Nat /\ m # 0 /\ m \notin P
    BY <1>5
<1>6. m - 1 \in Nat /\ m - 1 < m /\ (m - 1) + 1 = m
    BY <1>3
<1>7. m - 1 \in P
    BY <1>2, <1>4, <1>6
<1> QED
    BY <1>3, <1>6, <1>7

-----------------------------------------------------------------------------
(* A function on an initial segment is a sequence of that length.           *)
LEMMA RunType ==
    ASSUME NEW T, NEW n \in Nat, NEW f \in [1 .. n -> T]
    PROVE  f \in Seq(T) /\ Len(f) = n
<1>1. f \in Seq(T)
  BY SeqDef
<1>2. Len(f) \in Nat /\ 1 .. Len(f) = 1 .. n
  BY <1>1, LenProperties
<1> QED
  BY <1>1, <1>2

(* FlattenSeq is the last of the sequences it builds up.                    *)
BuildsUp(g, seqs, m) ==
    /\ Len(seqs) = m
    /\ g = [i \in 1 .. m |-> g[i]] /\ g[1] = seqs[1]
    /\ \A i \in 2 .. m : g[i] = g[i - 1] \o seqs[i]

LEMMA FlattenSteps ==
    ASSUME NEW seqs, NEW m \in Nat \ {0}, NEW g, BuildsUp(g, seqs, m)
    PROVE  FlattenSeq(seqs) = g[m]
<1> DEFINE Builds(h) == h = [i \in 1 .. m |-> IF i = 1 THEN seqs[i] ELSE h[i - 1] \o seqs[i]]
           c == CHOOSE h : Builds(h)
<1>1. Builds(g)
  <2>1. \A i \in 1 .. m : i = 1 \/ i \in 2 .. m
    OBVIOUS
  <2>2. \A i \in 1 .. m : g[i] = IF i = 1 THEN seqs[i] ELSE g[i - 1] \o seqs[i]
    BY <2>1 DEF BuildsUp
  <2> QED
    BY <2>2 DEF BuildsUp
<1>2. Builds(c)
  BY <1>1
<1>3. FlattenSeq(seqs) = c[m]
  BY DEF FlattenSeq, BuildsUp
<1> HIDE DEF c
<1> DEFINE P == {i \in Nat : i + 1 \in 1 .. m => c[i + 1] = g[i + 1]}
<1>4. 0 \in P
  BY <1>2 DEF BuildsUp
<1>5. ASSUME NEW i \in Nat, i \in P PROVE i + 1 \in P
  <2> SUFFICES ASSUME i + 2 \in 1 .. m PROVE c[i + 2] = g[i + 2]
    OBVIOUS
  <2>1. c[i + 1] = g[i + 1]
    BY <1>5
  <2>2. i + 2 \in 2 .. m /\ i + 2 # 1 /\ (i + 2) - 1 = i + 1
    OBVIOUS
  <2>3. c[i + 2] = c[(i + 2) - 1] \o seqs[i + 2]
    BY <1>2, <2>2
  <2>4. g[i + 2] = g[(i + 2) - 1] \o seqs[i + 2]
    BY <2>2 DEF BuildsUp
  <2> QED
    BY <2>1, <2>2, <2>3, <2>4
<1>6. Nat \subseteq P
  BY <1>4, <1>5, NumberInduction
<1>7. m - 1 \in P /\ (m - 1) + 1 = m
  BY <1>6
<1> QED
  BY <1>3, <1>7

(* Sequences that are consecutive runs of F flatten to the whole run: the   *)
(* i-th reaches from after c[i - 1] to c[i].                                *)
Cuts(c, m) == c \in [0 .. m -> Nat] /\ \A i \in 1 .. m : c[i - 1] <= c[i]
Run(F, a, b) == [k \in 1 .. (b - a) |-> F[a + k]]
AreRuns(seqs, F, c, m) == seqs = [i \in 1 .. m |-> Run(F, c[i - 1], c[i])]

LEMMA FlattenRuns ==
    ASSUME NEW F, NEW m \in Nat \ {0}, NEW c, Cuts(c, m), NEW seqs, AreRuns(seqs, F, c, m)
    PROVE  FlattenSeq(seqs) = Run(F, c[0], c[m])
<1> USE DEF Cuts, AreRuns, Run
<1> DEFINE T == {F[k] : k \in (c[0] + 1) .. c[m]}
           g == [i \in 1 .. m |-> [k \in 1 .. (c[i] - c[0]) |-> F[c[0] + k]]]
<1>1. \A i \in 0 .. m : c[0] <= c[i]
  <2> DEFINE P == {i \in Nat : i \in 0 .. m => c[0] <= c[i]}
  <2>1. 0 \in P
    OBVIOUS
  <2>2. ASSUME NEW i \in Nat, i \in P PROVE i + 1 \in P
    <3> SUFFICES ASSUME i + 1 \in 0 .. m PROVE c[0] <= c[i + 1]
      OBVIOUS
    <3>1. i + 1 \in 1 .. m /\ (i + 1) - 1 = i /\ i \in 0 .. m /\ 0 \in 0 .. m
      OBVIOUS
    <3>2. c[i] <= c[i + 1] /\ c[0] <= c[i]
      BY <2>2, <3>1
    <3>3. c[0] \in Nat /\ c[i] \in Nat /\ c[i + 1] \in Nat
      BY <3>1
    <3> QED
      BY <3>2, <3>3
  <2> HIDE DEF P
  <2>3. Nat \subseteq P
    BY <2>1, <2>2, NumberInduction
  <2> QED
    BY <2>3 DEF P
<1>2. \A i \in 0 .. m : c[i] <= c[m]
  <2> DEFINE P == {i \in Nat : i \in 0 .. m => c[m - i] <= c[m]}
  <2>1. 0 \in P
    OBVIOUS
  <2>2. ASSUME NEW i \in Nat, i \in P PROVE i + 1 \in P
    <3> SUFFICES ASSUME i + 1 \in 0 .. m PROVE c[m - (i + 1)] <= c[m]
      OBVIOUS
    <3>1. m - i \in 1 .. m /\ (m - i) - 1 = m - (i + 1) /\ i \in 0 .. m
          /\ m - (i + 1) \in 0 .. m /\ m - i \in 0 .. m /\ m \in 0 .. m
      OBVIOUS
    <3>2. c[m - (i + 1)] <= c[m - i] /\ c[m - i] <= c[m]
      BY <2>2, <3>1
    <3>3. c[m] \in Nat /\ c[m - i] \in Nat /\ c[m - (i + 1)] \in Nat
      BY <3>1
    <3> QED
      BY <3>2, <3>3
  <2> HIDE DEF P
  <2>3. Nat \subseteq P
    BY <2>1, <2>2, NumberInduction
  <2>4. \A i \in 0 .. m : m - i \in P /\ m - (m - i) = i /\ m - i \in 0 .. m
    BY <2>3
  <2> QED
    BY <2>4 DEF P
<1>3. ASSUME NEW i \in 2 .. m PROVE g[i] = g[i - 1] \o seqs[i]
  <2>1. i \in 1 .. m /\ i - 1 \in 1 .. m /\ i - 1 \in 0 .. m /\ i \in 0 .. m /\ 0 \in 0 .. m /\ m \in 0 .. m
    OBVIOUS
  <2>2. PICK p, q, r, s : p = c[0] /\ q = c[i - 1] /\ r = c[i] /\ s = c[m]
    OBVIOUS
  <2>3. p \in Nat /\ q \in Nat /\ r \in Nat /\ s \in Nat /\ p <= q /\ q <= r /\ r <= s
    BY <1>1, <1>2, <2>1, <2>2
  <2> DEFINE a == [k \in 1 .. (q - p) |-> F[p + k]]
             b == [k \in 1 .. (r - q) |-> F[q + k]]
             d == [k \in 1 .. (r - p) |-> F[p + k]]
  <2>4. \A k \in (p + 1) .. s : F[k] \in T
    BY <2>2
  <2> HIDE DEF T
  <2>5. a \in Seq(T) /\ Len(a) = q - p
    <3> HIDE DEF b, d
    <3>1. q - p \in Nat /\ \A k \in 1 .. (q - p) : p + k \in (p + 1) .. s
      BY <2>3
    <3>2. a \in [1 .. (q - p) -> T]
      BY <2>4, <3>1
    <3> HIDE DEF a
    <3> QED
      BY <3>1, <3>2, RunType
  <2>6. b \in Seq(T) /\ Len(b) = r - q
    <3> HIDE DEF a, d
    <3>1. r - q \in Nat /\ \A k \in 1 .. (r - q) : q + k \in (p + 1) .. s
      BY <2>3
    <3>2. b \in [1 .. (r - q) -> T]
      BY <2>4, <3>1
    <3> HIDE DEF b
    <3> QED
      BY <3>1, <3>2, RunType
  <2>7. d \in Seq(T) /\ Len(d) = r - p
    <3> HIDE DEF a, b
    <3>1. r - p \in Nat /\ \A k \in 1 .. (r - p) : p + k \in (p + 1) .. s
      BY <2>3
    <3>2. d \in [1 .. (r - p) -> T]
      BY <2>4, <3>1
    <3> HIDE DEF d
    <3> QED
      BY <3>1, <3>2, RunType
  <2>8. a \o b \in Seq(T) /\ Len(a \o b) = r - p
        /\ \A k \in 1 .. (r - p) : (a \o b)[k] = IF k <= q - p THEN a[k] ELSE b[k - (q - p)]
    BY <2>3, <2>5, <2>6, ConcatProperties
  <2>9. \A k \in 1 .. (r - p) : (a \o b)[k] = d[k]
    <3> SUFFICES ASSUME NEW k \in 1 .. (r - p) PROVE (a \o b)[k] = d[k]
      OBVIOUS
    <3>1. CASE k <= q - p
      <4>1. k \in 1 .. (q - p)
        BY <2>3, <3>1
      <4> QED
        BY <2>8, <3>1, <4>1
    <3>2. CASE ~(k <= q - p)
      <4>1. k - (q - p) \in 1 .. (r - q) /\ q + (k - (q - p)) = p + k
        BY <2>3, <3>2
      <4> QED
        BY <2>8, <3>2, <4>1
    <3> QED
      BY <3>1, <3>2
  <2> HIDE DEF a, b, d
  <2>10. d = a \o b
    BY <2>7, <2>8, <2>9, SeqEqual
  <2>11. g[i] = d /\ g[i - 1] = a /\ seqs[i] = b
    BY <2>1, <2>2 DEF a, b, d
  <2> QED
    BY <2>10, <2>11
<1>4. g = [i \in 1 .. m |-> g[i]] /\ g[1] = seqs[1]
  <2>1. 1 \in 1 .. m /\ 1 - 1 = 0
    OBVIOUS
  <2> QED
    BY <2>1
<1>5. Len(seqs) = m
  <2> DEFINE S == {seqs[i] : i \in 1 .. m}
  <2>1. seqs \in [1 .. m -> S]
    OBVIOUS
  <2> HIDE DEF S
  <2> QED
    BY <2>1, RunType
<1>6. g[m] = [k \in 1 .. (c[m] - c[0]) |-> F[c[0] + k]]
  OBVIOUS
<1> HIDE DEF g
<1>7. BuildsUp(g, seqs, m)
  BY <1>3, <1>4, <1>5 DEF BuildsUp
<1> QED
  BY <1>6, <1>7, FlattenSteps

-----------------------------------------------------------------------------
(* Numbers: groups of d, and the powers of the tile width.                  *)

LEMMA Numbers ==
    /\ Width \in Nat /\ Width > 1 /\ MaxRecords \in Nat /\ MaxTampers \in Nat
BY PublicationAssumption

LEMMA Products ==
    ASSUME NEW a \in Nat, NEW b \in Nat, NEW d \in Nat, a <= b
    PROVE  /\ a * d \in Nat /\ b * d \in Nat /\ a * d <= b * d
           /\ (a + 1) * d = a * d + d
<1>1. a * d \in Nat /\ b * d \in Nat
  BY Z3
<1>2. a * d <= b * d
  BY Z3
<1>3. (a + 1) * d = a * d + d
  BY Z3
<1> QED
  BY <1>1, <1>2, <1>3

(* Ceil is the number of groups: the last one is not empty.                 *)
LEMMA CeilProperties ==
    ASSUME NEW n \in Nat, NEW d \in Nat \ {0}
    PROVE  /\ Ceil(n, d) \in Nat /\ n <= Ceil(n, d) * d
           /\ \A t \in 0 .. (Ceil(n, d) - 1) : t * d < n
<1> DEFINE q == (n + d - 1) \div d
           r == (n + d - 1) % d
<1>1. q \in Nat /\ r \in 0 .. (d - 1) /\ n + d - 1 = q * d + r /\ q * d \in Nat
  BY Z3
<1>0. Ceil(n, d) = q
  BY DEF Ceil
<1> HIDE DEF q, r
<1>3. n <= q * d /\ q * d <= n + d - 1
  <2> DEFINE e == q * d
  <2>1. e \in Nat /\ n + d - 1 = e + r
    BY <1>1
  <2> HIDE DEF e
  <2>2. n <= e /\ e <= n + d - 1
    BY <1>1, <2>1
  <2> QED
    BY <2>2 DEF e
<1>2. ASSUME NEW t \in 0 .. (q - 1)
      PROVE  t * d < n
  <2>1. t \in Nat /\ q \in Nat /\ t + 1 \in Nat /\ t + 1 <= q /\ t <= q
    BY <1>1, <1>2
  <2>2. (t + 1) * d <= q * d /\ (t + 1) * d = t * d + d /\ t * d \in Nat
    BY <2>1, Products
  <2> DEFINE x == t * d
             y == (t + 1) * d
             z == q * d
  <2>3. y <= z /\ y = x + d /\ x \in Nat /\ z <= n + d - 1 /\ z \in Nat
    BY <1>1, <1>3, <2>2
  <2> HIDE DEF x, y, z
  <2>4. x < n
    BY <2>3
  <2> QED
    BY <2>4 DEF x
<1> QED
  BY <1>0, <1>1, <1>2, <1>3

(* One group holds everything exactly if there are at most d.               *)
LEMMA CeilMany ==
    ASSUME NEW n \in Nat, NEW d \in Nat \ {0}
    PROVE  /\ n > 0 <=> Ceil(n, d) > 0
           /\ n > d <=> Ceil(n, d) > 1
<1> DEFINE m == Ceil(n, d)
<1>1. m \in Nat /\ n <= m * d /\ \A t \in 0 .. (m - 1) : t * d < n
  BY CeilProperties
<1> HIDE DEF m
<1>2. 0 * d = 0 /\ 1 * d = d
  OBVIOUS
<1>3. m > 0 => 0 < n
  BY <1>1, <1>2
<1>4. m > 1 => d < n
  BY <1>1, <1>2
<1>5. m = 0 => n <= 0
  BY <1>1, <1>2
<1>6. m = 1 => n <= d
  BY <1>1, <1>2
<1>7. (n > 0 <=> m > 0) /\ (n > d <=> m > 1)
  BY <1>1, <1>3, <1>4, <1>5, <1>6
<1> QED
  BY <1>7 DEF m

LEMMA CeilOne == ASSUME NEW n \in Nat PROVE Ceil(n, 1) = n
BY DEF Ceil

(* Groups of d, one after the other, are the whole run.                     *)
AreGroups(seqs, F, n, d) ==
    seqs = [i \in 1 .. Ceil(n, d) |->
               [k \in 1 .. Least(d, n - (i - 1) * d) |-> F[(i - 1) * d + k]]]

LEMMA FlattenGroups ==
    ASSUME NEW F, NEW n \in Nat \ {0}, NEW d \in Nat \ {0}, NEW seqs, AreGroups(seqs, F, n, d)
    PROVE  FlattenSeq(seqs) = Run(F, 0, n)
<1> DEFINE m == Ceil(n, d)
           c == [i \in 0 .. m |-> Least(n, i * d)]
<1>1. m \in Nat \ {0} /\ n <= m * d /\ \A t \in 0 .. (m - 1) : t * d < n
  <2>1. n > 0
    OBVIOUS
  <2>2. m \in Nat /\ m > 0
    BY <2>1, CeilProperties, CeilMany
  <2>3. n <= m * d /\ \A t \in 0 .. (m - 1) : t * d < n
    BY CeilProperties
  <2>4. m \in Nat \ {0}
    BY <2>2
  <2> QED
    BY <2>3, <2>4
<1>12. m \in Nat \ {0}
  BY <1>1
<1> HIDE DEF m
<1>2. \A i \in 0 .. m : i * d \in Nat
  BY <1>1, Products
<1>3. c \in [0 .. m -> Nat]
  BY <1>2 DEF Least
<1>4. c[0] = 0
  <2>1. 0 \in 0 .. m /\ 0 * d = 0
    BY <1>1
  <2> QED
    BY <2>1 DEF Least
<1>5. c[m] = n
  <2>1. m \in 0 .. m /\ m * d \in Nat
    BY <1>1, <1>2
  <2> DEFINE e == m * d
  <2>2. e \in Nat /\ n <= e
    BY <1>1, <2>1
  <2> HIDE DEF e
  <2>3. Least(n, e) = n
    BY <2>2 DEF Least
  <2> QED
    BY <2>1, <2>3 DEF e
<1>6. ASSUME NEW i \in 1 .. m
      PROVE  /\ c[i - 1] <= c[i] /\ c[i - 1] = (i - 1) * d
             /\ c[i] - c[i - 1] = Least(d, n - (i - 1) * d)
  <2>1. i - 1 \in 0 .. (m - 1) /\ i - 1 \in 0 .. m /\ i \in 0 .. m /\ i - 1 \in Nat /\ (i - 1) + 1 = i
    BY <1>1
  <2>2. (i - 1) * d < n /\ (i - 1) * d \in Nat /\ ((i - 1) + 1) * d = (i - 1) * d + d
    BY <1>1, <1>2, <2>1, Products
  <2> DEFINE x == (i - 1) * d
             y == i * d
  <2>3. x \in Nat /\ y = x + d /\ x < n
    BY <2>1, <2>2
  <2>4. c[i - 1] = Least(n, x) /\ c[i] = Least(n, y)
    BY <2>1
  <2> HIDE DEF x, y, c
  <2>5. c[i - 1] <= c[i] /\ c[i - 1] = x /\ c[i] - c[i - 1] = Least(d, n - x)
    BY <2>3, <2>4 DEF Least
  <2> QED
    BY <2>5 DEF x
<1>8. AreRuns(seqs, F, c, m)
  <2> HIDE DEF c
  <2>1. \A i \in 1 .. m : [k \in 1 .. Least(d, n - (i - 1) * d) |-> F[(i - 1) * d + k]]
                            = [k \in 1 .. (c[i] - c[i - 1]) |-> F[c[i - 1] + k]]
    BY <1>6
  <2> QED
    BY <2>1 DEF m, AreRuns, AreGroups, Run
<1>11. Cuts(c, m)
  BY <1>3, <1>6 DEF Cuts
<1> HIDE DEF c
<1>9. FlattenSeq(seqs) = Run(F, c[0], c[m])
  BY <1>12, <1>8, <1>11, FlattenRuns
<1> QED
  BY <1>4, <1>5, <1>9

LEMMA WholeRun == ASSUME NEW F, NEW n \in Nat PROVE Run(F, 0, n) = [k \in 1 .. n |-> F[k]]
<1>1. n - 0 = n /\ \A k \in 1 .. n : 0 + k = k
  OBVIOUS
<1> QED
  BY <1>1 DEF Run

(* The powers of the tile width, from their recursive definition.           *)
LEMMA PowerProperties ==
    /\ Power[0] = 1
    /\ \A l \in Nat : /\ Power[l] \in Nat /\ Power[l] > l
                      /\ Power[l + 1] = Width * Power[l]
<1> DEFINE Upto(n, g) == /\ g \in [0 .. n -> Nat] /\ g[0] = 1
                         /\ \A i \in 1 .. n : g[i] = Width * g[i - 1]
           Q == {n \in Nat : \E g : Upto(n, g)}
           p(n) == CHOOSE g : Upto(n, g)
           G == [n \in Nat |-> p(n)[n]]
<1>0. Width \in Nat /\ Width > 1
  BY Numbers
<1>1. 0 \in Q
  <2>1. Upto(0, [i \in 0 .. 0 |-> 1])
    OBVIOUS
  <2> QED
    BY <2>1
<1>2. ASSUME NEW n \in Nat, n \in Q PROVE n + 1 \in Q
  <2>1. PICK g : Upto(n, g)
    BY <1>2
  <2> DEFINE h == [i \in 0 .. (n + 1) |-> IF i = n + 1 THEN Width * g[n] ELSE g[i]]
  <2>2. /\ n \in 0 .. n /\ 0 \in 0 .. n /\ n + 1 \in 0 .. (n + 1)
        /\ \A i \in 0 .. (n + 1) : i = n + 1 \/ i \in 0 .. n
        /\ \A i \in 1 .. (n + 1) : i - 1 \in 0 .. n /\ i - 1 # n + 1 /\ (i = n + 1 \/ i \in 1 .. n)
        /\ \A i \in 0 .. n : i # n + 1
    OBVIOUS
  <2>3. g[n] \in Nat /\ Width * g[n] \in Nat
    <3>1. g[n] \in Nat
      BY <2>1, <2>2
    <3> QED
      BY <1>0, <3>1, Z3
  <2>4. h \in [0 .. (n + 1) -> Nat] /\ h[0] = 1
    BY <2>1, <2>2, <2>3
  <2>5. \A i \in 1 .. (n + 1) : h[i] = Width * h[i - 1]
    <3> SUFFICES ASSUME NEW i \in 1 .. (n + 1) PROVE h[i] = Width * h[i - 1]
      OBVIOUS
    <3>1. h[i - 1] = g[i - 1]
      BY <2>2
    <3>2. CASE i = n + 1
      BY <2>2, <3>1, <3>2
    <3>3. CASE i \in 1 .. n
      BY <2>1, <2>2, <3>1, <3>3
    <3> QED
      BY <2>2, <3>2, <3>3
  <2> HIDE DEF h
  <2>6. Upto(n + 1, h)
    BY <2>4, <2>5
  <2>7. n + 1 \in Nat
    OBVIOUS
  <2> HIDE DEF Upto
  <2> QED
    BY <2>6, <2>7
<1>3. \A n \in Nat : Upto(n, p(n))
  <2> HIDE DEF Upto
  <2>1. Nat \subseteq Q
    BY <1>1, <1>2, NumberInduction
  <2> QED
    BY <2>1
<1> HIDE DEF p
<1>4. ASSUME NEW n \in Nat
      PROVE  \A i \in 0 .. n : p(n)[i] = p(n + 1)[i]
  <2> DEFINE P == {i \in Nat : i \in 0 .. n => p(n)[i] = p(n + 1)[i]}
  <2>1. Upto(n, p(n)) /\ Upto(n + 1, p(n + 1))
    <3>1. n + 1 \in Nat
      OBVIOUS
    <3> HIDE DEF Upto
    <3> QED
      BY <1>3, <3>1
  <2>2. 0 \in P
    BY <2>1
  <2>3. ASSUME NEW i \in Nat, i \in P PROVE i + 1 \in P
    <3> SUFFICES ASSUME i + 1 \in 0 .. n PROVE p(n)[i + 1] = p(n + 1)[i + 1]
      OBVIOUS
    <3>1. i \in 0 .. n /\ i + 1 \in 1 .. n /\ i + 1 \in 1 .. (n + 1) /\ (i + 1) - 1 = i
      OBVIOUS
    <3>2. p(n)[i + 1] = Width * p(n)[(i + 1) - 1] /\ p(n + 1)[i + 1] = Width * p(n + 1)[(i + 1) - 1]
      BY <2>1, <3>1
    <3> QED
      BY <2>3, <3>1, <3>2
  <2> HIDE DEF P
  <2>4. Nat \subseteq P
    BY <2>2, <2>3, NumberInduction
  <2> QED
    BY <2>4 DEF P
<1>5. G[0] = 1 /\ \A n \in Nat : G[n + 1] = Width * G[n]
  <2>1. G[0] = 1
    BY <1>3
  <2>2. ASSUME NEW n \in Nat PROVE G[n + 1] = Width * G[n]
    <3>1. n + 1 \in 1 .. (n + 1) /\ (n + 1) - 1 = n /\ n \in 0 .. n /\ n + 1 \in Nat
      OBVIOUS
    <3>2. p(n + 1)[n + 1] = Width * p(n + 1)[(n + 1) - 1]
      BY <1>3, <3>1
    <3> QED
      BY <1>4, <3>1, <3>2
  <2> QED
    BY <2>1, <2>2
<1>6. G = [l \in Nat |-> IF l = 0 THEN 1 ELSE Width * G[l - 1]]
  <2>1. \A l \in Nat : l = 0 \/ (l - 1 \in Nat /\ (l - 1) + 1 = l)
    OBVIOUS
  <2>2. G = [l \in Nat |-> G[l]]
    OBVIOUS
  <2> HIDE DEF G
  <2>3. \A l \in Nat : G[l] = IF l = 0 THEN 1 ELSE Width * G[l - 1]
    BY <1>5, <2>1
  <2> QED
    BY <2>2, <2>3
<1> HIDE DEF G
<1>7. Power = [l \in Nat |-> IF l = 0 THEN 1 ELSE Width * Power[l - 1]]
  BY <1>6 DEF Power
<1>8. Power[0] = 1 /\ \A l \in Nat : Power[l + 1] = Width * Power[l]
  <2>1. \A l \in Nat : l + 1 \in Nat /\ l + 1 # 0 /\ (l + 1) - 1 = l
    OBVIOUS
  <2> QED
    BY <1>7, <2>1
<1>9. \A l \in Nat : Power[l] \in Nat /\ Power[l] > l
  <2> DEFINE P == {l \in Nat : Power[l] \in Nat /\ Power[l] > l}
  <2>1. 0 \in P
    BY <1>8
  <2>2. ASSUME NEW l \in Nat, l \in P PROVE l + 1 \in P
    <3>1. PICK x \in Nat : x = Power[l] /\ x > l
      BY <2>2
    <3>2. Width * x \in Nat /\ Width * x >= 2 * x
      BY <1>0, Z3
    <3>3. Width * x > l + 1
      BY <3>1, <3>2
    <3> QED
      BY <1>8, <3>1, <3>2, <3>3
  <2> HIDE DEF P
  <2>3. Nat \subseteq P
    BY <2>1, <2>2, NumberInduction
  <2> QED
    BY <2>3 DEF P
<1> QED
  BY <1>8, <1>9

-----------------------------------------------------------------------------
(* Paths of one kind and level are told apart by their index, and there is  *)
(* one for each.                                                            *)
Indexed(S, m) ==
    /\ \A p \in S : p[3] \in 0 .. (m - 1)
    /\ \A t \in 0 .. (m - 1) : \E p \in S : p[3] = t
    /\ \A p, q \in S : p[3] = q[3] => p = q

LEMMA IndexedSize ==
    ASSUME NEW S, NEW m \in Nat, Indexed(S, m)
    PROVE  Cardinality(S) = m
<1> DEFINE f == [i \in 1 .. m |-> CHOOSE p \in S : p[3] = i - 1]
<1>1. \A i \in 1 .. m : f[i] \in S /\ f[i][3] = i - 1
  <2> SUFFICES ASSUME NEW i \in 1 .. m PROVE f[i] \in S /\ f[i][3] = i - 1
    OBVIOUS
  <2>1. i - 1 \in 0 .. (m - 1)
    OBVIOUS
  <2>2. \E p \in S : p[3] = i - 1
    BY <2>1 DEF Indexed
  <2> QED
    BY <2>2
<1>2. f \in [1 .. m -> S]
  BY <1>1
<1> HIDE DEF f
<1>3. \A i, j \in 1 .. m : f[i] = f[j] => i = j
  <2> SUFFICES ASSUME NEW i \in 1 .. m, NEW j \in 1 .. m, f[i] = f[j] PROVE i = j
    OBVIOUS
  <2>1. i - 1 = j - 1
    BY <1>1
  <2> QED
    BY <2>1
<1>4. \A p \in S : \E i \in 1 .. m : f[i] = p
  <2> SUFFICES ASSUME NEW p \in S PROVE \E i \in 1 .. m : f[i] = p
    OBVIOUS
  <2>1. p[3] \in 0 .. (m - 1)
    BY DEF Indexed
  <2>2. PICK i \in 1 .. m : i - 1 = p[3]
    <3>1. p[3] + 1 \in 1 .. m /\ (p[3] + 1) - 1 = p[3]
      BY <2>1
    <3> QED
      BY <3>1
  <2>3. f[i] \in S /\ f[i][3] = p[3]
    BY <1>1, <2>2
  <2> QED
    BY <2>3 DEF Indexed
<1>5. f \in Bijection(1 .. m, S)
  BY <1>2, <1>3, <1>4 DEF Bijection, Injection, Surjection, IsInjective
<1>6. IsFiniteSet(1 .. m) /\ Cardinality(1 .. m) = m
  BY FS_Interval
<1> QED
  BY <1>5, <1>6, FS_Bijection DEF ExistsBijection

(* A strictly increasing list of m of the numbers below m is all of them.   *)
LEMMA IncreasingIsCount ==
    ASSUME NEW m \in Nat, NEW x \in [1 .. m -> 0 .. (m - 1)],
           \A i, j \in 1 .. m : i < j => x[i] < x[j]
    PROVE  \A i \in 1 .. m : x[i] = i - 1
<1> DEFINE Up == {k \in Nat : k + 1 \in 1 .. m => x[k + 1] >= k}
           Down == {k \in Nat : m - k \in 1 .. m => x[m - k] <= m - k - 1}
<1>1. Nat \subseteq Up
  <2>1. 0 \in Up
    OBVIOUS
  <2>2. ASSUME NEW k \in Nat, k \in Up PROVE k + 1 \in Up
    <3> SUFFICES ASSUME (k + 1) + 1 \in 1 .. m PROVE x[(k + 1) + 1] >= k + 1
      OBVIOUS
    <3>1. k + 1 \in 1 .. m /\ k + 1 < (k + 1) + 1
      OBVIOUS
    <3>2. x[k + 1] < x[(k + 1) + 1] /\ x[k + 1] >= k
      BY <2>2, <3>1
    <3>3. x[k + 1] \in Nat /\ x[(k + 1) + 1] \in Nat
      BY <3>1
    <3> QED
      BY <3>2, <3>3
  <2> HIDE DEF Up
  <2> QED
    BY <2>1, <2>2, NumberInduction
<1>2. Nat \subseteq Down
  <2>1. 0 \in Down
    OBVIOUS
  <2>2. ASSUME NEW k \in Nat, k \in Down PROVE k + 1 \in Down
    <3> SUFFICES ASSUME m - (k + 1) \in 1 .. m PROVE x[m - (k + 1)] <= m - (k + 1) - 1
      OBVIOUS
    <3>1. m - k \in 1 .. m /\ m - (k + 1) < m - k
      OBVIOUS
    <3>2. x[m - (k + 1)] < x[m - k] /\ x[m - k] <= m - k - 1
      BY <2>2, <3>1
    <3>3. x[m - (k + 1)] \in Nat /\ x[m - k] \in Nat
      BY <3>1
    <3> QED
      BY <3>2, <3>3
  <2> HIDE DEF Down
  <2> QED
    BY <2>1, <2>2, NumberInduction
<1> SUFFICES ASSUME NEW i \in 1 .. m PROVE x[i] = i - 1
  OBVIOUS
<1>3. i - 1 \in Nat /\ (i - 1) + 1 = i /\ m - i \in Nat /\ m - (m - i) = i
  OBVIOUS
<1>4. i - 1 \in Up /\ m - i \in Down
  BY <1>1, <1>2, <1>3
<1>5. x[i] >= i - 1
  BY <1>3, <1>4
<1>6. x[i] <= i - 1
  BY <1>3, <1>4
<1>7. x[i] \in Int
  OBVIOUS
<1> HIDE DEF Up, Down
<1> QED
  BY <1>5, <1>6, <1>7, SMTT(30)

(* However the directory is listed, its bundles are read by their index.    *)
LEMMA OrderIsIndex ==
    ASSUME NEW files, NEW m \in Nat, Indexed(BundlePaths(files), m),
           NEW order \in BundleOrders(files)
    PROVE  /\ DOMAIN order = 1 .. m
           /\ \A i \in 1 .. m : order[i] \in BundlePaths(files) /\ order[i][3] = i - 1
<1> DEFINE S == BundlePaths(files)
           x == [i \in 1 .. m |-> order[i][3]]
<1>1. Cardinality(S) = m /\ Indexed(S, m)
  BY IndexedSize
<1>2. /\ order \in SetToSeqs(S)
      /\ \A i, j \in DOMAIN order : i < j => order[i][3] <= order[j][3]
  BY DEF BundleOrders
<1> HIDE DEF S
<1>3. order \in [1 .. m -> S] /\ \A i, j \in 1 .. m : i # j => order[i] # order[j]
  BY <1>1, <1>2 DEF SetToSeqs
<1>4. \A i \in 1 .. m : order[i] \in S /\ order[i][3] \in 0 .. (m - 1)
  BY <1>1, <1>3 DEF Indexed
<1>5. x \in [1 .. m -> 0 .. (m - 1)]
  BY <1>4
<1>6. \A i, j \in 1 .. m : i < j => x[i] < x[j]
  <2> SUFFICES ASSUME NEW i \in 1 .. m, NEW j \in 1 .. m, i < j PROVE order[i][3] < order[j][3]
    OBVIOUS
  <2>1. order[i][3] <= order[j][3]
    BY <1>2, <1>3
  <2>2. order[i][3] # order[j][3]
    BY <1>1, <1>3, <1>4 DEF Indexed
  <2>3. order[i][3] \in Nat /\ order[j][3] \in Nat
    BY <1>4
  <2> QED
    BY <2>1, <2>2, <2>3
<1>7. \A i \in 1 .. m : x[i] = i - 1
  <2> HIDE DEF x
  <2> QED
    BY <1>5, <1>6, IncreasingIsCount
<1> QED
  BY <1>3, <1>4, <1>7 DEF S

(* The entry bundles of a log of n entries.                                 *)
LEMMA EntryPathsIndexed ==
    ASSUME NEW n \in Nat
    PROVE  /\ Indexed(EntryPaths(n), Ceil(n, Width))
           /\ \A p \in EntryPaths(n) : /\ p[1] = "entries" /\ p[4] = Least(Width, n - p[3] * Width)
                                       /\ p[3] \in 0 .. (Ceil(n, Width) - 1)
<1> DEFINE m == Ceil(n, Width)
           E(t) == <<"entries", 0, t, Least(Width, n - t * Width)>>
<1>1. EntryPaths(n) = {E(t) : t \in 0 .. (m - 1)}
  BY DEF EntryPaths
<1>2. \A t \in 0 .. (m - 1) : E(t)[3] = t /\ E(t)[1] = "entries" /\ E(t)[4] = Least(Width, n - t * Width)
  OBVIOUS
<1> HIDE DEF m, E
<1>3. Indexed(EntryPaths(n), m)
  BY <1>1, <1>2 DEF Indexed
<1>4. \A p \in EntryPaths(n) : /\ p[1] = "entries" /\ p[4] = Least(Width, n - p[3] * Width)
                               /\ p[3] \in 0 .. (m - 1)
  BY <1>1, <1>2
<1> QED
  BY <1>3, <1>4 DEF m

(* Reading every bundle of a log gives the log.                             *)
LEMMA BundlesReadBack ==
    ASSUME NEW files, NEW n \in Nat \ {0}, BundlePaths(files) = EntryPaths(n),
           \A p \in EntryPaths(n) : files[p] = BuildEntryBundles(n)[p],
           NEW order \in BundleOrders(files)
    PROVE  EntriesFromStaticLog(files, order) = Leaves(n)
<1> DEFINE m == Ceil(n, Width)
           F == [k \in Nat |-> k]
           seqs == [i \in DOMAIN order |-> files[order[i]]]
<1>0. m \in Nat /\ Width \in Nat \ {0} /\ n \in Nat
  BY CeilProperties, Numbers
<1>1. Indexed(EntryPaths(n), m)
  BY EntryPathsIndexed
<1> HIDE DEF m
<1>2. /\ DOMAIN order = 1 .. m
      /\ \A i \in 1 .. m : order[i] \in EntryPaths(n) /\ order[i][3] = i - 1
  BY <1>0, <1>1, OrderIsIndex
<1>3. ASSUME NEW i \in 1 .. m
      PROVE  files[order[i]] = [k \in 1 .. Least(Width, n - (i - 1) * Width) |-> F[(i - 1) * Width + k]]
  <2>0. i - 1 \in Nat /\ i - 1 \in 0 .. (m - 1)
    BY <1>0
  <2>1. (i - 1) * Width \in Nat /\ (i - 1) * Width < n
    <3>1. (i - 1) * Width < n
      BY <1>0, <2>0, CeilProperties DEF m
    <3>2. (i - 1) * Width \in Nat
      BY <1>0, <2>0, Products
    <3> QED
      BY <3>1, <3>2
  <2> DEFINE b == (i - 1) * Width
  <2>2. b \in Nat /\ b < n /\ n - b \in Nat
    BY <1>0, <2>1
  <2>3. order[i] \in EntryPaths(n) /\ order[i][3] = i - 1
    BY <1>2
  <2>4. order[i][4] = Least(Width, n - b)
    BY <2>3, EntryPathsIndexed
  <2>5. files[order[i]] = [k \in 1 .. Least(order[i][4], n - b) |-> b + k]
    BY <2>3 DEF BuildEntryBundles
  <2> HIDE DEF b
  <2>6. Least(Least(Width, n - b), n - b) = Least(Width, n - b) /\ Least(Width, n - b) \in Nat
    BY <1>0, <2>2 DEF Least
  <2>7. \A k \in 1 .. Least(Width, n - b) : F[b + k] = b + k
    BY <2>2, <2>6
  <2> QED
    BY <2>4, <2>5, <2>6, <2>7 DEF b
<1>4. AreGroups(seqs, F, n, Width)
  BY <1>2, <1>3 DEF AreGroups, m
<1> HIDE DEF F, seqs
<1>5. FlattenSeq(seqs) = Run(F, 0, n)
  BY <1>0, <1>4, FlattenGroups
<1>7. Run(F, 0, n) = [k \in 1 .. n |-> F[k]]
  BY <1>0, WholeRun
<1>6. [k \in 1 .. n |-> F[k]] = Leaves(n)
  BY DEF F, Leaves
<1> QED
  BY <1>5, <1>6, <1>7 DEF EntriesFromStaticLog, seqs

-----------------------------------------------------------------------------
(* Hash tiles.                                                             *)

(* The nodes of a level, as the log has them.                               *)
NodesOf(level, n) == [k \in 1 .. NodeCount(level, n) |-> NodeHash(level, k - 1, n)]

LEMMA LevelNumbers ==
    ASSUME NEW n \in Nat \ {0}, NEW level \in Nat
    PROVE  /\ Span(level) \in Nat \ {0} /\ Span(level) > level
           /\ Span(level + 1) = Width * Span(level)
           /\ NodeCount(level, n) \in Nat \ {0} /\ n <= NodeCount(level, n) * Span(level)
           /\ \A t \in 0 .. (NodeCount(level, n) - 1) : t * Span(level) < n
<1>1. Span(level) \in Nat /\ Span(level) > level /\ Span(level + 1) = Width * Span(level)
  BY PowerProperties DEF Span
<1>2. Span(level) \in Nat \ {0} /\ n \in Nat /\ n > 0
  BY <1>1
<1>3. NodeCount(level, n) \in Nat /\ n <= NodeCount(level, n) * Span(level)
      /\ \A t \in 0 .. (NodeCount(level, n) - 1) : t * Span(level) < n
  BY <1>2, CeilProperties DEF NodeCount
<1>4. NodeCount(level, n) > 0
  BY <1>2, CeilMany DEF NodeCount
<1> QED
  BY <1>1, <1>2, <1>3, <1>4

(* The tiles of a level: one for each group of Width nodes.                 *)
LEMMA TilesOfLevel ==
    ASSUME NEW n \in Nat \ {0}, NEW cp, NEW level \in TileLevels(n)
    PROVE  LET files == StaticLog(n, cp)
           IN  /\ Indexed(LevelTiles(files, level), Ceil(NodeCount(level, n), Width))
               /\ \A p \in LevelTiles(files, level) :
                     files[p] = [i \in 1 .. Least(Width, NodeCount(level, n) - p[3] * Width) |->
                                    NodeHash(level, p[3] * Width + i - 1, n)]
<1> DEFINE files == StaticLog(n, cp)
           N == NodeCount(level, n)
           m == Ceil(N, Width)
           E(t) == <<"tile", level, t, Least(Width, N - t * Width)>>
           S == LevelTiles(files, level)
<1>1. DOMAIN files = TilePaths(n) \cup EntryPaths(n) \cup {CheckpointPath}
  BY DEF StaticLog
<1>2. \A p \in EntryPaths(n) : p[1] # "tile"
  BY EntryPathsIndexed
<1>3. CheckpointPath[1] # "tile"
  BY DEF CheckpointPath
<1>4. \A p \in TilePaths(n) : p[1] = "tile" /\ files[p] = BuildHashTiles(n)[p]
  <2> SUFFICES ASSUME NEW p \in TilePaths(n)
               PROVE  p[1] = "tile" /\ files[p] = BuildHashTiles(n)[p]
    OBVIOUS
  <2>1. p[1] = "tile"
    BY DEF TilePaths
  <2> QED
    BY <2>1 DEF StaticLog
<1>5. \A p \in TilePaths(n) : p[2] = level => \E t \in 0 .. (m - 1) : p = E(t)
  <2> SUFFICES ASSUME NEW p \in TilePaths(n), p[2] = level
               PROVE  \E t \in 0 .. (m - 1) : p = E(t)
    OBVIOUS
  <2>1. PICK l \in TileLevels(n) : \E t \in 0 .. (Ceil(NodeCount(l, n), Width) - 1) :
            p = <<"tile", l, t, Least(Width, NodeCount(l, n) - t * Width)>>
    BY DEF TilePaths
  <2>2. l = level
    BY <2>1
  <2> QED
    BY <2>1, <2>2
<1>6. \A t \in 0 .. (m - 1) : E(t) \in TilePaths(n)
  BY DEF TilePaths
<1>7. \A t : E(t)[1] = "tile" /\ E(t)[2] = level /\ E(t)[3] = t /\ E(t)[4] = Least(Width, N - t * Width)
  OBVIOUS
<1>8. S = {E(t) : t \in 0 .. (m - 1)}
  <2> HIDE DEF files, E, m
  <2> QED
    BY <1>1, <1>2, <1>3, <1>4, <1>5, <1>6, <1>7 DEF LevelTiles
<1>9. Indexed(S, m)
  <2> HIDE DEF S, E, m
  <2> QED
    BY <1>7, <1>8 DEF Indexed
<1>10. ASSUME NEW p \in S
       PROVE  files[p] = [i \in 1 .. Least(Width, N - p[3] * Width) |-> NodeHash(level, p[3] * Width + i - 1, n)]
  <2>1. p \in TilePaths(n) /\ p[2] = level /\ p[4] = Least(Width, N - p[3] * Width)
    <3> HIDE DEF E, m, S
    <3> QED
      BY <1>6, <1>7, <1>8
  <2>2. files[p] = [i \in 1 .. p[4] |-> NodeHash(p[2], p[3] * Width + i - 1, n)]
    <3> HIDE DEF files
    <3> QED
      BY <1>4, <2>1 DEF BuildHashTiles
  <2> QED
    BY <2>1, <2>2
<1> QED
  BY <1>9, <1>10

(* Reading the tiles of a level one after the other gives its nodes.        *)
LEMMA TilesReadBack ==
    ASSUME NEW n \in Nat \ {0}, NEW cp, NEW level \in TileLevels(n)
    PROVE  LevelNodes(StaticLog(n, cp), level) = NodesOf(level, n)
<1> DEFINE files == StaticLog(n, cp)
           N == NodeCount(level, n)
           m == Ceil(N, Width)
           S == LevelTiles(files, level)
           F == NodesOf(level, n)
           seqs == [i \in 1 .. Cardinality(S) |-> files[TileAt(files, level, i - 1)]]
<1>0. level \in Nat /\ N \in Nat \ {0} /\ Width \in Nat \ {0} /\ Width \in Nat
  BY LevelNumbers, Numbers DEF TileLevels
<1>1. m \in Nat /\ \A t \in 0 .. (m - 1) : t * Width < N
  <2> HIDE DEF N
  <2> QED
    BY <1>0, CeilProperties
<1>2. Indexed(S, m)
      /\ \A p \in S : files[p] = [i \in 1 .. Least(Width, N - p[3] * Width) |->
                                     NodeHash(level, p[3] * Width + i - 1, n)]
  BY TilesOfLevel
<1> HIDE DEF files, S, N, m
<1>3. Cardinality(S) = m
  BY <1>1, <1>2, IndexedSize
<1>4. ASSUME NEW i \in 1 .. m
      PROVE  seqs[i] = [k \in 1 .. Least(Width, N - (i - 1) * Width) |-> F[(i - 1) * Width + k]]
  <2>1. i - 1 \in Nat /\ i - 1 \in 0 .. (m - 1)
    BY <1>1
  <2>2. (i - 1) * Width < N /\ (i - 1) * Width \in Nat
    <3>1. (i - 1) * Width < N
      BY <1>1, <2>1
    <3>2. (i - 1) * Width \in Nat
      BY <1>0, <2>1, Products
    <3> QED
      BY <3>1, <3>2
  <2>3. TileAt(files, level, i - 1) \in S /\ TileAt(files, level, i - 1)[3] = i - 1
    <3>1. \E p \in S : p[3] = i - 1
      BY <1>2, <2>1 DEF Indexed
    <3> QED
      BY <3>1 DEF TileAt, S
  <2> DEFINE b == (i - 1) * Width
  <2>4. b \in Nat /\ b < N
    BY <2>2
  <2>5. seqs[i] = [k \in 1 .. Least(Width, N - b) |-> NodeHash(level, b + k - 1, n)]
    BY <1>2, <1>3, <2>3
  <2> HIDE DEF b, seqs
  <2>8. N \in Nat
    BY <1>0
  <2>6. \A k \in 1 .. Least(Width, N - b) : b + k \in 1 .. N /\ b + k - 1 = (b + k) - 1
    BY <1>0, <2>4, <2>8 DEF Least
  <2>7. \A k \in 1 .. Least(Width, N - b) : F[b + k] = NodeHash(level, b + k - 1, n)
    BY <2>6 DEF NodesOf, N
  <2> HIDE DEF F
  <2> QED
    BY <2>5, <2>7 DEF b
<1>5. AreGroups(seqs, F, N, Width)
  <2> HIDE DEF F
  <2> QED
    BY <1>3, <1>4 DEF AreGroups, m
<1> HIDE DEF seqs
<1>6. FlattenSeq(seqs) = Run(F, 0, N)
  <2> HIDE DEF F
  <2> QED
    BY <1>0, <1>5, FlattenGroups
<1>8. Run(F, 0, N) = [k \in 1 .. N |-> F[k]]
  <2> HIDE DEF F
  <2>1. N \in Nat
    BY <1>0
  <2> QED
    BY <2>1, WholeRun
<1>7. F = [k \in 1 .. N |-> F[k]]
  BY DEF NodesOf, N
<1> QED
  BY <1>6, <1>7, <1>8 DEF LevelNodes, seqs, S, files

(* A node is the run of leaves below it.                                    *)
LEMMA NodeIsRun ==
    ASSUME NEW n \in Nat \ {0}, NEW level \in Nat, NEW t \in 0 .. (NodeCount(level, n) - 1)
    PROVE  LET s == Span(level)
           IN  /\ t * s \in Nat /\ t * s < n /\ (t + 1) * s = t * s + s
               /\ NodeHash(level, t, n) = [k \in 1 .. Least(s, n - t * s) |-> t * s + k]
               /\ NodeHash(level, t, n) = Run([k \in Nat |-> k], t * s, Least(n, (t + 1) * s))
<1> DEFINE s == Span(level)
           a == t * s
           b == (t + 1) * s
<1>1. s \in Nat \ {0} /\ s \in Nat /\ a < n /\ t \in Nat
  BY LevelNumbers
<1> HIDE DEF s
<1>2. a \in Nat /\ b = a + s /\ b \in Nat
  <2>1. a \in Nat /\ (t + 1) * s = a + s
    BY <1>1, Products
  <2> QED
    BY <1>1, <2>1
<1>3. NodeHash(level, t, n) = [k \in 1 .. (Least(n, b) - a) |-> a + k]
  BY DEF NodeHash, s
<1> HIDE DEF a, b
<1>4. Least(n, b) - a = Least(s, n - a) /\ Least(n, b) - a \in Nat
  BY <1>1, <1>2 DEF Least
<1>5. NodeHash(level, t, n) = Run([k \in Nat |-> k], a, Least(n, b))
  <2>1. \A k \in 1 .. (Least(n, b) - a) : a + k \in Nat
    BY <1>2, <1>4
  <2> QED
    BY <1>3, <2>1 DEF Run
<1>6. NodeHash(level, t, n) = [k \in 1 .. Least(s, n - a) |-> a + k]
  BY <1>3, <1>4
<1> QED
  BY <1>1, <1>2, <1>5, <1>6 DEF a, b, s

(* The nodes of every level cover the log.                                  *)
LEMMA NodesCover ==
    ASSUME NEW n \in Nat \ {0}, NEW level \in Nat
    PROVE  FlattenSeq(NodesOf(level, n)) = Leaves(n)
<1> DEFINE s == Span(level)
           N == NodeCount(level, n)
           F == [k \in Nat |-> k]
<1>1. s \in Nat \ {0} /\ N \in Nat \ {0}
  BY LevelNumbers
<1>2. ASSUME NEW i \in 1 .. N
      PROVE  NodeHash(level, i - 1, n) = [k \in 1 .. Least(s, n - (i - 1) * s) |-> F[(i - 1) * s + k]]
  <2>1. i - 1 \in 0 .. (N - 1)
    BY <1>1
  <2> DEFINE b == (i - 1) * s
  <2>2. b \in Nat /\ b < n /\ NodeHash(level, i - 1, n) = [k \in 1 .. Least(s, n - b) |-> b + k]
    BY <2>1, NodeIsRun
  <2> HIDE DEF b, s
  <2>3. \A k \in 1 .. Least(s, n - b) : b + k \in Nat
    BY <1>1, <2>2 DEF Least
  <2> QED
    BY <2>2, <2>3 DEF b
<1>3. AreGroups(NodesOf(level, n), F, n, s)
  <2>1. N = Ceil(n, s)
    BY DEF NodeCount
  <2> HIDE DEF F, s, N
  <2>2. NodesOf(level, n) = [i \in 1 .. N |-> NodeHash(level, i - 1, n)]
    BY DEF NodesOf, N
  <2> QED
    BY <1>2, <2>1, <2>2 DEF AreGroups
<1>4. FlattenSeq(NodesOf(level, n)) = Run(F, 0, n)
  <2> HIDE DEF F, s
  <2> QED
    BY <1>1, <1>3, FlattenGroups
<1>6. Run(F, 0, n) = [k \in 1 .. n |-> F[k]]
  <2> HIDE DEF F
  <2> QED
    BY WholeRun
<1>5. [k \in 1 .. n |-> F[k]] = Leaves(n)
  BY DEF Leaves
<1> QED
  BY <1>4, <1>5, <1>6

(* A node above the lowest level is made of at most Width nodes below it.   *)
LEMMA NodesMadeOf ==
    ASSUME NEW n \in Nat \ {0}, NEW l \in Nat, NEW t \in 0 .. (NodeCount(l + 1, n) - 1)
    PROVE  MadeOf(NodeHash(l + 1, t, n), NodesOf(l, n))
<1> DEFINE s == Span(l)
           N == NodeCount(l, n)
           lo == t * Width
           hi == Least(N, lo + Width)
           F == [k \in Nat |-> k]
           below == NodesOf(l, n)
           m == hi - lo
           c == [i \in 0 .. m |-> Least(n, (lo + i) * s)]
           part == SubSeq(below, lo + 1, hi)
<1>0. /\ l \in Nat /\ l + 1 \in Nat /\ t \in Nat /\ n \in Nat /\ Width \in Nat \ {0} /\ Width \in Nat
      /\ s \in Nat \ {0} /\ s \in Nat /\ N \in Nat \ {0} /\ N \in Nat
      /\ n <= N * s /\ \A i \in 0 .. (N - 1) : i * s < n
      /\ Span(l + 1) = Width * s
  <2>1. l + 1 \in Nat /\ n \in Nat /\ Width \in Nat \ {0} /\ Width \in Nat
    BY Numbers
  <2>2. NodeCount(l + 1, n) \in Nat
    BY <2>1, LevelNumbers
  <2>3. /\ s \in Nat \ {0} /\ N \in Nat \ {0}
        /\ n <= N * s /\ \A i \in 0 .. (N - 1) : i * s < n
        /\ Span(l + 1) = Width * s
    BY LevelNumbers
  <2>4. t \in Nat
    BY <2>2
  <2> QED
    BY <2>1, <2>3, <2>4
<1>1. /\ t * (Width * s) \in Nat /\ t * (Width * s) < n
      /\ (t + 1) * (Width * s) = t * (Width * s) + Width * s
      /\ NodeHash(l + 1, t, n) = Run(F, t * (Width * s), Least(n, (t + 1) * (Width * s)))
  <2> DEFINE u == Span(l + 1)
  <2>1. /\ t * u \in Nat /\ t * u < n /\ (t + 1) * u = t * u + u
        /\ NodeHash(l + 1, t, n) = Run(F, t * u, Least(n, (t + 1) * u))
    BY <1>0, NodeIsRun
  <2>2. u = Width * s
    BY <1>0
  <2> HIDE DEF u, s, F
  <2> QED
    BY <2>1, <2>2
<1> HIDE DEF s, N, F
<1>2. lo \in Nat /\ lo * s = t * (Width * s) /\ (lo + Width) * s = (t + 1) * (Width * s)
  <2>1. lo \in Nat
    BY <1>0, Products
  <2>2. (t * Width) * s = t * (Width * s)
    BY <1>0, Z3
  <2>3. (lo + Width) * s = lo * s + Width * s
    <3> HIDE DEF lo
    <3> QED
      BY <1>0, <2>1, Z3
  <2> QED
    BY <1>1, <2>1, <2>2, <2>3
<1> HIDE DEF lo
<1>3. lo < N
  <2> SUFFICES ASSUME N <= lo PROVE FALSE
    BY <1>0, <1>2
  <2>1. N * s <= lo * s
    BY <1>0, <1>2, Products
  <2>2. N * s \in Nat /\ lo * s \in Nat
    BY <1>0, <1>2, Products
  <2> DEFINE x == N * s
             y == lo * s
  <2>3. x <= y /\ x \in Nat /\ y \in Nat /\ n <= x /\ y < n
    BY <1>0, <1>1, <1>2, <2>1, <2>2
  <2> HIDE DEF x, y
  <2> QED
    BY <1>0, <2>3
<1>4. m \in Nat \ {0} /\ m \in Nat /\ m <= Width /\ hi \in Nat /\ hi <= N /\ lo + m = hi
  BY <1>0, <1>2, <1>3 DEF Least
<1>5. Least(n, hi * s) = Least(n, (lo + Width) * s)
  <2>1. CASE N <= lo + Width
    <3>1. hi = N
      BY <1>0, <1>2, <2>1 DEF Least
    <3>2. N * s <= (lo + Width) * s /\ N * s \in Nat /\ (lo + Width) * s \in Nat
      <4>1. lo + Width \in Nat
        BY <1>0, <1>2
      <4> QED
        BY <1>0, <2>1, <4>1, Products
    <3> DEFINE x == N * s
               y == (lo + Width) * s
    <3>3. x <= y /\ x \in Nat /\ y \in Nat /\ n <= x /\ n \in Nat
      BY <1>0, <3>2
    <3> HIDE DEF x, y
    <3>4. Least(n, x) = Least(n, y)
      BY <3>3 DEF Least
    <3> QED
      BY <3>1, <3>4 DEF x, y
  <2>2. CASE ~(N <= lo + Width)
    <3>1. hi = lo + Width
      BY <1>0, <1>2, <2>2 DEF Least
    <3> QED
      BY <3>1
  <2> QED
    BY <2>1, <2>2
<1> HIDE DEF hi, m
<1>6. \A i \in 0 .. m : (lo + i) * s \in Nat
  <2> SUFFICES ASSUME NEW i \in 0 .. m PROVE (lo + i) * s \in Nat
    OBVIOUS
  <2>1. lo + i \in Nat
    BY <1>2, <1>4
  <2> QED
    BY <1>0, <2>1, Products
<1>7. c[0] = lo * s /\ c[m] = Least(n, (t + 1) * (Width * s))
  <2>1. 0 \in 0 .. m /\ m \in 0 .. m /\ lo + 0 = lo
    BY <1>2, <1>4
  <2>2. c[0] = Least(n, lo * s)
    BY <2>1
  <2> DEFINE y == lo * s
  <2>3. y \in Nat /\ y < n
    BY <1>1, <1>2
  <2> HIDE DEF y
  <2>4. Least(n, y) = y
    BY <1>0, <2>3 DEF Least
  <2>5. c[m] = Least(n, hi * s)
    BY <1>4, <2>1
  <2> HIDE DEF c
  <2> QED
    BY <1>2, <1>5, <2>2, <2>4, <2>5 DEF y
<1>8. ASSUME NEW i \in 1 .. m
      PROVE  /\ c[i - 1] <= c[i] /\ c[i - 1] \in Nat /\ c[i] \in Nat
             /\ lo + i \in 1 .. N
             /\ NodeHash(l, (lo + i) - 1, n) = Run(F, c[i - 1], c[i])
  <2>1. i \in 0 .. m /\ i - 1 \in 0 .. m /\ (lo + i) - 1 \in 0 .. (N - 1)
        /\ lo + i \in 1 .. N /\ lo + (i - 1) = (lo + i) - 1 /\ ((lo + i) - 1) + 1 = lo + i
    BY <1>0, <1>2, <1>4
  <2> DEFINE j == (lo + i) - 1
             x == j * s
             y == (j + 1) * s
  <2>2. x \in Nat /\ x < n /\ y = x + s /\ NodeHash(l, j, n) = Run(F, x, Least(n, y))
    BY <2>1, NodeIsRun DEF s, N, F
  <2>3. c[i - 1] = Least(n, x) /\ c[i] = Least(n, y)
    BY <2>1
  <2> HIDE DEF c, x, y
  <2>4. Least(n, x) = x /\ Least(n, x) <= Least(n, y) /\ Least(n, y) \in Nat
    BY <1>0, <2>2 DEF Least
  <2> HIDE DEF j
  <2>5. NodeHash(l, j, n) = Run(F, c[i - 1], c[i]) /\ c[i - 1] <= c[i] /\ c[i - 1] \in Nat /\ c[i] \in Nat
    BY <2>2, <2>3, <2>4
  <2> QED
    BY <2>1, <2>5 DEF j
<1>9. Cuts(c, m)
  <2>1. c = [i \in 0 .. m |-> c[i]]
    OBVIOUS
  <2>2. \A i \in 0 .. m : c[i] \in Nat
    BY <1>0, <1>6 DEF Least
  <2> HIDE DEF c
  <2> QED
    BY <1>8, <2>1, <2>2 DEF Cuts
<1> HIDE DEF c
<1>10. part = [i \in 1 .. m |-> below[lo + i]]
  <2> DEFINE T == {below[k] : k \in 1 .. N}
  <2>1. \A k \in (lo + 1) .. hi : below[k] \in T
    <3>1. \A k \in (lo + 1) .. hi : k \in 1 .. N
      BY <1>0, <1>2, <1>4
    <3> QED
      BY <3>1
  <2> HIDE DEF T, below
  <2>2. lo + 1 \in Int /\ hi \in Int /\ hi - (lo + 1) + 1 = m /\ lo + 1 <= hi
    BY <1>2, <1>4
  <2>3. /\ part \in Seq(T) /\ Len(part) = m
        /\ \A i \in 1 .. m : part[i] = below[lo + 1 + i - 1]
    BY <2>1, <2>2, SubSeqProperties
  <2>4. \A i \in 1 .. m : lo + 1 + i - 1 = lo + i
    BY <1>2, <1>4
  <2>5. part = [i \in 1 .. m |-> part[i]]
    <3> HIDE DEF part
    <3> QED
      BY <2>3, LenProperties
  <2> HIDE DEF part
  <2> QED
    BY <2>3, <2>4, <2>5
<1>11. AreRuns(part, F, c, m)
  <2>1. \A i \in 1 .. m : below[lo + i] = Run(F, c[i - 1], c[i])
    BY <1>8 DEF NodesOf, N
  <2> HIDE DEF part, below
  <2> QED
    BY <1>10, <2>1 DEF AreRuns
<1> HIDE DEF part
<1>12. FlattenSeq(part) = Run(F, c[0], c[m])
  BY <1>4, <1>9, <1>11, FlattenRuns
<1>13. NodeHash(l + 1, t, n) = FlattenSeq(part)
  BY <1>1, <1>2, <1>7, <1>12
<1>14. lo + 1 \in DOMAIN below /\ hi \in DOMAIN below /\ hi - (lo + 1) < Width
  <2>1. DOMAIN below = 1 .. N
    BY DEF NodesOf, N
  <2> HIDE DEF below
  <2> QED
    BY <1>0, <1>2, <1>4, <2>1
<1> HIDE DEF below
<1> QED
  BY <1>13, <1>14 DEF MadeOf, part, below

(* The static log of n entries: the levels its tiles have, and what readers *)
(* of its tiles rebuild.                                                    *)
LEMMA LevelIsThere ==
    ASSUME NEW n \in Nat \ {0}, NEW level \in Nat
    PROVE  /\ level \in TileLevels(n) <=> n > Span(level)
           /\ level \in TileLevels(n) <=> NodeCount(level, n) > 1
<1>1. Span(level) \in Nat \ {0} /\ Span(level) > level /\ n \in Nat
  BY LevelNumbers
<1>2. n > Span(level) <=> NodeCount(level, n) > 1
  BY <1>1, CeilMany DEF NodeCount
<1>3. n > Span(level) => level \in 0 .. n
  BY <1>1
<1> QED
  BY <1>2, <1>3 DEF TileLevels

LEMMA StaticLogLevels ==
    ASSUME NEW n \in Nat \ {0}, NEW cp
    PROVE  LET files == StaticLog(n, cp)
           IN  {p[2] : p \in {p \in DOMAIN files : p[1] = "tile"}} = TileLevels(n)
<1> DEFINE files == StaticLog(n, cp)
<1>1. DOMAIN files = TilePaths(n) \cup EntryPaths(n) \cup {CheckpointPath}
  BY DEF StaticLog
<1>2. (\A p \in EntryPaths(n) : p[1] # "tile") /\ CheckpointPath[1] # "tile"
  BY EntryPathsIndexed DEF CheckpointPath
<1>3. \A p \in TilePaths(n) : p[2] \in TileLevels(n)
  <2> SUFFICES ASSUME NEW p \in TilePaths(n) PROVE p[2] \in TileLevels(n)
    OBVIOUS
  <2>1. PICK l \in TileLevels(n) : \E t \in 0 .. (Ceil(NodeCount(l, n), Width) - 1) :
            p = <<"tile", l, t, Least(Width, NodeCount(l, n) - t * Width)>>
    BY DEF TilePaths
  <2> QED
    BY <2>1
<1>4. ASSUME NEW l \in TileLevels(n)
      PROVE  \E p \in DOMAIN files : p[1] = "tile" /\ p[2] = l
  <2>1. l \in Nat
    BY DEF TileLevels
  <2>2. NodeCount(l, n) \in Nat \ {0} /\ NodeCount(l, n) > 0 /\ Width \in Nat \ {0}
    <3>1. NodeCount(l, n) \in Nat \ {0}
      BY <2>1, LevelNumbers
    <3>2. Width \in Nat \ {0}
      BY Numbers
    <3> QED
      BY <3>1, <3>2
  <2> DEFINE N == NodeCount(l, n)
  <2> HIDE DEF N
  <2>3. Ceil(N, Width) \in Nat /\ Ceil(N, Width) > 0
    BY <2>2, CeilMany, CeilProperties DEF N
  <2> DEFINE p == <<"tile", l, 0, Least(Width, NodeCount(l, n) - 0 * Width)>>
  <2>4. 0 \in 0 .. (Ceil(NodeCount(l, n), Width) - 1)
    BY <2>3 DEF N
  <2>5. p \in TilePaths(n)
    BY <2>4 DEF TilePaths
  <2>6. p[1] = "tile" /\ p[2] = l
    OBVIOUS
  <2> HIDE DEF p, files
  <2> QED
    BY <1>1, <2>5, <2>6
<1> HIDE DEF files
<1>5. {p[2] : p \in {p \in DOMAIN files : p[1] = "tile"}} = TileLevels(n)
  BY <1>1, <1>2, <1>3, <1>4
<1> QED
  BY <1>5 DEF files

LEMMA NodesRebuildRoot ==
    ASSUME NEW n \in Nat \ {0}, NEW cp, NEW level \in TileLevels(n)
    PROVE  LET nodes(l) == LevelNodes(StaticLog(n, cp), l)
           IN  /\ FlattenSeq(nodes(level)) = Leaves(n)
               /\ \A i \in DOMAIN nodes(level) :
                     IF level = 0 THEN Len(nodes(level)[i]) = 1
                     ELSE MadeOf(nodes(level)[i], nodes(level - 1))
               /\ level + 1 \in TileLevels(n) \/ Len(nodes(level)) <= Width
<1> DEFINE nodes(l) == LevelNodes(StaticLog(n, cp), l)
           N == NodeCount(level, n)
           s == Span(level)
<1>0. /\ level \in Nat /\ level + 1 \in Nat /\ n \in Nat /\ Width \in Nat /\ Width > 1
  BY Numbers DEF TileLevels
<1>1. /\ N \in Nat \ {0} /\ s \in Nat \ {0} /\ Span(level + 1) = Width * s
      /\ \A t \in 0 .. (N - 1) : t * s < n
  BY <1>0, LevelNumbers
<1>2. nodes(level) = NodesOf(level, n) /\ DOMAIN NodesOf(level, n) = 1 .. N
  BY TilesReadBack DEF NodesOf
<1>3. FlattenSeq(nodes(level)) = Leaves(n)
  BY <1>0, <1>2, NodesCover
<1>4. ASSUME NEW i \in 1 .. N, level = 0
      PROVE  Len(nodes(level)[i]) = 1
  <2>1. Span(0) = 1
    BY PowerProperties DEF Span
  <2>2. NodeCount(0, n) = n /\ N = n
    BY <1>4, <2>1, CeilOne DEF NodeCount
  <2>3. nodes(level)[i] = NodeHash(0, i - 1, n)
    BY <1>2, <1>4 DEF NodesOf
  <2>4. i - 1 \in 0 .. (n - 1)
    BY <2>2
  <2>5. Least(n, ((i - 1) + 1) * 1) - (i - 1) * 1 = 1
    BY <1>0, <2>4 DEF Least
  <2>6. NodeHash(0, i - 1, n) = [j \in 1 .. 1 |-> (i - 1) * 1 + j]
    BY <2>1, <2>5 DEF NodeHash
  <2>7. [j \in 1 .. 1 |-> (i - 1) * 1 + j] \in [1 .. 1 -> Int]
    BY <2>4
  <2> QED
    BY <2>3, <2>6, <2>7, RunType
<1>5. ASSUME NEW i \in 1 .. N, level # 0
      PROVE  MadeOf(nodes(level)[i], nodes(level - 1))
  <2> DEFINE l == level - 1
  <2>1. l \in Nat /\ l + 1 = level
    BY <1>0, <1>5
  <2>2. Span(l) \in Nat \ {0} /\ s = Width * Span(l) /\ n > s
    BY <1>0, <2>1, LevelNumbers, LevelIsThere
  <2>3. n > Span(l)
    <3>1. PICK x \in Nat : x = Span(l)
      BY <2>2
    <3>2. Width * x \in Nat /\ Width * x >= x
      BY <1>0, Z3
    <3> QED
      BY <1>0, <2>2, <3>1, <3>2
  <2>8. l \in TileLevels(n)
    BY <2>1, <2>3, LevelIsThere
  <2>4. nodes(l) = NodesOf(l, n)
    BY <2>8, TilesReadBack
  <2>5. nodes(level)[i] = NodeHash(level, i - 1, n) /\ i - 1 \in 0 .. (NodeCount(level, n) - 1)
    BY <1>1, <1>2 DEF NodesOf
  <2> HIDE DEF l, nodes
  <2>6. MadeOf(NodeHash(l + 1, i - 1, n), NodesOf(l, n))
    BY <2>1, <2>5, NodesMadeOf
  <2>7. MadeOf(nodes(level)[i], nodes(l))
    BY <2>1, <2>4, <2>5, <2>6
  <2> QED
    BY <2>7 DEF l
<1>6. level + 1 \in TileLevels(n) \/ Len(nodes(level)) <= Width
  <2>1. Len(nodes(level)) = N
    <3> DEFINE T == {NodesOf(level, n)[i] : i \in 1 .. N}
               F == NodesOf(level, n)
    <3>1. F \in [1 .. N -> T]
      BY DEF NodesOf
    <3> HIDE DEF T, F, N, nodes
    <3>2. N \in Nat
      BY <1>1
    <3> QED
      BY <1>2, <3>1, <3>2, RunType DEF F
  <2>2. ASSUME N > Width PROVE level + 1 \in TileLevels(n)
    <3>1. Width \in 0 .. (N - 1)
      BY <1>0, <1>1, <2>2
    <3>2. n > Span(level + 1)
      BY <1>0, <1>1, <3>1, LevelNumbers
    <3> QED
      BY <1>0, <3>2, LevelIsThere
  <2> HIDE DEF nodes, N
  <2>3. N \in Nat
    BY <1>1
  <2> QED
    BY <1>0, <2>1, <2>2, <2>3
<1>7. DOMAIN nodes(level) = 1 .. N
  BY <1>2
<1> HIDE DEF nodes, N
<1>8. \A i \in DOMAIN nodes(level) :
          IF level = 0 THEN Len(nodes(level)[i]) = 1 ELSE MadeOf(nodes(level)[i], nodes(level - 1))
  BY <1>4, <1>5, <1>7
<1> QED
  BY <1>3, <1>6, <1>8 DEF nodes

-----------------------------------------------------------------------------
(* The inductive invariant.                                                *)

(* A path that determines its content: bundles, and tiles of leaf hashes.   *)
ContentOf(p) ==
    IF p[1] = "entries" THEN [i \in 1 .. p[4] |-> p[3] * Width + i]
    ELSE [i \in 1 .. p[4] |-> [j \in {1} |-> p[3] * Width + i]]

IsTile0(p) == p[1] = "tile" /\ p[2] = 0
IsPath(p) ==
    /\ p[1] \in {"tile", "entries"} \/ p = CheckpointPath
    /\ p[1] = "entries" => p[4] \in 1 .. Width

(* What a set of files says is true of the log.                             *)
FilesTrue(files) ==
    /\ \A p \in DOMAIN files : IsPath(p)
    /\ \A p \in DOMAIN files : IsTile0(p) => files[p] = ContentOf(p)
    /\ CheckpointPath \in DOMAIN files => files[CheckpointPath] \in 0 .. Size

BundlesTrue(files) == \A p \in DOMAIN files : p[1] = "entries" => files[p] = ContentOf(p)

LogInv ==
    /\ signers \in Seq(Keys) /\ Size <= MaxRecords
    /\ DOMAIN registry \subseteq Keys
    /\ \A k \in DOMAIN registry : registry[k] \in 1 .. MaxRecords
    /\ asked \in 0 .. Size
    /\ tampers \in Nat

DirInv ==
    /\ FilesTrue(dir)
    /\ tampers = 0 => BundlesTrue(dir)

ExportInv ==
    \/ export = NoExport
    \/ export = [pc |-> "entries", checkpoint |-> export.checkpoint, clean |-> export.clean]
       /\ export.checkpoint \in 0 .. Size
    \/ /\ export = [pc |-> export.pc, checkpoint |-> export.checkpoint, clean |-> export.clean,
                    files |-> export.files, size |-> export.size, todo |-> export.todo]
       /\ export.pc \in {"write", "done"}
       /\ export.todo \subseteq DOMAIN export.files
       /\ FilesTrue(export.files) /\ BundlesTrue(export.files)

ReceiptInv ==
    \/ receipt = NoReceipt
    \/ \E n \in 1 .. MaxRecords, size \in 1 .. MaxRecords, key \in Keys :
          /\ n <= size
          /\ receipt = [record |-> n, key |-> key,
                        cose |-> IssueInclusionReceipt(Leaves(size), LeafIndex(n), key)]

PublicationInv == LogInv /\ DirInv /\ ExportInv /\ ReceiptInv

-----------------------------------------------------------------------------
(* Facts about files and receipts.                                         *)

(* An entry bundle's path says what is in it.                               *)
LEMMA BundleContent ==
    ASSUME NEW n \in Nat, NEW p \in EntryPaths(n)
    PROVE  /\ p[1] = "entries" /\ p[4] \in 1 .. Width
           /\ BuildEntryBundles(n)[p] = ContentOf(p)
<1>1. PICK t \in 0 .. (Ceil(n, Width) - 1) : p = <<"entries", 0, t, Least(Width, n - t * Width)>>
  BY DEF EntryPaths
<1>2. t \in Nat /\ t * Width < n /\ t * Width \in Nat
  BY Numbers, CeilProperties
<1>3. p[1] = "entries" /\ p[3] = t /\ p[4] = Least(Width, n - t * Width)
  BY <1>1
<1> DEFINE b == t * Width
<1>4. b \in Nat /\ b < n
  BY <1>2
<1> HIDE DEF b
<1>5. Least(Width, n - b) \in 1 .. Width /\ Least(Least(Width, n - b), n - b) = Least(Width, n - b)
  BY <1>4, Numbers DEF Least
<1> QED
  BY <1>3, <1>5 DEF BuildEntryBundles, ContentOf, b

(* So does the path of a tile of leaf hashes.                               *)
LEMMA Tile0Content ==
    ASSUME NEW n \in Nat, NEW p \in TilePaths(n), IsTile0(p)
    PROVE  BuildHashTiles(n)[p] = ContentOf(p)
<1>1. PICK level \in TileLevels(n) : \E t \in 0 .. (Ceil(NodeCount(level, n), Width) - 1) :
          p = <<"tile", level, t, Least(Width, NodeCount(level, n) - t * Width)>>
  BY DEF TilePaths
<1>2. PICK t \in 0 .. (Ceil(NodeCount(level, n), Width) - 1) :
          p = <<"tile", level, t, Least(Width, NodeCount(level, n) - t * Width)>>
  BY <1>1
<1>3. level = 0 /\ p[1] = "tile" /\ p[2] = 0 /\ p[3] = t
      /\ p[4] = Least(Width, NodeCount(level, n) - t * Width)
  BY <1>2 DEF IsTile0
<1>4. Span(0) = 1 /\ NodeCount(0, n) = n
  BY CeilOne, PowerProperties DEF NodeCount, Span
<1>5. t \in Nat /\ t * Width < n /\ t * Width \in Nat
  BY <1>3, <1>4, Numbers, CeilProperties
<1> DEFINE b == t * Width
<1>6. b \in Nat /\ b < n /\ p[4] = Least(Width, n - b)
  BY <1>3, <1>4, <1>5
<1>7. BuildHashTiles(n)[p] = [i \in 1 .. p[4] |-> NodeHash(0, b + i - 1, n)]
  BY <1>3 DEF BuildHashTiles
<1> HIDE DEF b
<1>8. ASSUME NEW i \in 1 .. p[4]
      PROVE  NodeHash(0, b + i - 1, n) = [j \in {1} |-> b + i]
  <2>1. i \in Nat /\ i >= 1 /\ b + i <= n
    BY <1>6, Numbers DEF Least
  <2>2. Least(n, (b + i - 1 + 1) * 1) - (b + i - 1) * 1 = 1
    BY <1>6, <2>1 DEF Least
  <2>3. 1 .. 1 = {1}
    OBVIOUS
  <2>4. \A j \in {1} : (b + i - 1) * 1 + j = b + i
    BY <1>6, <2>1
  <2> QED
    BY <1>4, <2>2, <2>3, <2>4 DEF NodeHash
<1> QED
  BY <1>3, <1>7, <1>8 DEF ContentOf, b

(* What static_log builds is true of the log it was built from.             *)
LEMMA StaticLogTrue ==
    ASSUME NEW n \in Nat, NEW cp \in 0 .. Size
    PROVE  FilesTrue(StaticLog(n, cp)) /\ BundlesTrue(StaticLog(n, cp))
<1> DEFINE files == StaticLog(n, cp)
<1>1. DOMAIN files = TilePaths(n) \cup EntryPaths(n) \cup {CheckpointPath}
  BY DEF StaticLog
<1>2. ASSUME NEW p \in TilePaths(n)
      PROVE  /\ p[1] = "tile" /\ files[p] = BuildHashTiles(n)[p]
  <2>1. p[1] = "tile"
    BY DEF TilePaths
  <2> QED
    BY <2>1 DEF StaticLog
<1>3. ASSUME NEW p \in EntryPaths(n)
      PROVE  files[p] = BuildEntryBundles(n)[p]
  BY BundleContent DEF StaticLog
<1>4. CheckpointPath[1] = "checkpoint" /\ files[CheckpointPath] = cp
  BY DEF StaticLog, CheckpointPath
<1> HIDE DEF files
<1> QED
  BY <1>1, <1>2, <1>3, <1>4, BundleContent, Tile0Content
     DEF FilesTrue, BundlesTrue, IsPath, IsTile0, files

LEMMA LeavesType ==
    ASSUME NEW n \in Nat, n <= MaxRecords
    PROVE  /\ Leaves(n) \in Seq(0 .. MaxRecords) /\ Len(Leaves(n)) = n
           /\ \A i \in 1 .. n : Leaves(n)[i] = i
<1>1. Leaves(n) \in [1 .. n -> 0 .. MaxRecords]
  BY Numbers DEF Leaves
<1> QED
  BY <1>1, SeqDef, LenProperties DEF Leaves

(* The content of a path does not depend on the state.                      *)
LEMMA FilesStay ==
    ASSUME NEW files, FilesTrue(files), Size <= Size', Size \in Nat, Size' \in Nat
    PROVE  /\ \A p \in DOMAIN files : IsPath(p)
           /\ \A p \in DOMAIN files : IsTile0(p) => files[p] = ContentOf(p)
           /\ CheckpointPath \in DOMAIN files => files[CheckpointPath] \in 0 .. Size'
BY DEF FilesTrue

-----------------------------------------------------------------------------
(* The invariant is inductive.                                             *)

LEMMA InitInv == Init => PublicationInv
<1> SUFFICES ASSUME Init PROVE PublicationInv
  OBVIOUS
<1>1. Size = 0 /\ DOMAIN registry = {} /\ DOMAIN dir = {}
  BY DEF Init, Size
<1> QED
  BY <1>1, Numbers, EmptySeq
     DEF Init, PublicationInv, LogInv, DirInv, FilesTrue, BundlesTrue, ExportInv, ReceiptInv

LEMMA LogStep == LogInv /\ [Next]_vars => LogInv' /\ Size \in Nat /\ Size' \in Nat /\ Size <= Size'
<1> SUFFICES ASSUME LogInv, [Next]_vars
             PROVE  LogInv' /\ Size \in Nat /\ Size' \in Nat /\ Size <= Size'
  OBVIOUS
<1>0. Size \in Nat
  BY LenProperties DEF LogInv, Size
<1>1. ASSUME NEW k \in Keys, AppendRecord(k)
      PROVE  LogInv' /\ Size' \in Nat /\ Size <= Size'
  <2>1. /\ signers' = Append(signers, k) /\ Size < MaxRecords
        /\ UNCHANGED <<registry, tampers, asked>>
    BY <1>1 DEF AppendRecord, exportVars, receiptVars
  <2>2. signers' \in Seq(Keys) /\ Size' = Size + 1
    BY <2>1, AppendProperties DEF LogInv, Size
  <2> QED
    BY <1>0, <2>1, <2>2, Numbers DEF LogInv
<1>2. ASSUME NEW k \in Keys, NEW n \in 1 .. MaxRecords, Revoke(k, n)
      PROVE  LogInv' /\ Size' = Size
  <2>1. registry' = Put(registry, k, RevokedAt(k, n)) /\ UNCHANGED <<signers, tampers, asked>>
    BY <1>2 DEF Revoke, exportVars, receiptVars
  <2>2. RevokedAt(k, n) \in 1 .. MaxRecords
    BY Numbers DEF RevokedAt, Least, LogInv
  <2>3. DOMAIN registry' \subseteq Keys
        /\ \A j \in DOMAIN registry' : registry'[j] \in 1 .. MaxRecords
    BY <2>1, <2>2 DEF Put, LogInv
  <2> QED
    BY <2>1, <2>3 DEF LogInv, Size
<1>3. ASSUME ExportCheckpoint \/ ExportEntries \/ WriteFile \/ ExportEnds \/ UNCHANGED vars
      PROVE  LogInv' /\ Size' = Size
  <2>1. UNCHANGED <<signers, registry, asked, tampers>>
    BY <1>3 DEF ExportCheckpoint, ExportEntries, WriteFile, ExportEnds, vars, receiptVars
  <2> QED
    BY <2>1 DEF LogInv, Size
<1>4. ASSUME TamperBundle PROVE LogInv' /\ Size' = Size
  <2>1. UNCHANGED <<signers, registry, asked>> /\ tampers' = tampers + 1
    BY <1>4 DEF TamperBundle, receiptVars
  <2> QED
    BY <2>1 DEF LogInv, Size
<1>5. ASSUME NEW n \in 1 .. Size, ReceiptIndex(n) PROVE LogInv' /\ Size' = Size
  <2>1. UNCHANGED <<signers, registry, tampers>> /\ asked' = n
    BY <1>5 DEF ReceiptIndex, exportVars
  <2> QED
    BY <1>0, <2>1 DEF LogInv, Size
<1>6. ASSUME NEW k \in Keys, ReceiptEntries(k) PROVE LogInv' /\ Size' = Size
  <2>1. UNCHANGED <<signers, registry, tampers>> /\ asked' = 0
    BY <1>6 DEF ReceiptEntries, exportVars
  <2> QED
    BY <1>0, <2>1 DEF LogInv, Size
<1> QED
  BY <1>0, <1>1, <1>2, <1>3, <1>4, <1>5, <1>6 DEF Next

(* The exporter holds files that are true of the log.                       *)
LEMMA ExportStep == LogInv /\ ExportInv /\ [Next]_vars => ExportInv'
<1> SUFFICES ASSUME LogInv, ExportInv, [Next]_vars PROVE ExportInv'
  OBVIOUS
<1>0. Size \in Nat /\ Size' \in Nat /\ Size <= Size'
  BY LogStep
<1>1. ASSUME NEW files, FilesTrue(files) PROVE FilesTrue(files)'
  BY <1>0, <1>1, FilesStay DEF FilesTrue, IsPath, IsTile0, ContentOf
<1>2. ASSUME NEW files, BundlesTrue(files) PROVE BundlesTrue(files)'
  BY <1>2 DEF BundlesTrue, ContentOf
<1>3. ASSUME export' = export PROVE ExportInv'
  <2>1. CASE export = NoExport
    BY <1>3, <2>1 DEF ExportInv, NoExport
  <2>2. CASE export = [pc |-> "entries", checkpoint |-> export.checkpoint, clean |-> export.clean]
             /\ export.checkpoint \in 0 .. Size
    BY <1>0, <1>3, <2>2 DEF ExportInv
  <2>3. CASE /\ export = [pc |-> export.pc, checkpoint |-> export.checkpoint,
                          clean |-> export.clean, files |-> export.files,
                          size |-> export.size, todo |-> export.todo]
             /\ export.pc \in {"write", "done"}
             /\ export.todo \subseteq DOMAIN export.files
             /\ FilesTrue(export.files) /\ BundlesTrue(export.files)
    <3>1. PICK files : files = export.files
      OBVIOUS
    <3>2. FilesTrue(files)' /\ BundlesTrue(files)'
      BY <1>1, <1>2, <2>3, <3>1
    <3>3. FilesTrue(export.files)' /\ BundlesTrue(export.files)'
      BY <1>3, <3>1, <3>2 DEF FilesTrue, BundlesTrue, IsPath, IsTile0, ContentOf
    <3> QED
      BY <1>3, <2>3, <3>3 DEF ExportInv
  <2> QED
    BY <2>1, <2>2, <2>3 DEF ExportInv
<1>4. ASSUME ExportCheckpoint PROVE ExportInv'
  <2>1. export' = [pc |-> "entries", checkpoint |-> Size, clean |-> dir = <<>>]
    BY <1>4 DEF ExportCheckpoint
  <2> QED
    BY <1>0, <2>1 DEF ExportInv
<1>5. ASSUME ExportEntries PROVE ExportInv'
  <2>1. /\ export.pc = "entries"
        /\ export' = [pc |-> "write", checkpoint |-> export.checkpoint, clean |-> export.clean,
                      files |-> StaticLog(Size, export.checkpoint), size |-> Size,
                      todo |-> DOMAIN StaticLog(Size, export.checkpoint)]
        /\ Size' = Size
    BY <1>5 DEF ExportEntries, Size
  <2>2. export.checkpoint \in 0 .. Size
    BY <2>1 DEF ExportInv, NoExport
  <2>3. PICK files : files = StaticLog(Size, export.checkpoint)
    OBVIOUS
  <2>4. FilesTrue(files)' /\ BundlesTrue(files)'
    BY <1>0, <1>1, <1>2, <2>2, <2>3, StaticLogTrue
  <2>5. /\ export' = [pc |-> "write", checkpoint |-> export'.checkpoint, clean |-> export'.clean,
                      files |-> files, size |-> export'.size, todo |-> DOMAIN files]
        /\ export'.files = files /\ export'.todo = DOMAIN files /\ export'.pc = "write"
    BY <2>1, <2>3
  <2>6. FilesTrue(export.files)' /\ BundlesTrue(export.files)'
    BY <2>4, <2>5 DEF FilesTrue, BundlesTrue, IsPath, IsTile0, ContentOf
  <2> QED
    BY <2>5, <2>6 DEF ExportInv
<1>6. ASSUME WriteFile PROVE ExportInv'
  <2>1. PICK p \in export.todo :
           export' = [export EXCEPT !.todo = @ \ {p},
                                    !.pc = IF export.todo = {p} THEN "done" ELSE "write"]
    BY <1>6 DEF WriteFile
  <2>2. /\ export = [pc |-> export.pc, checkpoint |-> export.checkpoint, clean |-> export.clean,
                     files |-> export.files, size |-> export.size, todo |-> export.todo]
        /\ export.todo \subseteq DOMAIN export.files
        /\ FilesTrue(export.files) /\ BundlesTrue(export.files)
    BY <1>6 DEF WriteFile, ExportInv, NoExport
  <2>3. PICK files, pc, todo : /\ files = export.files /\ todo = export.todo \ {p}
                               /\ pc = IF export.todo = {p} THEN "done" ELSE "write"
    OBVIOUS
  <2>4. /\ export' = [pc |-> pc, checkpoint |-> export.checkpoint, clean |-> export.clean,
                      files |-> files, size |-> export.size, todo |-> todo]
    BY <2>1, <2>2, <2>3
  <2>5. FilesTrue(files)' /\ BundlesTrue(files)'
    BY <1>1, <1>2, <2>2, <2>3
  <2>6. FilesTrue(export.files)' /\ BundlesTrue(export.files)'
    BY <2>4, <2>5 DEF FilesTrue, BundlesTrue, IsPath, IsTile0, ContentOf
  <2>7. pc \in {"write", "done"} /\ todo \subseteq DOMAIN files
    BY <2>2, <2>3
  <2> QED
    BY <2>4, <2>6, <2>7 DEF ExportInv
<1>7. ASSUME ExportEnds PROVE ExportInv'
  BY <1>7 DEF ExportEnds, ExportInv, NoExport
<1>8. ASSUME \/ TamperBundle \/ UNCHANGED vars
             \/ \E k \in Keys : AppendRecord(k) \/ ReceiptEntries(k)
             \/ \E k \in Keys, n \in 1 .. MaxRecords : Revoke(k, n)
             \/ \E n \in 1 .. Size : ReceiptIndex(n)
      PROVE  ExportInv'
  <2>1. export' = export
    BY <1>8 DEF TamperBundle, vars, AppendRecord, ReceiptEntries, Revoke, ReceiptIndex, exportVars
  <2> QED
    BY <1>3, <2>1
<1> QED
  BY <1>4, <1>5, <1>6, <1>7, <1>8 DEF Next

(* So does the directory, but for bundles that were changed there.          *)
LEMMA DirStep == LogInv /\ DirInv /\ ExportInv /\ [Next]_vars => DirInv'
<1> SUFFICES ASSUME LogInv, DirInv, ExportInv, [Next]_vars PROVE DirInv'
  OBVIOUS
<1>0. Size \in Nat /\ Size' \in Nat /\ Size <= Size'
  BY LogStep
<1>1. ASSUME NEW files, FilesTrue(files) PROVE FilesTrue(files)'
  BY <1>0, <1>1, FilesStay DEF FilesTrue, IsPath, IsTile0, ContentOf
<1>2. ASSUME NEW files, BundlesTrue(files) PROVE BundlesTrue(files)'
  BY <1>2 DEF BundlesTrue, ContentOf
<1>3. ASSUME NEW files, dir' = files, FilesTrue(files),
             tampers' = 0 => BundlesTrue(files)
      PROVE  DirInv'
  <2>1. FilesTrue(files)' /\ (tampers' = 0 => BundlesTrue(files)')
    BY <1>1, <1>2, <1>3
  <2> QED
    BY <1>3, <2>1 DEF DirInv, FilesTrue, BundlesTrue, IsPath, IsTile0, ContentOf
<1>4. ASSUME WriteFile PROVE DirInv'
  <2>1. PICK p \in export.todo : dir' = Put(dir, p, export.files[p])
    BY <1>4 DEF WriteFile
  <2>2. /\ p \in DOMAIN export.files
        /\ FilesTrue(export.files) /\ BundlesTrue(export.files) /\ tampers' = tampers
    BY <1>4 DEF WriteFile, ExportInv, NoExport
  <2> DEFINE files == Put(dir, p, export.files[p])
  <2>3. /\ DOMAIN files = DOMAIN dir \cup {p} /\ files[p] = export.files[p]
        /\ \A q \in DOMAIN dir : q # p => files[q] = dir[q]
    BY DEF Put
  <2> HIDE DEF files
  <2>4. FilesTrue(files)
    BY <2>2, <2>3 DEF DirInv, FilesTrue
  <2>5. tampers' = 0 => BundlesTrue(files)
    BY <2>2, <2>3 DEF DirInv, BundlesTrue
  <2> QED
    BY <1>3, <2>1, <2>4, <2>5 DEF files
<1>5. ASSUME TamperBundle PROVE DirInv'
  <2>1. PICK p \in BundlePaths(dir) : \E i \in DOMAIN dir[p] :
           dir' = [dir EXCEPT ![p][i] = ForeignLeaf]
    BY <1>5 DEF TamperBundle
  <2>2. tampers' # 0
    BY <1>5 DEF TamperBundle, LogInv
  <2>3. PICK i \in DOMAIN dir[p] : dir' = [dir EXCEPT ![p][i] = ForeignLeaf]
    BY <2>1
  <2> DEFINE files == [dir EXCEPT ![p][i] = ForeignLeaf]
  <2>4. DOMAIN files = DOMAIN dir /\ \A q \in DOMAIN dir : q # p => files[q] = dir[q]
    OBVIOUS
  <2>5. p[1] = "entries" /\ ~IsTile0(p) /\ p # CheckpointPath
    BY DEF BundlePaths, IsTile0, CheckpointPath
  <2> HIDE DEF files
  <2>6. FilesTrue(files)
    BY <2>4, <2>5 DEF DirInv, FilesTrue
  <2> QED
    BY <1>3, <2>2, <2>3, <2>6 DEF files
<1>6. ASSUME \/ ExportCheckpoint \/ ExportEntries \/ ExportEnds \/ UNCHANGED vars
             \/ \E k \in Keys : AppendRecord(k) \/ ReceiptEntries(k)
             \/ \E k \in Keys, n \in 1 .. MaxRecords : Revoke(k, n)
             \/ \E n \in 1 .. Size : ReceiptIndex(n)
      PROVE  DirInv'
  <2>1. dir' = dir /\ tampers' = tampers
    BY <1>6 DEF ExportCheckpoint, ExportEntries, ExportEnds, vars, AppendRecord, ReceiptEntries,
                Revoke, ReceiptIndex, exportVars
  <2> QED
    BY <1>3, <2>1 DEF DirInv
<1> QED
  BY <1>4, <1>5, <1>6 DEF Next

LEMMA ReceiptStep == LogInv /\ ReceiptInv /\ [Next]_vars => ReceiptInv'
<1> SUFFICES ASSUME LogInv, ReceiptInv, [Next]_vars PROVE ReceiptInv'
  OBVIOUS
<1>1. ASSUME receipt' = receipt PROVE ReceiptInv'
  BY <1>1 DEF ReceiptInv, NoReceipt
<1>2. ASSUME NEW n \in 1 .. Size, ReceiptIndex(n) PROVE ReceiptInv'
  BY <1>2 DEF ReceiptIndex, ReceiptInv, NoReceipt
<1>3. ASSUME NEW k \in Keys, ReceiptEntries(k) PROVE ReceiptInv'
  <2>1. asked \in 1 .. MaxRecords /\ Size \in 1 .. MaxRecords /\ asked <= Size
    BY <1>3, LenProperties, Numbers DEF ReceiptEntries, LogInv, Size
  <2>2. receipt' = [record |-> asked, key |-> k,
                    cose |-> IssueInclusionReceipt(Leaves(Size), LeafIndex(asked), k)]
    BY <1>3 DEF ReceiptEntries
  <2>3. PICK n \in 1 .. MaxRecords, size \in 1 .. MaxRecords : n = asked /\ size = Size
    BY <2>1
  <2>4. receipt' = [record |-> n, key |-> k,
                    cose |-> IssueInclusionReceipt(Leaves(size), LeafIndex(n), k)]
    BY <2>2, <2>3
  <2> QED
    BY <2>1, <2>3, <2>4 DEF ReceiptInv
<1>4. ASSUME \/ ExportCheckpoint \/ ExportEntries \/ WriteFile \/ ExportEnds
             \/ TamperBundle \/ UNCHANGED vars
             \/ \E k \in Keys : AppendRecord(k)
             \/ \E k \in Keys, n \in 1 .. MaxRecords : Revoke(k, n)
      PROVE  ReceiptInv'
  <2>1. receipt' = receipt
    BY <1>4 DEF ExportCheckpoint, ExportEntries, WriteFile, ExportEnds, TamperBundle, vars,
                AppendRecord, Revoke, receiptVars
  <2> QED
    BY <1>1, <2>1
<1> QED
  BY <1>2, <1>3, <1>4 DEF Next

-----------------------------------------------------------------------------
(* Theorems.                                                               *)

(* The invariant behind the theorems of this module: the log, the files of  *)
(* the directory and of the exporter, and the receipts of the chain.        *)
THEOREM InvariantHolds == Spec => []PublicationInv
<1>1. Init => PublicationInv
  BY InitInv
<1>2. PublicationInv /\ [Next]_vars => PublicationInv'
  BY LogStep, ExportStep, DirStep, ReceiptStep DEF PublicationInv
<1> QED
  BY <1>1, <1>2, PTL DEF Spec

(* verify_leaf_in_static_log and scitt_receipt: whoever verifies a leaf or  *)
(* a receipt verifies a record of the log, whatever exports died, raced     *)
(* with appends or were changed by the host.                                *)
THEOREM VerifiedIsLoggedHolds == Spec => []VerifiedIsLogged
<1>1. PublicationInv => TypeOK
  BY DEF PublicationInv, LogInv, DirInv, FilesTrue, IsPath, ExportInv, NoExport, TypeOK
<1>2. PublicationInv => MonitorSound
  <2> SUFFICES ASSUME PublicationInv, NEW order, NEW leaf,
                      VerifyLeafInStaticLog(dir, leaf, order)
               PROVE  leaf \in 1 .. dir[CheckpointPath] /\ dir[CheckpointPath] <= Size
    BY DEF MonitorSound
  <2> DEFINE E == EntriesFromStaticLog(dir, order)
  <2>1. CheckpointPath \in DOMAIN dir /\ dir[CheckpointPath] \in 0 .. Size
    BY DEF VerifyLeafInStaticLog, PublicationInv, DirInv, FilesTrue
  <2>2. E = Leaves(dir[CheckpointPath]) /\ \E i \in DOMAIN E : E[i] = leaf
    BY DEF VerifyLeafInStaticLog
  <2>3. Size \in Nat
    BY LenProperties DEF PublicationInv, LogInv, Size
  <2> HIDE DEF E
  <2> QED
    BY <2>1, <2>2, <2>3 DEF Leaves
<1>3. PublicationInv => ChainReceiptBinds
  <2> SUFFICES ASSUME PublicationInv, receipt.record # 0, NEW leaf \in 0 .. MaxRecords
               PROVE  VerifyReceipt(leaf, receipt.cose, receipt.key) <=> leaf = receipt.record
    BY DEF ChainReceiptBinds
  <2>1. PICK n \in 1 .. MaxRecords, size \in 1 .. MaxRecords, key \in Keys :
          /\ n <= size
          /\ receipt = [record |-> n, key |-> key,
                        cose |-> IssueInclusionReceipt(Leaves(size), LeafIndex(n), key)]
    BY DEF PublicationInv, ReceiptInv, NoReceipt
  <2>2. /\ Leaves(size) \in Seq(0 .. MaxRecords) /\ Len(Leaves(size)) = size
        /\ Leaves(size)[n] = n
    BY <2>1, LeavesType, Numbers
  <2>3. LeafIndex(n) \in 0 .. Len(Leaves(size)) - 1 /\ LeafIndex(n) + 1 = n
    BY <2>1, <2>2, Numbers DEF LeafIndex
  <2>4. VerifyReceipt(leaf, IssueInclusionReceipt(Leaves(size), LeafIndex(n), key), key)
           <=> leaf = Leaves(size)[LeafIndex(n) + 1]
    <3> DEFINE l == Leaves(size)
               i == LeafIndex(n)
               S == 0 .. MaxRecords
    <3>1. l \in Seq(S) /\ i \in 0 .. Len(l) - 1 /\ leaf \in S
      BY <2>2, <2>3
    <3> HIDE DEF l, i, S
    <3>2. VerifyReceipt(leaf, IssueInclusionReceipt(l, i, key), key)
             <=> key = key /\ leaf = l[i + 1]
      BY <3>1, InclusionReceiptBinds
    <3> QED
      BY <3>2 DEF l, i
  <2>5. receipt.cose = IssueInclusionReceipt(Leaves(size), LeafIndex(n), key)
        /\ receipt.key = key /\ receipt.record = n
    BY <2>1
  <2> QED
    BY <2>2, <2>3, <2>4, <2>5
<1>4. PublicationInv => VerifiedIsLogged
  BY <1>1, <1>2, <1>3 DEF VerifiedIsLogged
<1> QED
  BY <1>4, InvariantHolds, PTL

(* checkpoint_trust_issues and verify_signatures draw the line at the same  *)
(* record: no accepted checkpoint covers a record of its signer that is     *)
(* rejected as revoked.                                                     *)
THEOREM AcceptedCoversNoRevokedHolds == Spec => []AcceptedCoversNoRevoked
<1>1. PublicationInv => AcceptedCoversNoRevoked
  <2> SUFFICES ASSUME PublicationInv, NEW policy \in Policies, policy.keys # {},
                      NEW cp \in Checkpoints(policy), CheckpointTrustIssues(cp, policy) = {}
               PROVE  /\ cp.signer \in policy.keys
                      /\ \A n \in 1 .. cp.count : signers[n] = cp.signer => ~RecordRejected(n)
    BY DEF AcceptedCoversNoRevoked
  <2>1. cp.count \in 1 .. Size /\ Size \in Nat
    BY LenProperties DEF Checkpoints, PublicationInv, LogInv, Size
  <2>2. SignedCheckpointIssues(cp, policy) = {} /\ ~CheckpointRevoked(cp.signer, cp.count)
    BY DEF CheckpointTrustIssues
  <2>3. cp.signer \in policy.keys
    BY <2>2 DEF SignedCheckpointIssues
  <2>4. ASSUME NEW n \in 1 .. cp.count, signers[n] = cp.signer, RecordRejected(n)
        PROVE  FALSE
    <3>1. cp.signer \in DOMAIN registry /\ n >= registry[cp.signer]
      BY <2>4 DEF RecordRejected, IsRevokedAtSeq
    <3>2. registry[cp.signer] \in Nat
      BY <3>1, Numbers DEF PublicationInv, LogInv
    <3>3. cp.count >= registry[cp.signer]
      BY <2>1, <3>1, <3>2
    <3> QED
      BY <2>2, <3>1, <3>3 DEF CheckpointRevoked, IsRevokedAtSeq
  <2> QED
    BY <2>3, <2>4
<1> QED
  BY <1>1, InvariantHolds, PTL

(* revoke keeps the earliest sequence number, and a path of an entry bundle *)
(* or of a tile of leaf hashes has one content for ever: neither a later    *)
(* revocation nor a later export takes back what a reader was told.         *)
THEOREM NothingTakenBackHolds == Spec => NothingTakenBack
<1> DEFINE Immutable ==
             tampers' = tampers => \A p \in DOMAIN dir :
                (p[1] = "entries" /\ tampers = 0) \/ (p[1] = "tile" /\ p[2] = 0) =>
                    dir'[p] = dir[p]
           Widens ==
             \A k \in Keys, n \in 1 .. MaxRecords :
                IsRevokedAtSeq(k, n) => IsRevokedAtSeq(k, n)'
<1>1. PublicationInv /\ [Next]_vars => Immutable
  <2> SUFFICES ASSUME PublicationInv, [Next]_vars, tampers' = tampers, NEW p \in DOMAIN dir,
                      (p[1] = "entries" /\ tampers = 0) \/ (p[1] = "tile" /\ p[2] = 0)
               PROVE  dir'[p] = dir[p]
    OBVIOUS
  <2>1. dir[p] = ContentOf(p)
    BY DEF PublicationInv, DirInv, FilesTrue, BundlesTrue, IsTile0
  <2>2. CASE WriteFile
    <3>1. PICK q \in export.todo : dir' = Put(dir, q, export.files[q])
      BY <2>2 DEF WriteFile
    <3>2. q \in DOMAIN export.files /\ FilesTrue(export.files) /\ BundlesTrue(export.files)
      BY <2>2 DEF WriteFile, PublicationInv, ExportInv, NoExport
    <3>3. p = q => export.files[q] = ContentOf(p)
      BY <3>2 DEF FilesTrue, BundlesTrue, IsTile0
    <3> QED
      BY <2>1, <3>1, <3>3 DEF Put
  <2>3. CASE TamperBundle
    BY <2>3 DEF TamperBundle, PublicationInv, LogInv
  <2>4. CASE ~WriteFile /\ ~TamperBundle
    BY <2>4 DEF Next, vars, AppendRecord, Revoke, ExportCheckpoint, ExportEntries, ExportEnds,
                ReceiptIndex, ReceiptEntries, exportVars
  <2> QED
    BY <2>2, <2>3, <2>4
<1>2. PublicationInv /\ [Next]_vars => Widens
  <2> SUFFICES ASSUME PublicationInv, [Next]_vars, NEW k \in Keys, NEW n \in 1 .. MaxRecords,
                      IsRevokedAtSeq(k, n)
               PROVE  IsRevokedAtSeq(k, n)'
    OBVIOUS
  <2>1. k \in DOMAIN registry /\ n >= registry[k] /\ registry[k] \in Nat /\ n \in Nat
    BY Numbers DEF IsRevokedAtSeq, PublicationInv, LogInv
  <2>2. CASE \E j \in Keys, at \in 1 .. MaxRecords : Revoke(j, at)
    <3>1. PICK j \in Keys, at \in 1 .. MaxRecords : Revoke(j, at)
      BY <2>2
    <3>2. registry' = Put(registry, j, RevokedAt(j, at)) /\ at \in Nat
      BY <3>1, Numbers DEF Revoke
    <3>3. CASE j = k
      <4>1. RevokedAt(j, at) <= registry[k]
        BY <2>1, <3>2, <3>3 DEF RevokedAt, Least
      <4>2. RevokedAt(j, at) \in Nat
        BY <2>1, <3>2, <3>3 DEF RevokedAt, Least
      <4>3. k \in DOMAIN registry' /\ registry'[k] = RevokedAt(j, at)
        BY <3>2, <3>3 DEF Put
      <4> QED
        BY <2>1, <4>1, <4>2, <4>3 DEF IsRevokedAtSeq
    <3>4. CASE j # k
      BY <2>1, <3>2, <3>4 DEF IsRevokedAtSeq, Put
    <3> QED
      BY <3>3, <3>4
  <2>3. CASE ~(\E j \in Keys, at \in 1 .. MaxRecords : Revoke(j, at))
    <3>1. registry' = registry
      BY <2>3 DEF Next, vars, AppendRecord, ExportCheckpoint, ExportEntries, WriteFile, ExportEnds,
                  TamperBundle, ReceiptIndex, ReceiptEntries
    <3> QED
      BY <2>1, <3>1 DEF IsRevokedAtSeq
  <2> QED
    BY <2>2, <2>3
<1> QED
  BY <1>1, <1>2, InvariantHolds, PTL
     DEF Spec, NothingTakenBack, BundlesImmutable, RevocationOnlyWidens

-----------------------------------------------------------------------------
(* What the exporter has written: the files are those of the entries it     *)
(* read; an export that began in an empty directory has written exactly the *)
(* files it has no more to do, and all of them when it is done.             *)
WholeInv ==
    export.pc \in {"write", "done"} =>
        /\ export.size \in Nat
        /\ export.files = StaticLog(export.size, export.checkpoint)
        /\ export.pc = "done" => export.todo = {}

CleanInv ==
    (export.pc # "idle" /\ export.clean) =>
        IF export.pc = "entries" THEN DOMAIN dir = {}
        ELSE /\ DOMAIN dir = DOMAIN export.files \ export.todo
             /\ tampers = 0 => \A p \in DOMAIN dir : dir[p] = export.files[p]

LEMMA WholeStep ==
    PublicationInv /\ WholeInv /\ CleanInv /\ [Next]_vars => (WholeInv /\ CleanInv)'
<1> SUFFICES ASSUME PublicationInv, WholeInv, CleanInv, [Next]_vars
             PROVE  WholeInv' /\ CleanInv'
  OBVIOUS
<1>0. Size \in Nat /\ tampers \in Nat
  BY LogStep DEF PublicationInv, LogInv
<1>1. ASSUME ExportCheckpoint PROVE WholeInv' /\ CleanInv'
  <2>1. /\ export' = [pc |-> "entries", checkpoint |-> Size, clean |-> dir = <<>>]
        /\ dir' = dir
    BY <1>1 DEF ExportCheckpoint
  <2>2. export'.pc = "entries" /\ export'.clean = (dir = <<>>)
    BY <2>1
  <2>3. dir = <<>> => DOMAIN dir = {}
    OBVIOUS
  <2> QED
    BY <2>1, <2>2, <2>3 DEF WholeInv, CleanInv
<1>2. ASSUME ExportEntries PROVE WholeInv' /\ CleanInv'
  <2>1. /\ export.pc = "entries" /\ dir' = dir
        /\ export' = [pc |-> "write", checkpoint |-> export.checkpoint, clean |-> export.clean,
                      files |-> StaticLog(Size, export.checkpoint), size |-> Size,
                      todo |-> DOMAIN StaticLog(Size, export.checkpoint)]
    BY <1>2 DEF ExportEntries
  <2>3. Size \in Nat
    BY <1>0
  <2>4. /\ export'.pc = "write" /\ export'.checkpoint = export.checkpoint
        /\ export'.clean = export.clean /\ export'.size = Size
        /\ export'.files = StaticLog(Size, export.checkpoint)
        /\ export'.todo = DOMAIN export'.files
    BY <2>1
  <2>5. export.clean => DOMAIN dir = {}
    BY <2>1 DEF CleanInv
  <2> QED
    BY <2>1, <2>3, <2>4, <2>5 DEF WholeInv, CleanInv
<1>3. ASSUME WriteFile PROVE WholeInv' /\ CleanInv'
  <2>1. PICK p \in export.todo :
          /\ dir' = Put(dir, p, export.files[p])
          /\ export' = [export EXCEPT !.todo = @ \ {p},
                                      !.pc = IF export.todo = {p} THEN "done" ELSE "write"]
    BY <1>3 DEF WriteFile
  <2>2. export.pc = "write" /\ tampers' = tampers
    BY <1>3 DEF WriteFile
  <2>3. /\ export = [pc |-> export.pc, checkpoint |-> export.checkpoint, clean |-> export.clean,
                     files |-> export.files, size |-> export.size, todo |-> export.todo]
        /\ export.todo \subseteq DOMAIN export.files
    BY <2>2 DEF PublicationInv, ExportInv, NoExport
  <2>4. /\ export'.pc = (IF export.todo = {p} THEN "done" ELSE "write")
        /\ export'.checkpoint = export.checkpoint /\ export'.clean = export.clean
        /\ export'.files = export.files /\ export'.size = export.size
        /\ export'.todo = export.todo \ {p}
    BY <2>1, <2>3
  <2>5. WholeInv'
    BY <2>2, <2>4 DEF WholeInv
  <2>6. CleanInv'
    <3> SUFFICES ASSUME export.clean
                 PROVE  /\ DOMAIN dir' = DOMAIN export.files \ (export.todo \ {p})
                        /\ tampers = 0 => \A q \in DOMAIN dir' : dir'[q] = export.files[q]
      BY <2>2, <2>4 DEF CleanInv
    <3>1. /\ DOMAIN dir' = DOMAIN dir \cup {p} /\ dir'[p] = export.files[p]
          /\ \A q \in DOMAIN dir : q # p => dir'[q] = dir[q]
      BY <2>1 DEF Put
    <3>2. /\ DOMAIN dir = DOMAIN export.files \ export.todo
          /\ tampers = 0 => \A q \in DOMAIN dir : dir[q] = export.files[q]
      BY <2>2 DEF CleanInv
    <3> QED
      BY <2>3, <3>1, <3>2
  <2> QED
    BY <2>5, <2>6
<1>4. ASSUME ExportEnds PROVE WholeInv' /\ CleanInv'
  BY <1>4 DEF ExportEnds, NoExport, WholeInv, CleanInv
<1>5. ASSUME TamperBundle PROVE WholeInv' /\ CleanInv'
  <2>1. export' = export /\ tampers' # 0
    BY <1>0, <1>5 DEF TamperBundle
  <2>2. DOMAIN dir' = DOMAIN dir
    BY <1>5 DEF TamperBundle
  <2> QED
    BY <2>1, <2>2 DEF WholeInv, CleanInv
<1>6. ASSUME \/ UNCHANGED vars
             \/ \E k \in Keys : AppendRecord(k) \/ ReceiptEntries(k)
             \/ \E k \in Keys, n \in 1 .. MaxRecords : Revoke(k, n)
             \/ \E n \in 1 .. Size : ReceiptIndex(n)
      PROVE  WholeInv' /\ CleanInv'
  <2>1. export' = export /\ dir' = dir /\ tampers' = tampers
    BY <1>6 DEF vars, AppendRecord, ReceiptEntries, Revoke, ReceiptIndex, exportVars
  <2> QED
    BY <2>1 DEF WholeInv, CleanInv
<1> QED
  BY <1>1, <1>2, <1>3, <1>4, <1>5, <1>6 DEF Next

(* An empty log has no tiles.                                               *)
LEMMA EmptyLogLevels == TileLevels(0) = {}
<1>1. Span(0) \in Nat \ {0}
  BY PowerProperties DEF Span
<1>2. ~(NodeCount(0, 0) > 0) /\ NodeCount(0, 0) \in Nat
  BY <1>1, CeilMany, CeilProperties DEF NodeCount
<1>3. \A level \in 0 .. 0 : level = 0
  OBVIOUS
<1> QED
  BY <1>2, <1>3 DEF TileLevels

(* verify-tiles and any reader of the tiles: a finished export into an empty*)
(* directory, with no append between its two reads, lets a monitor verify   *)
(* each record, however the directory is listed; and the tiles of every     *)
(* finished export rebuild the root level by level, whatever the width of a *)
(* tile and the size of the log.                                            *)
THEOREM ExportVerifiesHolds == Spec => []ExportVerifies
<1>1. Init => WholeInv /\ CleanInv
  BY DEF Init, NoExport, WholeInv, CleanInv
<1>2. WholeInv /\ CleanInv => CleanExportVerifies
  <2> SUFFICES ASSUME WholeInv, CleanInv, export.pc = "done", export.clean,
                      export.size = export.checkpoint, tampers = 0,
                      NEW order \in BundleOrders(dir), NEW leaf \in 1 .. export.size
               PROVE  VerifyLeafInStaticLog(dir, leaf, order)
    BY DEF CleanExportVerifies
  <2> DEFINE n == export.size
             files == StaticLog(n, n)
  <2>1. n \in Nat \ {0} /\ export.files = files
    BY DEF WholeInv
  <2>2. DOMAIN dir = DOMAIN files /\ \A p \in DOMAIN dir : dir[p] = files[p]
    BY <2>1 DEF WholeInv, CleanInv
  <2>3. DOMAIN files = TilePaths(n) \cup EntryPaths(n) \cup {CheckpointPath}
    BY DEF StaticLog
  <2>4. \A p \in TilePaths(n) : p[1] = "tile"
    BY DEF TilePaths
  <2>5. \A p \in EntryPaths(n) : p[1] = "entries"
    BY <2>1, EntryPathsIndexed
  <2>6. CheckpointPath[1] = "checkpoint"
    BY DEF CheckpointPath
  <2>7. BundlePaths(dir) = EntryPaths(n)
    <3> HIDE DEF files
    <3> QED
      BY <2>2, <2>3, <2>4, <2>5, <2>6 DEF BundlePaths
  <2>8. \A p \in EntryPaths(n) : files[p] = BuildEntryBundles(n)[p]
    BY <2>5 DEF StaticLog
  <2>9. files[CheckpointPath] = n
    BY <2>6 DEF StaticLog
  <2> HIDE DEF n, files
  <2>10. \A p \in EntryPaths(n) : dir[p] = BuildEntryBundles(n)[p]
    BY <2>2, <2>3, <2>8
  <2>11. EntriesFromStaticLog(dir, order) = Leaves(n)
    BY <2>1, <2>7, <2>10, BundlesReadBack
  <2>12. CheckpointPath \in DOMAIN dir /\ dir[CheckpointPath] = n
    BY <2>2, <2>3, <2>9
  <2>13. leaf \in DOMAIN Leaves(n) /\ Leaves(n)[leaf] = leaf
    BY DEF Leaves, n
  <2> QED
    BY <2>11, <2>12, <2>13 DEF VerifyLeafInStaticLog
<1>3. WholeInv => TilesRebuildRoot
  <2> SUFFICES ASSUME WholeInv, export.pc = "done" PROVE TilesRebuildRoot
    BY DEF TilesRebuildRoot
  <2> DEFINE n == export.size
             files == StaticLog(n, export.checkpoint)
             nodes(level) == LevelNodes(files, level)
  <2>1. n \in Nat /\ export.files = files
    BY DEF WholeInv
  <2>2. {p[2] : p \in {p \in DOMAIN files : p[1] = "tile"}} = TileLevels(n)
    <3>1. CASE n # 0
      BY <2>1, <3>1, StaticLogLevels
    <3>2. CASE n = 0
      <4>1. DOMAIN files = TilePaths(0) \cup EntryPaths(0) \cup {CheckpointPath}
        BY <3>2 DEF StaticLog
      <4>2. \A p \in EntryPaths(0) : p[1] # "tile"
        BY DEF EntryPaths
      <4>3. TilePaths(0) = {}
        BY EmptyLogLevels DEF TilePaths
      <4> QED
        BY <3>2, <4>1, <4>2, <4>3, EmptyLogLevels DEF CheckpointPath
    <3> QED BY <3>1, <3>2
  <2> HIDE DEF n, files
  <2>3. ASSUME NEW level \in TileLevels(n)
        PROVE  /\ FlattenSeq(nodes(level)) = Leaves(n)
               /\ \A i \in DOMAIN nodes(level) :
                     IF level = 0 THEN Len(nodes(level)[i]) = 1
                     ELSE MadeOf(nodes(level)[i], nodes(level - 1))
               /\ level + 1 \in TileLevels(n) \/ Len(nodes(level)) <= Width
    <3>1. n # 0
      BY EmptyLogLevels
    <3> QED
      BY <2>1, <3>1, NodesRebuildRoot DEF files
  <2> QED
    BY <2>1, <2>2, <2>3 DEF TilesRebuildRoot, n
<1>4. WholeInv /\ CleanInv => ExportVerifies
  BY <1>2, <1>3 DEF ExportVerifies
<1> QED
  BY <1>1, <1>4, WholeStep, InvariantHolds, PTL DEF Spec
=============================================================================
