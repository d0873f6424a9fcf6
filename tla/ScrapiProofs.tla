---------------------------- MODULE ScrapiProofs ----------------------------
(***************************************************************************)
(* Proofs about Scrapi for every set of replicas, clients and requests,    *)
(* every deployment and every bound: the log and its index agree, receipts *)
(* bind their statement and keep verifying, one writer keeps one history,  *)
(* and no window of the rate limiter lets more than Limit requests in.     *)
(***************************************************************************)
EXTENDS Scrapi, FiniteSetTheorems, SequenceTheorems, TLAPS

-----------------------------------------------------------------------------
(* Sequences: removing an entry, putting one in, and prefixes.             *)

(* The audit path of an entry: the other entries in their order.            *)
LEMMA RemoveProperties ==
    ASSUME NEW S, NEW s \in Seq(S), NEW i \in 1 .. Len(s)
    PROVE  /\ RemoveAt(s, i) \in Seq(S)
           /\ Len(RemoveAt(s, i)) = Len(s) - 1
           /\ \A j \in 1 .. Len(s) - 1 :
                 RemoveAt(s, i)[j] = IF j < i THEN s[j] ELSE s[j + 1]
<1> DEFINE a == SubSeq(s, 1, i - 1)
           b == SubSeq(s, i + 1, Len(s))
<1>1. Len(s) \in Nat /\ i \in Int /\ i - 1 \in Int /\ i + 1 \in Int
  BY LenProperties
<1>2. a \in Seq(S) /\ Len(a) = i - 1 /\ \A j \in 1 .. i - 1 : a[j] = s[j]
  BY <1>1, SubSeqProperties, ElementOfSeq
<1>3. b \in Seq(S) /\ Len(b) = Len(s) - i /\ \A j \in 1 .. Len(s) - i : b[j] = s[i + j]
  BY <1>1, SubSeqProperties, ElementOfSeq
<1>4. RemoveAt(s, i) = a \o b
  BY DEF RemoveAt
<1> HIDE DEF a, b
<1>5. /\ a \o b \in Seq(S) /\ Len(a \o b) = Len(a) + Len(b)
      /\ \A j \in 1 .. Len(a) + Len(b) :
            (a \o b)[j] = IF j <= Len(a) THEN a[j] ELSE b[j - Len(a)]
  BY <1>2, <1>3, ConcatProperties
<1> QED
  BY <1>1, <1>2, <1>3, <1>4, <1>5

(* The root rebuilt from a leaf and a path: the leaf stands at its index.   *)
LEMMA InsertProperties ==
    ASSUME NEW S, NEW s \in Seq(S), NEW e \in S, NEW i \in 1 .. Len(s) + 1
    PROVE  /\ InsertAt(s, i, e) \in Seq(S)
           /\ Len(InsertAt(s, i, e)) = Len(s) + 1
           /\ \A j \in 1 .. Len(s) + 1 :
                 InsertAt(s, i, e)[j] = IF j < i THEN s[j] ELSE IF j = i THEN e ELSE s[j - 1]
<1> DEFINE a == SubSeq(s, 1, i - 1)
           m == a \o <<e>>
           b == SubSeq(s, i, Len(s))
<1>1. Len(s) \in Nat /\ i \in Int /\ i - 1 \in Int
  BY LenProperties
<1>2. a \in Seq(S) /\ Len(a) = i - 1 /\ \A j \in 1 .. i - 1 : a[j] = s[j]
  BY <1>1, SubSeqProperties, ElementOfSeq
<1>3. b \in Seq(S) /\ Len(b) = Len(s) + 1 - i
      /\ \A j \in 1 .. Len(s) + 1 - i : b[j] = s[i + j - 1]
  BY <1>1, SubSeqProperties, ElementOfSeq
<1>4. InsertAt(s, i, e) = m \o b
  BY DEF InsertAt
<1>5. <<e>> \in Seq(S) /\ Len(<<e>>) = 1 /\ <<e>>[1] = e
  OBVIOUS
<1> HIDE DEF a, b
<1>6. /\ m \in Seq(S) /\ Len(m) = i
      /\ \A j \in 1 .. i : m[j] = IF j < i THEN a[j] ELSE e
  BY <1>1, <1>2, <1>5, ConcatProperties
<1> HIDE DEF m
<1>7. /\ m \o b \in Seq(S) /\ Len(m \o b) = Len(m) + Len(b)
      /\ \A j \in 1 .. Len(m) + Len(b) :
            (m \o b)[j] = IF j <= Len(m) THEN m[j] ELSE b[j - Len(m)]
  BY <1>3, <1>6, ConcatProperties
<1>8. ASSUME NEW j \in 1 .. Len(s) + 1
      PROVE  (m \o b)[j] = IF j < i THEN s[j] ELSE IF j = i THEN e ELSE s[j - 1]
  <2>0. j \in Int /\ (j < i \/ j = i \/ j > i)
    BY <1>1
  <2>1. CASE j < i
    BY <1>1, <1>2, <1>3, <1>6, <1>7, <2>1
  <2>2. CASE j = i
    BY <1>1, <1>3, <1>6, <1>7, <2>2
  <2>3. CASE j > i
    <3>1. j - i \in 1 .. Len(s) + 1 - i /\ ~(j <= i) /\ i + (j - i) - 1 = j - 1
      BY <1>1, <2>3
    <3> QED
      BY <1>1, <1>3, <1>6, <1>7, <2>3, <3>1
  <2> QED
    BY <2>0, <2>1, <2>2, <2>3
<1> QED
  BY <1>1, <1>3, <1>4, <1>6, <1>7, <1>8

(* A prefix, entry by entry.                                                *)
LEMMA PrefixProperties ==
    ASSUME NEW S, NEW s \in Seq(S), NEW t \in Seq(S)
    PROVE  IsPrefix(s, t) <=> /\ Len(s) <= Len(t)
                              /\ \A i \in 1 .. Len(s) : s[i] = t[i]
<1>1. Len(s) \in Nat /\ Len(t) \in Nat /\ 1 \in Int
  BY LenProperties
<1>2. SubSeq(s, 1, Len(s)) = s
  BY SubSeqFull
<1>3. CASE Len(s) <= Len(t)
  <2> DEFINE u == SubSeq(t, 1, Len(s))
  <2>1. u \in Seq(S) /\ Len(u) = Len(s) /\ \A i \in 1 .. Len(s) : u[i] = t[i]
    BY <1>1, <1>3, SubSeqProperties, ElementOfSeq
  <2> HIDE DEF u
  <2>2. s = u <=> \A i \in 1 .. Len(s) : s[i] = u[i]
    BY <2>1, SeqEqual
  <2> QED
    BY <1>2, <1>3, <2>1, <2>2 DEF IsPrefix, u
<1> QED
  BY <1>3 DEF IsPrefix

(* Two prefixes of one sequence: one of them extends the other.             *)
LEMMA PrefixesCompare ==
    ASSUME NEW S, NEW s \in Seq(S), NEW t \in Seq(S), NEW u \in Seq(S),
           IsPrefix(s, u), IsPrefix(t, u)
    PROVE  IsPrefix(s, t) \/ IsPrefix(t, s)
<1>1. Len(s) \in Nat /\ Len(t) \in Nat /\ Len(u) \in Nat
  BY LenProperties
<1>2. /\ Len(s) <= Len(u) /\ \A i \in 1 .. Len(s) : s[i] = u[i]
      /\ Len(t) <= Len(u) /\ \A i \in 1 .. Len(t) : t[i] = u[i]
  BY PrefixProperties
<1>3. CASE Len(s) <= Len(t)
  BY <1>1, <1>2, <1>3, PrefixProperties
<1>4. CASE Len(t) <= Len(s)
  BY <1>1, <1>2, <1>4, PrefixProperties
<1> QED
  BY <1>1, <1>3, <1>4

LEMMA PrefixReflexive ==
    ASSUME NEW S, NEW s \in Seq(S)
    PROVE  IsPrefix(s, s)
BY LenProperties, PrefixProperties

(* A prefix of a log stays one when an entry is appended.                   *)
LEMMA PrefixOfAppend ==
    ASSUME NEW S, NEW s \in Seq(S), NEW t \in Seq(S), NEW e \in S, IsPrefix(s, t)
    PROVE  IsPrefix(s, Append(t, e))
<1>1. Len(s) \in Nat /\ Len(t) \in Nat
  BY LenProperties
<1>2. Append(t, e) \in Seq(S) /\ Len(Append(t, e)) = Len(t) + 1
      /\ \A i \in 1 .. Len(t) : Append(t, e)[i] = t[i]
  BY AppendProperties
<1>3. Len(s) <= Len(t) /\ \A i \in 1 .. Len(s) : s[i] = t[i]
  BY PrefixProperties
<1> HIDE DEF IsPrefix
<1>4. /\ Len(s) <= Len(Append(t, e))
      /\ \A i \in 1 .. Len(s) : s[i] = Append(t, e)[i]
  BY <1>1, <1>2, <1>3
<1> QED
  BY <1>2, <1>4, PrefixProperties

-----------------------------------------------------------------------------
(* Receipts.                                                               *)

(* The inclusion receipt that a log issues verifies for exactly one         *)
(* statement, the entry at its index, and under exactly its own key.        *)
LEMMA InclusionReceiptBinds ==
    ASSUME NEW S, NEW l \in Seq(S), NEW i \in 0 .. Len(l) - 1, NEW key, NEW key2,
           NEW st \in S
    PROVE  VerifyReceipt(st, IssueInclusionReceipt(l, i, key), key2)
              <=> key2 = key /\ st = l[i + 1]
<1> DEFINE path == RemoveAt(l, i + 1)
           root == InsertAt(path, i + 1, st)
<1>1. Len(l) \in Nat /\ i \in Nat /\ i + 1 \in 1 .. Len(l)
  BY LenProperties
<1>2. /\ path \in Seq(S) /\ Len(path) = Len(l) - 1
      /\ \A j \in 1 .. Len(l) - 1 : path[j] = IF j < i + 1 THEN l[j] ELSE l[j + 1]
  BY <1>1, RemoveProperties
<1> HIDE DEF path
<1>3. i + 1 \in 1 .. Len(path) + 1
  BY <1>1, <1>2
<1>4. /\ root \in Seq(S) /\ Len(root) = Len(path) + 1
      /\ \A j \in 1 .. Len(path) + 1 :
            root[j] = IF j < i + 1 THEN path[j] ELSE IF j = i + 1 THEN st ELSE path[j - 1]
  BY <1>2, <1>3, InsertProperties
<1> HIDE DEF root
<1>5. ASSUME NEW j \in 1 .. Len(l)
      PROVE  root[j] = IF j = i + 1 THEN st ELSE l[j]
  <2>1. CASE j < i + 1
    BY <1>1, <1>2, <1>4, <2>1, SMTT(30)
  <2>2. CASE j = i + 1
    BY <1>1, <1>2, <1>4, <2>2
  <2>3. CASE j > i + 1
    <3>1. j - 1 \in 1 .. Len(l) - 1 /\ ~(j - 1 < i + 1) /\ (j - 1) + 1 = j
      BY <1>1, <2>3
    <3> QED
      BY <1>1, <1>2, <1>4, <2>3, <3>1
  <2> QED
    BY <1>1, <2>1, <2>2, <2>3
<1>6. root = l <=> st = l[i + 1]
  <2>1. root = l => st = l[i + 1]
    BY <1>1, <1>5
  <2>2. st = l[i + 1] => root = l
    BY <1>1, <1>2, <1>4, <1>5, SeqEqual
  <2> QED
    BY <2>1, <2>2
<1>7. VerifyReceipt(st, IssueInclusionReceipt(l, i, key), key2)
         <=> SignCose(key, l) = SignCose(key2, root)
  BY <1>1, <1>2
     DEF VerifyReceipt, IssueInclusionReceipt, VerifyCose, RootFromPath, path, root
<1>8. SignCose(key, l) = SignCose(key2, root) <=> key = key2 /\ l = root
  BY DEF SignCose
<1> QED
  BY <1>6, <1>7, <1>8

(* The consistency receipt from a non-empty prefix of the log to the log    *)
(* verifies against that prefix.                                            *)
LEMMA ConsistencyReceiptVerifies ==
    ASSUME NEW S, NEW l \in Seq(S), NEW root \in Seq(S), root # <<>>, IsPrefix(root, l),
           NEW key
    PROVE  VerifyConsistencyReceipt(IssueConsistencyReceipt(l, Len(root), key), root, key)
<1>1. Len(l) \in Nat /\ Len(root) \in Nat \ {0}
  BY LenProperties, EmptySeq
<1>2. Len(root) <= Len(l) /\ SubSeq(l, 1, Len(root)) = root
  BY SubSeqFull DEF IsPrefix
<1>3. Len(root) = Len(l) => root = l
  BY <1>2, SubSeqFull
<1> QED
  BY <1>1, <1>2, <1>3, EmptySeq
     DEF VerifyConsistencyReceipt, IssueConsistencyReceipt, VerifyCose, SignCose

-----------------------------------------------------------------------------
(* The inductive invariant.                                                *)

Memory == <<config, log, entryIndex, incarnation, issued>>

(* A replica's index is the inverse of its log.                             *)
IndexInverts ==
    \A s \in Servers :
        /\ \A st \in DOMAIN entryIndex[s] : /\ st \in Statements
                                           /\ entryIndex[s][st] \in 0 .. Len(log[s]) - 1
                                           /\ log[s][entryIndex[s][st] + 1] = st
        /\ \A i \in 1 .. Len(log[s]) : /\ log[s][i] \in DOMAIN entryIndex[s]
                                       /\ entryIndex[s][log[s][i]] = i - 1

(* What the replicas keep, and the requests they have not answered.         *)
LogInv ==
    /\ config \in Configs
    /\ log \in [Servers -> Seq(Statements)]
    /\ incarnation \in [Servers -> Nat]
    /\ DOMAIN entryIndex = Servers
    /\ awaiting \subseteq [client : Clients, server : Servers, request : Requests,
                           live : BOOLEAN]
    /\ IndexInverts

(* In production only the writers hold entries or are about to get one.     *)
WriterInv ==
    config.production =>
        /\ \A s \in Servers : log[s] # <<>> => s \in config.writers
        /\ \A r \in awaiting : r.server \in config.writers

(* The key a replica signs with after n restarts.                           *)
KeyAfter(s, n) == IF config.pinned THEN <<"pinned">> ELSE <<s, n>>

(* A receipt is the one that a log l of its server issues for the entry of  *)
(* the statement, and until the server restarts l is a prefix of its log.   *)
HonestReceipt(x, n) ==
    LET l == x.receipt.signature.over
        i == x.receipt.leaf_index
    IN  /\ l \in Seq(Statements)
        /\ i \in 0 .. Len(l) - 1
        /\ x.statement = l[i + 1]
        /\ x.receipt = IssueInclusionReceipt(l, i, KeyAfter(x.server, n))
        /\ n = incarnation[x.server] => IsPrefix(l, log[x.server])

IssuedInv ==
    \A x \in issued : /\ x.server \in Servers
                      /\ \E n \in 0 .. incarnation[x.server] : HonestReceipt(x, n)

(* What a call of the client is: a record that the client keeps, with the   *)
(* receipt that a replica issued to it when it has returned one.            *)
Pcs == {"idle", "waiting", "polling", "returned", "raised"}
ClientInv ==
    /\ client = [c \in Clients |-> client[c]]
    /\ \A c \in Clients :
          /\ client[c].pc \in Pcs
          /\ client[c].pc = "returned" /\ "receipt" \in DOMAIN client[c] =>
                [server |-> client[c].server, statement |-> client[c].statement,
                 receipt |-> client[c].receipt] \in issued

(* While the server the relying party follows has not restarted, the root   *)
(* it holds is a prefix of that server's log, under that server's key.      *)
AnchorInv ==
    anchor = NoAnchor \/
    /\ anchor = [on |-> TRUE, alarm |-> anchor.alarm, server |-> anchor.server,
                 key |-> anchor.key, root |-> anchor.root]
    /\ anchor.server \in Servers
    /\ anchor.root \in Seq(Statements) /\ anchor.root # <<>>
    /\ incarnation[anchor.server] = 0 =>
          /\ ~anchor.alarm
          /\ anchor.key = ServiceKey(anchor.server)
          /\ IsPrefix(anchor.root, log[anchor.server])

(* A bucket at time n: the requests A it let through and the hits H it      *)
(* still has.  Those of the window that ends at n are all in H, no window   *)
(* holds more than Limit, and hits of one tick are numbered in order.       *)
Hits == [at : Nat, nr : Nat]
InWindow(A, last) == {h \in A : h.at <= last /\ last - h.at < Window}
AtTick(H, n) == {h \in H : h.at = n}
BucketInv(A, H, n) ==
    /\ A \subseteq Hits /\ \A h \in A : h.at <= n
    /\ IsFiniteSet(A)
    /\ H \subseteq A
    /\ Limit > 0 => /\ InWindow(A, n) \subseteq H
                    /\ \A last \in 0 .. n : Cardinality(InWindow(A, last)) <= Limit
    /\ Limit > 0 /\ Window > 0 => \A h \in AtTick(A, n) : h.nr < Cardinality(AtTick(H, n))

RateInv ==
    /\ now \in 0 .. MaxTime /\ posts \in 0 .. MaxPosts
    /\ hits \in [Servers -> [Identities -> SUBSET Hits]]
    /\ admitted \in [Servers -> [Identities -> SUBSET Hits]]
    /\ \A s \in Servers, id \in Identities : BucketInv(admitted[s][id], hits[s][id], now)

ScrapiInv == LogInv /\ WriterInv /\ IssuedInv /\ ClientInv /\ AnchorInv /\ RateInv

-----------------------------------------------------------------------------
(* Buckets of the rate limiter.                                            *)

LEMMA Numbers ==
    /\ Window \in Nat /\ Limit \in Nat /\ MaxTime \in Nat /\ MaxPosts \in Nat
    /\ IsFiniteSet(Servers)
BY ScrapiAssumption

LEMMA EmptyBucket == BucketInv({}, {}, 0)
<1>1. InWindow({}, 0) = {} /\ \A last \in 0 .. 0 : InWindow({}, last) = {}
  BY DEF InWindow
<1> QED
  BY <1>1, Numbers, FS_EmptySet DEF BucketInv, AtTick

(* The hits that RecentHits keeps, and their number.                        *)
LEMMA RecentProperties ==
    ASSUME NEW n \in Nat, NEW A, NEW H, BucketInv(A, H, n)
    PROVE  LET R == {h \in H : n - h.at < Window}
           IN  /\ R \subseteq H
               /\ Limit > 0 => R = InWindow(A, n)
               /\ Window > 0 => AtTick(R, n) = AtTick(H, n)
               /\ IsFiniteSet(R) /\ Cardinality(R) \in Nat
               /\ IsFiniteSet(AtTick(H, n)) /\ Cardinality(AtTick(H, n)) \in Nat
<1> DEFINE R == {h \in H : n - h.at < Window}
<1>1. R \subseteq H /\ R \subseteq A /\ AtTick(H, n) \subseteq A /\ IsFiniteSet(A)
  BY DEF BucketInv, AtTick
<1>2. Limit > 0 => R = InWindow(A, n)
  BY DEF BucketInv, InWindow
<1>3. Window > 0 => AtTick(R, n) = AtTick(H, n)
  BY DEF BucketInv, AtTick, Hits
<1>4. IsFiniteSet(R) /\ Cardinality(R) \in Nat
      /\ IsFiniteSet(AtTick(H, n)) /\ Cardinality(AtTick(H, n)) \in Nat
  BY <1>1, FS_Subset, FS_CardinalityType
<1> QED
  BY <1>1, <1>2, <1>3, <1>4

(* Pruning a bucket loses no hit that counts.                               *)
LEMMA PruneBucket ==
    ASSUME NEW n \in Nat, NEW A, NEW H, BucketInv(A, H, n)
    PROVE  BucketInv(A, {h \in H : n - h.at < Window}, n)
<1> DEFINE R == {h \in H : n - h.at < Window}
<1>1. /\ R \subseteq H
      /\ Limit > 0 => R = InWindow(A, n)
      /\ Window > 0 => AtTick(R, n) = AtTick(H, n)
  BY RecentProperties
<1> HIDE DEF R
<1>2. R \subseteq A
  BY <1>1 DEF BucketInv
<1>3. BucketInv(A, R, n)
  BY <1>1, <1>2 DEF BucketInv
<1> QED
  BY <1>3 DEF R

(* Letting a request through: it is a new hit, and the window that ends now *)
(* still holds at most Limit.                                               *)
LEMMA CountBucket ==
    ASSUME NEW n \in Nat, NEW A, NEW H, BucketInv(A, H, n), Limit > 0,
           Cardinality({h \in H : n - h.at < Window}) < Limit
    PROVE  LET x == [at |-> n, nr |-> Cardinality(AtTick(H, n))]
           IN  /\ BucketInv(A \cup {x}, {h \in H : n - h.at < Window} \cup {x}, n)
               /\ Window > 0 => x \notin A
<1> DEFINE x == [at |-> n, nr |-> Cardinality(AtTick(H, n))]
           R == {h \in H : n - h.at < Window}
<1>1. /\ R \subseteq H /\ R = InWindow(A, n)
      /\ Window > 0 => AtTick(R, n) = AtTick(H, n)
      /\ IsFiniteSet(R) /\ Cardinality(R) \in Nat
      /\ IsFiniteSet(AtTick(H, n)) /\ Cardinality(AtTick(H, n)) \in Nat
  BY RecentProperties
<1>2. Cardinality(R) < Limit
  OBVIOUS
<1> HIDE DEF R
<1>3. /\ x \in Hits /\ x.at = n /\ x.nr = Cardinality(AtTick(H, n))
  BY <1>1 DEF Hits
<1>4. Window > 0 => x \notin A
  BY <1>3, <1>1 DEF BucketInv, AtTick
<1> HIDE DEF x
<1>5. A \cup {x} \subseteq Hits /\ (\A h \in A \cup {x} : h.at <= n)
      /\ R \cup {x} \subseteq A \cup {x}
  BY <1>1, <1>3 DEF BucketInv
<1>6. IsFiniteSet(A \cup {x})
  BY FS_AddElement DEF BucketInv
<1>7. InWindow(A \cup {x}, n) \subseteq R \cup {x}
  BY <1>1 DEF InWindow
<1>8. ASSUME NEW last \in 0 .. n
      PROVE  Cardinality(InWindow(A \cup {x}, last)) <= Limit
  <2>1. CASE last < n
    <3>1. InWindow(A \cup {x}, last) = InWindow(A, last)
      BY <1>3, <2>1 DEF InWindow
    <3> QED
      BY <3>1 DEF BucketInv
  <2>2. CASE last = n
    <3>0. IsFiniteSet(R \cup {x})
          /\ Cardinality(R \cup {x}) = IF x \in R THEN Cardinality(R) ELSE Cardinality(R) + 1
      BY <1>1, FS_AddElement
    <3>1. IsFiniteSet(R \cup {x}) /\ Cardinality(R \cup {x}) <= Cardinality(R) + 1
          /\ Cardinality(R \cup {x}) \in Nat
      BY <1>1, <3>0
    <3>2. IsFiniteSet(InWindow(A \cup {x}, n))
          /\ Cardinality(InWindow(A \cup {x}, n)) <= Cardinality(R \cup {x})
          /\ Cardinality(InWindow(A \cup {x}, n)) \in Nat
      BY <1>7, <3>1, FS_Subset, FS_CardinalityType
    <3> QED
      BY <1>1, <1>2, <2>2, <3>1, <3>2, Numbers
  <2> QED
    BY <2>1, <2>2
<1>9. ASSUME Window > 0, NEW h \in AtTick(A \cup {x}, n)
      PROVE  h.nr < Cardinality(AtTick(R \cup {x}, n))
  <2>1. AtTick(R \cup {x}, n) = AtTick(H, n) \cup {x}
    BY <1>1, <1>3, <1>9 DEF AtTick
  <2>2. x \notin AtTick(H, n)
    BY <1>4, <1>9 DEF AtTick, BucketInv
  <2>3. Cardinality(AtTick(R \cup {x}, n)) = Cardinality(AtTick(H, n)) + 1
    BY <1>1, <2>1, <2>2, FS_AddElement
  <2>4. CASE h = x
    BY <1>1, <1>3, <2>3, <2>4
  <2>5. CASE h # x
    <3>1. h \in AtTick(A, n) /\ h.nr \in Nat
      BY <2>5 DEF AtTick, BucketInv, Hits
    <3>2. h.nr < Cardinality(AtTick(H, n))
      BY <1>9, <3>1 DEF BucketInv
    <3> QED
      BY <1>1, <2>3, <3>1, <3>2
  <2> QED
    BY <2>4, <2>5
<1>10. BucketInv(A \cup {x}, R \cup {x}, n)
  BY <1>5, <1>6, <1>7, <1>8, <1>9 DEF BucketInv
<1> QED
  BY <1>4, <1>10 DEF R, x

(* A bucket without a limit counts nothing.                                 *)
LEMMA UnlimitedBucket ==
    ASSUME NEW n \in Nat, NEW A, NEW H, BucketInv(A, H, n), Limit = 0, NEW m \in Nat
    PROVE  BucketInv(A \cup {[at |-> n, nr |-> m]}, H, n)
<1>1. IsFiniteSet(A \cup {[at |-> n, nr |-> m]})
  BY FS_AddElement DEF BucketInv
<1> QED
  BY <1>1 DEF BucketInv, Hits

(* A tick only moves the window on.                                         *)
LEMMA TickBucket ==
    ASSUME NEW n \in Nat, NEW A, NEW H, BucketInv(A, H, n)
    PROVE  BucketInv(A, H, n + 1)
<1>1. A \subseteq Hits /\ IsFiniteSet(A) /\ H \subseteq A /\ \A h \in A : h.at \in Nat /\ h.at <= n
  BY DEF BucketInv, Hits
<1>2. \A h \in A : h.at <= n + 1
  BY <1>1
<1>3. InWindow(A, n + 1) \subseteq InWindow(A, n)
  BY <1>1, Numbers DEF InWindow
<1>4. AtTick(A, n + 1) = {}
  BY <1>1 DEF AtTick
<1>5. ASSUME Limit > 0, NEW last \in 0 .. n + 1
      PROVE  Cardinality(InWindow(A, last)) <= Limit
  <2>1. CASE last \in 0 .. n
    BY <1>5, <2>1 DEF BucketInv
  <2>2. CASE last = n + 1
    <3>0. InWindow(A, n) \subseteq A
      BY DEF InWindow
    <3>1. IsFiniteSet(InWindow(A, n)) /\ Cardinality(InWindow(A, n)) <= Limit
          /\ Cardinality(InWindow(A, n)) \in Nat
      BY <1>1, <1>5, <3>0, FS_Subset, FS_CardinalityType DEF BucketInv
    <3>2. IsFiniteSet(InWindow(A, n + 1))
          /\ Cardinality(InWindow(A, n + 1)) <= Cardinality(InWindow(A, n))
          /\ Cardinality(InWindow(A, n + 1)) \in Nat
      BY <1>3, <3>1, FS_Subset, FS_CardinalityType
    <3> QED
      BY <2>2, <3>1, <3>2, Numbers
  <2> QED
    BY <2>1, <2>2
<1> QED
  BY <1>1, <1>2, <1>3, <1>4, <1>5 DEF BucketInv

-----------------------------------------------------------------------------
(* Initial states.                                                         *)

LEMMA InitInv == Init => ScrapiInv
<1> SUFFICES ASSUME Init PROVE ScrapiInv
  OBVIOUS
<1> USE ScrapiAssumption DEF Init
<1>1. LogInv
  <2>1. \A s \in Servers : DOMAIN entryIndex[s] = {} /\ Len(log[s]) = 0
    OBVIOUS
  <2>2. IndexInverts
    BY <2>1 DEF IndexInverts
  <2> QED
    BY <2>2, EmptySeq DEF LogInv
<1>2. WriterInv
  BY DEF WriterInv
<1>3. IssuedInv
  BY DEF IssuedInv
<1>4. ClientInv
  BY DEF ClientInv, Pcs, Idle
<1>5. AnchorInv
  BY DEF AnchorInv
<1>6. RateInv
  <2>1. Limit \in Nat /\ MaxTime \in Nat /\ MaxPosts \in Nat
    OBVIOUS
  <2>2. BucketInv({}, {}, 0)
    BY EmptyBucket
  <2> QED
    BY <2>1, <2>2 DEF RateInv
<1> QED
  BY <1>1, <1>2, <1>3, <1>4, <1>5, <1>6 DEF ScrapiInv

-----------------------------------------------------------------------------
(* The replicas' memory.                                                   *)

(* Only a registration, a resolution and a restart touch what a replica     *)
(* keeps or has issued.                                                     *)
LEMMA MemorySteps ==
    ASSUME [Next]_vars
    PROVE  \/ \E r \in awaiting : Register(r)
           \/ \E c \in Clients, s \in Servers, st \in Statements : Resolve(c, s, st)
           \/ \E s \in config.replicas : Restart(s)
           \/ UNCHANGED Memory
<1> USE DEF Memory, serverVars
<1>1. ASSUME NEW c \in Clients, NEW s \in config.replicas, NEW q \in Requests, Post(c, s, q)
      PROVE  UNCHANGED Memory
  BY <1>1 DEF Post
<1>2. ASSUME NEW c \in Clients, NEW s \in config.replicas, VerifyCall(c, s)
      PROVE  UNCHANGED Memory
  BY <1>2 DEF VerifyCall
<1>3. ASSUME NEW r \in awaiting, Refuse(r) \/ Disconnect(r)
      PROVE  UNCHANGED Memory
  BY <1>3 DEF Refuse, Disconnect
<1>4. ASSUME NEW c \in Clients, PublishExternal(c) \/ Poll(c)
      PROVE  UNCHANGED Memory
  BY <1>4 DEF PublishExternal, Poll
<1>5. ASSUME \/ \E s \in config.replicas : TakeAnchor(s)
             \/ FollowLog \/ Tick \/ UNCHANGED vars
      PROVE  UNCHANGED Memory
  BY <1>5 DEF TakeAnchor, FollowLog, Tick, vars
<1> QED
  BY <1>1, <1>2, <1>3, <1>4, <1>5 DEF Next

(* Requests wait only as Post put them there, a writer's permission asked.  *)
LEMMA AwaitingSteps ==
    ASSUME LogInv, [Next]_vars
    PROVE  \A r \in awaiting' :
              /\ r \in [client : Clients, server : Servers, request : Requests, live : BOOLEAN]
              /\ \/ \E o \in awaiting : o.server = r.server
                 \/ TransparencyWriterAllowed(r.server)
<1> DEFINE Waiting == [client : Clients, server : Servers, request : Requests, live : BOOLEAN]
           Old(r) == r \in Waiting /\ \E o \in awaiting : o.server = r.server
<1>0. awaiting \subseteq Waiting /\ config \in Configs /\ config.replicas \subseteq Servers
  BY ScrapiAssumption DEF LogInv
<1>1. ASSUME NEW c \in Clients, NEW s \in config.replicas, NEW q \in Requests, Post(c, s, q),
             NEW r \in awaiting'
      PROVE  Old(r) \/ (r \in Waiting /\ TransparencyWriterAllowed(r.server))
  <2>1. CASE r \in awaiting
    BY <1>0, <2>1
  <2>2. CASE r \notin awaiting
    <3>1. r = [client |-> c, server |-> s, request |-> q, live |-> TRUE]
          /\ TransparencyWriterAllowed(s)
      BY <1>1, <2>2 DEF Post
    <3> QED
      BY <1>0, <3>1
  <2> QED
    BY <2>1, <2>2
<1>2. ASSUME NEW o \in awaiting, Disconnect(o), NEW r \in awaiting'
      PROVE  Old(r)
  <2>1. CASE r \in awaiting
    BY <1>0, <2>1
  <2>2. CASE r \notin awaiting
    <3>1. r = [o EXCEPT !.live = FALSE]
      BY <1>2, <2>2 DEF Disconnect
    <3> QED
      BY <1>0, <3>1
  <2> QED
    BY <2>1, <2>2
<1>3. ASSUME NEW o \in awaiting, Refuse(o) \/ Register(o), NEW r \in awaiting'
      PROVE  Old(r)
  BY <1>0, <1>3 DEF Refuse, Register
<1>4. ASSUME NEW s \in config.replicas, Restart(s), NEW r \in awaiting'
      PROVE  Old(r)
  BY <1>0, <1>4 DEF Restart
<1>5. ASSUME \/ \E c \in Clients : PublishExternal(c) \/ Poll(c)
             \/ \E c \in Clients, s \in config.replicas : VerifyCall(c, s)
             \/ \E c \in Clients, s \in Servers, st \in Statements : Resolve(c, s, st)
             \/ \E s \in config.replicas : TakeAnchor(s)
             \/ FollowLog \/ Tick \/ UNCHANGED vars,
             NEW r \in awaiting'
      PROVE  Old(r)
  <2>1. awaiting' = awaiting
    BY <1>5 DEF VerifyCall, Resolve, PublishExternal, Poll, TakeAnchor, FollowLog, Tick, vars
  <2> QED
    BY <1>0, <2>1
<1> QED
  BY <1>1, <1>2, <1>3, <1>4, <1>5 DEF Next

(* What a registration leaves behind: a log that extends the old one and    *)
(* has the statement where the index says.                                  *)
LEMMA RegisterStep ==
    ASSUME LogInv, NEW r \in awaiting, Register(r)
    PROVE  LET s == r.server
               st == r.request.statement
           IN  /\ s \in Servers /\ st \in Statements
               /\ \E newLog \in Seq(Statements), index \in Nat :
                     /\ index \in 0 .. Len(newLog) - 1
                     /\ newLog[index + 1] = st
                     /\ IsPrefix(log[s], newLog)
                     /\ \/ newLog = log[s] /\ st \in DOMAIN entryIndex[s]
                           /\ index = entryIndex[s][st]
                        \/ newLog = Append(log[s], st) /\ st \notin DOMAIN entryIndex[s]
                           /\ index = Len(log[s])
                     /\ log' = [log EXCEPT ![s] = newLog]
                     /\ entryIndex' = [entryIndex EXCEPT ![s] = Put(@, st, index)]
                     /\ issued' = issued \cup
                           {[server |-> s, statement |-> st,
                             receipt |-> IssueInclusionReceipt(newLog, index, ServiceKey(s))]}
               /\ UNCHANGED <<config, incarnation, limiterVars, anchor, now, posts>>
<1> DEFINE s == r.server
           st == r.request.statement
           known == st \in DOMAIN entryIndex[s]
           index == IF known THEN entryIndex[s][st] ELSE Len(log[s])
           newLog == IF known THEN log[s] ELSE Append(log[s], st)
<1>1. s \in Servers /\ st \in Statements
  BY DEF LogInv, Statements
<1>2. log[s] \in Seq(Statements) /\ Len(log[s]) \in Nat
  BY <1>1, LenProperties DEF LogInv
<1>3. /\ newLog \in Seq(Statements) /\ index \in Nat /\ index \in 0 .. Len(newLog) - 1
      /\ newLog[index + 1] = st /\ IsPrefix(log[s], newLog)
  <2>1. CASE known
    BY <1>1, <1>2, <2>1, PrefixReflexive DEF LogInv, IndexInverts
  <2>2. CASE ~known
    <3>1. Append(log[s], st) \in Seq(Statements) /\ Len(Append(log[s], st)) = Len(log[s]) + 1
          /\ Append(log[s], st)[Len(log[s]) + 1] = st
      BY <1>1, <1>2, AppendProperties
    <3>2. IsPrefix(log[s], Append(log[s], st))
      BY <1>1, <1>2, PrefixReflexive, PrefixOfAppend
    <3> QED
      BY <1>2, <2>2, <3>1, <3>2
  <2> QED
    BY <2>1, <2>2
<1>4. /\ log' = [log EXCEPT ![s] = newLog]
      /\ entryIndex' = [entryIndex EXCEPT ![s] = Put(@, st, index)]
      /\ issued' = issued \cup
            {[server |-> s, statement |-> st,
              receipt |-> IssueInclusionReceipt(newLog, index, ServiceKey(s))]}
      /\ UNCHANGED <<config, incarnation, limiterVars, anchor, now, posts>>
  BY DEF Register
<1>5. \/ newLog = log[s] /\ st \in DOMAIN entryIndex[s] /\ index = entryIndex[s][st]
      \/ newLog = Append(log[s], st) /\ st \notin DOMAIN entryIndex[s] /\ index = Len(log[s])
  OBVIOUS
<1> HIDE DEF newLog, index
<1> QED
  BY <1>1, <1>3, <1>4, <1>5

(* The index stays the inverse of the log.                                  *)
LEMMA IndexStep == LogInv /\ [Next]_vars => IndexInverts'
<1> SUFFICES ASSUME LogInv, [Next]_vars PROVE IndexInverts'
  OBVIOUS
<1>1. ASSUME NEW r \in awaiting, Register(r) PROVE IndexInverts'
  <2> DEFINE s == r.server
             st == r.request.statement
  <2>1. s \in Servers /\ st \in Statements
    BY <1>1, RegisterStep
  <2>2. PICK newLog \in Seq(Statements), index \in Nat :
          /\ index \in 0 .. Len(newLog) - 1
          /\ newLog[index + 1] = st
          /\ \/ newLog = log[s] /\ st \in DOMAIN entryIndex[s] /\ index = entryIndex[s][st]
             \/ newLog = Append(log[s], st) /\ st \notin DOMAIN entryIndex[s]
                /\ index = Len(log[s])
          /\ log' = [log EXCEPT ![s] = newLog]
          /\ entryIndex' = [entryIndex EXCEPT ![s] = Put(@, st, index)]
    BY <1>1, RegisterStep
  <2> HIDE DEF s, st
  <2>3. /\ log[s] \in Seq(Statements) /\ Len(log[s]) \in Nat
        /\ log'[s] = newLog /\ entryIndex'[s] = Put(entryIndex[s], st, index)
    BY <2>1, <2>2, LenProperties DEF LogInv
  <2>4. ASSUME NEW t \in Servers, t # s
        PROVE  log'[t] = log[t] /\ entryIndex'[t] = entryIndex[t]
    BY <2>2, <2>4 DEF LogInv
  <2>5. /\ DOMAIN entryIndex'[s] = DOMAIN entryIndex[s] \cup {st}
        /\ entryIndex'[s][st] = index
        /\ \A o \in DOMAIN entryIndex[s] : o # st => entryIndex'[s][o] = entryIndex[s][o]
    BY <2>3 DEF Put
  <2>6. /\ \A o \in DOMAIN entryIndex[s] : /\ o \in Statements
                                           /\ entryIndex[s][o] \in 0 .. Len(log[s]) - 1
                                           /\ log[s][entryIndex[s][o] + 1] = o
        /\ \A i \in 1 .. Len(log[s]) : /\ log[s][i] \in DOMAIN entryIndex[s]
                                       /\ entryIndex[s][log[s][i]] = i - 1
    BY <2>1 DEF LogInv, IndexInverts
  <2>7. /\ \A o \in DOMAIN entryIndex'[s] : /\ o \in Statements
                                            /\ entryIndex'[s][o] \in 0 .. Len(newLog) - 1
                                            /\ newLog[entryIndex'[s][o] + 1] = o
        /\ \A i \in 1 .. Len(newLog) : /\ newLog[i] \in DOMAIN entryIndex'[s]
                                       /\ entryIndex'[s][newLog[i]] = i - 1
    <3>1. CASE newLog = log[s] /\ st \in DOMAIN entryIndex[s] /\ index = entryIndex[s][st]
      BY <2>1, <2>2, <2>5, <2>6, <3>1
    <3>2. CASE newLog = Append(log[s], st) /\ st \notin DOMAIN entryIndex[s]
               /\ index = Len(log[s])
      <4>1. /\ Len(newLog) = Len(log[s]) + 1 /\ newLog[Len(log[s]) + 1] = st
            /\ \A i \in 1 .. Len(log[s]) : newLog[i] = log[s][i]
        BY <2>1, <2>3, <3>2, AppendProperties
      <4>2. ASSUME NEW o \in DOMAIN entryIndex'[s]
            PROVE  /\ o \in Statements /\ entryIndex'[s][o] \in 0 .. Len(newLog) - 1
                   /\ newLog[entryIndex'[s][o] + 1] = o
        <5>1. CASE o = st
          BY <2>1, <2>2, <2>5, <5>1
        <5>2. CASE o # st
          <6>1. o \in DOMAIN entryIndex[s] /\ entryIndex'[s][o] = entryIndex[s][o]
            BY <2>5, <5>2
          <6>2. entryIndex[s][o] + 1 \in 1 .. Len(log[s])
            BY <2>3, <2>6, <6>1
          <6>3. /\ o \in Statements /\ entryIndex[s][o] \in 0 .. Len(log[s]) - 1
                /\ log[s][entryIndex[s][o] + 1] = o
            BY <2>6, <6>1
          <6>4. newLog[entryIndex[s][o] + 1] = o
            BY <4>1, <6>2, <6>3
          <6>5. entryIndex[s][o] \in 0 .. Len(newLog) - 1
            BY <2>3, <4>1, <6>3
          <6> QED
            BY <6>1, <6>3, <6>4, <6>5
        <5> QED
          BY <5>1, <5>2
      <4>3. ASSUME NEW i \in 1 .. Len(newLog)
            PROVE  newLog[i] \in DOMAIN entryIndex'[s] /\ entryIndex'[s][newLog[i]] = i - 1
        <5>1. CASE i = Len(log[s]) + 1
          <6>1. newLog[i] = st
            BY <4>1, <5>1
          <6>2. i - 1 = Len(log[s])
            BY <2>3, <5>1
          <6> QED
            BY <2>5, <3>2, <6>1, <6>2
        <5>2. CASE i # Len(log[s]) + 1
          <6>1. i \in 1 .. Len(log[s])
            BY <2>3, <4>1, <5>2
          <6>2. newLog[i] = log[s][i]
            BY <4>1, <6>1
          <6>3. log[s][i] \in DOMAIN entryIndex[s] /\ entryIndex[s][log[s][i]] = i - 1
            BY <2>6, <6>1
          <6>4. log[s][i] # st
            BY <3>2, <6>3
          <6> QED
            BY <2>5, <6>2, <6>3, <6>4
        <5> QED
          BY <5>1, <5>2
      <4> QED
        BY <4>2, <4>3
    <3> QED
      BY <2>2, <3>1, <3>2
  <2>8. ASSUME NEW t \in Servers
        PROVE  /\ \A o \in DOMAIN entryIndex'[t] : /\ o \in Statements
                                                  /\ entryIndex'[t][o] \in 0 .. Len(log'[t]) - 1
                                                  /\ log'[t][entryIndex'[t][o] + 1] = o
               /\ \A i \in 1 .. Len(log'[t]) : /\ log'[t][i] \in DOMAIN entryIndex'[t]
                                              /\ entryIndex'[t][log'[t][i]] = i - 1
    <3>1. CASE t = s
      BY <2>3, <2>7, <3>1
    <3>2. CASE t # s
      <4>1. log'[t] = log[t] /\ entryIndex'[t] = entryIndex[t]
        BY <2>4, <3>2
      <4>2. /\ \A o \in DOMAIN entryIndex[t] : /\ o \in Statements
                                               /\ entryIndex[t][o] \in 0 .. Len(log[t]) - 1
                                               /\ log[t][entryIndex[t][o] + 1] = o
            /\ \A i \in 1 .. Len(log[t]) : /\ log[t][i] \in DOMAIN entryIndex[t]
                                           /\ entryIndex[t][log[t][i]] = i - 1
        BY DEF LogInv, IndexInverts
      <4> QED
        BY <4>1, <4>2, Zenon
    <3> QED
      BY <3>1, <3>2
  <2>9. Statements' = Statements
    BY DEF Statements
  <2> QED
    BY <2>8, <2>9 DEF IndexInverts
<1>2. ASSUME NEW c \in Clients, NEW s \in Servers, NEW st \in Statements, Resolve(c, s, st)
      PROVE  IndexInverts'
  BY <1>2 DEF Resolve, serverVars, LogInv, IndexInverts
<1>3. ASSUME NEW s \in config.replicas, Restart(s) PROVE IndexInverts'
  <2>1. s \in Servers
    BY ScrapiAssumption DEF LogInv
  <2>2. log'[s] = <<>> /\ entryIndex'[s] = <<>>
        /\ \A t \in Servers : t # s => log'[t] = log[t] /\ entryIndex'[t] = entryIndex[t]
    BY <1>3, <2>1 DEF Restart, FreshIndex, LogInv
  <2>3. DOMAIN entryIndex'[s] = {} /\ Len(log'[s]) = 0
    BY <2>2
  <2> QED
    BY <2>2, <2>3 DEF LogInv, IndexInverts
<1>4. ASSUME UNCHANGED Memory PROVE IndexInverts'
  BY <1>4 DEF Memory, LogInv, IndexInverts
<1> QED
  BY <1>1, <1>2, <1>3, <1>4, MemorySteps

LEMMA LogStep == LogInv /\ [Next]_vars => LogInv'
<1> SUFFICES ASSUME LogInv, [Next]_vars PROVE LogInv'
  OBVIOUS
<1>1. IndexInverts'
  BY IndexStep
<1>2. awaiting' \subseteq [client : Clients, server : Servers, request : Requests,
                           live : BOOLEAN]
  BY AwaitingSteps
<1>3. /\ config' \in Configs /\ log' \in [Servers -> Seq(Statements)]
      /\ incarnation' \in [Servers -> Nat] /\ DOMAIN entryIndex' = Servers
  <2>1. ASSUME NEW r \in awaiting, Register(r) PROVE <1>3
    <3>1. r.server \in Servers
      BY <2>1, RegisterStep
    <3>2. PICK newLog \in Seq(Statements), index \in Nat :
             /\ log' = [log EXCEPT ![r.server] = newLog]
             /\ entryIndex' = [entryIndex EXCEPT ![r.server] = Put(@, r.request.statement, index)]
      BY <2>1, RegisterStep
    <3>3. UNCHANGED <<config, incarnation>>
      BY <2>1, RegisterStep
    <3> QED
      BY <3>1, <3>2, <3>3 DEF LogInv
  <2>2. ASSUME NEW c \in Clients, NEW s \in Servers, NEW st \in Statements, Resolve(c, s, st)
        PROVE  <1>3
    BY <2>2 DEF Resolve, serverVars, LogInv
  <2>3. ASSUME NEW s \in config.replicas, Restart(s) PROVE <1>3
    BY <2>3, ScrapiAssumption, EmptySeq DEF Restart, LogInv
  <2>4. ASSUME UNCHANGED Memory PROVE <1>3
    BY <2>4 DEF Memory, LogInv
  <2> QED
    BY <2>1, <2>2, <2>3, <2>4, MemorySteps
<1> QED
  BY <1>1, <1>2, <1>3 DEF LogInv

(* No step gives a replica that is not a writer an entry.                   *)
LEMMA WriterStep == LogInv /\ WriterInv /\ [Next]_vars => WriterInv'
<1> SUFFICES ASSUME LogInv, WriterInv, [Next]_vars, config'.production
             PROVE  /\ \A s \in Servers : log'[s] # <<>> => s \in config'.writers
                    /\ \A r \in awaiting' : r.server \in config'.writers
  BY DEF WriterInv
<1>1. config' = config
  BY MemorySteps DEF Memory, Register, Resolve, Restart
<1>2. /\ \A s \in Servers : log[s] # <<>> => s \in config.writers
      /\ \A r \in awaiting : r.server \in config.writers
  BY <1>1 DEF WriterInv
<1>3. \A r \in awaiting' : r.server \in config.writers
  BY <1>1, <1>2, AwaitingSteps DEF TransparencyWriterAllowed
<1>4. \A s \in Servers : log'[s] # <<>> => s \in config.writers
  <2>1. ASSUME NEW r \in awaiting, Register(r) PROVE <1>4
    <3>1. PICK newLog \in Seq(Statements) : log' = [log EXCEPT ![r.server] = newLog]
      BY <2>1, RegisterStep
    <3> QED
      BY <1>2, <3>1 DEF LogInv
  <2>2. ASSUME NEW c \in Clients, NEW s \in Servers, NEW st \in Statements, Resolve(c, s, st)
        PROVE  <1>4
    BY <1>2, <2>2 DEF Resolve, serverVars
  <2>3. ASSUME NEW s \in config.replicas, Restart(s) PROVE <1>4
    BY <1>2, <2>3 DEF Restart, LogInv
  <2>4. ASSUME UNCHANGED Memory PROVE <1>4
    BY <1>2, <2>4 DEF Memory
  <2> QED
    BY <2>1, <2>2, <2>3, <2>4, MemorySteps
<1> QED
  BY <1>1, <1>3, <1>4

(* A receipt that was honest stays so: logs grow until a restart.           *)
LEMMA HonestStays ==
    ASSUME LogInv, [Next]_vars, NEW x, x.server \in Servers,
           NEW n \in 0 .. incarnation[x.server], HonestReceipt(x, n)
    PROVE  n \in 0 .. incarnation'[x.server] /\ HonestReceipt(x, n)'
<1> DEFINE l == x.receipt.signature.over
<1>1. config' = config
  BY MemorySteps DEF Memory, Register, Resolve, Restart
<1>2. l \in Seq(Statements) /\ log[x.server] \in Seq(Statements)
      /\ incarnation[x.server] \in Nat
  BY DEF HonestReceipt, LogInv
<1>3. /\ n \in 0 .. incarnation'[x.server]
      /\ n = incarnation'[x.server] => IsPrefix(l, log'[x.server])
  <2> HIDE DEF l
  <2>0. n = incarnation[x.server] => IsPrefix(l, log[x.server])
    BY DEF HonestReceipt, l
  <2>1. ASSUME NEW r \in awaiting, Register(r) PROVE <1>3
    <3>1. r.server \in Servers /\ r.request.statement \in Statements
          /\ UNCHANGED incarnation
      BY <2>1, RegisterStep
    <3>2. PICK newLog \in Seq(Statements) :
             /\ newLog = log[r.server] \/ newLog = Append(log[r.server], r.request.statement)
             /\ log' = [log EXCEPT ![r.server] = newLog]
      BY <2>1, RegisterStep
    <3>3. log'[x.server] = log[x.server]
          \/ log'[x.server] = Append(log[x.server], r.request.statement)
      BY <3>1, <3>2 DEF LogInv
    <3>4. IsPrefix(l, log[x.server]) => IsPrefix(l, log'[x.server])
      BY <1>2, <3>1, <3>3, PrefixOfAppend
    <3> QED
      BY <2>0, <3>1, <3>4
  <2>2. ASSUME NEW c \in Clients, NEW s \in Servers, NEW st \in Statements, Resolve(c, s, st)
        PROVE  <1>3
    BY <2>0, <2>2 DEF Resolve, serverVars
  <2>3. ASSUME NEW s \in config.replicas, Restart(s) PROVE <1>3
    <3>1. /\ incarnation' = [incarnation EXCEPT ![s] = @ + 1]
          /\ log' = [log EXCEPT ![s] = <<>>]
      BY <2>3 DEF Restart
    <3>2. CASE s = x.server
      BY <1>2, <3>1, <3>2 DEF LogInv
    <3>3. CASE s # x.server
      BY <2>0, <1>2, <3>1, <3>3 DEF LogInv
    <3> QED
      BY <3>2, <3>3
  <2>4. ASSUME UNCHANGED Memory PROVE <1>3
    BY <2>0, <2>4 DEF Memory
  <2> QED
    BY <2>1, <2>2, <2>3, <2>4, MemorySteps
<1> QED
  BY <1>1, <1>3 DEF HonestReceipt, KeyAfter

(* Every receipt that is issued is honest and stays so.                     *)
LEMMA IssuedStep == LogInv /\ IssuedInv /\ [Next]_vars => IssuedInv'
<1> SUFFICES ASSUME LogInv, IssuedInv, [Next]_vars, NEW x \in issued'
             PROVE  x.server \in Servers
                    /\ \E n \in 0 .. incarnation'[x.server] : HonestReceipt(x, n)'
  BY DEF IssuedInv
<1>1. CASE x \in issued
  <2>1. x.server \in Servers
    BY <1>1 DEF IssuedInv
  <2>2. PICK n \in 0 .. incarnation[x.server] : HonestReceipt(x, n)
    BY <1>1 DEF IssuedInv
  <2> QED
    BY <2>1, <2>2, HonestStays
<1>2. ASSUME NEW s \in Servers, NEW l \in Seq(Statements), NEW i \in 0 .. Len(l) - 1,
             x = [server |-> s, statement |-> l[i + 1],
                  receipt |-> IssueInclusionReceipt(l, i, ServiceKey(s))],
             IsPrefix(l, log'[s]), UNCHANGED <<config, incarnation>>
      PROVE  x.server \in Servers
             /\ \E n \in 0 .. incarnation'[x.server] : HonestReceipt(x, n)'
  <2>0. PICK n \in Nat : n = incarnation[s]
    BY DEF LogInv
  <2>1. /\ x.server = s /\ x.receipt.signature.over = l /\ x.receipt.leaf_index = i
        /\ x.statement = l[i + 1]
        /\ x.receipt = IssueInclusionReceipt(l, i, KeyAfter(s, n))
    BY <1>2, <2>0 DEF IssueInclusionReceipt, SignCose, ServiceKey, KeyAfter
  <2>2. HonestReceipt(x, n)'
    BY <1>2, <2>1 DEF HonestReceipt, KeyAfter, Statements
  <2>3. n \in 0 .. incarnation'[x.server]
    BY <1>2, <2>0, <2>1 DEF LogInv
  <2> QED
    BY <2>1, <2>2, <2>3
<1>3. ASSUME NEW r \in awaiting, Register(r), x \notin issued
      PROVE  x.server \in Servers
             /\ \E n \in 0 .. incarnation'[x.server] : HonestReceipt(x, n)'
  <2>1. r.server \in Servers /\ UNCHANGED <<config, incarnation>>
    BY <1>3, RegisterStep
  <2>2. PICK newLog \in Seq(Statements), index \in Nat :
          /\ index \in 0 .. Len(newLog) - 1
          /\ newLog[index + 1] = r.request.statement
          /\ log' = [log EXCEPT ![r.server] = newLog]
          /\ issued' = issued \cup
               {[server |-> r.server, statement |-> r.request.statement,
                 receipt |-> IssueInclusionReceipt(newLog, index, ServiceKey(r.server))]}
    BY <1>3, RegisterStep
  <2>3. IsPrefix(newLog, log'[r.server])
    BY <2>1, <2>2, PrefixReflexive DEF LogInv
  <2> QED
    BY <1>2, <1>3, <2>1, <2>2, <2>3
<1>4. ASSUME NEW c \in Clients, NEW s \in Servers, NEW st \in Statements, Resolve(c, s, st),
             x \notin issued
      PROVE  x.server \in Servers
             /\ \E n \in 0 .. incarnation'[x.server] : HonestReceipt(x, n)'
  <2> DEFINE l == log[s]
             i == entryIndex[s][st]
  <2>1. l \in Seq(Statements) /\ i \in 0 .. Len(l) - 1 /\ l[i + 1] = st
    BY <1>4 DEF Resolve, LogInv, IndexInverts
  <2>2. /\ x = [server |-> s, statement |-> st,
                receipt |-> IssueInclusionReceipt(l, i, ServiceKey(s))]
        /\ log' = log /\ UNCHANGED <<config, incarnation>>
    BY <1>4 DEF Resolve, serverVars
  <2>3. IsPrefix(l, log'[s])
    BY <2>1, <2>2, PrefixReflexive
  <2> HIDE DEF l, i
  <2> QED
    BY <1>2, <2>1, <2>2, <2>3
<1>5. ASSUME NEW s \in config.replicas, Restart(s) PROVE x \in issued
  BY <1>5 DEF Restart
<1>6. ASSUME UNCHANGED Memory PROVE x \in issued
  BY <1>6 DEF Memory
<1> QED
  BY <1>1, <1>3, <1>4, <1>5, <1>6, MemorySteps

(* Receipts are never taken back.                                           *)
LEMMA IssuedGrows == LogInv /\ [Next]_vars => issued \subseteq issued'
<1> SUFFICES ASSUME LogInv, [Next]_vars PROVE issued \subseteq issued'
  OBVIOUS
<1>1. ASSUME NEW r \in awaiting, Register(r) PROVE issued \subseteq issued'
  BY <1>1 DEF Register
<1> QED
  BY <1>1, MemorySteps DEF Resolve, Restart, Memory

-----------------------------------------------------------------------------
(* The clients.                                                            *)

LEMMA FreshCall ==
    ASSUME NEW p
    PROVE  [Idle EXCEPT !.pc = p] = [pc |-> p, deadline |-> 0, wake |-> 0]
BY DEF Idle

(* A client's call changes by one of four outcomes; it returns with a       *)
(* receipt only from Register, with the receipt just issued.                *)
LEMMA ClientStep == LogInv /\ ClientInv /\ [Next]_vars => ClientInv'
<1> SUFFICES ASSUME LogInv, ClientInv, [Next]_vars PROVE ClientInv'
  OBVIOUS
<1> DEFINE Good(k) == /\ k.pc \in Pcs
                      /\ k.pc = "returned" /\ "receipt" \in DOMAIN k =>
                            [server |-> k.server, statement |-> k.statement,
                             receipt |-> k.receipt] \in issued'
<1>1. \A c \in Clients : Good(client[c])
  BY IssuedGrows DEF ClientInv
<1>2. ASSUME NEW c, NEW k, Good(k), client' = [client EXCEPT ![c] = k]
      PROVE  ClientInv'
  <2> HIDE DEF Good
  <2>1. DOMAIN client = Clients
    BY DEF ClientInv
  <2>2. client' = [d \in Clients |-> IF d = c THEN k ELSE client[d]]
    BY <1>2, <2>1
  <2>3. client' = [d \in Clients |-> client'[d]] /\ \A d \in Clients : Good(client'[d])
    BY <1>1, <1>2, <2>2
  <2> QED
    BY <2>3 DEF ClientInv, Good, Pcs
<1>3. ASSUME client' = client PROVE ClientInv'
  BY <1>1, <1>3 DEF ClientInv
<1>4. ASSUME NEW c, Raises(c) PROVE ClientInv'
  <2> DEFINE k == [pc |-> "raised", deadline |-> 0, wake |-> 0]
  <2>1. client' = [client EXCEPT ![c] = k]
    BY <1>4, FreshCall DEF Raises
  <2>2. Good(k)
    BY DEF Pcs
  <2> HIDE DEF k, Good
  <2> QED
    BY <1>2, <2>1, <2>2
<1>5. ASSUME NEW c, client' = [client EXCEPT ![c] = [Idle EXCEPT !.pc = "waiting"]]
             \/ client' = [client EXCEPT ![c] = [Idle EXCEPT !.pc = "returned"]]
      PROVE  ClientInv'
  <2> DEFINE k(p) == [pc |-> p, deadline |-> 0, wake |-> 0]
  <2>1. client' = [client EXCEPT ![c] = k("waiting")] \/ client' = [client EXCEPT ![c] = k("returned")]
    BY <1>5, FreshCall
  <2>2. Good(k("waiting")) /\ Good(k("returned"))
    BY DEF Pcs
  <2> HIDE DEF k, Good
  <2> QED
    BY <1>2, <2>1, <2>2
<1>6. ASSUME NEW c, NEW d, NEW e, SleepOrGiveUp(c, d, e) PROVE ClientInv'
  <2> DEFINE k == [pc |-> "polling", deadline |-> e, wake |-> now + d]
  <2>1. Raises(c) \/ client' = [client EXCEPT ![c] = k]
    BY <1>6 DEF SleepOrGiveUp
  <2>2. Good(k)
    BY DEF Pcs
  <2> HIDE DEF k, Good
  <2> QED
    BY <1>2, <1>4, <2>1, <2>2
<1>7. ASSUME NEW c \in Clients, NEW s \in config.replicas, NEW q \in Requests, Post(c, s, q)
      PROVE  ClientInv'
  BY <1>4, <1>5, <1>7 DEF Post
<1>8. ASSUME NEW r \in awaiting, Register(r) PROVE ClientInv'
  <2>1. PICK receipt : /\ Returns(r.client, r.request.statement, receipt, r.server) \/ client' = client
                       /\ [server |-> r.server, statement |-> r.request.statement,
                           receipt |-> receipt] \in issued'
    BY <1>8 DEF Register
  <2> DEFINE k == [pc |-> "returned", deadline |-> 0, wake |-> 0,
                   statement |-> r.request.statement, receipt |-> receipt, server |-> r.server]
  <2>2. Good(k)
    BY <2>1 DEF Pcs
  <2>3. client' = [client EXCEPT ![r.client] = k] \/ client' = client
    BY <2>1 DEF Returns
  <2> HIDE DEF k, Good
  <2> QED
    BY <1>2, <1>3, <2>2, <2>3
<1>9. ASSUME NEW r \in awaiting, Refuse(r) \/ Disconnect(r) PROVE ClientInv'
  BY <1>3, <1>4, <1>9 DEF Refuse, Disconnect
<1>10. ASSUME NEW c \in Clients, PublishExternal(c) \/ Poll(c) PROVE ClientInv'
  BY <1>4, <1>5, <1>6, <1>10 DEF PublishExternal, Poll
<1>11. ASSUME NEW s \in config.replicas, Restart(s) PROVE ClientInv'
  <2> DEFINE k == [pc |-> "raised", deadline |-> 0, wake |-> 0]
             Broken(c) == \E r \in awaiting : r.server = s /\ r.client = c /\ r.live
  <2>1. client' = [c \in Clients |-> IF Broken(c) THEN k ELSE client[c]]
    BY <1>11, FreshCall DEF Restart
  <2>2. Good(k)
    BY DEF Pcs
  <2> HIDE DEF k, Good, Broken
  <2>3. client' = [c \in Clients |-> client'[c]] /\ \A c \in Clients : Good(client'[c])
    BY <1>1, <2>1, <2>2
  <2> QED
    BY <2>3 DEF ClientInv, Good
<1>12. ASSUME \/ \E c \in Clients, s \in config.replicas : VerifyCall(c, s)
              \/ \E c \in Clients, s \in Servers, st \in Statements : Resolve(c, s, st)
              \/ \E s \in config.replicas : TakeAnchor(s)
              \/ FollowLog \/ Tick \/ UNCHANGED vars
       PROVE  ClientInv'
  <2>1. client' = client
    BY <1>12 DEF VerifyCall, Resolve, TakeAnchor, FollowLog, Tick, vars
  <2> QED
    BY <1>3, <2>1
<1> HIDE DEF Good
<1> QED
  BY <1>7, <1>8, <1>9, <1>10, <1>11, <1>12 DEF Next

-----------------------------------------------------------------------------
(* The relying party.                                                      *)

LEMMA AnchorStep == LogInv /\ AnchorInv /\ [Next]_vars => AnchorInv'
<1> SUFFICES ASSUME LogInv, AnchorInv, [Next]_vars PROVE AnchorInv'
  OBVIOUS
<1> DEFINE IsRecord(a) == a = [on |-> TRUE, alarm |-> a.alarm, server |-> a.server,
                               key |-> a.key, root |-> a.root]
<1>0. Statements' = Statements /\ NoAnchor' = NoAnchor
  BY DEF Statements, NoAnchor
<1>1. ASSUME NEW r \in awaiting, Register(r) PROVE AnchorInv'
  <2>1. r.server \in Servers /\ r.request.statement \in Statements
        /\ UNCHANGED <<config, incarnation, anchor>>
    BY <1>1, RegisterStep
  <2>2. PICK newLog \in Seq(Statements) :
           /\ newLog = log[r.server] \/ newLog = Append(log[r.server], r.request.statement)
           /\ log' = [log EXCEPT ![r.server] = newLog]
    BY <1>1, RegisterStep
  <2>3. CASE anchor = NoAnchor
    BY <2>1, <2>3 DEF AnchorInv, NoAnchor
  <2>4. CASE anchor # NoAnchor
    <3>1. /\ IsRecord(anchor)
          /\ anchor.server \in Servers
          /\ anchor.root \in Seq(Statements) /\ anchor.root # <<>>
          /\ incarnation[anchor.server] = 0 =>
                /\ ~anchor.alarm
                /\ anchor.key = ServiceKey(anchor.server)
                /\ IsPrefix(anchor.root, log[anchor.server])
      BY <2>4 DEF AnchorInv
    <3>2. \/ log'[anchor.server] = log[anchor.server]
          \/ log'[anchor.server] = Append(log[anchor.server], r.request.statement)
      BY <2>1, <2>2, <3>1 DEF LogInv
    <3>3. IsPrefix(anchor.root, log[anchor.server])
             => IsPrefix(anchor.root, log'[anchor.server])
      <4>1. log[anchor.server] \in Seq(Statements)
        BY <3>1 DEF LogInv
      <4>2. IsPrefix(anchor.root, log[anchor.server])
               => IsPrefix(anchor.root, Append(log[anchor.server], r.request.statement))
        BY <2>1, <3>1, <4>1, PrefixOfAppend
      <4> QED
        BY <3>2, <4>2
    <3> QED
      BY <1>0, <2>1, <3>1, <3>3 DEF AnchorInv, ServiceKey
  <2> QED
    BY <2>3, <2>4
<1>2. ASSUME NEW s \in config.replicas, Restart(s) PROVE AnchorInv'
  <2>1. /\ incarnation' = [incarnation EXCEPT ![s] = @ + 1]
        /\ log' = [log EXCEPT ![s] = <<>>] /\ UNCHANGED <<config, anchor>>
    BY <1>2 DEF Restart
  <2>2. CASE anchor = NoAnchor
    BY <2>1, <2>2 DEF AnchorInv, NoAnchor
  <2>3. CASE anchor # NoAnchor
    <3>1. /\ IsRecord(anchor)
          /\ anchor.server \in Servers
          /\ anchor.root \in Seq(Statements) /\ anchor.root # <<>>
          /\ incarnation[anchor.server] = 0 =>
                /\ ~anchor.alarm
                /\ anchor.key = ServiceKey(anchor.server)
                /\ IsPrefix(anchor.root, log[anchor.server])
      BY <2>3 DEF AnchorInv
    <3>2. CASE anchor.server = s
      <4>1. incarnation'[anchor.server] # 0
        BY <2>1, <3>1, <3>2 DEF LogInv
      <4> QED
        BY <1>0, <2>1, <3>1, <4>1 DEF AnchorInv
    <3>3. CASE anchor.server # s
      <4>1. incarnation'[anchor.server] = incarnation[anchor.server]
            /\ log'[anchor.server] = log[anchor.server]
        BY <2>1, <3>1, <3>3 DEF LogInv
      <4> QED
        BY <1>0, <2>1, <3>1, <4>1 DEF AnchorInv, ServiceKey
    <3> QED
      BY <3>2, <3>3
  <2> QED
    BY <2>2, <2>3
<1>3. ASSUME NEW s \in config.replicas, TakeAnchor(s) PROVE AnchorInv'
  <2>1. s \in Servers /\ log[s] \in Seq(Statements)
    BY ScrapiAssumption DEF LogInv
  <2>2. /\ anchor' = [on |-> TRUE, alarm |-> FALSE, server |-> s, key |-> ServiceKey(s),
                      root |-> log[s]]
        /\ log[s] # <<>> /\ UNCHANGED <<config, log, incarnation>>
    BY <1>3 DEF TakeAnchor, serverVars
  <2>3. IsPrefix(log[s], log[s])
    BY <2>1, PrefixReflexive
  <2> QED
    BY <1>0, <2>1, <2>2, <2>3 DEF AnchorInv, ServiceKey
<1>4. ASSUME FollowLog PROVE AnchorInv'
  <2> DEFINE s == anchor.server
             verified == /\ Len(anchor.root) <= Len(log[s])
                         /\ VerifyConsistencyReceipt(
                               IssueConsistencyReceipt(log[s], Len(anchor.root), ServiceKey(s)),
                               anchor.root, anchor.key)
  <2>1. /\ anchor.on
        /\ anchor' = IF verified THEN [anchor EXCEPT !.root = log[s]]
                                 ELSE [anchor EXCEPT !.alarm = TRUE]
        /\ UNCHANGED <<config, log, incarnation>>
    BY <1>4 DEF FollowLog, serverVars
  <2>2. /\ IsRecord(anchor) /\ s \in Servers
        /\ anchor.root \in Seq(Statements) /\ anchor.root # <<>>
        /\ incarnation[s] = 0 => /\ ~anchor.alarm /\ anchor.key = ServiceKey(s)
                                 /\ IsPrefix(anchor.root, log[s])
    BY <2>1 DEF AnchorInv, NoAnchor
  <2>3. log[s] \in Seq(Statements) /\ Len(log[s]) \in Nat /\ Len(anchor.root) \in Nat \ {0}
    BY <2>2, LenProperties, EmptySeq DEF LogInv
  <2>4. incarnation[s] = 0 => verified
    BY <2>2, <2>3, ConsistencyReceiptVerifies DEF IsPrefix
  <2>5. verified => log[s] # <<>> /\ IsPrefix(log[s], log[s])
    BY <2>3, EmptySeq, PrefixReflexive
  <2> HIDE DEF verified
  <2>6. CASE verified
    <3>1. anchor' = [on |-> TRUE, alarm |-> anchor.alarm, server |-> s, key |-> anchor.key,
                     root |-> log[s]]
      BY <2>1, <2>2, <2>6
    <3> QED
      BY <1>0, <2>1, <2>2, <2>3, <2>5, <2>6, <3>1 DEF AnchorInv, ServiceKey
  <2>7. CASE ~verified
    <3>1. anchor' = [on |-> TRUE, alarm |-> TRUE, server |-> s, key |-> anchor.key,
                     root |-> anchor.root]
      BY <2>1, <2>2, <2>7
    <3> QED
      BY <1>0, <2>1, <2>2, <2>4, <2>7, <3>1 DEF AnchorInv
  <2> QED
    BY <2>6, <2>7
<1>5. ASSUME UNCHANGED <<config, log, incarnation, anchor>> PROVE AnchorInv'
  BY <1>0, <1>5 DEF AnchorInv, ServiceKey
<1>6. ASSUME NEW c \in Clients, NEW s \in config.replicas,
             VerifyCall(c, s) \/ \E q \in Requests : Post(c, s, q)
      PROVE  AnchorInv'
  BY <1>5, <1>6 DEF VerifyCall, Post, serverVars
<1>7. ASSUME NEW r \in awaiting, Refuse(r) \/ Disconnect(r) PROVE AnchorInv'
  BY <1>5, <1>7 DEF Refuse, Disconnect, serverVars
<1>8. ASSUME \/ \E c \in Clients, s \in Servers, st \in Statements : Resolve(c, s, st)
             \/ \E c \in Clients : PublishExternal(c) \/ Poll(c)
             \/ Tick \/ UNCHANGED vars
      PROVE  AnchorInv'
  BY <1>5, <1>8 DEF Resolve, PublishExternal, Poll, Tick, vars, serverVars
<1> QED
  BY <1>1, <1>2, <1>3, <1>4, <1>6, <1>7, <1>8 DEF Next

-----------------------------------------------------------------------------
(* The rate limiter.                                                       *)

(* A step of the limiter for one identity at one replica.                   *)
LEMMA LimiterStep ==
    ASSUME RateInv, NEW s \in Servers, NEW c \in Clients, now' = now, posts' \in 0 .. MaxPosts,
           \/ WithinLimit(s, Identity(c)) /\ CountHit(s, Identity(c))
           \/ RefuseHit(s, Identity(c))
    PROVE  RateInv'
<1> DEFINE id == Identity(c)
           A == admitted[s][id]
           H == hits[s][id]
           R == RecentHits(s, id)
<1>1. id \in Identities /\ now \in Nat /\ BucketInv(A, H, now)
  BY Numbers DEF Identities, RateInv
<1>2. Hit(s, id) = [at |-> now, nr |-> Cardinality(AtTick(H, now))]
      /\ R = {h \in H : now - h.at < Window}
  BY DEF Hit, AtTick, RecentHits
<1>3. R \subseteq H /\ Cardinality(AtTick(H, now)) \in Nat
  BY <1>1, <1>2, RecentProperties
<1>4. BucketInv(A, R, now)
  BY <1>1, <1>2, PruneBucket
<1>5. H \subseteq Hits /\ A \subseteq Hits /\ Hit(s, id) \in Hits
  BY <1>1, <1>2, <1>3 DEF BucketInv, Hits
<1>6. ASSUME NEW A2 \in SUBSET Hits, NEW H2 \in SUBSET Hits, BucketInv(A2, H2, now),
             hits' = [hits EXCEPT ![s][id] = H2],
             admitted' = [admitted EXCEPT ![s][id] = A2]
      PROVE  RateInv'
  <2> HIDE DEF id
  <2>1. /\ hits' \in [Servers -> [Identities -> SUBSET Hits]]
        /\ admitted' \in [Servers -> [Identities -> SUBSET Hits]]
    BY <1>6 DEF RateInv
  <2>2. ASSUME NEW t \in Servers, NEW k \in Identities
        PROVE  BucketInv(admitted'[t][k], hits'[t][k], now)
    <3>1. CASE t = s /\ k = id
      BY <1>1, <1>6, <3>1 DEF RateInv
    <3>2. CASE ~(t = s /\ k = id)
      <4>1. admitted'[t][k] = admitted[t][k] /\ hits'[t][k] = hits[t][k]
        BY <1>6, <3>2 DEF RateInv
      <4> QED
        BY <4>1 DEF RateInv
    <3> QED
      BY <3>1, <3>2
  <2>3. Identities' = Identities
    BY DEF Identities, Identity
  <2> QED
    BY <2>1, <2>2, <2>3 DEF RateInv, BucketInv, InWindow, AtTick, Hits
<1>7. CASE RefuseHit(s, id)
  <2>1. hits' = [hits EXCEPT ![s][id] = R] /\ admitted' = [admitted EXCEPT ![s][id] = A]
    BY <1>7 DEF RefuseHit, RateInv
  <2> QED
    BY <1>3, <1>4, <1>5, <1>6, <2>1
<1>8. CASE WithinLimit(s, id) /\ CountHit(s, id) /\ Limit = 0
  <2>1. hits' = [hits EXCEPT ![s][id] = H]
        /\ admitted' = [admitted EXCEPT ![s][id] = A \cup {Hit(s, id)}]
    BY <1>8 DEF CountHit, RateInv
  <2>2. BucketInv(A \cup {Hit(s, id)}, H, now)
    BY <1>1, <1>2, <1>3, <1>8, UnlimitedBucket
  <2> QED
    BY <1>5, <1>6, <2>1, <2>2
<1>9. CASE WithinLimit(s, id) /\ CountHit(s, id) /\ Limit # 0
  <2>1. hits' = [hits EXCEPT ![s][id] = R \cup {Hit(s, id)}]
        /\ admitted' = [admitted EXCEPT ![s][id] = A \cup {Hit(s, id)}]
    BY <1>9 DEF CountHit, RateInv
  <2>2. Cardinality(R) < Limit /\ Limit > 0
    BY <1>9, Numbers DEF WithinLimit
  <2>3. BucketInv(A \cup {Hit(s, id)}, R \cup {Hit(s, id)}, now)
    BY <1>1, <1>2, <2>2, CountBucket
  <2> QED
    BY <1>3, <1>5, <1>6, <2>1, <2>3, ZenonT(40)
<1> QED
  BY <1>7, <1>8, <1>9

LEMMA RateStep == LogInv /\ RateInv /\ [Next]_vars => RateInv'
<1> SUFFICES ASSUME LogInv, RateInv, [Next]_vars PROVE RateInv'
  OBVIOUS
<1>0. /\ now \in Nat /\ posts \in Nat /\ config.replicas \subseteq Servers
      /\ Identities' = Identities
      /\ posts < MaxPosts => posts + 1 \in 0 .. MaxPosts
  BY Numbers, ScrapiAssumption DEF RateInv, LogInv, Identities, Identity
<1>1. ASSUME UNCHANGED <<limiterVars, now>>, posts' \in 0 .. MaxPosts PROVE RateInv'
  BY <1>0, <1>1 DEF RateInv, limiterVars, BucketInv, InWindow, AtTick, Hits
<1>2. ASSUME NEW c \in Clients, NEW s \in config.replicas, NEW q \in Requests, Post(c, s, q)
      PROVE  RateInv'
  <2>1. posts' \in 0 .. MaxPosts /\ now' = now /\ s \in Servers
    BY <1>0, <1>2 DEF Post, CanPost
  <2> QED
    BY <1>1, <1>2, <2>1, LimiterStep DEF Post
<1>3. ASSUME NEW c \in Clients, NEW s \in config.replicas, VerifyCall(c, s) PROVE RateInv'
  <2>1. posts' \in 0 .. MaxPosts /\ now' = now /\ s \in Servers
    BY <1>0, <1>3 DEF VerifyCall
  <2> QED
    BY <1>3, <2>1, LimiterStep DEF VerifyCall
<1>4. ASSUME NEW r \in awaiting, Refuse(r) \/ Register(r) \/ Disconnect(r) PROVE RateInv'
  BY <1>1, <1>4 DEF Refuse, Register, Disconnect, RateInv
<1>5. ASSUME NEW c \in Clients, NEW s \in Servers, NEW st \in Statements, Resolve(c, s, st)
      PROVE  RateInv'
  BY <1>0, <1>1, <1>5 DEF Resolve
<1>6. ASSUME NEW c \in Clients, PublishExternal(c) \/ Poll(c) PROVE RateInv'
  BY <1>0, <1>1, <1>6 DEF PublishExternal, Poll, CanPost, RateInv
<1>7. ASSUME \/ \E s \in config.replicas : TakeAnchor(s)
             \/ FollowLog \/ UNCHANGED vars
      PROVE  RateInv'
  <2>1. posts' = posts /\ UNCHANGED <<limiterVars, now>>
    BY <1>7 DEF TakeAnchor, FollowLog, vars, limiterVars
  <2> QED
    BY <1>1, <2>1 DEF RateInv
<1>8. ASSUME NEW s \in config.replicas, Restart(s) PROVE RateInv'
  <2>1. /\ hits' = [hits EXCEPT ![s] = [id \in Identities |-> {}]]
        /\ admitted' = [admitted EXCEPT ![s] = [id \in Identities |-> {}]]
        /\ UNCHANGED <<now, posts>> /\ s \in Servers
    BY <1>0, <1>8 DEF Restart
  <2>2. BucketInv({}, {}, now)
    <3>1. InWindow({}, now) = {} /\ \A last \in 0 .. now : InWindow({}, last) = {}
      BY DEF InWindow
    <3> QED
      BY <3>1, Numbers, FS_EmptySet DEF BucketInv, AtTick
  <2>3. ASSUME NEW t \in Servers, NEW id \in Identities
        PROVE  BucketInv(admitted'[t][id], hits'[t][id], now)
    <3>1. CASE t = s
      BY <2>1, <2>2, <3>1 DEF RateInv
    <3>2. CASE t # s
      BY <2>1, <3>2 DEF RateInv
    <3> QED
      BY <3>1, <3>2
  <2> QED
    BY <1>0, <2>1, <2>3 DEF RateInv, BucketInv, InWindow, AtTick, Hits
<1>9. ASSUME Tick PROVE RateInv'
  <2>1. now' = now + 1 /\ now + 1 \in 0 .. MaxTime /\ UNCHANGED <<limiterVars, posts>>
    BY <1>0, <1>9, Numbers DEF Tick, RateInv
  <2>2. \A s \in Servers, id \in Identities :
           BucketInv(admitted[s][id], hits[s][id], now + 1)
    BY <1>0, TickBucket DEF RateInv
  <2> QED
    BY <1>0, <2>1, <2>2 DEF RateInv, limiterVars, BucketInv, InWindow, AtTick, Hits
<1> QED
  BY <1>2, <1>3, <1>4, <1>5, <1>6, <1>7, <1>8, <1>9 DEF Next

-----------------------------------------------------------------------------
(* Theorems.                                                               *)

(* The invariant behind the theorems of this module: memory, receipts,      *)
(* clients, relying party and rate limiter.                                 *)
THEOREM InvariantHolds == Spec => []ScrapiInv
<1>1. Init => ScrapiInv
  BY InitInv
<1>2. ScrapiInv /\ [Next]_vars => ScrapiInv'
  BY LogStep, WriterStep, IssuedStep, ClientStep, AnchorStep, RateStep DEF ScrapiInv
<1> QED
  BY <1>1, <1>2, PTL DEF Spec

(* A statement has one entry, the index finds it, and an honest log raises  *)
(* no alarm: what scrapi_register's idempotent registration promises, after *)
(* every retry, lost answer and restart.                                    *)
THEOREM LogAndIndexAgreeHolds == Spec => []LogAndIndexAgree
<1>1. ScrapiInv => LogAndIndexAgree
  <2> SUFFICES ASSUME ScrapiInv PROVE LogAndIndexAgree
    OBVIOUS
  <2>1. TypeOK
    <3>1. \A s \in Servers : /\ DOMAIN entryIndex[s] \subseteq Statements
                             /\ Range(entryIndex[s]) \subseteq 0 .. (Len(log[s]) - 1)
      BY DEF ScrapiInv, LogInv, IndexInverts, Range
    <3>2. hits \in [Servers -> [Identities -> SUBSET [at : 0 .. now, nr : Nat]]]
      <4>1. ASSUME NEW s \in Servers, NEW id \in Identities
            PROVE  hits[s][id] \subseteq [at : 0 .. now, nr : Nat]
        <5>1. ASSUME NEW h \in hits[s][id]
              PROVE  h \in [at : 0 .. now, nr : Nat]
          <6>1. h \in Hits /\ h.at <= now /\ now \in Nat
            BY Numbers DEF ScrapiInv, RateInv, BucketInv
          <6> QED
            BY <6>1 DEF Hits
        <5> QED
          BY <5>1
      <4>2. hits \in [Servers -> [Identities -> SUBSET Hits]]
        BY DEF ScrapiInv, RateInv
      <4> QED
        BY <4>1, <4>2
    <3> QED
      BY <3>1, <3>2 DEF ScrapiInv, LogInv, ClientInv, RateInv, TypeOK, Pcs
  <2>2. OneEntryPerStatement
    <3> SUFFICES ASSUME NEW s \in Servers, NEW i \in DOMAIN log[s], NEW j \in DOMAIN log[s]
                 PROVE  /\ log[s][i] = log[s][j] => i = j
                        /\ log[s][i] \in DOMAIN entryIndex[s]
                        /\ entryIndex[s][log[s][i]] = i - 1
      BY DEF OneEntryPerStatement
    <3>1. Len(log[s]) \in Nat /\ DOMAIN log[s] = 1 .. Len(log[s])
      BY LenProperties DEF ScrapiInv, LogInv
    <3>2. \A k \in 1 .. Len(log[s]) : /\ log[s][k] \in DOMAIN entryIndex[s]
                                     /\ entryIndex[s][log[s][k]] = k - 1
      BY DEF ScrapiInv, LogInv, IndexInverts
    <3> QED
      BY <3>1, <3>2
  <2>3. HonestLogNoAlarm
    <3> SUFFICES ASSUME anchor.alarm PROVE incarnation[anchor.server] > 0
      BY DEF HonestLogNoAlarm
    <3>1. anchor # NoAnchor
      BY DEF NoAnchor
    <3> QED
      BY <3>1 DEF ScrapiInv, AnchorInv, LogInv
  <2> QED
    BY <2>1, <2>2, <2>3 DEF LogAndIndexAgree
<1> QED
  BY <1>1, InvariantHolds, PTL

(* What an honest receipt verifies: its statement, under the key that       *)
(* signed it, and nothing else.                                             *)
LEMMA HonestReceiptVerifies ==
    ASSUME NEW x, NEW n, HonestReceipt(x, n), NEW st \in Statements, NEW key
    PROVE  VerifyReceipt(st, x.receipt, key)
              <=> key = KeyAfter(x.server, n) /\ st = x.statement
<1> DEFINE l == x.receipt.signature.over
           i == x.receipt.leaf_index
<1>1. /\ l \in Seq(Statements) /\ i \in 0 .. Len(l) - 1 /\ x.statement = l[i + 1]
      /\ x.receipt = IssueInclusionReceipt(l, i, KeyAfter(x.server, n))
  BY DEF HonestReceipt
<1> HIDE DEF l, i
<1>2. VerifyReceipt(st, IssueInclusionReceipt(l, i, KeyAfter(x.server, n)), key)
         <=> key = KeyAfter(x.server, n) /\ st = l[i + 1]
  BY <1>1, InclusionReceiptBinds
<1> QED
  BY <1>1, <1>2

(* verify_receipt binds: tried with any statement and any published key, a  *)
(* receipt verifies for none but the statement it was issued for.           *)
THEOREM ReceiptBindsStatementHolds == Spec => []ReceiptBindsStatement
<1>1. ScrapiInv => ReceiptBindsStatement
  BY HonestReceiptVerifies DEF ScrapiInv, IssuedInv, ReceiptBindsStatement
<1> QED
  BY <1>1, InvariantHolds, PTL

(* An honest log's statement is one that was posted.                        *)
LEMMA HonestStatement ==
    ASSUME NEW x, NEW n, HonestReceipt(x, n)
    PROVE  x.statement \in Statements
<1> DEFINE l == x.receipt.signature.over
           i == x.receipt.leaf_index
<1>1. l \in Seq(Statements) /\ i \in 0 .. Len(l) - 1 /\ x.statement = l[i + 1]
  BY DEF HonestReceipt
<1> HIDE DEF l, i
<1>2. Len(l) \in Nat /\ i + 1 \in 1 .. Len(l)
  BY <1>1, LenProperties
<1> QED
  BY <1>1, <1>2, ElementOfSeq

(* A verified receipt is found among those attached, first or second.       *)
LEMMA AttachedVerifies ==
    ASSUME NEW st \in Statements, st = Bare(st), NEW receipt, NEW key,
           VerifyReceipt(st, receipt, key)
    PROVE  LET once == AttachReceipt(st, receipt)
               twice == AttachReceipt(once, receipt)
           IN \A x \in {once, twice} : VerifyTransparentStatement(x, key)
<1> DEFINE d == st.declares
           p == st.payload
<1>1. st = Tagged(d, p, <<>>)
  BY DEF Bare
<1> HIDE DEF d, p
<1>2. AttachReceipt(st, receipt) = Tagged(d, p, <<receipt>>)
  BY <1>1 DEF AttachReceipt, Tagged
<1>3. AttachReceipt(AttachReceipt(st, receipt), receipt) = Tagged(d, p, <<receipt, receipt>>)
  BY <1>2 DEF AttachReceipt, Tagged
<1>4. ASSUME NEW receipts, 1 \in DOMAIN receipts, receipts[1] = receipt
      PROVE  VerifyTransparentStatement(Tagged(d, p, receipts), key)
  <2>1. Bare(Tagged(d, p, receipts)) = st
    BY <1>1 DEF Bare, Tagged
  <2>2. Tagged(d, p, receipts).receipts = receipts /\ Tagged(d, p, receipts).form = "tagged"
    BY DEF Tagged
  <2> QED
    BY <1>4, <2>1, <2>2 DEF VerifyTransparentStatement, DecodesAsSign1
<1>5. /\ 1 \in DOMAIN <<receipt>> /\ <<receipt>>[1] = receipt
      /\ 1 \in DOMAIN <<receipt, receipt>> /\ <<receipt, receipt>>[1] = receipt
  OBVIOUS
<1> QED
  BY <1>2, <1>3, <1>4, <1>5

(* With a pinned key receipts outlive restarts, and what publish_signed_-   *)
(* statement returns makes its statement transparent, attached once or      *)
(* twice.                                                                   *)
THEOREM ReceiptsVerifyHolds == Spec => []ReceiptsVerify
<1>1. ScrapiInv => ReceiptsStayVerifiable
  <2> SUFFICES ASSUME ScrapiInv, config.pinned, NEW x \in issued, NEW s \in Servers
               PROVE  VerifyReceipt(x.statement, x.receipt, ServiceKey(s))
    BY DEF ReceiptsStayVerifiable
  <2>1. PICK n \in 0 .. incarnation[x.server] : HonestReceipt(x, n)
    BY DEF ScrapiInv, IssuedInv
  <2>2. ServiceKey(s) = KeyAfter(x.server, n)
    BY DEF ServiceKey, KeyAfter
  <2> QED
    BY <2>1, <2>2, HonestStatement, HonestReceiptVerifies
<1>2. ScrapiInv => TransparentVerifies
  <2> SUFFICES ASSUME ScrapiInv, NEW c \in Clients,
                      client[c].pc = "returned", "receipt" \in DOMAIN client[c],
                      client[c].statement = Bare(client[c].statement), ~Restarted
               PROVE  LET once == AttachReceipt(client[c].statement, client[c].receipt)
                          twice == AttachReceipt(once, client[c].receipt)
                      IN \A st \in {once, twice} :
                            VerifyTransparentStatement(st, ServiceKey(client[c].server))
    BY DEF TransparentVerifies
  <2> DEFINE x == [server |-> client[c].server, statement |-> client[c].statement,
                   receipt |-> client[c].receipt]
  <2>1. x \in issued
    BY DEF ScrapiInv, ClientInv
  <2>2. /\ x.server = client[c].server /\ x.statement = client[c].statement
        /\ x.receipt = client[c].receipt
    OBVIOUS
  <2> HIDE DEF x
  <2>3. x.server \in Servers
    BY <2>1 DEF ScrapiInv, IssuedInv
  <2>4. PICK n \in 0 .. incarnation[x.server] : HonestReceipt(x, n)
    BY <2>1 DEF ScrapiInv, IssuedInv
  <2>5. incarnation[x.server] = 0 /\ n = 0
    BY <2>3, <2>4 DEF Restarted, ScrapiInv, LogInv
  <2>6. ServiceKey(x.server) = KeyAfter(x.server, n)
    BY <2>5 DEF ServiceKey, KeyAfter
  <2>7. x.statement \in Statements /\ VerifyReceipt(x.statement, x.receipt, ServiceKey(x.server))
    BY <2>4, <2>6, HonestStatement, HonestReceiptVerifies
  <2> QED
    BY <2>2, <2>7, AttachedVerifies
<1>3. ScrapiInv => ReceiptsVerify
  BY <1>1, <1>2 DEF ReceiptsVerify
<1> QED
  BY <1>3, InvariantHolds, PTL

(* _transparency_writer_allowed keeps the tree from forking: with one       *)
(* writer in production, of any two roots that receipts sign one extends    *)
(* the other.                                                               *)
THEOREM SingleHistoryHolds == Spec => []SingleHistory
<1>1. ScrapiInv => SingleHistory
  <2> SUFFICES ASSUME ScrapiInv, config.production, Cardinality(config.writers) <= 1, ~Restarted,
                      NEW x \in issued, NEW y \in issued
               PROVE  \/ IsPrefix(x.receipt.signature.over, y.receipt.signature.over)
                      \/ IsPrefix(y.receipt.signature.over, x.receipt.signature.over)
    BY DEF SingleHistory
  <2>1. ASSUME NEW z \in issued
        PROVE  LET l == z.receipt.signature.over
               IN /\ z.server \in config.writers /\ l \in Seq(Statements)
                  /\ log[z.server] \in Seq(Statements) /\ IsPrefix(l, log[z.server])
    <3> DEFINE l == z.receipt.signature.over
    <3>1. z.server \in Servers /\ log[z.server] \in Seq(Statements)
      BY DEF ScrapiInv, IssuedInv, LogInv
    <3>2. PICK n \in 0 .. incarnation[z.server] : HonestReceipt(z, n)
      BY DEF ScrapiInv, IssuedInv
    <3>3. n = incarnation[z.server]
      BY <3>1, <3>2 DEF Restarted, ScrapiInv, LogInv
    <3>4. /\ l \in Seq(Statements) /\ z.receipt.leaf_index \in 0 .. Len(l) - 1
          /\ IsPrefix(l, log[z.server])
      BY <3>2, <3>3 DEF HonestReceipt
    <3> HIDE DEF l
    <3>5. Len(l) \in Nat /\ Len(log[z.server]) \in Nat /\ Len(l) > 0
          /\ Len(l) <= Len(log[z.server])
      BY <3>1, <3>4, LenProperties DEF IsPrefix
    <3>6. log[z.server] # <<>>
      BY <3>1, <3>5, EmptySeq
    <3>7. z.server \in config.writers
      BY <3>1, <3>6 DEF ScrapiInv, WriterInv
    <3> QED
      BY <3>1, <3>4, <3>7 DEF l
  <2>2. IsFiniteSet(config.writers)
    BY Numbers, ScrapiAssumption, FS_Subset DEF ScrapiInv, LogInv
  <2>3. x.server = y.server
    <3>1. Cardinality(config.writers) \in Nat /\ config.writers # {}
      BY <2>1, <2>2, FS_CardinalityType
    <3>2. Cardinality(config.writers) = 1
      BY <2>2, <3>1, FS_EmptySet
    <3>3. PICK w : config.writers = {w}
      BY <2>2, <3>2, FS_Singleton
    <3> QED
      BY <2>1, <3>3
  <2> QED
    BY <2>1, <2>3, PrefixesCompare
<1> QED
  BY <1>1, InvariantHolds, PTL

(* RateLimitMiddleware: no window of any bucket, wherever it ends, holds    *)
(* more than Limit requests that were let through.                          *)
THEOREM RateBoundHolds == Spec => []RateBound
<1>1. ScrapiInv => RateBound
  <2> SUFFICES ASSUME ScrapiInv, Limit > 0, NEW s \in Servers, NEW id \in Identities,
                      NEW last \in 0 .. now
               PROVE  Cardinality({h \in admitted[s][id] : h.at <= last /\ last - h.at < Window})
                         <= Limit
    BY DEF RateBound
  <2>1. Cardinality(InWindow(admitted[s][id], last)) <= Limit
    BY DEF ScrapiInv, RateInv, BucketInv
  <2> QED
    BY <2>1 DEF InWindow
<1> QED
  BY <1>1, InvariantHolds, PTL

(* The bound counts requests and not ticks: each request that is let        *)
(* through adds a hit that was not there before.                            *)
HitsAreFresh ==
    Limit > 0 /\ Window > 0 =>
        \A s \in Servers, id \in Identities : Hit(s, id) \notin admitted[s][id]

THEOREM HitsAreFreshHolds == Spec => []HitsAreFresh
<1>1. ScrapiInv => HitsAreFresh
  <2> SUFFICES ASSUME ScrapiInv, Limit > 0, Window > 0, NEW s \in Servers, NEW id \in Identities,
                      Hit(s, id) \in admitted[s][id]
               PROVE  FALSE
    BY DEF HitsAreFresh
  <2> DEFINE A == admitted[s][id]
             H == hits[s][id]
  <2>1. BucketInv(A, H, now) /\ now \in Nat
    BY Numbers DEF ScrapiInv, RateInv
  <2>2. Cardinality(AtTick(H, now)) \in Nat
    BY <2>1, RecentProperties
  <2>3. Hit(s, id).at = now /\ Hit(s, id).nr = Cardinality(AtTick(H, now))
    BY DEF Hit, AtTick
  <2>4. Hit(s, id) \in AtTick(A, now)
    BY <2>3 DEF AtTick
  <2>5. Hit(s, id).nr < Cardinality(AtTick(H, now))
    BY <2>1, <2>4 DEF BucketInv
  <2> QED
    BY <2>2, <2>3, <2>5
<1> QED
  BY <1>1, InvariantHolds, PTL
=============================================================================
