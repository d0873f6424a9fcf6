--------------------------- MODULE RepoGateProofs ----------------------------
(***************************************************************************)
(* Proofs about RepoGate for every set of paths, branches, actors and      *)
(* edits, every policy and every number of commits and receipts: what the  *)
(* merge check lets through stays within the mandate's scope, keeps the    *)
(* guards of protected files, executes no poison, and a receipt's links    *)
(* and its verdict hold while others push, merge and evaluate.             *)
(***************************************************************************)
EXTENDS RepoGate, SequenceTheorems, WellFoundedInduction, TLAPS

-----------------------------------------------------------------------------
(* The inductive invariant.                                                *)

CommitType == [tree : Trees, anc : SUBSET Nat]
Commits == 1 .. Len(commits)

(* Commits are numbered so that ancestors come first, and a commit has the  *)
(* ancestors of its ancestors.                                              *)
GraphInv ==
    /\ commits \in Seq(CommitType)
    /\ \A c \in Commits : /\ {1, c} \subseteq commits[c].anc
                         /\ \A a \in commits[c].anc : a \in 1 .. c /\ commits[a].anc \subseteq commits[c].anc
    /\ main \in Commits
    /\ heads \in [Branches -> {0} \cup Commits]

(* The evidence a gate run holds stays true of the repository.              *)
RunInv ==
    \A run \in runs : /\ run.branch \in Branches
                      /\ run.head \in Commits /\ run.base \in Commits
                      /\ run.merge_base = MergeBase(run.base, run.head)
                      /\ run.priors \in 0 .. Len(receipts)

(* What a receipt that does not deny says of the change from the merge base *)
(* it was evaluated against to its head.                                    *)
Evaluated(r) ==
    LET a == Tree(MergeBase(r.base, r.head))
        b == Tree(r.head)
    IN  /\ r.head \in Commits /\ r.base \in Commits
        /\ r.changed \in Diffs(a, b)
        /\ PathScopeReasons(r.changed, r.actor) \subseteq {"agent_identity_mismatch"}
        /\ gate = "shared" => /\ ProtectedInvariantReasons(r.changed, a, b) = {}
                              /\ CrossSession(r.changed, a) \subseteq r.flags

(* A receipt names the receipts written before its evidence was loaded, and *)
(* the shared gate's links are those that these receipts give.              *)
ReceiptInv ==
    /\ receipts \in Seq({receipts[k] : k \in DOMAIN receipts})
    /\ cosigned \subseteq DOMAIN receipts
    /\ \A k \in 1 .. Len(receipts) :
          /\ receipts[k].branch \in Branches
          /\ \E n \in 0 .. k - 1 : receipts[k].refs = 1 .. n
          /\ receipts[k].outcome # "deny" => Evaluated(receipts[k])
          /\ gate = "shared" =>
                receipts[k].links = LinkReceiptChain(receipts[k], receipts, receipts[k].refs)

RepoInv == gate \in {"demo", "shared"} /\ GraphInv /\ RunInv /\ ReceiptInv

-----------------------------------------------------------------------------
(* Numbers and sequences.                                                  *)

(* A set of numbers that is not empty has a least one.                      *)
LEMMA LeastNumber ==
    ASSUME NEW A, A \subseteq Nat, A # {}
    PROVE  \E m \in A : \A a \in A : m <= a
<1>1. PICK m \in A : \A a \in A : ~(<<a, m>> \in OpToRel(<, Nat))
  BY NatLessThanWellFounded, WFMin
<1>2. \A a \in A : ~(a < m)
  BY <1>1 DEF OpToRel
<1> QED
  BY <1>2

(* A bounded one has a greatest.                                            *)
LEMMA MaxProperties ==
    ASSUME NEW A, A \subseteq Nat, A # {}, NEW n \in Nat, \A a \in A : a <= n
    PROVE  Max(A) \in A /\ \A a \in A : a <= Max(A)
<1> DEFINE Above == {m \in Nat : \A a \in A : a <= m}
<1>1. Above \subseteq Nat /\ n \in Above
  OBVIOUS
<1> HIDE DEF Above
<1>2. PICK m \in Above : \A x \in Above : m <= x
  BY <1>1, LeastNumber
<1>3. m \in Nat /\ \A a \in A : a <= m
  BY <1>2 DEF Above
<1>4. m \in A
  <2> SUFFICES ASSUME m \notin A PROVE FALSE
    OBVIOUS
  <2>1. \A a \in A : a <= m - 1
    BY <1>3
  <2>2. m - 1 \in Nat
    <3>1. PICK a \in A : a \in Nat /\ a <= m - 1
      BY <2>1
    <3> QED
      BY <1>3, <3>1
  <2>3. m - 1 \in Above
    BY <2>1, <2>2 DEF Above
  <2> QED
    BY <1>2, <1>3, <2>3
<1>5. \E x \in A : \A a \in A : x >= a
  BY <1>3, <1>4
<1>6. Max(A) \in A /\ \A a \in A : Max(A) >= a
  BY <1>5 DEF Max
<1> QED
  BY <1>6

(* A sequence extended by an element that nothing is known of.              *)
LEMMA AppendOwn ==
    ASSUME NEW s, s \in Seq({s[k] : k \in DOMAIN s}), NEW x, NEW t, t = Append(s, x)
    PROVE  /\ t \in Seq({t[k] : k \in DOMAIN t})
           /\ Len(s) \in Nat /\ Len(t) = Len(s) + 1
           /\ DOMAIN s = 1 .. Len(s) /\ DOMAIN t = 1 .. Len(s) + 1
           /\ \A k \in 1 .. Len(s) : t[k] = s[k]
           /\ t[Len(s) + 1] = x
<1> DEFINE S == {s[k] : k \in DOMAIN s}
           X == S \cup {x}
<1>1. Len(s) \in Nat /\ DOMAIN s = 1 .. Len(s) /\ s \in Seq(S)
  BY LenProperties
<1> HIDE DEF S
<1>2. s \in Seq(X) /\ x \in X
  BY <1>1, SeqMonotonic
<1> HIDE DEF X
<1>3. /\ t \in Seq(X) /\ Len(t) = Len(s) + 1
      /\ \A k \in 1 .. Len(s) : t[k] = s[k]
      /\ t[Len(s) + 1] = x
  BY <1>1, <1>2
<1>4. DOMAIN t = 1 .. Len(t)
  BY <1>3, LenProperties
<1> DEFINE T == {t[k] : k \in DOMAIN t}
<1>5. S \subseteq T /\ x \in T
  BY <1>1, <1>3, <1>4 DEF S
<1> HIDE DEF T
<1>6. s \in Seq(T)
  BY <1>1, <1>5, SeqMonotonic
<1>7. t \in Seq(T)
  BY <1>5, <1>6
<1> QED
  BY <1>1, <1>3, <1>4, <1>7 DEF T

-----------------------------------------------------------------------------
(* The commit graph.                                                       *)

(* A merge base is a common ancestor.                                       *)
LEMMA MergeBaseIsCommon ==
    ASSUME GraphInv, NEW a \in Commits, NEW b \in Commits
    PROVE  /\ MergeBase(a, b) \in commits[a].anc \cap commits[b].anc
           /\ MergeBase(a, b) \in Commits
<1> DEFINE common == commits[a].anc \cap commits[b].anc
<1>1. Len(commits) \in Nat
  BY LenProperties DEF GraphInv
<1>2. 1 \in common /\ \A c \in common : c \in 1 .. a
  BY DEF GraphInv
<1>3. a \in Nat /\ a <= Len(commits)
  BY <1>1 DEF Commits
<1> HIDE DEF common
<1>4. common \subseteq Nat /\ common # {} /\ \A c \in common : c <= a
  BY <1>2, <1>3
<1>5. Max(common) \in common
  BY <1>3, <1>4, MaxProperties
<1>6. Max(common) \in Commits
  BY <1>1, <1>2, <1>3, <1>5 DEF Commits
<1> QED
  BY <1>5, <1>6 DEF MergeBase, common

(* The commits there are stay as they are.                                  *)
Grows == Commits \subseteq Commits' /\ \A c \in Commits : commits'[c] = commits[c]

LEMMA MergeBaseStays ==
    ASSUME GraphInv, Grows, NEW a \in Commits, NEW b \in Commits
    PROVE  /\ MergeBase(a, b)' = MergeBase(a, b)
           /\ Tree(MergeBase(a, b))' = Tree(MergeBase(a, b))
           /\ Tree(a)' = Tree(a)
<1>1. MergeBase(a, b)' = MergeBase(a, b)
  BY DEF MergeBase, Grows
<1>2. MergeBase(a, b) \in Commits
  BY MergeBaseIsCommon
<1> QED
  BY <1>1, <1>2 DEF Grows, Tree

(* A new commit is the last, a child of its parents.                        *)
LEMMA CommitKeeps ==
    ASSUME GraphInv, NEW tree \in Trees, NEW parents \in SUBSET Commits, parents # {},
           commits' = Commit(tree, parents)
    PROVE  /\ Grows /\ Len(commits') = Len(commits) + 1 /\ Len(commits) + 1 \in Commits'
           /\ commits'[Len(commits) + 1] =
                 [tree |-> tree, anc |-> (UNION {commits[p].anc : p \in parents}) \cup {Len(commits) + 1}]
           /\ commits' \in Seq(CommitType)
           /\ \A c \in Commits' :
                 /\ {1, c} \subseteq commits'[c].anc
                 /\ \A a \in commits'[c].anc : a \in 1 .. c /\ commits'[a].anc \subseteq commits'[c].anc
<1> DEFINE n == Len(commits) + 1
           above == UNION {commits[p].anc : p \in parents}
           new == [tree |-> tree, anc |-> above \cup {n}]
<1>1. Len(commits) \in Nat /\ commits \in Seq(CommitType)
  BY LenProperties DEF GraphInv
<1>2. \A a \in above : /\ a \in Commits /\ a \in 1 .. Len(commits)
                       /\ commits[a].anc \subseteq above
  <2> SUFFICES ASSUME NEW p \in parents, NEW a \in commits[p].anc
               PROVE  a \in 1 .. Len(commits) /\ commits[a].anc \subseteq above
    BY DEF Commits
  <2>1. p \in Commits /\ a \in 1 .. p /\ commits[a].anc \subseteq commits[p].anc
    BY DEF GraphInv
  <2> QED
    BY <1>1, <2>1 DEF Commits
<1>3. 1 \in above
  BY DEF GraphInv
<1>4. new \in CommitType /\ new.tree = tree /\ new.anc = above \cup {n}
  <2>1. above \cup {n} \in SUBSET Nat
    BY <1>1, <1>2
  <2> HIDE DEF above, n
  <2> QED
    BY <2>1 DEF CommitType
<1>5. commits' = Append(commits, new)
  BY DEF Commit
<1> HIDE DEF new, above
<1>6. /\ commits' \in Seq(CommitType) /\ Len(commits') = n /\ commits'[n] = new
      /\ \A c \in 1 .. Len(commits) : commits'[c] = commits[c]
  BY <1>1, <1>4, <1>5
<1>7. Grows /\ n \in Commits'
  BY <1>1, <1>6 DEF Grows, Commits
<1>8. ASSUME NEW c \in Commits'
      PROVE  /\ {1, c} \subseteq commits'[c].anc
             /\ \A a \in commits'[c].anc : a \in 1 .. c /\ commits'[a].anc \subseteq commits'[c].anc
  <2>1. CASE c = n
    <3>1. \A a \in above : a \in 1 .. c /\ commits'[a].anc \subseteq above
      BY <1>1, <1>2, <1>6, <2>1
    <3> QED
      BY <1>1, <1>3, <1>4, <1>6, <2>1, <3>1
  <2>2. CASE c # n
    <3>1. c \in Commits /\ c \in 1 .. Len(commits)
      BY <1>1, <1>6, <2>2 DEF Commits
    <3>2. /\ {1, c} \subseteq commits[c].anc
          /\ \A a \in commits[c].anc : a \in 1 .. c /\ commits[a].anc \subseteq commits[c].anc
      BY <3>1 DEF GraphInv
    <3>3. \A a \in commits[c].anc : commits'[a] = commits[a]
      BY <1>1, <1>6, <3>1, <3>2
    <3> QED
      BY <1>6, <3>1, <3>2, <3>3
  <2> QED BY <2>1, <2>2
<1> QED
  BY <1>6, <1>7, <1>8 DEF new, above

-----------------------------------------------------------------------------
(* Diffs.                                                                  *)

(* What a change tells of a path that had content: it was deleted, modified *)
(* or renamed to a path that had none.                                      *)
TellsOld(c, p, a, b) ==
    /\ c.old = p
    /\ \/ c.op = "delete" /\ b[p] = {}
       \/ c.op = "modify" /\ c.path = p /\ b[p] # {}
       \/ /\ c.op = "rename" /\ b[p] = {}
          /\ c.path \in Paths /\ a[c.path] = {} /\ b[c.path] # {}

(* Every way git may tell the diff of two trees tells what happened to each *)
(* path: a path that has content where it differs is the new name of a      *)
(* change, and one that had content is the old name of one.                 *)
LEMMA DiffTells ==
    ASSUME NEW a, NEW b, NEW cs \in Diffs(a, b), NEW p \in Paths, a[p] # b[p]
    PROVE  /\ b[p] # {} => \E c \in cs : c.path = p
           /\ a[p] # {} => \E c \in cs : TellsOld(c, p, a, b)
<1> DEFINE plain == PlainChanges(a, b)
<1> USE DEF TellsOld
<1>1. \A c \in plain : /\ c.op = "add" => /\ c.path \in Paths /\ c = Change("add", c.path, c.path)
                                          /\ a[c.path] = {} /\ b[c.path] # {}
                       /\ c.op = "delete" => /\ c = Change("delete", c.path, c.path)
                                             /\ b[c.path] = {}
  BY DEF PlainChanges, Change
<1>2. /\ a[p] = {} => Change("add", p, p) \in plain
      /\ a[p] # {} /\ b[p] = {} => Change("delete", p, p) \in plain
      /\ a[p] # {} /\ b[p] # {} => Change("modify", p, p) \in plain
  BY DEF PlainChanges
<1>3. cs = plain \/ \E d \in {c \in plain : c.op = "delete"}, n \in {c \in plain : c.op = "add"} :
                       cs = (plain \ {d, n}) \cup {Change("rename", n.path, d.path)}
  BY DEF Diffs
<1>4. \A op, new, old : /\ Change(op, new, old).op = op /\ Change(op, new, old).path = new
                        /\ Change(op, new, old).old = old
  BY DEF Change
<1> HIDE DEF plain
<1>5. CASE cs = plain
  BY <1>2, <1>4, <1>5
<1>6. CASE cs # plain
  <2>1. PICK d \in plain, n \in plain :
           /\ d.op = "delete" /\ n.op = "add"
           /\ cs = (plain \ {d, n}) \cup {Change("rename", n.path, d.path)}
    BY <1>3, <1>6
  <2> DEFINE moved == Change("rename", n.path, d.path)
  <2>2. moved \in cs /\ \A c \in plain : c # d /\ c # n => c \in cs
    BY <2>1
  <2>3. moved.op = "rename" /\ moved.path = n.path /\ moved.old = d.path
    BY <1>4
  <2> HIDE DEF moved
  <2>4. n.path \in Paths /\ a[n.path] = {} /\ b[n.path] # {} /\ b[d.path] = {}
    BY <1>1, <2>1
  <2>5. CASE a[p] = {}
    <3>1. b[p] # {} /\ Change("add", p, p) \in plain /\ Change("add", p, p) # d
      BY <1>2, <1>4, <2>1, <2>5
    <3>2. CASE Change("add", p, p) = n
      <4>1. moved.path = p
        BY <1>4, <2>3, <3>2
      <4> QED
        BY <2>2, <2>5, <4>1
    <3>3. CASE Change("add", p, p) # n
      <4>1. Change("add", p, p) \in cs /\ Change("add", p, p).path = p
        BY <1>4, <2>2, <3>1, <3>3
      <4> QED
        BY <2>5, <4>1
    <3> QED BY <3>2, <3>3
  <2>6. CASE a[p] # {} /\ b[p] # {}
    <3> DEFINE c == Change("modify", p, p)
    <3>1. c.op = "modify" /\ c.path = p /\ c.old = p
      BY <1>4
    <3>2. c \in plain
      BY <1>2, <2>6
    <3> HIDE DEF c
    <3>3. c \in cs
      BY <2>1, <2>2, <3>1, <3>2
    <3> QED
      BY <2>6, <3>1, <3>3
  <2>7. CASE a[p] # {} /\ b[p] = {}
    <3> DEFINE c == Change("delete", p, p)
    <3>1. c.op = "delete" /\ c.path = p /\ c.old = p
      BY <1>4
    <3>2. c \in plain
      BY <1>2, <2>7
    <3> HIDE DEF c
    <3>3. CASE c = d
      <4>1. moved.old = p
        BY <2>3, <3>1, <3>3
      <4> QED
        BY <2>2, <2>3, <2>4, <2>7, <4>1
    <3>4. CASE c # d
      <4>1. c \in cs
        BY <2>1, <2>2, <3>1, <3>2, <3>4
      <4> QED
        BY <2>7, <3>1, <4>1
    <3> QED BY <3>3, <3>4
  <2> QED BY <2>5, <2>6, <2>7
<1> QED
  BY <1>5, <1>6

(* A path that differs is a name of some change.                            *)
LEMMA DiffNames ==
    ASSUME NEW a, NEW b, NEW cs \in Diffs(a, b), NEW p \in Paths, a[p] # b[p]
    PROVE  \E c \in cs : p \in Names(c)
<1>1. a[p] # {} \/ b[p] # {}
  OBVIOUS
<1> QED
  BY <1>1, DiffTells DEF Names, TellsOld

-----------------------------------------------------------------------------
(* Git's merge.                                                            *)

(* A diff tells that old became new.                                        *)
Moved(c, old, new, a, b) ==
    /\ c.op = "rename" /\ c.old = old /\ c.path = new
    /\ a[old] # {} /\ b[old] = {} /\ a[new] = {} /\ b[new] # {}

(* Renamed maps the two names of a diff's rename to one another and every   *)
(* other path to itself.                                                    *)
LEMMA RenamedIs ==
    ASSUME NEW a, NEW b, NEW cs \in Diffs(a, b), NEW m, m = Renamed(cs)
    PROVE  /\ m \in [Paths -> Paths]
           /\ \A p \in Paths : m[p] # p =>
                 /\ m[m[p]] = p
                 /\ \E c \in cs : Moved(c, p, m[p], a, b) \/ Moved(c, m[p], p, a, b)
           /\ \A c \in cs : c.op = "rename" => m[c.old] # c.old
<1> DEFINE plain == PlainChanges(a, b)
           Other(p) == {q \in Paths : \E c \in cs : c.op = "rename" /\ Names(c) = {p, q}}
<1>1. m = [p \in Paths |-> IF Other(p) = {} THEN p ELSE CHOOSE q \in Other(p) : TRUE]
  BY DEF Renamed
<1>2. \A c \in plain : /\ c.op \in {"add", "delete", "modify"}
                       /\ c.op = "add" => c.path \in Paths /\ a[c.path] = {} /\ b[c.path] # {}
                       /\ c.op = "delete" => c.path \in Paths /\ a[c.path] # {} /\ b[c.path] = {}
  BY DEF PlainChanges, Change
<1>3. cs = plain \/ \E d \in {c \in plain : c.op = "delete"}, n \in {c \in plain : c.op = "add"} :
                       cs = (plain \ {d, n}) \cup {Change("rename", n.path, d.path)}
  BY DEF Diffs
<1> HIDE DEF plain
<1>4. CASE cs = plain
  <2>1. (\A p : Other(p) = {}) /\ \A c \in cs : c.op # "rename"
    BY <1>2, <1>4
  <2> HIDE DEF Other
  <2> QED
    BY <1>1, <2>1
<1>5. CASE cs # plain
  <2>1. PICK d \in plain, n \in plain :
           /\ d.op = "delete" /\ n.op = "add"
           /\ cs = (plain \ {d, n}) \cup {Change("rename", n.path, d.path)}
    BY <1>3, <1>5
  <2> DEFINE c == Change("rename", n.path, d.path)
             old == d.path
             new == n.path
  <2>2. /\ c \in cs /\ c.op = "rename" /\ c.old = old /\ c.path = new
        /\ \A x \in cs : x.op = "rename" => x = c
    BY <1>2, <2>1 DEF Change
  <2>3. /\ old \in Paths /\ new \in Paths /\ old # new
        /\ a[old] # {} /\ b[old] = {} /\ a[new] = {} /\ b[new] # {}
    BY <1>2, <2>1
  <2> HIDE DEF c, old, new
  <2>4. Moved(c, old, new, a, b)
    BY <2>2, <2>3 DEF Moved
  <2>5. \A p : Other(p) = {q \in Paths : {new, old} = {p, q}}
    BY <2>2 DEF Names
  <2> HIDE DEF Other
  <2>6. Other(old) = {new} /\ Other(new) = {old} /\ \A p : p # old /\ p # new => Other(p) = {}
    <3>1. \A p, q : {new, old} = {p, q} <=> (p = old /\ q = new) \/ (p = new /\ q = old)
      BY <2>3
    <3>2. \A p, q : q \in Other(p) <=> (p = old /\ q = new) \/ (p = new /\ q = old)
      BY <2>3, <2>5, <3>1
    <3> QED
      BY <3>2
  <2>7. m[old] = new /\ m[new] = old /\ \A p \in Paths : p # old /\ p # new => m[p] = p
    BY <1>1, <2>3, <2>6
  <2>8. m \in [Paths -> Paths]
    <3>1. \A p \in Paths : m[p] \in Paths
      BY <2>3, <2>7
    <3> QED
      BY <1>1, <3>1
  <2> QED
    BY <2>2, <2>3, <2>4, <2>7, <2>8
<1> QED BY <1>4, <1>5

(* What the merge makes of a path: neither side renamed it; the branch      *)
(* alone renamed it; main did; main alone renamed a file to it; both did;   *)
(* the branch alone did.                                                    *)
PathMerged(a, o, b, ds, after, p) ==
    \/ /\ after[p] = LineMerge(a[p], o[p], b[p]) /\ ~Conflict(a[p], o[p], b[p])
       /\ \A c \in ds : c.op = "rename" => c.old # p
    \/ \E q \in Paths, c \in ds :
          /\ Moved(c, p, q, a, b) /\ o[q] = {} /\ after[p] = {}
          /\ after[q] = LineMerge(a[p], o[p], b[q]) /\ ~Conflict(a[p], o[p], b[q])
    \/ o[p] = {} /\ after[p] = {}
    \/ \E d \in Paths :
          /\ a[p] = {} /\ a[d] # {} /\ o[d] = {} /\ b[d] # {}
          /\ after[p] = LineMerge(a[d], o[p], b[d]) /\ ~Conflict(a[d], o[p], b[d])
    \/ \E d \in Paths, c \in ds :
          /\ Moved(c, d, p, a, b) /\ o[d] = {}
          /\ after[p] = LineMerge(a[d], o[p], b[p]) /\ ~Conflict(a[d], o[p], b[p])
    \/ o[p] = {} /\ \E d \in Paths, c \in ds : Moved(c, d, p, a, b)

LEMMA MergedPath ==
    ASSUME NEW a, NEW o, NEW b, NEW cs \in Diffs(a, o), NEW ds \in Diffs(a, b),
           ~RenameConflict(a, o, b, Renamed(cs), Renamed(ds)),
           \A p \in Paths : ~Conflict(a[p], o[Renamed(cs)[p]], b[Renamed(ds)[p]]),
           NEW p \in Paths
    PROVE  PathMerged(a, o, b, ds, ThreeWay(a, o, b, Renamed(cs), Renamed(ds)), p)
<1> DEFINE m == Renamed(cs)
           n == Renamed(ds)
           after == ThreeWay(a, o, b, m, n)
           F == Final(m, n)
<1>1. m \in [Paths -> Paths] /\ n \in [Paths -> Paths]
  BY RenamedIs
<1>2. \A q \in Paths : F[q] = IF m[q] # q THEN m[q] ELSE n[q]
  BY DEF Final
<1>3. \A q \in Paths : after[q] = LineMerge(a[F[q]], o[m[F[q]]], b[n[F[q]]])
  BY DEF ThreeWay
<1>4. m # n => \A q \in Paths : /\ m[q] # q => ((b[q] = {}) <=> (a[q] = {}))
                                /\ n[q] # q => ((o[q] = {}) <=> (a[q] = {}))
  BY DEF RenameConflict
<1>5. \A q \in Paths : m[q] # q =>
         /\ m[m[q]] = q
         /\ \E c \in cs : Moved(c, q, m[q], a, o) \/ Moved(c, m[q], q, a, o)
  BY RenamedIs
<1>6. \A q \in Paths : n[q] # q =>
         /\ n[n[q]] = q
         /\ \E c \in ds : Moved(c, q, n[q], a, b) \/ Moved(c, n[q], q, a, b)
  BY RenamedIs
<1>61. \A c \in ds : c.op = "rename" => n[c.old] # c.old
  BY RenamedIs
<1>62. \A q \in Paths : ~Conflict(a[q], o[m[q]], b[n[q]])
  OBVIOUS
<1> HIDE DEF m, n, after, F
<1> SUFFICES PathMerged(a, o, b, ds, after, p)
  BY DEF m, n, after
<1> USE DEF PathMerged
<1>7. CASE m[p] = p /\ n[p] = p
  <2>1. F[p] = p
    BY <1>2, <1>7
  <2>2. after[p] = LineMerge(a[p], o[p], b[p]) /\ ~Conflict(a[p], o[p], b[p])
    BY <1>3, <1>7, <1>62, <2>1
  <2> QED
    BY <1>7, <1>61, <2>2
<1>8. CASE m[p] = p /\ n[p] # p
  <2> DEFINE q == n[p]
  <2>1. q \in Paths /\ n[q] = p /\ n[q] # q
    BY <1>1, <1>6, <1>8
  <2>2. PICK c \in ds : Moved(c, p, q, a, b) \/ Moved(c, q, p, a, b)
    BY <1>6, <1>8
  <2> HIDE DEF q
  <2>3. ((o[p] = {}) <=> (a[p] = {})) /\ ((o[q] = {}) <=> (a[q] = {}))
    <3>1. m # n /\ n[p] # p
      BY <1>8
    <3> QED
      BY <1>4, <2>1, <3>1, Zenon
  <2>4. m[q] = q
    BY <1>5, <2>1, <2>3 DEF Moved
  <2>5. F[p] = q /\ F[q] = p
    BY <1>2, <1>8, <2>1, <2>4 DEF q
  <2>6. n[p] = q
    BY DEF q
  <2>7. /\ after[p] = LineMerge(a[q], o[q], b[p])
        /\ after[q] = LineMerge(a[p], o[p], b[q]) /\ ~Conflict(a[p], o[p], b[q])
    BY <1>3, <1>8, <1>62, <2>1, <2>4, <2>5, <2>6
  <2>8. CASE Moved(c, p, q, a, b)
    <3>1. a[q] = {} /\ o[q] = {} /\ b[p] = {}
      BY <2>3, <2>8 DEF Moved
    <3>2. after[p] = {}
      BY <2>7, <3>1 DEF LineMerge
    <3> QED
      BY <2>1, <2>7, <2>8, <3>1, <3>2
  <2>9. CASE Moved(c, q, p, a, b)
    <3>1. o[p] = {}
      BY <2>3, <2>9 DEF Moved
    <3> QED
      BY <2>1, <2>9, <3>1
  <2> QED BY <2>2, <2>8, <2>9
<1>9. CASE m[p] # p
  <2> DEFINE q == m[p]
  <2>1. q \in Paths /\ m[q] = p /\ m[q] # q
    BY <1>1, <1>5, <1>9
  <2>2. PICK c \in cs : Moved(c, p, q, a, o) \/ Moved(c, q, p, a, o)
    BY <1>5, <1>9
  <2>3. F[p] = q
    BY <1>2, <1>9
  <2>4. m[p] = q
    OBVIOUS
  <2> HIDE DEF q
  <2>5. CASE m = n
    <3>1. PICK e \in ds : Moved(e, p, q, a, b) \/ Moved(e, q, p, a, b)
      BY <1>6, <1>9, <2>4, <2>5
    <3>2. after[p] = LineMerge(a[q], o[p], b[p]) /\ ~Conflict(a[q], o[p], b[p])
      BY <1>3, <1>62, <2>1, <2>3, <2>5
    <3>3. CASE Moved(c, p, q, a, o)
      <4>1. a[q] = {} /\ o[p] = {} /\ b[p] = {}
        BY <3>1, <3>3 DEF Moved
      <4>2. after[p] = {}
        BY <3>2, <4>1 DEF LineMerge
      <4> QED
        BY <4>1, <4>2
    <3>4. CASE Moved(c, q, p, a, o)
      <4>1. Moved(e, q, p, a, b) /\ o[q] = {}
        BY <3>1, <3>4 DEF Moved
      <4> QED
        BY <2>1, <3>2, <4>1
    <3> QED BY <2>2, <3>3, <3>4
  <2>6. CASE m # n
    <3>1. ((b[p] = {}) <=> (a[p] = {})) /\ ((b[q] = {}) <=> (a[q] = {}))
      BY <1>4, <1>9, <2>1, <2>6, Zenon
    <3>2. n[q] = q
      BY <1>6, <2>1, <3>1 DEF Moved
    <3>3. after[p] = LineMerge(a[q], o[p], b[q]) /\ ~Conflict(a[q], o[p], b[q])
      BY <1>3, <1>62, <2>1, <2>3, <3>2
    <3>4. CASE Moved(c, p, q, a, o)
      <4>1. a[q] = {} /\ o[p] = {} /\ b[q] = {}
        BY <3>1, <3>4 DEF Moved
      <4>2. after[p] = {}
        BY <3>3, <4>1 DEF LineMerge
      <4> QED
        BY <4>1, <4>2
    <3>5. CASE Moved(c, q, p, a, o)
      <4>1. a[p] = {} /\ a[q] # {} /\ o[q] = {} /\ b[q] # {}
        BY <3>1, <3>5 DEF Moved
      <4> QED
        BY <2>1, <3>3, <4>1
    <3> QED BY <2>2, <3>4, <3>5
  <2> QED BY <2>5, <2>6
<1> QED BY <1>7, <1>8, <1>9

(* A merge changes only files that the branch changed.                      *)
LEMMA LineMergeUnchanged ==
    ASSUME NEW base, NEW ours
    PROVE  LineMerge(base, ours, base) = ours
BY DEF LineMerge

-----------------------------------------------------------------------------
(* Receipts.                                                               *)

(* r is the receipt of a run over the changes cs.                           *)
ConcludesWith(run, fault, cs, r) ==
    LET a == Tree(run.merge_base)
        b == Tree(run.head)
    IN  /\ fault = "diff" \/ cs \in Diffs(a, b)
        /\ \/ gate = "demo" /\ r = DemoReceipt(run, cs, a, b, fault)
           \/ gate = "shared" /\ r = SharedReceipt(run, cs, a, b, fault)

(* A run's receipt, whichever the evaluator: unless it denies, it names the *)
(* run's commits and no check of the scope, of the guards or of the poison  *)
(* had anything against the change.                                         *)
LEMMA Concluded ==
    ASSUME GraphInv, RunInv, NEW run \in runs, NEW fault, NEW cs, NEW r,
           ConcludesWith(run, fault, cs, r)
    PROVE  /\ r.branch = run.branch /\ r.refs = 1 .. run.priors /\ r.changed = cs
           /\ r.outcome # "deny" => Evaluated(r)
           /\ gate = "shared" => r.links = ChainLinks(cs, Priors(run))
<1> DEFINE a == Tree(run.merge_base)
           b == Tree(run.head)
<1>1. PICK reasons, flags, links :
         /\ r = Receipt(run, cs, reasons, flags, links)
         /\ DiffReasons(fault) \subseteq reasons
         /\ PathScopeReasons(cs, run.actor) \ {"agent_identity_mismatch"} \subseteq reasons
         /\ gate = "shared" => /\ ProtectedInvariantReasons(cs, a, b) \subseteq reasons
                               /\ CrossSession(cs, a) \subseteq reasons \cup flags
                               /\ links = ChainLinks(cs, Priors(run))
  <2>1. CASE gate = "demo"
    <3>1. r = DemoReceipt(run, cs, a, b, fault)
      BY <2>1 DEF ConcludesWith
    <3> QED
      BY <2>1, <3>1 DEF DemoReceipt, DemoReasons
  <2>2. CASE gate = "shared"
    <3>1. r = SharedReceipt(run, cs, a, b, fault)
      BY <2>2 DEF ConcludesWith
    <3>2. CrossSession(cs, a) \subseteq
              GateReasons(cs, a, b, Tree(run.horizon), run.actor, Priors(run), fault = "issue")
              \cup GateFlags(cs, a, b, Priors(run))
      BY DEF GateReasons, GateFlags
    <3>3. /\ ProtectedInvariantReasons(cs, a, b) \subseteq
              GateReasons(cs, a, b, Tree(run.horizon), run.actor, Priors(run), fault = "issue")
          /\ PathScopeReasons(cs, run.actor) \subseteq
              GateReasons(cs, a, b, Tree(run.horizon), run.actor, Priors(run), fault = "issue")
      BY DEF GateReasons
    <3> QED
      BY <2>2, <3>1, <3>2, <3>3 DEF SharedReceipt
  <2> QED BY <2>1, <2>2 DEF ConcludesWith
<1>2. /\ r.branch = run.branch
      /\ r.refs = 1 .. run.priors /\ r.changed = cs /\ r.links = links /\ r.flags = flags
      /\ r.outcome = Outcome(reasons, flags) /\ r.actor = run.actor
      /\ "diff_unavailable" \notin reasons => r.head = run.head /\ r.base = run.base
  BY <1>1 DEF Receipt
<1>3. ASSUME r.outcome # "deny" PROVE Evaluated(r)
  <2>1. reasons = {}
    BY <1>2, <1>3 DEF Outcome
  <2>2. fault # "diff"
    BY <1>1, <2>1 DEF DiffReasons
  <2>3. r.head = run.head /\ r.base = run.base /\ r.head \in Commits /\ r.base \in Commits
        /\ run.merge_base = MergeBase(r.base, r.head)
    BY <1>2, <2>1 DEF RunInv
  <2>4. cs \in Diffs(a, b)
    BY <2>2 DEF ConcludesWith
  <2>5. PathScopeReasons(cs, run.actor) \subseteq {"agent_identity_mismatch"}
    BY <1>1, <2>1
  <2>6. gate = "shared" => /\ ProtectedInvariantReasons(cs, a, b) = {}
                           /\ CrossSession(cs, a) \subseteq flags
    BY <1>1, <2>1
  <2> QED
    BY <1>2, <2>3, <2>4, <2>5, <2>6 DEF Evaluated
<1> QED
  BY <1>1, <1>2, <1>3

(* The links written are those read back from the receipts that the run saw.*)
LEMMA LinksReadBack ==
    ASSUME ReceiptInv, NEW run, run.priors \in 0 .. Len(receipts), NEW r
    PROVE  ChainLinks(r.changed, Priors(run)) = LinkReceiptChain(r, receipts, 1 .. run.priors)
<1> DEFINE n == run.priors
           S == {receipts[k] : k \in DOMAIN receipts}
           seen == SubSeq(receipts, 1, n)
<1>1. receipts \in Seq(S) /\ Len(receipts) \in Nat /\ n \in Nat /\ n <= Len(receipts)
  BY LenProperties DEF ReceiptInv
<1> HIDE DEF S
<1>2. \A k \in 1 .. n : receipts[k] \in S
  BY <1>1, ElementOfSeq
<1> HIDE DEF n
<1>3. /\ seen \in Seq(S) /\ Len(seen) = n
      /\ \A k \in 1 .. n : seen[k] = receipts[k]
  BY <1>1, <1>2, SubSeqProperties
<1>4. DOMAIN seen = 1 .. n
  BY <1>3, LenProperties
<1>5. Priors(run) = seen
  BY DEF Priors, n
<1> HIDE DEF seen
<1> DEFINE inSeen == {i \in DOMAIN seen : Captures(seen[i]) # {}}
           inAll == {i \in 1 .. n : Captures(receipts[i]) # {}}
           written == {c.path : c \in r.changed} \cap Policy.sensitive
<1>6. inSeen = inAll
  BY <1>3, <1>4
<1>7. ChainLinks(r.changed, seen) = {[cause |-> k, effect |-> p] : k \in inSeen, p \in written}
  BY DEF ChainLinks
<1>8. LinkReceiptChain(r, receipts, 1 .. n) = {[cause |-> k, effect |-> p] : k \in inAll, p \in written}
  BY DEF LinkReceiptChain
<1> HIDE DEF inSeen, inAll, written
<1> QED
  BY <1>5, <1>6, <1>7, <1>8 DEF n

(* While commits and receipts only grow, what was said of those there are   *)
(* remains so.                                                              *)
LEMMA EvaluatedStays ==
    ASSUME GraphInv, Grows, gate' = gate, NEW r, Evaluated(r)
    PROVE  Evaluated(r)'
<1>1. r.head \in Commits /\ r.base \in Commits /\ MergeBase(r.base, r.head) \in Commits
  BY MergeBaseIsCommon DEF Evaluated
<1>2. /\ Tree(MergeBase(r.base, r.head))' = Tree(MergeBase(r.base, r.head))
      /\ Tree(r.head)' = Tree(r.head) /\ r.head \in Commits' /\ r.base \in Commits'
  BY <1>1, MergeBaseStays DEF Grows
<1> QED
  BY <1>2 DEF Evaluated

-----------------------------------------------------------------------------
(* The steps.                                                              *)

(* The links read back from receipts depend on no other ones.               *)
LEMMA LinksOfNamed ==
    ASSUME NEW r, NEW rs, NEW ts, NEW refs, \A i \in refs : ts[i] = rs[i]
    PROVE  LinkReceiptChain(r, ts, refs) = LinkReceiptChain(r, rs, refs)
<1> DEFINE A(s) == {i \in refs : Captures(s[i]) # {}}
           written == {c.path : c \in r.changed} \cap Policy.sensitive
<1>1. A(ts) = A(rs)
  OBVIOUS
<1>2. \A s : LinkReceiptChain(r, s, refs) = {[cause |-> k, effect |-> p] : k \in A(s), p \in written}
  BY DEF LinkReceiptChain
<1> HIDE DEF A, written
<1> QED
  BY <1>1, <1>2

(* What each receipt says, as it is kept when commits and receipts grow.    *)
LEMMA ReceiptsStay ==
    ASSUME GraphInv, ReceiptInv, Grows, gate' = gate,
           Len(receipts) \in Nat, Len(receipts') \in Nat, Len(receipts) <= Len(receipts'),
           \A k \in 1 .. Len(receipts) : receipts'[k] = receipts[k],
           NEW k \in 1 .. Len(receipts)
    PROVE  /\ receipts'[k].branch \in Branches
           /\ \E n \in 0 .. k - 1 : receipts'[k].refs = 1 .. n
           /\ receipts'[k].outcome # "deny" => Evaluated(receipts[k])'
           /\ gate' = "shared" =>
                receipts'[k].links = LinkReceiptChain(receipts'[k], receipts', receipts'[k].refs)
<1>1. PICK r : r = receipts[k] /\ r = receipts'[k]
  OBVIOUS
<1>2. r.branch \in Branches /\ \E n \in 0 .. k - 1 : r.refs = 1 .. n
  BY <1>1 DEF ReceiptInv
<1>3. ASSUME r.outcome # "deny" PROVE Evaluated(receipts[k])'
  <2>1. Evaluated(r)
    BY <1>1, <1>3 DEF ReceiptInv
  <2>2. Evaluated(r)'
    BY <2>1, EvaluatedStays
  <2> QED
    BY <1>1, <2>2 DEF Evaluated
<1>4. ASSUME gate = "shared" PROVE r.links = LinkReceiptChain(r, receipts', r.refs)
  <2>1. \A i \in r.refs : receipts'[i] = receipts[i]
    BY <1>2
  <2>2. r.links = LinkReceiptChain(r, receipts, r.refs)
    BY <1>1, <1>4 DEF ReceiptInv
  <2> QED
    BY <2>1, <2>2, LinksOfNamed
<1> QED
  BY <1>1, <1>2, <1>3, <1>4

(* Commits that are added disturb no run and no receipt.                    *)
LEMMA GrowthKeeps ==
    ASSUME RepoInv, GraphInv', Grows, UNCHANGED <<gate, runs, receipts, cosigned>>
    PROVE  RepoInv'
<1>1. GraphInv /\ RunInv /\ ReceiptInv
  BY DEF RepoInv
<1>2. RunInv'
  <2> SUFFICES ASSUME NEW run \in runs
               PROVE  /\ run.branch \in Branches
                      /\ run.head \in Commits' /\ run.base \in Commits'
                      /\ run.merge_base = MergeBase(run.base, run.head)'
                      /\ run.priors \in 0 .. Len(receipts)
    BY DEF RunInv
  <2>1. /\ run.branch \in Branches /\ run.head \in Commits /\ run.base \in Commits
        /\ run.merge_base = MergeBase(run.base, run.head) /\ run.priors \in 0 .. Len(receipts)
    BY <1>1 DEF RunInv
  <2> QED
    BY <1>1, <2>1, MergeBaseStays DEF Grows
<1>3. Len(receipts) \in Nat
  BY <1>1, LenProperties DEF ReceiptInv
<1>4. ASSUME NEW k \in 1 .. Len(receipts)
      PROVE  /\ receipts'[k].branch \in Branches
             /\ \E n \in 0 .. k - 1 : receipts'[k].refs = 1 .. n
             /\ receipts'[k].outcome # "deny" => Evaluated(receipts[k])'
             /\ gate' = "shared" =>
                  receipts'[k].links = LinkReceiptChain(receipts'[k], receipts', receipts'[k].refs)
  BY <1>1, <1>3, ReceiptsStay
<1>5. ReceiptInv'
  BY <1>1, <1>4 DEF ReceiptInv
<1> QED
  BY <1>2, <1>5 DEF RepoInv

LEMMA InitEstablishes == Init => RepoInv
<1> SUFFICES ASSUME Init PROVE RepoInv
  OBVIOUS
<1>1. PICK t \in InitTrees : commits = <<[tree |-> t, anc |-> {1}]>>
  BY DEF Init
<1>2. t \in Trees
  BY RepoAssumption
<1>3. commits \in Seq(CommitType) /\ Len(commits) = 1 /\ commits[1].anc = {1}
  <2>1. [tree |-> t, anc |-> {1}] \in CommitType
    BY <1>2 DEF CommitType
  <2> QED
    BY <1>1, <2>1
<1>4. GraphInv
  BY <1>3 DEF Init, GraphInv, Commits
<1>5. RunInv
  BY DEF Init, RunInv
<1>6. ReceiptInv
  BY DEF Init, ReceiptInv
<1> QED
  BY <1>4, <1>5, <1>6 DEF Init, RepoInv

LEMMA StepKeeps == RepoInv /\ [Next]_vars => RepoInv'
<1> SUFFICES ASSUME RepoInv, [Next]_vars PROVE RepoInv'
  OBVIOUS
<1>1. gate \in {"demo", "shared"} /\ GraphInv /\ RunInv /\ ReceiptInv
  BY DEF RepoInv
<1>2. Len(commits) \in Nat /\ Len(receipts) \in Nat /\ main \in Commits
      /\ heads \in [Branches -> {0} \cup Commits] /\ 0 \notin Commits
  BY <1>1, LenProperties DEF GraphInv, ReceiptInv, Commits
<1>3. ASSUME UNCHANGED <<commits, main, heads>>
      PROVE  GraphInv' /\ Grows /\ Commits' = Commits
  BY <1>1, <1>3 DEF GraphInv, Grows, Commits
<1>4. ASSUME NEW br \in Branches, NEW e \in Edits, Push(br, e) PROVE RepoInv'
  <2>1. /\ heads' = [heads EXCEPT ![br] = Len(commits) + 1]
        /\ UNCHANGED <<gate, main, runs, receipts, cosigned>>
    BY <1>4 DEF Push
  <2>2. PICK from \in IF heads[br] # 0 THEN {heads[br]}
                      ELSE {main} \cup {heads[o] : o \in {x \in Branches : heads[x] # 0}} :
           commits' = Commit([p \in Paths |-> IF p \in DOMAIN e THEN e[p] ELSE Tree(from)[p]], {from})
    BY <1>4 DEF Push
  <2> DEFINE tree == [p \in Paths |-> IF p \in DOMAIN e THEN e[p] ELSE Tree(from)[p]]
  <2>3. from \in Commits
    BY <1>2, <2>2
  <2>4. tree \in Trees
    <3>1. commits[from] \in CommitType
      BY <1>1, <2>3, ElementOfSeq DEF GraphInv, Commits
    <3>2. Tree(from) \in [Paths -> SUBSET Traits]
      BY <3>1 DEF CommitType, Tree, Trees
    <3>3. \A p \in DOMAIN e : e[p] \in SUBSET Traits
      BY RepoAssumption
    <3>4. \A p \in Paths : (IF p \in DOMAIN e THEN e[p] ELSE Tree(from)[p]) \in SUBSET Traits
      BY <3>2, <3>3
    <3> QED
      BY <3>4 DEF Trees
  <2> HIDE DEF tree
  <2>5. /\ Grows /\ Len(commits') = Len(commits) + 1 /\ Len(commits) + 1 \in Commits'
        /\ commits' \in Seq(CommitType)
        /\ \A c \in Commits' :
              /\ {1, c} \subseteq commits'[c].anc
              /\ \A a \in commits'[c].anc : a \in 1 .. c /\ commits'[a].anc \subseteq commits'[c].anc
    <3>1. {from} \in SUBSET Commits /\ {from} # {}
      BY <2>3
    <3>2. commits' = Commit(tree, {from})
      BY <2>2 DEF tree
    <3> QED
      BY <1>1, <2>4, <3>1, <3>2, CommitKeeps
  <2>6. main' \in Commits' /\ heads' \in [Branches -> {0} \cup Commits']
    BY <1>2, <2>1, <2>5 DEF Grows
  <2>7. GraphInv'
    BY <2>5, <2>6 DEF GraphInv
  <2> QED
    BY <2>1, <2>5, <2>7, GrowthKeeps
<1>5. ASSUME NEW br \in Branches, NEW base \in 1 .. Len(commits), NEW actor \in Actors,
             Load(br, base, actor)
      PROVE  RepoInv'
  <2> DEFINE run == [branch |-> br, head |-> heads[br], base |-> base,
                     merge_base |-> MergeBase(base, heads[br]),
                     horizon |-> Horizon(heads[br], MergeBase(base, heads[br])),
                     actor |-> actor, priors |-> Len(receipts)]
  <2>1. /\ heads[br] # 0 /\ runs' = runs \cup {run}
        /\ UNCHANGED <<gate, commits, main, heads, receipts, cosigned>>
    BY <1>5 DEF Load
  <2>2. run.branch = br /\ run.head = heads[br] /\ run.base = base /\ run.priors = Len(receipts)
        /\ run.merge_base = MergeBase(run.base, run.head)
    OBVIOUS
  <2> HIDE DEF run
  <2>3. run.head \in Commits /\ run.base \in Commits
    BY <1>2, <2>1, <2>2 DEF Commits
  <2>4. GraphInv' /\ Commits' = Commits
    BY <1>3, <2>1
  <2>5. RunInv'
    <3> SUFFICES ASSUME NEW x \in runs'
                 PROVE  /\ x.branch \in Branches /\ x.head \in Commits /\ x.base \in Commits
                        /\ x.merge_base = MergeBase(x.base, x.head)
                        /\ x.priors \in 0 .. Len(receipts)
      BY <2>1, <2>4 DEF RunInv, MergeBase
    <3> QED
      BY <1>1, <1>2, <2>1, <2>2, <2>3 DEF RunInv
  <2>6. ReceiptInv'
    BY <1>1, <2>1, <2>4 DEF ReceiptInv, Evaluated, MergeBase, Tree
  <2> QED
    BY <1>1, <2>1, <2>4, <2>5, <2>6 DEF RepoInv
<1>6. ASSUME NEW run \in runs, NEW fault \in Faults, Conclude(run, fault) PROVE RepoInv'
  <2> DEFINE a == Tree(run.merge_base)
             b == Tree(run.head)
  <2>1. PICK cs, r : ConcludesWith(run, fault, cs, r) /\ receipts' = Append(receipts, r)
    <3>1. PICK cs \in IF fault = "diff" THEN {{}} ELSE Diffs(a, b) :
             receipts' = Append(receipts, IF gate = "demo" THEN DemoReceipt(run, cs, a, b, fault)
                                          ELSE SharedReceipt(run, cs, a, b, fault))
      BY <1>6 DEF Conclude
    <3>2. PICK r : /\ receipts' = Append(receipts, r)
                   /\ \/ gate = "demo" /\ r = DemoReceipt(run, cs, a, b, fault)
                      \/ gate = "shared" /\ r = SharedReceipt(run, cs, a, b, fault)
      BY <1>1, <3>1
    <3>3. ConcludesWith(run, fault, cs, r)
      BY <3>1, <3>2 DEF ConcludesWith
    <3> QED
      BY <3>2, <3>3
  <2>3. /\ runs' = runs \ {run} /\ UNCHANGED <<gate, commits, main, heads, cosigned>>
    BY <1>6 DEF Conclude
  <2>4. /\ r.branch = run.branch /\ r.refs = 1 .. run.priors /\ r.changed = cs
        /\ r.outcome # "deny" => Evaluated(r)
        /\ gate = "shared" => r.links = ChainLinks(cs, Priors(run))
    BY <1>1, <2>1, Concluded
  <2>5. run.priors \in 0 .. Len(receipts)
    BY <1>1 DEF RunInv
  <2>6. gate = "shared" => r.links = LinkReceiptChain(r, receipts, 1 .. run.priors)
    BY <1>1, <2>4, <2>5, LinksReadBack
  <2> DEFINE n == Len(receipts)
  <2>7. /\ receipts' \in Seq({receipts'[k] : k \in DOMAIN receipts'})
        /\ Len(receipts') = n + 1 /\ DOMAIN receipts = 1 .. n /\ DOMAIN receipts' = 1 .. n + 1
        /\ \A k \in 1 .. n : receipts'[k] = receipts[k]
        /\ receipts'[n + 1] = r
    <3>1. receipts \in Seq({receipts[k] : k \in DOMAIN receipts})
      BY <1>1 DEF ReceiptInv
    <3> QED
      BY <2>1, <3>1, AppendOwn
  <2>8. GraphInv' /\ Grows /\ Commits' = Commits
    BY <1>3, <2>3
  <2>9. RunInv'
    <3> SUFFICES ASSUME NEW x \in runs'
                 PROVE  /\ x.branch \in Branches /\ x.head \in Commits /\ x.base \in Commits
                        /\ x.merge_base = MergeBase(x.base, x.head)
                        /\ x.priors \in 0 .. Len(receipts')
      BY <2>3, <2>8 DEF RunInv, MergeBase
    <3> QED
      BY <1>1, <1>2, <2>3, <2>7 DEF RunInv
  <2>10. ASSUME NEW k \in 1 .. n + 1
         PROVE  /\ receipts'[k].branch \in Branches
                /\ \E m \in 0 .. k - 1 : receipts'[k].refs = 1 .. m
                /\ receipts'[k].outcome # "deny" => Evaluated(receipts[k])'
                /\ gate' = "shared" =>
                     receipts'[k].links = LinkReceiptChain(receipts'[k], receipts', receipts'[k].refs)
    <3>1. CASE k # n + 1
      <4>1. k \in 1 .. n
        BY <1>2, <3>1
      <4> QED
        BY <1>1, <1>2, <2>3, <2>7, <2>8, <4>1, ReceiptsStay
    <3>2. CASE k = n + 1
      <4>1. receipts'[k] = r
        BY <2>7, <3>2
      <4>2. r.branch \in Branches /\ r.refs = 1 .. run.priors /\ run.priors \in 0 .. k - 1
        BY <1>1, <1>2, <2>4, <2>5, <3>2 DEF RunInv
      <4>3. r.outcome # "deny" => Evaluated(receipts[k])'
        <5> SUFFICES ASSUME r.outcome # "deny" PROVE Evaluated(receipts[k])'
          OBVIOUS
        <5>1. Evaluated(r)'
          BY <1>1, <2>3, <2>4, <2>8, EvaluatedStays
        <5> QED
          BY <4>1, <5>1 DEF Evaluated
      <4>4. gate = "shared" => r.links = LinkReceiptChain(r, receipts', r.refs)
        <5>1. \A i \in 1 .. run.priors : receipts'[i] = receipts[i]
          BY <1>2, <2>5, <2>7
        <5>2. LinkReceiptChain(r, receipts', 1 .. run.priors) = LinkReceiptChain(r, receipts, 1 .. run.priors)
          BY <5>1, LinksOfNamed
        <5> QED
          BY <2>6, <4>2, <5>2
      <4> QED
        BY <2>3, <4>1, <4>2, <4>3, <4>4
    <3> QED BY <3>1, <3>2
  <2>11. cosigned' \subseteq DOMAIN receipts'
    BY <1>1, <1>2, <2>3, <2>7 DEF ReceiptInv
  <2>12. ReceiptInv'
    BY <2>7, <2>10, <2>11 DEF ReceiptInv
  <2> QED
    BY <1>1, <2>3, <2>8, <2>9, <2>12 DEF RepoInv
<1>7. ASSUME NEW k \in 1 .. MaxReceipts, CoSign(k) PROVE RepoInv'
  <2>1. /\ k \in DOMAIN receipts /\ cosigned' = cosigned \cup {k}
        /\ UNCHANGED <<gate, commits, main, heads, runs, receipts>>
    BY <1>7 DEF CoSign
  <2>2. GraphInv' /\ Commits' = Commits
    BY <1>3, <2>1
  <2>3. RunInv'
    BY <1>1, <2>1, <2>2 DEF RunInv, MergeBase
  <2>4. ReceiptInv'
    BY <1>1, <2>1, <2>2 DEF ReceiptInv, Evaluated, MergeBase, Tree
  <2> QED
    BY <1>1, <2>1, <2>2, <2>3, <2>4 DEF RepoInv
<1>8. ASSUME NEW k \in DOMAIN receipts, Merge(k) PROVE RepoInv'
  <2> DEFINE head == heads[receipts[k].branch]
             base == Tree(MergeBase(main, head))
             n == Renamed(receipts[k].changed)
  <2>0. PICK cs \in Diffs(base, Tree(main)) :
           commits' = Commit(ThreeWay(base, Tree(main), Tree(head), Renamed(cs), n), {main, head})
    BY <1>8 DEF Merge
  <2> DEFINE m == Renamed(cs)
             tree == ThreeWay(base, Tree(main), Tree(head), m, n)
  <2>1. /\ MergeAllowed(k) /\ commits' = Commit(tree, {main, head})
        /\ main' = Len(commits) + 1 /\ UNCHANGED <<gate, heads, runs, receipts, cosigned>>
    BY <1>8, <2>0 DEF Merge
  <2>2. head \in Commits /\ Evaluated(receipts[k])
    <3>1. MergeIssues(receipts[k], head, k \in cosigned) = {}
      BY <2>1 DEF MergeAllowed
    <3>2. receipts[k].outcome # "deny" /\ receipts[k].head = head
      BY <3>1 DEF MergeIssues, HeadIssue
    <3>3. k \in 1 .. Len(receipts)
      BY <1>1, LenProperties DEF ReceiptInv
    <3> QED
      BY <1>1, <3>2, <3>3 DEF ReceiptInv, Evaluated
  <2> HIDE DEF head
  <2>3. tree \in Trees
    <3>1. ASSUME NEW c \in Commits PROVE Tree(c) \in [Paths -> SUBSET Traits]
      <4>1. commits[c] \in CommitType
        BY <1>1, ElementOfSeq DEF GraphInv, Commits
      <4> QED
        BY <4>1 DEF CommitType, Tree, Trees
    <3>2. /\ Tree(main) \in [Paths -> SUBSET Traits] /\ Tree(head) \in [Paths -> SUBSET Traits]
          /\ base \in [Paths -> SUBSET Traits]
      BY <1>1, <1>2, <2>2, <3>1, MergeBaseIsCommon
    <3>3. m \in [Paths -> Paths]
      BY <2>0, RenamedIs
    <3>4. n \in [Paths -> Paths]
      BY <2>2, RenamedIs DEF Evaluated
    <3> HIDE DEF base, m, n
    <3>5. Final(m, n) \in [Paths -> Paths]
      BY <3>3, <3>4 DEF Final
    <3>6. ASSUME NEW q \in Paths PROVE tree[q] \in SUBSET Traits
      <4> DEFINE p == Final(m, n)[q]
      <4>1. p \in Paths /\ m[p] \in Paths /\ n[p] \in Paths
        BY <3>3, <3>4, <3>5
      <4>2. tree[q] = LineMerge(base[p], Tree(main)[m[p]], Tree(head)[n[p]])
        BY DEF ThreeWay
      <4> HIDE DEF p, tree
      <4> QED
        BY <3>2, <4>1, <4>2 DEF LineMerge
    <3>7. tree = [q \in Paths |-> tree[q]]
      BY DEF ThreeWay
    <3> HIDE DEF tree
    <3> QED
      BY <3>6, <3>7 DEF Trees
  <2> HIDE DEF tree
  <2>4. /\ Grows /\ Len(commits') = Len(commits) + 1 /\ Len(commits) + 1 \in Commits'
        /\ commits' \in Seq(CommitType)
        /\ \A c \in Commits' :
              /\ {1, c} \subseteq commits'[c].anc
              /\ \A a \in commits'[c].anc : a \in 1 .. c /\ commits'[a].anc \subseteq commits'[c].anc
    <3>1. {main, head} \in SUBSET Commits /\ {main, head} # {}
      BY <1>2, <2>2
    <3> QED
      BY <1>1, <2>1, <2>3, <3>1, CommitKeeps
  <2>5. main' \in Commits' /\ heads' \in [Branches -> {0} \cup Commits']
    BY <1>2, <2>1, <2>4 DEF Grows
  <2>6. GraphInv'
    BY <2>4, <2>5 DEF GraphInv
  <2> QED
    BY <2>1, <2>4, <2>6, GrowthKeeps
<1>9. ASSUME UNCHANGED vars PROVE RepoInv'
  <2>1. /\ UNCHANGED <<gate, commits, main, heads, runs, receipts, cosigned>>
    BY <1>9 DEF vars
  <2>2. GraphInv' /\ Grows
    BY <1>3, <2>1
  <2> QED
    BY <2>1, <2>2, GrowthKeeps
<1> QED
  BY <1>4, <1>5, <1>6, <1>7, <1>8, <1>9 DEF Next

(* The invariant holds in every state: the commit graph is one, and a       *)
(* receipt that does not deny was evaluated on what it names.               *)
THEOREM InvariantHolds == Spec => []RepoInv
BY InitEstablishes, StepKeeps, PTL DEF Spec

-----------------------------------------------------------------------------
(* What a merge does.                                                      *)

(* main only moves by a merge.                                              *)
LEMMA OnlyMerges == [Next]_vars /\ Merging => \E k \in DOMAIN receipts : Merge(k)
BY DEF Next, Merging, vars, Push, Load, Conclude, CoSign

(* A commit that is merged was evaluated, from the merge base it has with   *)
(* main, and the receipt has nothing against it; main's new files are what  *)
(* the merge makes of both sides.                                           *)
LEMMA MergeIsEvaluated ==
    ASSUME RepoInv, NEW k \in DOMAIN receipts, Merge(k)
    PROVE  LET r == receipts[k]
               base == MergeBase(main, r.head)
               n == Renamed(r.changed)
           IN  /\ r.head = heads[r.branch] /\ r.head \in Commits /\ base \in Commits
               /\ r.branch \in Branches /\ MergedFrom(r.branch)
               /\ Evaluated(r) /\ MergeBase(r.base, r.head) = base
               /\ r.flags \cap HardBlockFlags = {}
               /\ r.head \notin commits[main].anc
               /\ commits'[main'].anc = commits[main].anc \cup commits[r.head].anc \cup {main'}
               /\ \E cs \in Diffs(Tree(base), Tree(main)) :
                     LET m == Renamed(cs)
                     IN  /\ ~RenameConflict(Tree(base), Tree(main), Tree(r.head), m, n)
                         /\ \A p \in Paths :
                               ~Conflict(Tree(base)[p], Tree(main)[m[p]], Tree(r.head)[n[p]])
                         /\ commits'[main'].tree =
                               ThreeWay(Tree(base), Tree(main), Tree(r.head), m, n)
<1> DEFINE r == receipts[k]
           head == heads[r.branch]
           base == MergeBase(main, head)
           n == Renamed(r.changed)
<1>1. PICK cs \in Diffs(Tree(base), Tree(main)) :
         /\ ~RenameConflict(Tree(base), Tree(main), Tree(head), Renamed(cs), n)
         /\ \A p \in Paths :
               ~Conflict(Tree(base)[p], Tree(main)[Renamed(cs)[p]], Tree(head)[n[p]])
         /\ commits' = Commit(ThreeWay(Tree(base), Tree(main), Tree(head), Renamed(cs), n),
                              {main, head})
  BY DEF Merge
<1>2. MergeAllowed(k) /\ head \notin commits[main].anc /\ main' = Len(commits) + 1
  BY DEF Merge
<1> DEFINE tree == ThreeWay(Tree(base), Tree(main), Tree(head), Renamed(cs), n)
<1>3. MergeIssues(r, head, k \in cosigned) = {} /\ ~StackedRisk(r)
  BY <1>2 DEF MergeAllowed
<1>4. r.outcome # "deny" /\ r.head = head /\ r.flags \cap HardBlockFlags = {}
  BY <1>3 DEF MergeIssues, HeadIssue
<1>5. Evaluated(r) /\ r.branch \in Branches
  <2>1. k \in 1 .. Len(receipts)
    BY LenProperties DEF RepoInv, ReceiptInv
  <2> QED
    BY <1>4, <2>1 DEF RepoInv, ReceiptInv
<1>6. head \in Commits /\ main \in Commits /\ GraphInv
  BY <1>4, <1>5 DEF Evaluated, RepoInv, GraphInv
<1>7. base \in Commits
  BY <1>6, MergeBaseIsCommon
<1>8. MergeBase(r.base, r.head) = base
  BY <1>3, <1>4 DEF StackedRisk
<1>9. commits'[main'] = [tree |-> tree,
                         anc |-> (UNION {commits[p].anc : p \in {main, head}}) \cup {main'}]
  <2>1. commits \in Seq(CommitType) /\ Len(commits) \in Nat
    BY <1>6, LenProperties DEF GraphInv
  <2> DEFINE new == [tree |-> tree,
                     anc |-> (UNION {commits[p].anc : p \in {main, head}}) \cup {Len(commits) + 1}]
  <2>2. commits' = Append(commits, new)
    BY <1>1 DEF Commit
  <2> HIDE DEF new, tree
  <2>3. commits'[Len(commits) + 1] = new
    BY <2>1, <2>2
  <2> QED
    BY <1>2, <2>3 DEF new
<1> HIDE DEF tree
<1>10. /\ commits'[main'].tree = tree
       /\ commits'[main'].anc = commits[main].anc \cup commits[head].anc \cup {main'}
  BY <1>9
<1>11. MergedFrom(r.branch)
  <2>1. head # 0
    BY <1>6 DEF Commits
  <2> QED
    BY <1>10, <2>1 DEF MergedFrom
<1> QED
  BY <1>1, <1>2, <1>4, <1>5, <1>6, <1>7, <1>8, <1>10, <1>11 DEF tree

-----------------------------------------------------------------------------
(* The properties.                                                         *)

(* Whatever is stacked, pushed or merged while a receipt exists, a merge    *)
(* changes no denied file of main and none outside the mandate's scope      *)
(* (structural_invariants.py path scope, agentauth_merge_check.py), but for *)
(* a file that main has moved out of the scope since the branch grew out of *)
(* it.                                                                      *)
THEOREM MergedWithinScopeHolds == Spec => MergedWithinScope
<1>1. RepoInv /\ [Next]_vars =>
         [Merging => \A p \in Paths : After(p) # Before(p) =>
              \/ InScope(p)
              \/ \E b \in Branches, q \in Paths :
                    MergedFrom(b) /\ InScope(q) /\ MovedSince(b, q, p)]_vars
  <2> SUFFICES ASSUME RepoInv, [Next]_vars, Merging, NEW p \in Paths, After(p) # Before(p)
               PROVE  \/ InScope(p)
                      \/ \E b \in Branches, q \in Paths :
                            MergedFrom(b) /\ InScope(q) /\ MovedSince(b, q, p)
    OBVIOUS
  <2>1. PICK k \in DOMAIN receipts : Merge(k)
    BY OnlyMerges
  <2> DEFINE r == receipts[k]
             a == Tree(MergeBase(main, r.head))
             b == Tree(r.head)
             o == Tree(main)
             after == commits'[main'].tree
  <2>2. /\ Evaluated(r) /\ MergeBase(r.base, r.head) = MergeBase(main, r.head)
        /\ r.branch \in Branches /\ MergedFrom(r.branch) /\ r.head = heads[r.branch]
    BY <2>1, MergeIsEvaluated
  <2>3. PICK cs \in Diffs(a, o) :
           /\ ~RenameConflict(a, o, b, Renamed(cs), Renamed(r.changed))
           /\ \A x \in Paths : ~Conflict(a[x], o[Renamed(cs)[x]], b[Renamed(r.changed)[x]])
           /\ after = ThreeWay(a, o, b, Renamed(cs), Renamed(r.changed))
    BY <2>1, MergeIsEvaluated
  <2>4. /\ r.changed \in Diffs(a, b)
        /\ PathScopeReasons(r.changed, r.actor) \subseteq {"agent_identity_mismatch"}
    BY <2>2 DEF Evaluated
  <2>5. a = Tree(MergeBase(main, heads[r.branch]))
    BY <2>2
  <2>6. after[p] # o[p] /\ \A x : Before(x) = o[x]
    BY DEF After, Before, Tree
  <2> HIDE DEF a, b, o, after
  <2>7. \A c \in r.changed : \A x \in Names(c) : InScope(x)
    <3>1. /\ "denied_path_changed" \notin PathScopeReasons(r.changed, r.actor)
          /\ "out_of_scope_path" \notin PathScopeReasons(r.changed, r.actor)
      BY <2>4
    <3> QED
      BY <3>1 DEF PathScopeReasons, InScope
  <2>8. \A x \in Paths : a[x] # b[x] => InScope(x)
    BY <2>4, <2>7, DiffNames
  <2>9. \A x, y, c : Moved(c, x, y, a, b) => {x, y} \subseteq Names(c)
    BY DEF Moved, Names
  <2>10. ASSUME after[p] = LineMerge(a[p], o[p], b[p]) PROVE InScope(p)
    BY <2>6, <2>8, <2>10, LineMergeUnchanged
  <2>11. ASSUME NEW d \in Paths, a[p] = {}, a[d] # {}, o[d] = {},
                after[p] = LineMerge(a[d], o[p], b[d])
         PROVE  InScope(d) /\ MovedSince(r.branch, d, p)
    <3>1. InScope(d)
      BY <2>6, <2>8, <2>11, LineMergeUnchanged
    <3> QED
      BY <2>5, <2>6, <2>11, <3>1 DEF MovedSince
  <2> QED
    <3>1. PathMerged(a, o, b, r.changed, after, p)
      BY <2>3, <2>4, MergedPath
    <3> QED
      BY <2>2, <2>6, <2>7, <2>9, <2>10, <2>11, <3>1 DEF PathMerged
<1> QED
  BY <1>1, InvariantHolds, PTL DEF Spec, MergedWithinScope

(* A guarded file of main keeps a guard line in the merge, if main dropped  *)
(* none that the base has, and the branch left the file as it was or left   *)
(* one in it.                                                               *)
LEMMA LinesKept ==
    ASSUME NEW base, NEW ours, NEW theirs, Guarded(ours),
           base = theirs \/ ~Guarded(base) \/ Guarded(theirs),
           (base \cap Guards) \ ours = {}
    PROVE  Guarded(LineMerge(base, ours, theirs))
<1>1. PICK g \in Guards : g \in ours
  BY DEF Guarded
<1>2. CASE g \notin base
  <2>1. g \in LineMerge(base, ours, theirs)
    BY <1>1, <1>2 DEF LineMerge
  <2> QED
    BY <2>1 DEF Guarded
<1>3. CASE g \in base /\ base = theirs
  <2>1. g \in LineMerge(base, ours, theirs)
    BY <1>1, <1>3 DEF LineMerge
  <2> QED
    BY <2>1 DEF Guarded
<1>4. CASE g \in base /\ Guarded(theirs)
  <2>1. PICK h \in Guards : h \in theirs
    BY <1>4 DEF Guarded
  <2>2. h \in base => h \in ours
    BY <2>1
  <2>3. h \in LineMerge(base, ours, theirs)
    BY <2>1, <2>2 DEF LineMerge
  <2> QED
    BY <2>1, <2>3 DEF Guarded
<1> QED
  BY <1>1, <1>2, <1>3, <1>4 DEF Guarded

(* With the shared evaluator no merge loses what the pattern of a guard     *)
(* finds in a protected file of main (structural_invariants.py              *)
(* evaluate_protected_invariants): the file keeps a guard line or moves     *)
(* with one, unless main itself, since the branch grew out of it, dropped   *)
(* one of the file's guard lines or moved the file here from a name that is *)
(* not protected.                                                           *)
THEOREM GuardKeptHolds == Spec => GuardKept
<1>1. RepoInv /\ [Next]_vars =>
         [Merging /\ gate = "shared" => \A p \in Policy.protected :
            Guarded(Before(p)) =>
               \/ Guarded(After(p))
               \/ \E b \in Branches, q \in Paths :
                     LET base == Tree(MergeBase(main, heads[b]))
                     IN  /\ MergedFrom(b)
                         /\ \/ After(p) = {} /\ base[q] = {} /\ Guarded(After(q))
                            \/ /\ q = p \/ MovedSince(b, q, p)
                               /\ \/ q \notin Policy.protected
                                  \/ (base[q] \cap Guards) \ Before(p) # {}]_vars
  <2> DEFINE Excused(p, q, base) ==
                \/ After(p) = {} /\ base[q] = {} /\ Guarded(After(q))
                \/ /\ q = p \/ (base[p] = {} /\ base[q] # {} /\ Before(q) = {})
                   /\ q \notin Policy.protected \/ (base[q] \cap Guards) \ Before(p) # {}
  <2> SUFFICES ASSUME RepoInv, [Next]_vars, Merging, gate = "shared", NEW p \in Policy.protected,
                      Guarded(Before(p)), ~Guarded(After(p))
               PROVE  \E br \in Branches, q \in Paths :
                         MergedFrom(br) /\ Excused(p, q, Tree(MergeBase(main, heads[br])))
    BY DEF MovedSince
  <2>1. PICK k \in DOMAIN receipts : Merge(k)
    BY OnlyMerges
  <2>2. p \in Paths
    BY PolicyAssumption DEF PolicyType
  <2> DEFINE r == receipts[k]
             a == Tree(MergeBase(main, r.head))
             b == Tree(r.head)
             o == Tree(main)
             after == commits'[main'].tree
  <2>3. /\ Evaluated(r) /\ MergeBase(r.base, r.head) = MergeBase(main, r.head)
        /\ r.branch \in Branches /\ MergedFrom(r.branch) /\ r.head = heads[r.branch]
    BY <2>1, MergeIsEvaluated
  <2>4. PICK cs \in Diffs(a, o) :
           /\ ~RenameConflict(a, o, b, Renamed(cs), Renamed(r.changed))
           /\ \A x \in Paths : ~Conflict(a[x], o[Renamed(cs)[x]], b[Renamed(r.changed)[x]])
           /\ after = ThreeWay(a, o, b, Renamed(cs), Renamed(r.changed))
    BY <2>1, MergeIsEvaluated
  <2>5. r.changed \in Diffs(a, b) /\ ProtectedInvariantReasons(r.changed, a, b) = {}
    BY <2>3 DEF Evaluated
  <2>6. /\ \A x : Before(x) = o[x] /\ After(x) = after[x]
        /\ Guarded(o[p]) /\ ~Guarded(after[p])
    BY DEF After, Before, Tree
  <2>7. SUFFICES \E q \in Paths : Excused(p, q, a)
    BY <2>3
  <2>8. \A q : Excused(p, q, a) <=>
               \/ after[p] = {} /\ a[q] = {} /\ Guarded(after[q])
               \/ /\ q = p \/ (a[p] = {} /\ a[q] # {} /\ o[q] = {})
                  /\ q \notin Policy.protected \/ (a[q] \cap Guards) \ o[p] # {}
    BY <2>6
  <2> HIDE DEF a, b, o, after, r, Excused
  <2>9. \A c \in r.changed : ~LostGuard(c, a, b)
    BY <2>5 DEF ProtectedInvariantReasons
  <2>10. o[p] # {} /\ \A s : Guarded(s) => s # {}
    BY <2>6 DEF Guarded
  (* What the branch leaves of a file it does not move. *)
  <2>11. ASSUME NEW q \in Paths, q \in Policy.protected, ~Conflict(a[q], o[p], b[q])
         PROVE  \/ a[q] = b[q] \/ ~Guarded(a[q]) \/ Guarded(b[q])
                \/ \E x \in Paths, c \in r.changed : Moved(c, q, x, a, b)
    <3> SUFFICES ASSUME a[q] # b[q], Guarded(a[q])
                 PROVE  Guarded(b[q]) \/ \E x \in Paths, c \in r.changed : Moved(c, q, x, a, b)
      OBVIOUS
    <3>1. PICK c \in r.changed : TellsOld(c, q, a, b)
      BY <2>5, <2>10, DiffTells
    <3>2. q \in Names(c) /\ c.old = q
      BY <3>1, Zenon DEF Names, TellsOld
    <3>3. CASE c.op = "rename"
      BY <2>10, <3>1, <3>3 DEF TellsOld, Moved
    <3>4. CASE c.op # "rename"
      BY <2>9, <2>11, <3>1, <3>2, <3>4 DEF TellsOld, LostGuard
    <3> QED BY <3>3, <3>4
  (* What it leaves of one that it moves. *)
  <2>12. ASSUME NEW x \in Paths, NEW y \in Paths, NEW c \in r.changed, Moved(c, x, y, a, b),
                x \in Policy.protected \/ y \in Policy.protected
         PROVE  ~Guarded(a[x]) \/ Guarded(b[y])
    <3>1. x \in Names(c) /\ y \in Names(c)
      BY <2>12, Zenon DEF Names, Moved
    <3> QED
      BY <2>9, <2>12, <3>1 DEF LostGuard, Moved
  <2>13. CASE /\ after[p] = LineMerge(a[p], o[p], b[p]) /\ ~Conflict(a[p], o[p], b[p])
              /\ \A c \in r.changed : c.op = "rename" => c.old # p
    <3>1. CASE a[p] = b[p] \/ ~Guarded(a[p]) \/ Guarded(b[p])
      <4>1. (a[p] \cap Guards) \ o[p] # {}
        BY <2>6, <2>13, <3>1, LinesKept
      <4> QED
        BY <2>2, <2>8, <4>1
    <3>2. ~\E x \in Paths, c \in r.changed : Moved(c, p, x, a, b)
      BY <2>13 DEF Moved
    <3> QED BY <2>2, <2>11, <2>13, <3>1, <3>2
  <2>14. CASE \E q \in Paths, c \in r.changed :
                 /\ Moved(c, p, q, a, b) /\ o[q] = {} /\ after[p] = {}
                 /\ after[q] = LineMerge(a[p], o[p], b[q])
    <3>1. PICK q \in Paths, c \in r.changed :
                 /\ Moved(c, p, q, a, b) /\ o[q] = {} /\ after[p] = {}
                 /\ after[q] = LineMerge(a[p], o[p], b[q])
      BY <2>14
    <3>2. a[q] = {} /\ (~Guarded(a[p]) \/ Guarded(b[q]))
      BY <2>2, <2>12, <3>1 DEF Moved
    <3>3. CASE (a[p] \cap Guards) \ o[p] # {}
      BY <2>2, <2>8, <3>3
    <3>4. CASE (a[p] \cap Guards) \ o[p] = {}
      <4>1. Guarded(after[q])
        BY <2>6, <3>1, <3>2, <3>4, LinesKept
      <4> QED
        BY <2>8, <3>1, <3>2, <4>1
    <3> QED BY <3>3, <3>4
  <2>15. CASE \E d \in Paths :
                 /\ a[p] = {} /\ a[d] # {} /\ o[d] = {} /\ b[d] # {}
                 /\ after[p] = LineMerge(a[d], o[p], b[d]) /\ ~Conflict(a[d], o[p], b[d])
    <3>1. PICK d \in Paths :
                 /\ a[p] = {} /\ a[d] # {} /\ o[d] = {} /\ b[d] # {}
                 /\ after[p] = LineMerge(a[d], o[p], b[d]) /\ ~Conflict(a[d], o[p], b[d])
      BY <2>15
    <3>2. CASE d \notin Policy.protected \/ (a[d] \cap Guards) \ o[p] # {}
      BY <2>8, <3>1, <3>2
    <3>3. CASE d \in Policy.protected /\ (a[d] \cap Guards) \ o[p] = {}
      <4>1. a[d] = b[d] \/ ~Guarded(a[d]) \/ Guarded(b[d])
        BY <2>11, <3>1, <3>3 DEF Moved
      <4> QED
        BY <2>6, <3>1, <3>3, <4>1, LinesKept
    <3> QED BY <3>2, <3>3
  <2>16. CASE \E d \in Paths, c \in r.changed :
                 /\ Moved(c, d, p, a, b) /\ o[d] = {}
                 /\ after[p] = LineMerge(a[d], o[p], b[p])
    <3>1. PICK d \in Paths, c \in r.changed :
                 /\ Moved(c, d, p, a, b) /\ o[d] = {}
                 /\ after[p] = LineMerge(a[d], o[p], b[p])
      BY <2>16
    <3>2. a[p] = {} /\ a[d] # {} /\ (~Guarded(a[d]) \/ Guarded(b[p]))
      BY <2>2, <2>12, <3>1 DEF Moved
    <3>3. (a[d] \cap Guards) \ o[p] # {}
      BY <2>6, <3>1, <3>2, LinesKept
    <3> QED
      BY <2>8, <3>1, <3>2, <3>3
  <2> QED
    <3>1. PathMerged(a, o, b, r.changed, after, p)
      BY <2>2, <2>4, <2>5, MergedPath
    <3> QED
      BY <2>10, <2>13, <2>14, <2>15, <2>16, <3>1 DEF PathMerged
<1> QED
  BY <1>1, InvariantHolds, PTL DEF Spec, GuardKept

(* A merge writes no security target on a branch that grew out of a main    *)
(* with poison in an instruction surface (cross_session.py): the shared     *)
(* gate denied it or flagged it, and either stops the merge.                *)
THEOREM PoisonNotExecutedHolds == Spec => PoisonNotExecuted
<1>1. RepoInv /\ [Next]_vars =>
         [Merging /\ gate = "shared" =>
             \A b \in Branches :
                LET base == Tree(MergeBase(main, heads[b]))
                IN  MergedFrom(b) /\ PriorArtifacts(base) # {} =>
                    \A p \in Policy.security_targets : Tree(heads[b])[p] \in {{}, base[p]}]_vars
  <2> SUFFICES ASSUME RepoInv, [Next]_vars, Merging, gate = "shared", NEW br \in Branches,
                      MergedFrom(br), PriorArtifacts(Tree(MergeBase(main, heads[br]))) # {},
                      NEW p \in Policy.security_targets
               PROVE  Tree(heads[br])[p] \in {{}, Tree(MergeBase(main, heads[br]))[p]}
    OBVIOUS
  <2>1. PICK k \in DOMAIN receipts : Merge(k)
    BY OnlyMerges
  <2>2. p \in Paths
    BY PolicyAssumption DEF PolicyType
  <2> DEFINE r == receipts[k]
             a == Tree(MergeBase(main, r.head))
             b == Tree(r.head)
  <2>3. /\ Evaluated(r) /\ MergeBase(r.base, r.head) = MergeBase(main, r.head)
        /\ r.head \in Commits /\ r.flags \cap HardBlockFlags = {}
        /\ r.head \notin commits[main].anc
        /\ commits'[main'].anc = commits[main].anc \cup commits[r.head].anc \cup {main'}
    BY <2>1, MergeIsEvaluated
  <2>4. heads[br] = r.head
    <3> DEFINE x == r.head
               y == heads[br]
    <3>1. /\ GraphInv /\ main \in Commits /\ x \in Commits /\ y \in Commits /\ main' \notin Commits
      <4>1. GraphInv /\ main \in Commits /\ heads \in [Branches -> {0} \cup Commits]
        BY DEF RepoInv, GraphInv
      <4>2. main' = Len(commits) + 1 /\ Len(commits) \in Nat
        BY <2>1, <4>1, LenProperties DEF Merge, GraphInv
      <4> QED
        BY <2>3, <4>1, <4>2 DEF MergedFrom, Commits
    <3> HIDE DEF x, y
    <3>2. commits[main].anc \cup commits[x].anc \cup {main'} = {main'} \cup commits[main].anc \cup commits[y].anc
      BY <2>3 DEF MergedFrom, x, y
    <3>3. x \notin commits[main].anc
      BY <2>3 DEF x
    <3>4. x \in commits[y].anc
      BY <3>1, <3>2, <3>3 DEF GraphInv
    <3>5. y \notin commits[main].anc
      BY <3>1, <3>3, <3>4 DEF GraphInv
    <3>6. y \in commits[x].anc
      BY <3>1, <3>2, <3>5 DEF GraphInv
    <3>7. x \in 1 .. y /\ y \in 1 .. x
      BY <3>1, <3>4, <3>6 DEF GraphInv
    <3>8. x \in Int /\ y \in Int
      BY <3>1 DEF Commits
    <3> QED
      BY <3>7, <3>8 DEF x, y
  <2>5. r.changed \in Diffs(a, b) /\ CrossSession(r.changed, a) \subseteq r.flags
    BY <2>3 DEF Evaluated
  <2>6. "cross_session_poison_attribution" \notin CrossSession(r.changed, a)
    BY <2>3, <2>5 DEF HardBlockFlags
  <2>7. PriorArtifacts(a) # {}
    BY <2>4
  <2> HIDE DEF a, b, r
  <2>8. \A c \in r.changed : c.path \notin Policy.security_targets
    BY <2>6, <2>7 DEF CrossSession
  <2>9. b[p] # a[p] => b[p] = {}
    <3> SUFFICES ASSUME b[p] # a[p], b[p] # {} PROVE FALSE
      OBVIOUS
    <3>1. PICK c \in r.changed : c.path = p
      BY <2>2, <2>5, DiffTells
    <3> QED
      BY <2>8, <3>1
  <2> QED
    BY <2>4, <2>9 DEF a, b
<1> QED
  BY <1>1, InvariantHolds, PTL DEF Spec, PoisonNotExecuted

(* A receipt that allows keeps its branch mergeable while the branch stands *)
(* still and main moves by merges that share no new commit with it          *)
(* (merge_binding.py, agentauth_merge_check.py --target-ref).               *)
THEOREM CleanReceiptStaysHolds == Spec => CleanReceiptStays
<1>1. RepoInv /\ [Next]_vars =>
         [\A k \in DOMAIN receipts :
             LET r == receipts[k]
             IN  (/\ MergeAllowed(k) /\ heads'[r.branch] = r.head
                  /\ commits'[main'].anc \cap commits[r.head].anc = commits[main].anc \cap commits[r.head].anc)
                 => MergeAllowed(k)']_vars
  <2> SUFFICES ASSUME RepoInv, [Next]_vars, NEW k \in DOMAIN receipts, MergeAllowed(k),
                      heads'[receipts[k].branch] = receipts[k].head,
                      commits'[main'].anc \cap commits[receipts[k].head].anc
                         = commits[main].anc \cap commits[receipts[k].head].anc
               PROVE  MergeAllowed(k)'
    OBVIOUS
  <2> DEFINE r == receipts[k]
  <2>1. /\ MergeIssues(r, heads[r.branch], k \in cosigned) = {}
        /\ MergeBase(r.base, r.head) = MergeBase(main, r.head)
    BY DEF MergeAllowed, StackedRisk
  <2>2. Evaluated(r)
    <3>1. r.outcome # "deny" /\ k \in 1 .. Len(receipts)
      BY <2>1, LenProperties DEF MergeIssues, RepoInv, ReceiptInv
    <3> QED
      BY <3>1 DEF RepoInv, ReceiptInv
  <2>3. receipts'[k] = r /\ commits'[r.head] = commits[r.head] /\ commits'[r.base] = commits[r.base]
        /\ cosigned \subseteq cosigned'
    <3>1. r.head \in Commits /\ r.base \in Commits
      BY <2>2 DEF Evaluated
    <3>2. /\ commits \in Seq(CommitType) /\ receipts \in Seq({receipts[i] : i \in DOMAIN receipts})
          /\ k \in 1 .. Len(receipts)
      BY LenProperties DEF RepoInv, GraphInv, ReceiptInv
    <3>3. \/ commits' = commits
          \/ \E tree, parents : commits' = Commit(tree, parents)
      BY DEF Next, vars, Push, Load, Conclude, CoSign, Merge
    <3>4. receipts' = receipts \/ \E x : receipts' = Append(receipts, x)
      BY DEF Next, vars, Push, Load, Conclude, CoSign, Merge
    <3>5. cosigned \subseteq cosigned'
      BY DEF Next, vars, Push, Load, Conclude, CoSign, Merge
    <3>6. receipts'[k] = r
      <4>1. CASE receipts' = receipts
        BY <4>1
      <4>2. CASE \E x : receipts' = Append(receipts, x)
        BY <3>2, <4>2, AppendOwn
      <4> QED BY <3>4, <4>1, <4>2
    <3>7. \A c \in Commits : commits'[c] = commits[c]
      <4>1. CASE commits' = commits
        BY <4>1
      <4>2. CASE \E tree, parents : commits' = Commit(tree, parents)
        <5>1. PICK tree, parents : commits' = Commit(tree, parents)
          BY <4>2
        <5>2. PICK new : commits' = Append(commits, new)
          BY <5>1 DEF Commit
        <5>3. Len(commits) \in Nat
          BY <3>2, LenProperties
        <5> QED
          BY <3>2, <5>2, <5>3 DEF Commits
      <4> QED BY <3>3, <4>1, <4>2
    <3> QED
      BY <3>1, <3>5, <3>6, <3>7
  <2>4. MergeIssues(r, r.head, k \in cosigned') = {}
    BY <2>1, <2>3 DEF MergeIssues, HeadIssue
  <2>5. ~StackedRisk(receipts[k])'
    BY <2>1, <2>3 DEF StackedRisk, MergeBase
  <2>6. MergeIssues(receipts'[k], heads'[receipts'[k].branch], k \in cosigned') = {}
    BY <2>3, <2>4
  <2> QED
    BY <2>5, <2>6 DEF MergeAllowed
<1> QED
  BY <1>1, InvariantHolds, PTL DEF Spec, CleanReceiptStays

(* The state is well formed, and verify_receipt_chain accepts a receipt of  *)
(* the shared gate with the receipts it names and any others that captured  *)
(* nothing (receipt_chain.py).                                              *)
THEOREM LinksVerifyHolds == Spec => []LinksVerify
<1>1. RepoInv => TypeOK
  <2> SUFFICES ASSUME RepoInv PROVE TypeOK
    OBVIOUS
  <2>1. /\ commits \in Seq(CommitType) /\ DOMAIN commits = Commits
        /\ DOMAIN receipts = 1 .. Len(receipts)
    BY LenProperties DEF RepoInv, GraphInv, ReceiptInv, Commits
  <2>2. \A c \in Commits : Tree(c) \in Trees /\ c \in commits[c].anc /\ 1 \in commits[c].anc
    <3> SUFFICES ASSUME NEW c \in Commits
                 PROVE  Tree(c) \in Trees /\ c \in commits[c].anc /\ 1 \in commits[c].anc
      OBVIOUS
    <3>1. commits[c] \in CommitType
      BY <2>1, ElementOfSeq DEF Commits
    <3> QED
      BY <3>1 DEF RepoInv, GraphInv, Tree, CommitType
  <2>3. main \in Commits /\ \A b \in Branches : heads[b] = 0 \/ heads[b] \in Commits
    BY DEF RepoInv, GraphInv
  <2>4. \A k \in DOMAIN receipts : receipts[k].refs \subseteq 1 .. k - 1
    <3> SUFFICES ASSUME NEW k \in 1 .. Len(receipts) PROVE receipts[k].refs \subseteq 1 .. k - 1
      BY <2>1
    <3>1. PICK n \in 0 .. k - 1 : receipts[k].refs = 1 .. n
      BY DEF RepoInv, ReceiptInv
    <3> QED
      BY <3>1
  <2> QED
    BY <2>1, <2>2, <2>3, <2>4 DEF TypeOK, RepoInv, ReceiptInv
<1>2. RepoInv => ChainVerifies
  <2> SUFFICES ASSUME RepoInv, gate = "shared", NEW k \in DOMAIN receipts,
                      NEW extra \in SUBSET {j \in DOMAIN receipts \ {k} : Captures(receipts[j]) = {}}
               PROVE  ChainIssues(receipts[k], receipts, receipts[k].refs \cup extra) \subseteq {"unlinked"}
    BY DEF ChainVerifies
  <2> DEFINE r == receipts[k]
             named == {i \in r.refs : Captures(receipts[i]) # {}}
             given == {i \in r.refs \cup extra : Captures(receipts[i]) # {}}
             Links(A) == {[cause |-> i, effect |-> p] :
                             i \in A, p \in {c.path : c \in r.changed} \cap Policy.sensitive}
  <2>1. r.links = LinkReceiptChain(r, receipts, r.refs)
    BY LenProperties DEF RepoInv, ReceiptInv
  <2>2. named = given
    OBVIOUS
  <2>3. /\ LinkReceiptChain(r, receipts, r.refs) = Links(named)
        /\ LinkReceiptChain(r, receipts, r.refs \cup extra) = Links(given)
    BY DEF LinkReceiptChain
  <2> HIDE DEF named, given, Links
  <2>4. r.links = LinkReceiptChain(r, receipts, r.refs \cup extra)
    BY <2>1, <2>2, <2>3
  <2> QED
    BY <2>4 DEF ChainIssues
<1> QED
  BY <1>1, <1>2, InvariantHolds, PTL DEF LinksVerify
=============================================================================
