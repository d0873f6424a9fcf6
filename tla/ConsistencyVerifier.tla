------------------------ MODULE ConsistencyVerifier -------------------------
(***************************************************************************)
(* rfc6962_consistency_roots as a state machine: one step per loop         *)
(* iteration.  The old root is that of `old`, which the verifier trusts;   *)
(* the new one must come out as the root of `new`, which the log signed.   *)
(* The proof nodes come either from the honest prover, over `new`, or one  *)
(* by one from a prover free to pick any hash of either tree and to claim  *)
(* any two sizes, as the sizes in a COSE receipt's unprotected header.     *)
(* Its names are its own, for a module that EXTENDS the log as well.       *)
(***************************************************************************)
EXTENDS Merkle, FiniteSets

CONSTANTS MaxSize,      \* bound: leaves of the trees of an honest prover
          MaxForged     \* bound: leaves and claimed sizes of a dishonest one

ASSUME SizeBounds == MaxSize \in Nat /\ MaxForged \in Nat

VARIABLES old, new,     \* the two lists of entries
          roots,        \* their roots and the hashes of both trees
          honest,       \* who supplies the proof
          oldSize, newSize,   \* the sizes the proof claims
          todo,         \* what is left of the honest prover's path
          phase,        \* "start", "strip", "loop", "skip", "done"
          fn, sn, fr, sr,
          verdict       \* "none" until done, then "accept" or "reject"

consistencyVars == <<old, new, roots, honest, oldSize, newSize, todo, phase, fn, sn, fr, sr, verdict>>

(* Histories: `old` is 1..m; `new` keeps it and grows, or is a rewrite that *)
(* replaced one entry (with 0) or dropped it.                               *)
Honest(n) == [i \in 1..n |-> i]
Rewrites(n) == {[Honest(n) EXCEPT ![j] = 0] : j \in 1..n}
               \cup {[i \in 1..n |-> i + 1]}

Histories(m, n) == /\ old = Honest(m)
                   /\ new \in {Honest(n)} \cup Rewrites(n)
                   /\ roots = [old |-> Root(old), new |-> Root(new),
                               nodes |-> TreeNodes(old) \cup TreeNodes(new)]

HonestProver ==                   \* consistency_proof over the new entries
    \E m, n \in 1..MaxSize :
        /\ m <= n /\ Histories(m, n)
        /\ honest = TRUE /\ oldSize = m /\ newSize = n
        /\ todo = ConsistencyPath(m, new)

ForgingProver ==
    /\ \E m, n \in 1..MaxForged : Histories(m, n)
    /\ honest = FALSE /\ oldSize \in 0..MaxForged /\ newSize \in 0..MaxForged
    /\ todo = <<>>

ConsistencyInit ==
    /\ HonestProver \/ ForgingProver
    /\ phase = "start"
    /\ fn = 0 /\ sn = 0 /\ fr = EmptyRoot /\ sr = EmptyRoot
    /\ verdict = "none"

Inputs == <<old, new, roots, honest, oldSize, newSize>>
Nodes == roots.nodes

Decide(v) == /\ phase' = "done" /\ verdict' = v
             /\ UNCHANGED <<Inputs, todo, fn, sn, fr, sr>>

(* Fault: the reconstructed old root is not compared.                       *)
Compare_NewOnly(f, s) == IF s = roots.new THEN "accept" ELSE "reject"

(* The caller compares the pair with the trusted old and signed new root.   *)
Compare(f, s) == IF f = roots.old /\ s = roots.new THEN "accept" ELSE "reject"

SizesRejected ==                  \* old_size == 0 or old_size > new_size
    /\ phase = "start"
    /\ oldSize = 0 \/ oldSize > newSize
    /\ Decide("reject")

SizesEqual ==                     \* (old_root, old_root) if not path
    /\ phase = "start"
    /\ oldSize # 0 /\ oldSize = newSize
    /\ \/ Decide(Compare(roots.old, roots.old))
       \/ ~honest /\ Decide("reject")        \* a non-empty path

Begin ==
    /\ phase = "start"
    /\ oldSize # 0 /\ oldSize < newSize
    /\ phase' = "strip" /\ fn' = oldSize - 1 /\ sn' = newSize - 1
    /\ UNCHANGED <<Inputs, todo, fr, sr, verdict>>

Supply(c) ==                      \* the prover's next node
    IF honest THEN todo # <<>> /\ c = Head(todo) /\ todo' = Tail(todo)
              ELSE c \in Nodes /\ UNCHANGED todo

Halve == fn' = fn \div 2 /\ sn' = sn \div 2

(* Fault: only one trailing one bit of old_size - 1 is stripped.            *)
Strip_Once ==
    /\ phase = "strip" /\ fn % 2 = 1 /\ fn = oldSize - 1
    /\ Halve
    /\ phase' = "loop"
    /\ IF IsPowerOfTwo(oldSize) THEN fr' = roots.old /\ sr' = roots.old /\ UNCHANGED todo
       ELSE \E c \in Nodes : Supply(c) /\ fr' = c /\ sr' = c
    /\ UNCHANGED <<Inputs, verdict>>

Strip ==                          \* while fn & 1
    /\ phase = "strip" /\ fn % 2 = 1
    /\ Halve
    /\ UNCHANGED <<Inputs, todo, phase, fr, sr, verdict>>

Seed ==                           \* fr = sr = old_root, or the first node
    /\ phase = "strip" /\ fn % 2 = 0
    /\ phase' = "loop"
    /\ UNCHANGED <<Inputs, fn, sn, verdict>>
    /\ IF IsPowerOfTwo(oldSize)
       THEN fr' = roots.old /\ sr' = roots.old /\ UNCHANGED todo
       ELSE \E c \in Nodes : Supply(c) /\ fr' = c /\ sr' = c

FoldLeft(c) ==                    \* (fn & 1) or fn == sn
    /\ fn % 2 = 1 \/ fn = sn
    /\ fr' = NodeHash(c, fr) /\ sr' = NodeHash(c, sr)
    /\ phase' = "skip"
    /\ UNCHANGED <<fn, sn>>

FoldRight(c) ==
    /\ ~(fn % 2 = 1 \/ fn = sn)
    /\ sr' = NodeHash(sr, c) /\ UNCHANGED fr
    /\ Halve
    /\ UNCHANGED phase

Consume ==                        \* for c in nodes
    /\ phase = "loop" /\ sn # 0
    /\ \E c \in Nodes : Supply(c) /\ (FoldLeft(c) \/ FoldRight(c))
    /\ UNCHANGED <<Inputs, verdict>>

(* Fault: the inner while loop forgets to shift fn.                         *)
Skip_FnKept ==
    /\ phase = "skip" /\ fn # 0 /\ fn % 2 = 0
    /\ sn' = sn \div 2
    /\ UNCHANGED <<Inputs, todo, phase, fn, fr, sr, verdict>>

Skip ==                           \* while fn != 0 and fn is even
    /\ phase = "skip" /\ fn # 0 /\ fn % 2 = 0
    /\ Halve
    /\ UNCHANGED <<Inputs, todo, phase, fr, sr, verdict>>

EndSkip ==
    /\ phase = "skip" /\ ~(fn # 0 /\ fn % 2 = 0)
    /\ Halve
    /\ phase' = "loop"
    /\ UNCHANGED <<Inputs, todo, fr, sr, verdict>>

Finish ==                         \* the path ends
    /\ phase = "loop"
    /\ honest => todo = <<>>
    /\ Decide(IF sn # 0 THEN "reject" ELSE Compare(fr, sr))

TooManyNodes ==                   \* sn == 0 with nodes left
    /\ phase = "loop" /\ sn = 0
    /\ honest => todo # <<>>
    /\ Decide("reject")

ConsistencyNext == \/ SizesRejected \/ SizesEqual \/ Begin \/ Strip \/ Seed
                   \/ Consume \/ Skip \/ EndSkip \/ Finish \/ TooManyNodes

ConsistencySpec == /\ ConsistencyInit /\ [][ConsistencyNext]_consistencyVars
                   /\ WF_consistencyVars(ConsistencyNext)

Grew(s, t) == Len(s) <= Len(t) /\ SubSeq(t, 1, Len(s)) = s

(* Completeness: the path consistency_proof builds for a log that only grew *)
(* is accepted, for every pair of sizes.                                    *)
HonestGrowthAccepted ==
    verdict = "reject" => ~(honest /\ Grew(old, new))

(* Soundness, whatever nodes and sizes the proof claims: acceptance means   *)
(* that the trusted old entries are a prefix of the new ones.  "Rejects any *)
(* history rewrite" (verify_consistency_receipt, verify_consistency).       *)
NoRewriteAccepted == verdict = "accept" => Grew(old, new)

(* The two while loops and the for loop of the verifier end.                *)
Terminates == <>(phase = "done")
=============================================================================
