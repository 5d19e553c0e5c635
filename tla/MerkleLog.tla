------------------------------ MODULE MerkleLog ------------------------------
(***************************************************************************)
(* The Merkle tree of the global log as internal/globallog/service.go      *)
(* keeps it: a frontier and an index of perfect subtrees that grow leaf by *)
(* leaf (appendState), rebuilt from the leaves where no state is stored    *)
(* (loadState), and the inclusion and consistency proofs read from that    *)
(* index while it grows.  The batch tree and the verifier are those of     *)
(* internal/merkle.  Hashes are injective: a leaf is <<value>>, a node     *)
(* <<left, right>>.                                                        *)
(***************************************************************************)
EXTENDS Naturals, SequencesExt, FiniteSetsExt

CONSTANTS Values,    \* contents of a leaf
          MaxLeaves,   \* bound: leaves of the log
          MaxOld     \* bound: leaves of a store written before states were kept

ASSUME MerkleLogAssumption == MaxLeaves \in Nat \ {0} /\ MaxOld \in 0 .. MaxLeaves

VARIABLES
    leafHash,      \* stored leaf hashes
    node,      \* stored subtree hashes by <<level, start>>
    treeState,     \* the stored state: tree size and frontier; size 0 when absent
    memory,    \* the state a rebuild has reached
    rootOf      \* root hashes of the signed tree heads, by size

merkleVars == <<leafHash, node, treeState, memory, rootOf>>

None == <<>>
Empty == [size |-> 0, frontier |-> <<>>]
HashLeaf(v) == <<v>>
HashNode(left, right) == <<left, right>>

(* The largest power of two less than n, for n > 1. *)
Split(n) == Max({2^i : i \in {j \in 0 .. n : 2^j < n}})
Level(width) == CHOOSE i \in 0 .. width : 2^i = width
IsPowerOfTwo(n) == \E i \in 0 .. n : 2^i = n

-----------------------------------------------------------------------------
(* internal/merkle: the tree over a sequence of leaf hashes *)

RECURSIVE BuildRange(_)
BuildRange(leaves) ==
    IF Len(leaves) = 1 THEN leaves[1]
    ELSE LET k == Split(Len(leaves)) IN
         HashNode(BuildRange(SubSeq(leaves, 1, k)), BuildRange(SubSeq(leaves, k + 1, Len(leaves))))

(* Tree.Proof: the siblings of leaf i, counted from 0, from the leaf up. *)
RECURSIVE Proof(_, _)
Proof(leaves, i) ==
    IF Len(leaves) = 1 THEN <<>>
    ELSE LET k == Split(Len(leaves))
             left == SubSeq(leaves, 1, k)
             right == SubSeq(leaves, k + 1, Len(leaves)) IN
         IF i < k THEN Append(Proof(left, i), BuildRange(right))
         ELSE Append(Proof(right, i - k), BuildRange(left))

Short == [ok |-> FALSE, hash |-> None, pos |-> 0]

(* rebuild: the root a path leads to, and how much of the path it took. *)
RECURSIVE Rebuild(_, _, _, _)
Rebuild(hash, i, size, path) ==
    IF size = 1 THEN [ok |-> TRUE, hash |-> hash, pos |-> 0]
    ELSE LET k == Split(size)
             inner == IF i < k THEN Rebuild(hash, i, k, path) ELSE Rebuild(hash, i - k, size - k, path)
             next == inner.pos + 1 IN
         IF ~ inner.ok \/ next > Len(path) THEN Short
         ELSE [ok |-> TRUE, pos |-> next,
               hash |-> IF i < k THEN HashNode(inner.hash, path[next]) ELSE HashNode(path[next], inner.hash)]

Verify(hash, i, size, path, root) ==
    LET got == Rebuild(hash, i, size, path) IN
    i < size /\ got.ok /\ got.pos = Len(path) /\ got.hash = root

-----------------------------------------------------------------------------
(* internal/globallog: the state *)

(* The peaks of the frontier, lowest level first, folded into the root. *)
RootFromFrontier(frontier) ==
    FoldLeft(LAMBDA root, h : IF h = None THEN root ELSE IF root = None THEN h ELSE HashNode(h, root),
             None, frontier)

(* Where the node that an append completes on each level starts. *)
AppendedNodes(s, carry) == [l \in 0 .. carry |-> s.size + 1 - 2^l]

Peak(s, l) == IF l < Len(s.frontier) THEN s.frontier[l + 1] ELSE None

(* The peaks below the carry are merged into the new one. *)
Frontier(s, carry, top) ==
    [l \in 1 .. Max({Len(s.frontier), carry + 1}) |->
        IF l <= carry THEN None ELSE IF l = carry + 1 THEN top ELSE Peak(s, l - 1)]

(* appendState: the carry runs up the levels that hold a peak; every node on
   its way is stored. *)
AppendState(s, hash) ==
    LET carry == Min({l \in 0 .. Len(s.frontier) : Peak(s, l) = None})
        current[l \in 0 .. carry] == IF l = 0 THEN hash ELSE HashNode(Peak(s, l - 1), current[l - 1])
        start == AppendedNodes(s, carry) IN
    [treeState |-> [size |-> s.size + 1, frontier |-> Frontier(s, carry, current[carry])],
     nodes |-> {<<l, start[l], current[l]>> : l \in 0 .. carry}]

Stored(old, nodes) ==
    [key \in DOMAIN old \cup {<<n[1], n[2]>> : n \in nodes} |->
        IF \E n \in nodes : <<n[1], n[2]>> = key
        THEN (CHOOSE n \in nodes : <<n[1], n[2]>> = key)[3] ELSE old[key]]

(* A new store, or one of a release that stored leaves and heads only. *)
MerkleInit ==
    /\ leafHash \in SeqOf({HashLeaf(v) : v \in Values}, MaxOld)
    /\ rootOf = [n \in 1 .. Len(leafHash) |-> BuildRange(SubSeq(leafHash, 1, n))]
    /\ node = <<>> /\ treeState = Empty /\ memory = Empty

(* One leaf of loadState's rebuild; its nodes are stored at once. *)
RebuildLeaf ==
    /\ treeState = Empty /\ memory.size < Len(leafHash)
    /\ LET next == AppendState(memory, leafHash[memory.size + 1]) IN
       memory' = next.treeState /\ node' = Stored(node, next.nodes)
    /\ UNCHANGED <<leafHash, treeState, rootOf>>

(* The rebuild stores its state last. *)
PutState ==
    /\ treeState = Empty /\ leafHash # <<>> /\ memory.size = Len(leafHash)
    /\ treeState' = memory /\ memory' = Empty
    /\ UNCHANGED <<leafHash, node, rootOf>>

(* An error or a crash ends a rebuild; the next one starts from no leaf. *)
RebuildFails ==
    /\ memory # Empty
    /\ memory' = Empty
    /\ UNCHANGED <<leafHash, node, treeState, rootOf>>

(* appendBatchRootsOnce for one root: leaf, nodes, state and head together. *)
AppendBatchRoot(v) ==
    LET next == AppendState(treeState, HashLeaf(v)) IN
    /\ treeState.size = Len(leafHash) /\ Len(leafHash) < MaxLeaves
    /\ leafHash' = Append(leafHash, HashLeaf(v))
    /\ treeState' = next.treeState /\ node' = Stored(node, next.nodes)
    /\ rootOf' = Append(rootOf, RootFromFrontier(next.treeState.frontier))
    /\ UNCHANGED memory

MerkleNext == RebuildLeaf \/ PutState \/ RebuildFails \/ \E v \in Values : AppendBatchRoot(v)

MerkleSpec == MerkleInit /\ [][MerkleNext]_merkleVars

-----------------------------------------------------------------------------
(* internal/globallog: the proofs *)

(* subtreeRoot: a stored node where there is one, else its halves. *)
RECURSIVE SubtreeRoot(_, _)
SubtreeRoot(start, width) ==
    IF width = 1 THEN leafHash[start + 1]
    ELSE IF IsPowerOfTwo(width) /\ <<Level(width), start>> \in DOMAIN node THEN node[<<Level(width), start>>]
    ELSE LET k == Split(width) IN HashNode(SubtreeRoot(start, k), SubtreeRoot(start + k, width - k))

RECURSIVE AuditPath(_, _, _)
AuditPath(i, start, width) ==
    IF width = 1 THEN <<>>
    ELSE LET k == Split(width) IN
         IF i < start + k THEN Append(AuditPath(i, start, k), SubtreeRoot(start + k, width - k))
         ELSE Append(AuditPath(i, start + k, width - k), SubtreeRoot(start, k))

(* Faulty: the old tree still counts as complete right of a split. *)
RECURSIVE ConsistencyProofRangeComplete(_, _, _, _)
ConsistencyProofRangeComplete(start, width, from, complete) ==
    IF from = width THEN IF complete THEN <<>> ELSE <<SubtreeRoot(start, width)>>
    ELSE LET k == Split(width) IN
         IF from <= k
         THEN Append(ConsistencyProofRangeComplete(start, k, from, complete), SubtreeRoot(start + k, width - k))
         ELSE Append(ConsistencyProofRangeComplete(start + k, width - k, from - k, complete), SubtreeRoot(start, k))

RECURSIVE ConsistencyProofRange(_, _, _, _)
ConsistencyProofRange(start, width, from, complete) ==
    IF from = width THEN IF complete THEN <<>> ELSE <<SubtreeRoot(start, width)>>
    ELSE LET k == Split(width) IN
         IF from <= k
         THEN Append(ConsistencyProofRange(start, k, from, complete), SubtreeRoot(start + k, width - k))
         ELSE Append(ConsistencyProofRange(start + k, width - k, from - k, FALSE), SubtreeRoot(start, k))

-----------------------------------------------------------------------------
(* The reference: RFC 9162, 2.1.4.2, folded over the path. *)

RECURSIVE Shift(_, _)
Shift(fn, sn) == IF fn % 2 = 1 THEN Shift(fn \div 2, sn \div 2) ELSE <<fn, sn>>

RECURSIVE ShiftEven(_, _)
ShiftEven(fn, sn) == IF fn % 2 = 0 /\ fn # 0 THEN ShiftEven(fn \div 2, sn \div 2) ELSE <<fn, sn>>

ConsistencyStep(acc, c) ==
    LET both == acc.fn % 2 = 1 \/ acc.fn = acc.sn
        at == IF both THEN ShiftEven(acc.fn, acc.sn) ELSE <<acc.fn, acc.sn>> IN
    [fn |-> at[1] \div 2, sn |-> at[2] \div 2,
     fr |-> IF both THEN HashNode(c, acc.fr) ELSE acc.fr,
     sr |-> IF both THEN HashNode(c, acc.sr) ELSE HashNode(acc.sr, c),
     ok |-> acc.ok /\ acc.sn # 0]

Consistent(from, to, old, new, path) ==
    LET full == IF IsPowerOfTwo(from) THEN <<old>> \o path ELSE path
        at == Shift(from - 1, to - 1)
        end == FoldLeft(ConsistencyStep,
                 [fn |-> at[1], sn |-> at[2], fr |-> full[1], sr |-> full[1], ok |-> TRUE], Tail(full)) IN
    IF from = to THEN path = <<>> /\ old = new
    ELSE full # <<>> /\ end.ok /\ end.sn = 0 /\ end.fr = old /\ end.sr = new

-----------------------------------------------------------------------------
Size == Len(rootOf)
Indices(n) == 0 .. n - 1

(* The inclusion proof of every leaf against every head that covers it is
   accepted by the verifier, whatever part of the node index is stored, and is
   the one the batch tree gives for the same leaves: one verifier serves the
   two builders (InclusionProof, Tree.Proof, VerifyInclusionForSuite).  The
   consistency proof between any two heads convinces the verifier of RFC 9162
   that the older tree is a prefix of the newer (ConsistencyProof; the
   repository has no verifier of its own). *)
ProofsVerify ==
    /\ \A n \in 1 .. Size : \A i \in Indices(n) :
          /\ Verify(leafHash[i + 1], i, n, AuditPath(i, 0, n), rootOf[n])
          /\ Proof(SubSeq(leafHash, 1, n), i) = AuditPath(i, 0, n)
    /\ \A to \in 1 .. Size : \A from \in 1 .. to :
          Consistent(from, to, rootOf[from], rootOf[to], ConsistencyProofRange(0, to, from, TRUE))

(* No path the log hands out, for any leaf and any size, makes the verifier
   accept another content for a leaf (verifyWithProfile, rebuild). *)
InclusionSound ==
    LET paths == UNION {{AuditPath(i, 0, m) : i \in Indices(m)} : m \in 1 .. Size} IN
    \A n \in 1 .. Size : \A i \in Indices(n), v \in Values, path \in paths :
        Verify(HashLeaf(v), i, n, path, rootOf[n]) => leafHash[i + 1] = HashLeaf(v)

(* The proofs of the log convince its verifiers, and of nothing that is not so. *)
ProofsSound == ProofsVerify /\ InclusionSound
=============================================================================
