---------------------------- MODULE SegmentTree ----------------------------
(***************************************************************************)
(* The segmentTree of pkg/protocol/segment.go: a B-tree of segments        *)
(* ordered by sequence number, at most one segment per number.  It is the  *)
(* container of the send queue, the send buffer, the receive buffer and    *)
(* the receive queue of a session.  A tree is the set of its segments,     *)
(* which are records with a field seq; its capacity is passed in.          *)
(***************************************************************************)
EXTENDS Integers, FiniteSets

Seqs(tree) == {s.seq : s \in tree}

\* The space left before the tree is full.
Remaining(tree, capacity) == capacity - Cardinality(tree)

\* ReplaceOrInsert, on a tree that is not full: a segment with the same
\* number is replaced.
Insert(tree, seg) == {s \in tree : s.seq # seg.seq} \cup {seg}

\* The segment that Ascend visits first and DeleteMin removes, and the last
\* one, each as a set that is empty when the tree is.  The mutant of First
\* ignores the order.
AnySegment(tree) == tree
First(tree) == {s \in tree : \A t \in tree : s.seq <= t.seq}
Last(tree) == {s \in tree : \A t \in tree : t.seq <= s.seq}

\* What is left after DeleteMinIf(seq < bound) has run until it deletes
\* nothing.  The mutant deletes while seq <= bound.
DeleteThrough(tree, bound) == {s \in tree : s.seq > bound}
DeleteBelow(tree, bound) == {s \in tree : s.seq >= bound}

\* The number of segments Ascend visits before s.
Rank(tree, s) == Cardinality({t \in tree : t.seq < s.seq})

\* A set that repeated DeleteMin calls can remove: nothing smaller stays.
IsPrefixOf(part, tree) == part \subseteq tree
                          /\ \A s \in part, t \in tree : t.seq < s.seq => t \in part
=============================================================================
