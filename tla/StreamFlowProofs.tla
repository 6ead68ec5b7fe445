-------------------------- MODULE StreamFlowProofs --------------------------
(***************************************************************************)
(* What a stream underlay does to the segments of one direction of one     *)
(* session, for every value of the constants of StreamUnderlay.  From the  *)
(* session that numbers a segment to the application that reads it there   *)
(* are five places: the send queue, the output goroutine's hand, the       *)
(* connection, the receive channel and the receive queue.  The inductive   *)
(* invariant SInv says that these places hold consecutive numbers, oldest  *)
(* at the receiver, and that nothing between them is missing as long as    *)
(* the way works; FlowStep shows that every step keeps that.  StreamProofs *)
(* adds the rest of the invariant and the refinement.                      *)
(***************************************************************************)
EXTENDS StreamUnderlay, TLAPS

-----------------------------------------------------------------------------
(* A flow: sets of numbered segments.                                      *)

\* The segments of S that carry the stream (open and data segments, not the
\* close segments); those of session s in the sequence q, and their order.
Str(S) == {g \in S : g.kind \in StreamKind}
Mine(s, g) == g.session = s /\ g.kind \in StreamKind
Fl(s, q) == {q[i] : i \in {j \in 1..Len(q) : Mine(s, q[j])}}
Sorted(s, q) == \A i, j \in 1..Len(q) :
                    i < j /\ Mine(s, q[i]) /\ Mine(s, q[j]) => q[i].seq < q[j].seq
\* Every number of A is below every number of B; numbers are given once.
Below(A, B) == \A a \in A, b \in B : a.seq < b.seq
Distinct(A) == \A a, b \in A : a.seq = b.seq => a = b

\* What is numbered (L) and not yet delivered (D); the segments of S are part of
\* it; and below a segment of A nothing is missing from B.
Rest(L, D) == (Len(D) + 1)..Len(L)
Numbered(L, D, S) == \A g \in S : \E i \in Rest(L, D) : L[i] = Entry(g)
NoGap(L, D, A, B) == \A g \in A, i \in Rest(L, D) :
                         L[i].seq < g.seq => \E h \in B : h.seq = L[i].seq

\* The log grows in the order of the numbers, which are below the next one, and
\* the delivered elements are a prefix of it.
Numbers(L, n, D) ==
    /\ \A i, j \in 1..Len(L) : i < j => L[i].seq < L[j].seq
    /\ \A i \in 1..Len(L) : L[i].seq < n
    /\ Len(D) <= Len(L)
    /\ \A i \in 1..Len(D) : D[i] = L[i]

\* The five places in the order of their numbers: receive queue, receive channel,
\* connection, hand and send queue.
Stages(R, C, N, H, Q) ==
    /\ Below(R, C) /\ Below(R, N) /\ Below(R, H) /\ Below(R, Q)
    /\ Below(C, N) /\ Below(C, H) /\ Below(C, Q)
    /\ Below(N, H) /\ Below(N, Q) /\ Below(H, Q)
    /\ Distinct(R) /\ Distinct(Q) /\ (\A g, h \in H : g = h)

\* The invariant of one direction.  The receiver never has a gap.  While it is
\* open there is none on the way; while the way works and the sender is open, all
\* that is numbered and not delivered is somewhere.
Flow(L, n, D, R, C, N, H, Q, xs, ys, ws) ==
    /\ Numbers(L, n, D)
    /\ Numbered(L, D, R \cup C \cup N \cup H \cup Q)
    /\ Stages(R, C, N, H, Q)
    /\ NoGap(L, D, R, R)
    /\ ys # "Closed" => NoGap(L, D, C \cup N, R \cup C \cup N)
    /\ ys # "Closed" /\ ws = "works" => NoGap(L, D, H \cup Q, R \cup C \cup N \cup H \cup Q)
    /\ ys # "Closed" /\ ws = "works" /\ xs # "Closed" => \A i \in Rest(L, D) :
                            \E h \in R \cup C \cup N \cup H \cup Q : h.seq = L[i].seq

\* A segment that joins a sequence: one that is not of the session is no part of
\* its flow, and one above all others keeps the order.
LEMMA FlAppend ==
    ASSUME NEW s, NEW q \in Seq(Segment), NEW g \in Segment
    PROVE  /\ ~Mine(s, g) => Fl(s, Append(q, g)) = Fl(s, q)
           /\ Sorted(s, q) /\ (Mine(s, g) => Below(Fl(s, q), {g})) => Sorted(s, Append(q, g))
<1>1. /\ Len(Append(q, g)) = Len(q) + 1 /\ Append(q, g)[Len(q) + 1] = g
      /\ \A i \in 1..Len(q) : Append(q, g)[i] = q[i]
      /\ Len(q) \in Nat
  OBVIOUS
<1> DEFINE p == Append(q, g)
<1>2. 1..Len(p) = 1..Len(q) \cup {Len(q) + 1}
  BY <1>1
<1>3. p[Len(q) + 1] = g /\ \A i \in 1..Len(q) : p[i] = q[i]
  BY <1>1, Zenon
<1> HIDE DEF p
<1>5. ~Mine(s, g) => Fl(s, p) = Fl(s, q)
  BY <1>2, <1>3, Zenon DEF Fl
<1>6. Sorted(s, q) /\ (Mine(s, g) => Below(Fl(s, q), {g})) => Sorted(s, p)
  <2> SUFFICES ASSUME Sorted(s, q), Mine(s, g) => Below(Fl(s, q), {g}),
                      NEW i \in 1..Len(p), NEW j \in 1..Len(p),
                      i < j, Mine(s, p[i]), Mine(s, p[j])
               PROVE  p[i].seq < p[j].seq
    BY Zenon DEF Sorted
  <2>1. CASE j \in 1..Len(q)
    BY <2>1, <1>1, <1>2, <1>3 DEF Sorted
  <2>2. CASE j = Len(q) + 1
    <3>1. i \in 1..Len(q) /\ p[i] = q[i] /\ p[j] = g
      BY <2>2, <1>1, <1>2, <1>3
    <3>2. q[i] \in Fl(s, q)
      BY <3>1, Zenon DEF Fl
    <3> QED  BY <3>1, <3>2, Zenon DEF Below
  <2> QED  BY <2>1, <2>2, <1>2, Zenon
<1> QED  BY <1>5, <1>6, Zenon DEF p

\* A segment of the session joins its flow.
LEMMA FlGrows ==
    ASSUME NEW s, NEW q \in Seq(Segment), NEW g \in Segment, Mine(s, g)
    PROVE  Fl(s, Append(q, g)) = Fl(s, q) \cup {g}
<1> DEFINE p == Append(q, g)
<1>1. Len(p) = Len(q) + 1 /\ Len(q) \in Nat
  OBVIOUS
<1>2. 1..Len(p) = 1..Len(q) \cup {Len(q) + 1}
  BY <1>1
<1>3. p[Len(q) + 1] = g /\ \A i \in 1..Len(q) : p[i] = q[i]
  OBVIOUS
<1> HIDE DEF p
<1>4. Fl(s, p) = Fl(s, q) \cup {g}
  BY <1>2, <1>3 DEF Fl
<1> QED  BY <1>4, Zenon DEF p

\* The order when a segment of the session joins above all others.
LEMMA FlSorted ==
    ASSUME NEW s, NEW q \in Seq(Segment), NEW g \in Segment, Mine(s, g),
           Sorted(s, q), \A h \in Fl(s, q) : h.seq < g.seq
    PROVE  Sorted(s, Append(q, g))
BY FlAppend, Zenon DEF Below

\* The first segment of a sequence leaves it; it is the lowest of its session.
LEMMA FlTail ==
    ASSUME NEW s, NEW q \in Seq(Segment), q # <<>>
    PROVE  /\ Head(q) \in Segment /\ Tail(q) \in Seq(Segment)
           /\ Mine(s, Head(q)) => Fl(s, q) = Fl(s, Tail(q)) \cup {Head(q)}
           /\ ~Mine(s, Head(q)) => Fl(s, q) = Fl(s, Tail(q))
           /\ Sorted(s, q) => Sorted(s, Tail(q))
           /\ Sorted(s, q) /\ Mine(s, Head(q)) => Below({Head(q)}, Fl(s, Tail(q)))
<1>1. /\ Head(q) = q[1] /\ Len(q) \in Nat \ {0} /\ Len(Tail(q)) = Len(q) - 1
      /\ \A i \in 1..Len(Tail(q)) : Tail(q)[i] = q[i + 1]
      /\ Head(q) \in Segment /\ Tail(q) \in Seq(Segment)
  OBVIOUS
<1> DEFINE t == Tail(q)
           h == Head(q)
<1>2. /\ h = q[1] /\ Len(q) \in Nat \ {0} /\ Len(t) = Len(q) - 1
      /\ \A i \in 1..Len(t) : t[i] = q[i + 1]
      /\ \A i \in 2..Len(q) : q[i] = t[i - 1] /\ i - 1 \in 1..Len(t)
  BY <1>1
<1> HIDE DEF t, h
<1>3. Fl(s, t) \subseteq Fl(s, q)
  <2> SUFFICES ASSUME NEW i \in 1..Len(t), Mine(s, t[i]) PROVE t[i] \in Fl(s, q)
    BY Zenon DEF Fl
  <2>1. i + 1 \in 1..Len(q) /\ t[i] = q[i + 1]
    BY <1>2
  <2> QED  BY <2>1, Zenon DEF Fl
<1>4. Fl(s, q) \subseteq Fl(s, t) \cup {h}
  <2> SUFFICES ASSUME NEW i \in 1..Len(q), Mine(s, q[i]), q[i] # h PROVE q[i] \in Fl(s, t)
    BY Zenon DEF Fl
  <2>1. i \in 2..Len(q)
    BY <1>2
  <2> QED  BY <2>1, <1>2, Zenon DEF Fl
<1>5. Mine(s, h) => h \in Fl(s, q)
  BY <1>2 DEF Fl
<1>6. \A g \in Fl(s, q) : Mine(s, g)
  BY Zenon DEF Fl
<1>7. Sorted(s, q) => Sorted(s, t)
  <2> SUFFICES ASSUME Sorted(s, q), NEW i \in 1..Len(t), NEW j \in 1..Len(t),
                      i < j, Mine(s, t[i]), Mine(s, t[j])
               PROVE  t[i].seq < t[j].seq
    BY Zenon DEF Sorted
  <2>1. i + 1 \in 1..Len(q) /\ j + 1 \in 1..Len(q) /\ i + 1 < j + 1
    BY <1>2
  <2> QED  BY <2>1, <1>2, Zenon DEF Sorted
<1>8. Sorted(s, q) /\ Mine(s, h) => Below({h}, Fl(s, t))
  <2> SUFFICES ASSUME Sorted(s, q), Mine(s, h), NEW i \in 1..Len(t), Mine(s, t[i])
               PROVE  h.seq < t[i].seq
    BY Zenon DEF Below, Fl
  <2>1. i + 1 \in 1..Len(q) /\ 1 \in 1..Len(q) /\ 1 < i + 1 /\ t[i] = q[i + 1] /\ h = q[1]
    BY <1>2
  <2> QED  BY <2>1, Zenon DEF Sorted
<1> QED  BY <1>1, <1>3, <1>4, <1>5, <1>6, <1>7, <1>8, Zenon DEF t, h
\* Elements and segments are numbered.
\* Facts about numbers.
LEMMA Numerals ==
    /\ 0 \in Nat /\ 1 \in Nat
    /\ \A n \in Nat : \A i \in 1..n : i # 1 => 1 < i
    /\ \A a, b \in Nat : ~(a < b /\ b < a)
    /\ \A a, b, c \in Nat : a < b /\ b <= c => a < c /\ a # c
OBVIOUS

\* The elements of a log have natural numbers.
LEMMA ElementAt ==
    ASSUME NEW L \in Seq(Element), NEW i \in 1..Len(L)
    PROVE  L[i] \in Element /\ L[i].seq \in Nat
<1>1. L[i] \in Element
  OBVIOUS
<1> QED  BY <1>1, Zenon DEF Element

\* Numbers are used up; one of the ends closes, or the connection breaks.
LEMMA FlowWeaken ==
    ASSUME NEW L \in Seq(Element), NEW n \in Nat, NEW D, NEW R, NEW C, NEW N, NEW H, NEW Q,
           NEW xs, NEW ys, NEW ws,
           Flow(L, n, D, R, C, N, H, Q, xs, ys, ws),
           NEW xp, NEW yp, NEW wp, NEW m \in Nat, m >= n,
           xp # "Closed" => xs # "Closed", yp # "Closed" => ys # "Closed",
           wp = "works" => ws = "works"
    PROVE  Flow(L, m, D, R, C, N, H, Q, xp, yp, wp)
<1>1. Numbers(L, m, D)
  <2>1. \A i \in 1..Len(L) : L[i].seq \in Nat
    BY ElementAt, Zenon
  <2> QED  BY <2>1 DEF Flow, Numbers
<1> QED  BY <1>1, Zenon DEF Flow

\* A flow asks less when an end closes or the way breaks.
LEMMA FlowEases ==
    ASSUME NEW L, NEW n, NEW D, NEW R, NEW C, NEW N, NEW H, NEW Q, NEW xs, NEW ys, NEW ws,
           Flow(L, n, D, R, C, N, H, Q, xs, ys, ws),
           NEW xp, NEW yp, NEW wp,
           xp # "Closed" => xs # "Closed", yp # "Closed" => ys # "Closed",
           wp = "works" => ws = "works"
    PROVE  Flow(L, n, D, R, C, N, H, Q, xp, yp, wp)
BY Zenon DEF Flow

\* closeWithError deletes the send queue; a segment in the hand may still be written.
LEMMA FlowClose ==
    ASSUME NEW L \in Seq(Element), NEW n \in Nat, NEW D \in Seq(Element),
           NEW R \in SUBSET Segment, NEW C \in SUBSET Segment, NEW N \in SUBSET Segment,
           NEW H \in SUBSET Segment, NEW Q \in SUBSET Segment,
           NEW xs, NEW ys, NEW ws,
           Flow(L, n, D, R, C, N, H, Q, xs, ys, ws)
    PROVE  Flow(L, n, D, R, C, N, H, {}, "Closed", ys, ws)
<1>1. Numbered(L, D, R \cup C \cup N \cup H) /\ Stages(R, C, N, H, {})
  BY Zenon DEF Flow, Numbered, Stages, Below, Distinct
<1>2. ys # "Closed" /\ ws = "works" => NoGap(L, D, H, R \cup C \cup N \cup H)
  <2> SUFFICES ASSUME ys # "Closed", ws = "works", NEW g \in H, NEW i \in Rest(L, D), L[i].seq < g.seq
               PROVE  \E h \in R \cup C \cup N \cup H : h.seq = L[i].seq
    BY Zenon DEF NoGap
  <2>1. PICK h \in R \cup C \cup N \cup H \cup Q : h.seq = L[i].seq
    BY Zenon DEF Flow, NoGap
  <2>2. h \notin Q
    <3>1. g.seq \in Nat /\ h.seq \in Nat
      BY Zenon DEF Segment
    <3> QED  BY <2>1, <3>1 DEF Flow, Stages, Below
  <2> QED  BY <2>1, <2>2, Zenon
<1> QED  BY <1>1, <1>2, Zenon DEF Flow

\* The segment in the hand is lost and the end closes.
LEMMA FlowAbort ==
    ASSUME NEW L \in Seq(Element), NEW n \in Nat, NEW D \in Seq(Element),
           NEW R \in SUBSET Segment, NEW C \in SUBSET Segment, NEW N \in SUBSET Segment,
           NEW H \in SUBSET Segment, NEW Q \in SUBSET Segment,
           NEW xs, NEW ys, NEW ws,
           Flow(L, n, D, R, C, N, H, Q, xs, ys, ws)
    PROVE  Flow(L, n, D, R, C, N, {}, {}, "Closed", ys, ws)
<1>1. Numbered(L, D, R \cup C \cup N) /\ Stages(R, C, N, {}, {})
  BY Zenon DEF Flow, Numbered, Stages, Below, Distinct
<1> QED  BY <1>1, Zenon DEF Flow, NoGap

\* The segment in the hand is lost, and no later one will be written.
LEMMA FlowLoses ==
    ASSUME NEW L \in Seq(Element), NEW n \in Nat, NEW D \in Seq(Element),
           NEW R \in SUBSET Segment, NEW C \in SUBSET Segment, NEW N \in SUBSET Segment,
           NEW H \in SUBSET Segment, NEW Q \in SUBSET Segment,
           NEW xs, NEW ys, NEW ws,
           Flow(L, n, D, R, C, N, H, Q, xs, ys, ws)
    PROVE  Flow(L, n, D, R, C, N, {}, Q, xs, ys, "broken")
<1>1. Numbered(L, D, R \cup C \cup N \cup Q) /\ Stages(R, C, N, {}, Q)
  BY Zenon DEF Flow, Numbered, Stages, Below, Distinct
<1> QED  BY <1>1, Zenon DEF Flow

\* A segment for an end that has closed is dropped.
LEMMA FlowDrop ==
    ASSUME NEW L \in Seq(Element), NEW n \in Nat, NEW D \in Seq(Element),
           NEW R \in SUBSET Segment, NEW C \in SUBSET Segment, NEW N \in SUBSET Segment,
           NEW H \in SUBSET Segment, NEW Q \in SUBSET Segment,
           NEW xs, NEW ys, NEW ws,
           Flow(L, n, D, R, C, N, H, Q, xs, ys, ws),
           NEW M \in SUBSET N, ys = "Closed"
    PROVE  Flow(L, n, D, R, C, M, H, Q, xs, ys, ws)
<1>1. Numbered(L, D, R \cup C \cup M \cup H \cup Q) /\ Stages(R, C, M, H, Q)
  BY Zenon DEF Flow, Numbered, Stages, Below, Distinct
<1> QED  BY <1>1, Zenon DEF Flow

\* The output loop takes the first segment of the queue.
LEMMA FlowTake ==
    ASSUME NEW L \in Seq(Element), NEW n \in Nat, NEW D \in Seq(Element),
           NEW R \in SUBSET Segment, NEW C \in SUBSET Segment, NEW N \in SUBSET Segment,
           NEW H \in SUBSET Segment, NEW Q \in SUBSET Segment,
           NEW xs, NEW ys, NEW ws,
           Flow(L, n, D, R, C, N, H, Q, xs, ys, ws),
           H = {}, NEW g \in Q, \A h \in Q : g.seq <= h.seq
    PROVE  Flow(L, n, D, R, C, N, {g}, Q \ {g}, xs, ys, ws)
<1>1. {g} \cup (Q \ {g}) = Q
  BY Zenon
<1>2. Stages(R, C, N, {g}, Q \ {g})
  <2>1. \A h \in Q : h.seq \in Nat
    BY Zenon DEF Segment
  <2>2. Below({g}, Q \ {g})
    BY <2>1 DEF Flow, Stages, Below, Distinct
  <2> QED  BY <2>2, Zenon DEF Flow, Stages, Below, Distinct
<1>3. R \cup C \cup N \cup {g} \cup (Q \ {g}) = R \cup C \cup N \cup H \cup Q
  BY Zenon
<1> QED  BY <1>1, <1>2, <1>3, Zenon DEF Flow

\* The segment in the hand is written to a connection that works.
LEMMA FlowPut ==
    ASSUME NEW L \in Seq(Element), NEW n \in Nat, NEW D \in Seq(Element),
           NEW R \in SUBSET Segment, NEW C \in SUBSET Segment, NEW N \in SUBSET Segment,
           NEW H \in SUBSET Segment, NEW Q \in SUBSET Segment,
           NEW xs, NEW ys, NEW ws,
           Flow(L, n, D, R, C, N, H, Q, xs, ys, ws),
           NEW g, H = {g}, ws = "works"
    PROVE  Flow(L, n, D, R, C, N \cup {g}, {}, Q, xs, ys, ws)
<1>1. R \cup C \cup (N \cup {g}) \cup {} \cup Q = R \cup C \cup N \cup H \cup Q
  BY Zenon
<1>2. Stages(R, C, N \cup {g}, {}, Q)
  BY Zenon DEF Flow, Stages, Below, Distinct
<1>3. ys # "Closed" => NoGap(L, D, C \cup (N \cup {g}), R \cup C \cup (N \cup {g}))
  <2> SUFFICES ASSUME ys # "Closed", NEW f \in C \cup (N \cup {g}), NEW i \in Rest(L, D), L[i].seq < f.seq
               PROVE  \E h \in R \cup C \cup (N \cup {g}) : h.seq = L[i].seq
    BY Zenon DEF NoGap
  <2>1. CASE f \in C \cup N
    BY <2>1, Zenon DEF Flow, NoGap
  <2>2. CASE f = g
    <3>1. PICK h \in R \cup C \cup N \cup H \cup Q : h.seq = L[i].seq
      BY <2>2, Zenon DEF Flow, NoGap
    <3>2. h \notin Q
      <4>1. g.seq \in Nat /\ h.seq \in Nat
        BY Zenon DEF Segment
      <4> QED  BY <2>2, <3>1, <4>1 DEF Flow, Stages, Below
    <3> QED  BY <3>1, <3>2, Zenon
  <2> QED  BY <2>1, <2>2, Zenon
<1> QED  BY <1>1, <1>2, <1>3, Zenon DEF Flow, NoGap

\* A stream segment is numbered and queued.
LEMMA FlowEnqueue ==
    ASSUME NEW L \in Seq(Element), NEW n \in Nat, NEW D \in Seq(Element),
           NEW R \in SUBSET Segment, NEW C \in SUBSET Segment, NEW N \in SUBSET Segment,
           NEW H \in SUBSET Segment, NEW Q \in SUBSET Segment,
           NEW xs, NEW ys, NEW ws,
           Flow(L, n, D, R, C, N, H, Q, xs, ys, ws),
           NEW g \in Segment, g.seq = n, xs # "Closed"
    PROVE  /\ Flow(Append(L, Entry(g)), n + 1, D, R, C, N, H, Q \cup {g}, xs, ys, ws)
           /\ \A h \in R \cup C \cup N \cup H \cup Q : h.seq < n
<1> DEFINE K == Append(L, Entry(g))
<1>1. /\ K \in Seq(Element) /\ Len(K) = Len(L) + 1 /\ K[Len(L) + 1] = Entry(g)
      /\ \A i \in 1..Len(L) : K[i] = L[i]
      /\ Len(L) \in Nat /\ Len(D) \in Nat
  <2>1. Entry(g) \in Element
    BY Zenon DEF Entry, Element, Segment
  <2> QED  BY <2>1
<1> HIDE DEF K
<1>2. \A i \in 1..Len(L) : L[i].seq \in Nat /\ L[i].seq < n
  BY ElementAt, Zenon DEF Flow, Numbers
<1>3. Entry(g).seq = n
  BY Zenon DEF Entry
<1>4. Len(D) <= Len(L)
  BY Zenon DEF Flow, Numbers
<1>5. Rest(K, D) = Rest(L, D) \cup {Len(L) + 1} /\ Rest(L, D) \subseteq 1..Len(L)
  BY <1>1, <1>4 DEF Rest
<1>6. \A h \in R \cup C \cup N \cup H \cup Q : h.seq < n
  <2> SUFFICES ASSUME NEW h \in R \cup C \cup N \cup H \cup Q PROVE h.seq < n
    BY Zenon
  <2>1. PICK i \in Rest(L, D) : L[i] = Entry(h)
    BY Zenon DEF Flow, Numbered
  <2> QED  BY <2>1, <1>2, <1>5 DEF Entry
<1>7. Numbers(K, n + 1, D)
  <2>1. \A i, j \in 1..Len(K) : i < j => K[i].seq < K[j].seq
    <3> SUFFICES ASSUME NEW i \in 1..Len(K), NEW j \in 1..Len(K), i < j PROVE K[i].seq < K[j].seq
      BY Zenon
    <3>1. CASE j \in 1..Len(L)
      BY <3>1, <1>1, SMTT(30) DEF Flow, Numbers
    <3>2. CASE j = Len(L) + 1
      BY <3>2, <1>1, <1>2, <1>3
    <3>3. 1..Len(K) = 1..Len(L) \cup {Len(L) + 1}
      BY <1>1
    <3> QED  BY <3>1, <3>2, <3>3, Zenon
  <2>2. \A i \in 1..Len(K) : K[i].seq < n + 1
    BY <1>1, <1>2, <1>3
  <2>3. Len(D) <= Len(K) /\ \A i \in 1..Len(D) : D[i] = K[i]
    BY <1>1, <1>4, SMTT(30) DEF Flow, Numbers
  <2> QED  BY <2>1, <2>2, <2>3, Zenon DEF Numbers
<1>8. Numbered(K, D, R \cup C \cup N \cup H \cup (Q \cup {g}))
  BY <1>1, <1>5, Zenon DEF Flow, Numbered
<1>9. Stages(R, C, N, H, Q \cup {g})
  <2>1. \A h \in R \cup C \cup N \cup H \cup Q : h.seq \in Nat /\ h.seq < g.seq
    BY <1>6, Zenon DEF Segment
  <2> QED  BY <2>1 DEF Flow, Stages, Below, Distinct
<1>10. ASSUME NEW A \in SUBSET (R \cup C \cup N \cup H \cup Q), NEW B, NoGap(L, D, A, B)
       PROVE  NoGap(K, D, A, B)
  <2> SUFFICES ASSUME NEW f \in A, NEW i \in Rest(K, D), K[i].seq < f.seq
               PROVE  \E h \in B : h.seq = K[i].seq
    BY Zenon DEF NoGap
  <2>1. i \in Rest(L, D) /\ K[i] = L[i]
    <3>1. f.seq < n /\ f.seq \in Nat
      BY <1>6, Zenon DEF Segment
    <3> QED  BY <3>1, <1>1, <1>3, <1>5
  <2> QED  BY <2>1, <1>10, Zenon DEF NoGap
<1>11. NoGap(K, D, R, R) /\ (ys # "Closed" => NoGap(K, D, C \cup N, R \cup C \cup N))
  BY <1>10, Zenon DEF Flow
<1>12. ASSUME ys # "Closed", ws = "works"
       PROVE  \A i \in Rest(K, D) : \E h \in R \cup C \cup N \cup H \cup (Q \cup {g}) : h.seq = K[i].seq
  <2>1. \A i \in Rest(L, D) : \E h \in R \cup C \cup N \cup H \cup Q : h.seq = L[i].seq
    BY <1>12, Zenon DEF Flow
  <2>2. K[Len(L) + 1].seq = g.seq
    BY <1>1, <1>3, Zenon
  <2> QED  BY <2>1, <2>2, <1>1, <1>5, Zenon
<1> QED  BY <1>6, <1>7, <1>8, <1>9, <1>11, <1>12, Zenon DEF Flow, NoGap, K

\* The event loop moves the first segment on the connection to recvChan.
LEMMA FlowArrives ==
    ASSUME NEW L \in Seq(Element), NEW n \in Nat, NEW D \in Seq(Element),
           NEW R \in SUBSET Segment, NEW C \in SUBSET Segment, NEW N \in SUBSET Segment,
           NEW H \in SUBSET Segment, NEW Q \in SUBSET Segment,
           NEW xs, NEW ys, NEW ws,
           Flow(L, n, D, R, C, N, H, Q, xs, ys, ws),
           NEW g \in N, NEW M, N = M \cup {g}, Below({g}, M)
    PROVE  Flow(L, n, D, R, C \cup {g}, M, H, Q, xs, ys, ws)
<1>1. /\ R \cup (C \cup {g}) \cup M = R \cup C \cup N
      /\ R \cup (C \cup {g}) \cup M \cup H \cup Q = R \cup C \cup N \cup H \cup Q
      /\ (C \cup {g}) \cup M = C \cup N
  BY Zenon
<1>2. Stages(R, C \cup {g}, M, H, Q)
  BY Zenon DEF Flow, Stages, Below, Distinct
<1> QED  BY <1>1, <1>2, Zenon DEF Flow

\* The input loop moves the first segment of recvChan to the receive queue.
LEMMA FlowAccept ==
    ASSUME NEW L \in Seq(Element), NEW n \in Nat, NEW D \in Seq(Element),
           NEW R \in SUBSET Segment, NEW C \in SUBSET Segment, NEW N \in SUBSET Segment,
           NEW H \in SUBSET Segment, NEW Q \in SUBSET Segment,
           NEW xs, NEW ys, NEW ws,
           Flow(L, n, D, R, C, N, H, Q, xs, ys, ws),
           NEW g \in C, NEW B, C = B \cup {g}, Below({g}, B), ys # "Closed"
    PROVE  /\ Flow(L, n, D, Insert(R, g), B, N, H, Q, xs, ys, ws)
           /\ Insert(R, g) = R \cup {g}
<1>1. \A h \in R \cup C \cup N : h.seq \in Nat
  BY Zenon DEF Segment
<1>2. Insert(R, g) = R \cup {g}
  BY <1>1 DEF Insert, Flow, Stages, Below
<1>3. /\ (R \cup {g}) \cup B \cup N = R \cup C \cup N
      /\ (R \cup {g}) \cup B \cup N \cup H \cup Q = R \cup C \cup N \cup H \cup Q
  BY Zenon
<1>4. Stages(R \cup {g}, B, N, H, Q)
  BY <1>1 DEF Flow, Stages, Below, Distinct
<1>5. NoGap(L, D, R \cup {g}, R \cup {g})
  <2> SUFFICES ASSUME NEW f \in R \cup {g}, NEW i \in Rest(L, D), L[i].seq < f.seq
               PROVE  \E h \in R \cup {g} : h.seq = L[i].seq
    BY Zenon DEF NoGap
  <2>1. CASE f \in R
    BY <2>1, Zenon DEF Flow, NoGap
  <2>2. CASE f = g
    <3>1. PICK h \in R \cup C \cup N : h.seq = L[i].seq
      BY <2>2, Zenon DEF Flow, NoGap
    <3>2. h \notin B /\ h \notin N
      BY <1>1, <2>2, <3>1 DEF Flow, Stages, Below
    <3> QED  BY <3>1, <3>2, Zenon
  <2> QED  BY <2>1, <2>2, Zenon
<1>6. ys # "Closed" => NoGap(L, D, B \cup N, (R \cup {g}) \cup B \cup N)
  BY <1>3, Zenon DEF Flow, NoGap
<1> QED  BY <1>2, <1>3, <1>4, <1>5, <1>6, Zenon DEF Flow

\* Read consumes the first segment of the receive queue: the next element of the log.
LEMMA ReadsNext ==
    ASSUME NEW L \in Seq(Element), NEW D \in Seq(Element), NEW R \in SUBSET Segment,
           \A i, j \in 1..Len(L) : i < j => L[i].seq < L[j].seq,
           Numbered(L, D, R), NoGap(L, D, R, R),
           NEW g \in R, \A h \in R : g.seq <= h.seq
    PROVE  Len(D) + 1 \in Rest(L, D) /\ Len(D) < Len(L) /\ L[Len(D) + 1] = Entry(g)
<1>1. Len(L) \in Nat /\ Len(D) \in Nat /\ Rest(L, D) \subseteq 1..Len(L)
  BY DEF Rest
<1>2. \A h \in R : h.seq \in Nat /\ Entry(h).seq = h.seq
  BY Zenon DEF Segment, Entry
<1>3. PICK k \in Rest(L, D) : L[k] = Entry(g)
  BY Zenon DEF Numbered
<1>4. Len(D) + 1 \in Rest(L, D) /\ Len(D) < Len(L) /\ (k # Len(D) + 1 => Len(D) + 1 < k)
  BY <1>1, <1>3 DEF Rest
<1>5. k = Len(D) + 1
  <2> SUFFICES ASSUME k # Len(D) + 1 PROVE FALSE
    BY Zenon
  <2>1. L[Len(D) + 1].seq < L[k].seq /\ L[k].seq = g.seq
    BY <1>1, <1>2, <1>3, <1>4, Zenon
  <2>2. PICK h \in R : h.seq = L[Len(D) + 1].seq
    BY <1>4, <2>1, Zenon DEF NoGap
  <2> QED  BY <1>2, <2>1, <2>2
<1> QED  BY <1>3, <1>4, <1>5, Zenon

\* The application reads the lowest segment of the receive queue: it is the next
\* of the log.
LEMMA FlowRead ==
    ASSUME NEW L \in Seq(Element), NEW n \in Nat, NEW D \in Seq(Element),
           NEW R \in SUBSET Segment, NEW C \in SUBSET Segment, NEW N \in SUBSET Segment,
           NEW H \in SUBSET Segment, NEW Q \in SUBSET Segment,
           NEW xs, NEW ys, NEW ws,
           Flow(L, n, D, R, C, N, H, Q, xs, ys, ws),
           NEW g \in R, \A h \in R : g.seq <= h.seq
    PROVE  /\ Flow(L, n, Append(D, Entry(g)), R \ {g}, C, N, H, Q, xs, ys, ws)
           /\ Len(D) < Len(L) /\ Entry(g) = L[Len(D) + 1]
<1> DEFINE E == Append(D, Entry(g))
           S == R \cup C \cup N \cup H \cup Q
<1>1. /\ E \in Seq(Element) /\ Len(E) = Len(D) + 1 /\ E[Len(D) + 1] = Entry(g)
      /\ \A i \in 1..Len(D) : E[i] = D[i]
      /\ Len(L) \in Nat /\ Len(D) \in Nat
  <2>1. Entry(g) \in Element
    BY Zenon DEF Entry, Element, Segment
  <2> QED  BY <2>1
<1> HIDE DEF E
<1>2. \A i \in 1..Len(L) : L[i].seq \in Nat
  BY ElementAt, Zenon
<1>3. \A h \in S : h.seq \in Nat /\ Entry(h).seq = h.seq
  BY Zenon DEF Segment, Entry
<1>4. Rest(L, D) \subseteq 1..Len(L)
  BY <1>1 DEF Rest
<1>5. PICK k \in Rest(L, D) : L[k] = Entry(g)
  BY Zenon DEF Flow, Numbered
<1>6. \A i, j \in 1..Len(L) : i < j => L[i].seq < L[j].seq
  BY Zenon DEF Flow, Numbers
<1>a. Len(D) + 1 \in Rest(L, D) /\ Len(D) < Len(L) /\ L[Len(D) + 1] = Entry(g)
  <2>1. Numbered(L, D, R) /\ NoGap(L, D, R, R)
    BY Zenon DEF Flow, Numbered
  <2> QED  BY <1>6, <2>1, ReadsNext, Zenon
<1>7. k = Len(D) + 1
  <2>1. k < Len(D) + 1 \/ Len(D) + 1 < k => L[k].seq # L[Len(D) + 1].seq
    BY <1>2, <1>4, <1>5, <1>6, <1>a
  <2> QED  BY <1>1, <1>5, <1>a, <2>1 DEF Rest
<1>8. Len(D) < Len(L) /\ Entry(g) = L[Len(D) + 1]
  BY <1>a, Zenon
<1>9. Rest(L, E) = Rest(L, D) \ {k} /\ Rest(L, E) \subseteq Rest(L, D)
  BY <1>1, <1>7 DEF Rest
<1>10. Numbers(L, n, E)
  <2>1. \A i \in 1..Len(E) : E[i] = L[i]
    BY <1>1, <1>8 DEF Flow, Numbers
  <2> QED  BY <2>1, <1>1, <1>8 DEF Flow, Numbers
<1>11. \A h \in S \ {g} : h.seq # g.seq
  BY <1>3 DEF Flow, Stages, Below, Distinct
<1>12. Numbered(L, E, (R \ {g}) \cup C \cup N \cup H \cup Q)
  <2> SUFFICES ASSUME NEW h \in (R \ {g}) \cup C \cup N \cup H \cup Q
               PROVE  \E i \in Rest(L, E) : L[i] = Entry(h)
    BY Zenon DEF Numbered
  <2>1. PICK i \in Rest(L, D) : L[i] = Entry(h)
    BY Zenon DEF Flow, Numbered
  <2>2. h.seq # g.seq
    <3>1. h # g
      BY <1>3 DEF Flow, Stages, Below
    <3> QED  BY <3>1, <1>11, Zenon
  <2>3. i # k
    BY <2>1, <2>2, <1>3, <1>5, Zenon
  <2> QED  BY <2>1, <2>3, <1>9, Zenon
<1>13. Stages(R \ {g}, C, N, H, Q)
  BY Zenon DEF Flow, Stages, Below, Distinct
<1>14. ASSUME NEW i \in Rest(L, E), NEW h \in S, h.seq = L[i].seq
       PROVE  h # g
  <2>1. L[k].seq < L[i].seq
    BY <1>1, <1>4, <1>5, <1>6, <1>7, <1>9 DEF Rest
  <2> QED  BY <2>1, <1>14, <1>2, <1>3, <1>4, <1>5
<1>15. ASSUME NEW A, NEW B \in SUBSET S, NoGap(L, D, A, B)
       PROVE  NoGap(L, E, A \ {g}, B \ {g})
  BY <1>14, <1>15, <1>9, Zenon DEF NoGap
<1>16. g \notin C /\ g \notin N /\ g \notin H /\ g \notin Q
  BY <1>3 DEF Flow, Stages, Below
<1>17. /\ NoGap(L, E, R \ {g}, R \ {g})
       /\ ys # "Closed" => NoGap(L, E, C \cup N, (R \ {g}) \cup C \cup N)
       /\ ys # "Closed" /\ ws = "works" => NoGap(L, E, H \cup Q, (R \ {g}) \cup C \cup N \cup H \cup Q)
  <2>1. /\ (C \cup N) \ {g} = C \cup N /\ (H \cup Q) \ {g} = H \cup Q
        /\ (R \cup C \cup N) \ {g} = (R \ {g}) \cup C \cup N
        /\ S \ {g} = (R \ {g}) \cup C \cup N \cup H \cup Q
    BY <1>16, Zenon
  <2>2. /\ NoGap(L, D, R, R) /\ (ys # "Closed" => NoGap(L, D, C \cup N, R \cup C \cup N))
        /\ ys # "Closed" /\ ws = "works" => NoGap(L, D, H \cup Q, S)
    BY Zenon DEF Flow
  <2>3. R \in SUBSET S /\ R \cup C \cup N \in SUBSET S /\ S \in SUBSET S
    BY Zenon
  <2> HIDE DEF S
  <2>4. NoGap(L, E, R \ {g}, R \ {g})
    BY <2>2, <2>3, <1>15, Zenon
  <2>5. ys # "Closed" => NoGap(L, E, (C \cup N) \ {g}, (R \cup C \cup N) \ {g})
    BY <2>2, <2>3, <1>15, Zenon
  <2>6. ys # "Closed" /\ ws = "works" => NoGap(L, E, (H \cup Q) \ {g}, S \ {g})
    BY <2>2, <2>3, <1>15, Zenon
  <2> QED  BY <2>1, <2>4, <2>5, <2>6, Zenon
<1>18. ys # "Closed" /\ ws = "works" /\ xs # "Closed" => \A i \in Rest(L, E) :
           \E h \in (R \ {g}) \cup C \cup N \cup H \cup Q : h.seq = L[i].seq
  <2> SUFFICES ASSUME ys # "Closed", ws = "works", xs # "Closed", NEW i \in Rest(L, E)
               PROVE  \E h \in (R \ {g}) \cup C \cup N \cup H \cup Q : h.seq = L[i].seq
    BY Zenon
  <2>1. PICK h \in S : h.seq = L[i].seq
    BY <1>9, Zenon DEF Flow
  <2>2. h # g
    BY <2>1, <1>14, Zenon
  <2> QED  BY <2>1, <2>2, Zenon
<1> QED  BY <1>8, <1>10, <1>12, <1>13, <1>17, <1>18, Zenon DEF Flow, E

\* The segments that an end has numbered and its peer has not received.
Sending(x) == Fl(x[2], conn[x[1]]) \cup Str(hand[x]) \cup Str(sendQueue[x])

\* Whether what end x writes reaches the connection.
Way(x) == IF up /\ x \notin outputErr THEN "works" ELSE "broken"

\* The flow that an end sends, and its order in the two channels.
FlowOf(x) == Flow(log[x], nextSend[x], delivered[Other(x)], recvQueue[Other(x)],
                  Fl(x[2], recvChan[Other(x)]), Fl(x[2], conn[x[1]]),
                  Str(hand[x]), Str(sendQueue[x]),
                  state[x], state[Other(x)], Way(x))

Order(x) == Sorted(x[2], recvChan[Other(x)]) /\ Sorted(x[2], conn[x[1]])

\* What an end holds is its own: its queues carry its session and numbers it has
\* given, and only the holder of oLock has a segment in hand.
Own(x) ==
    /\ \A g \in sendQueue[x] \cup hand[x] : g.session = x[2]
    /\ \A g \in sendQueue[x] : g.seq < nextSend[x]
    /\ \A i \in 1..Len(recvChan[x]) : recvChan[x][i].session = x[2]
    /\ \A g, h \in hand[x] : g = h
    /\ hand[x] # {} => x \in oLock
    /\ x \in outputErr => hand[x] = {}

\* Registration and state: a live session is registered with its underlay, and
\* one that is not yet attached holds nothing.
Life(x) ==
    /\ state[x] \in Live => x \in registered
    /\ x \in registered => state[x] # "Init"
    /\ state[x] = "Closed" => closing[x] # "none"
    /\ state[x] = "Init" =>
        /\ recvChan[x] = <<>> /\ recvQueue[x] = {} /\ delivered[x] = <<>>
        /\ log[x] = <<>> /\ sendQueue[x] = {} /\ hand[x] = {}

\* The open request is the first segment of the client, and the server's session
\* exists only after it has arrived; so it is never received twice.
Opened(s) ==
    LET c == <<"client", s>>
        v == <<"server", s>>
    IN  /\ s \in openSent <=> log[c] # <<>>
        /\ s \in openSent => state[c] # "Init"
        /\ state[v] # "Init" => s \in openSent
        /\ \A g \in Sending(c) : g.kind = "openReq" <=> g.seq = log[c][1].seq
        /\ state[v] # "Init" => \A g \in Sending(c) : g.kind # "openReq"
        /\ \A g \in Sending(v) \cup Fl(s, recvChan[c]) : g.kind # "openReq"

\* The inductive invariant of the stream underlays.
SInv ==
    /\ TypeOK
    /\ \A x \in End : FlowOf(x) /\ Order(x) /\ Own(x) /\ Life(x)
    /\ \A s \in Sessions : Opened(s)

-----------------------------------------------------------------------------
(* Types.                                                                  *)

\* The two ends of a session.
LEMMA Ends ==
    ASSUME NEW x \in End
    PROVE  /\ x[1] \in Side /\ x[2] \in Sessions /\ x = <<x[1], x[2]>>
           /\ Other(x) \in End /\ Other(Other(x)) = x /\ Other(x) # x
           /\ Other(x)[2] = x[2] /\ Other(x)[1] = Peer(x[1]) /\ Peer(x[1]) # x[1]
           /\ \A y \in End : y[2] = x[2] => y = x \/ y = Other(x)
BY DEF End, Side, Other, Peer

\* The next number is a natural number.
LEMMA NextNat ==
    ASSUME TypeOK, NEW x \in End
    PROVE  /\ nextSend[x] \in Nat /\ nextSend[x] + 1 \in Nat
           /\ nextSend[x] >= nextSend[x] /\ nextSend[x] + 1 >= nextSend[x]
BY DEF TypeOK

\* A segment made by an end.
LEMMA SegType ==
    ASSUME NEW x \in End, NEW kind \in Kind, NEW seq \in Nat, NEW data \in Nat
    PROVE  /\ Seg(x, kind, seq, data) \in Segment /\ Entry(Seg(x, kind, seq, data)) \in Element
           /\ Seg(x, kind, seq, data).session = x[2] /\ Seg(x, kind, seq, data).kind = kind
           /\ Seg(x, kind, seq, data).seq = seq
BY Ends, Zenon DEF Seg, Segment, Entry, Element

\* Writing to the connection.
LEMMA PutType ==
    ASSUME TypeOK, NEW e \in Side, NEW seg \in Segment, Put(e, seg)
    PROVE  conn' \in [Side -> Seq(Segment)]
<1>1. conn[e] \in Seq(Segment) /\ Append(conn[e], seg) \in Seq(Segment)
  BY DEF TypeOK
<1> QED  BY <1>1, Zenon DEF Put, TypeOK

\* Numbering a segment and putting it into the send queue.
LEMMA EnqueueType ==
    ASSUME TypeOK, NEW x \in End, NEW kind \in Kind, NEW data \in Nat, Enqueue(x, kind, data)
    PROVE  /\ sendQueue' \in [End -> SUBSET Segment] /\ nextSend' \in [End -> Nat]
           /\ log' \in [End -> Seq(Element)]
<1> DEFINE seg == Seg(x, kind, nextSend[x], data)
<1>1. seg \in Segment /\ Entry(seg) \in Element /\ nextSend[x] \in Nat
  BY SegType, Zenon DEF TypeOK
<1>2. /\ sendQueue' = [sendQueue EXCEPT ![x] = Insert(@, seg)]
      /\ nextSend' = [nextSend EXCEPT ![x] = @ + 1]
      /\ log' = [log EXCEPT ![x] = Append(@, Entry(seg))]
  BY Zenon DEF Enqueue
<1> HIDE DEF seg
<1>3. Append(log[x], Entry(seg)) \in Seq(Element)
  BY <1>1 DEF TypeOK
<1> QED  BY <1>1, <1>2, <1>3, SMTT(30) DEF TypeOK, Insert

\* The first half of closeWithError.
LEMMA StartCloseType ==
    ASSUME TypeOK, NEW x \in End, NEW who \in {"user", "peer", "refused"}, NEW reply \in Nat,
           StartClose(x, who, reply)
    PROVE  /\ sendQueue' \in [End -> SUBSET Segment] /\ nextSend' \in [End -> Nat]
           /\ closing' \in [End -> {"none", "user", "peer", "refused", "output"}]
           /\ closeSeq' \in [End -> Nat] /\ promised' \in [End -> Nat]
<1>1. nextSend[x] \in Nat /\ nextSend[x] + reply \in Nat /\ Len(log[x]) \in Nat
  BY DEF TypeOK
<1> DEFINE seg == Seg(x, "closeReq", nextSend[x] + reply, 0)
<1>2. seg \in Segment
  BY <1>1, SegType, Zenon DEF Kind
<1>3. CASE closing[x] # "none"
  BY <1>1, <1>3, Zenon DEF StartClose, TypeOK, closeVars
<1>4. CASE closing[x] = "none"
  <2>1. /\ closing' = [closing EXCEPT ![x] = who]
        /\ closeSeq' = [closeSeq EXCEPT ![x] = nextSend[x] + reply]
        /\ nextSend' = [nextSend EXCEPT ![x] = @ + reply + 1]
        /\ \/ /\ sendQueue' = [sendQueue EXCEPT ![x] = Insert(@, seg)]
              /\ promised' = [promised EXCEPT ![x] = Len(log[x])]
           \/ sendQueue' = sendQueue /\ promised' = promised
    BY <1>4, Zenon DEF StartClose
  <2> HIDE DEF seg
  <2>2. Insert(sendQueue[x], seg) \in SUBSET Segment
    BY <1>2, Zenon DEF TypeOK, Insert
  <2>3. /\ nextSend' \in [End -> Nat] /\ closeSeq' \in [End -> Nat]
        /\ closing' \in [End -> {"none", "user", "peer", "refused", "output"}]
    BY <2>1, <1>1, SMTT(30) DEF TypeOK
  <2>4. sendQueue' \in [End -> SUBSET Segment]
    <3>1. sendQueue \in [End -> SUBSET Segment]
      BY Zenon DEF TypeOK
    <3>2. CASE sendQueue' = sendQueue
      BY <3>1, <3>2, Zenon
    <3>3. CASE sendQueue' = [sendQueue EXCEPT ![x] = Insert(sendQueue[x], seg)]
      BY <2>2, <3>1, <3>3, Zenon
    <3> QED  BY <2>1, <3>2, <3>3, Zenon
  <2>5. promised' \in [End -> Nat]
    <3>1. promised \in [End -> Nat]
      BY Zenon DEF TypeOK
    <3>2. promised' = promised \/ promised' = [promised EXCEPT ![x] = Len(log[x])]
      BY <2>1, Zenon
    <3> QED  BY <1>1, <3>1, <3>2, Zenon
  <2> QED  BY <2>3, <2>4, <2>5, Zenon
<1> QED  BY <1>3, <1>4, Zenon

\* Closing after an output error.
LEMMA AbortType ==
    ASSUME TypeOK, NEW x \in End, Abort(x, "output")
    PROVE  /\ sendQueue' \in [End -> SUBSET Segment] /\ nextSend' \in [End -> Nat]
           /\ closing' \in [End -> {"none", "user", "peer", "refused", "output"}]
           /\ closeSeq' \in [End -> Nat] /\ promised' \in [End -> Nat]
           /\ state' \in [End -> {"Init", "Closed"} \cup Live]
BY SMTT(30) DEF TypeOK, Abort, Finish

\* The input goroutine takes a segment from the channel.
LEMMA AcceptType ==
    ASSUME TypeOK, NEW x \in End, recvChan[x] # <<>>, Accept(x)
    PROVE  recvQueue' \in [End -> SUBSET Segment] /\ recvChan' \in [End -> Seq(Segment)]
<1>1. Head(recvChan[x]) \in Segment /\ Tail(recvChan[x]) \in Seq(Segment)
  BY DEF TypeOK
<1> QED  BY <1>1, Zenon DEF Accept, TypeOK, Insert

\* The segment that the event loop reads.
LEMMA ArrivingType ==
    ASSUME TypeOK, NEW e \in Side, Reads(e)
    PROVE  /\ Peer(e) \in Side /\ Arriving(e) \in Segment /\ Target(e) \in End
           /\ Target(e)[1] = e /\ Target(e)[2] = Arriving(e).session
           /\ Tail(conn[Peer(e)]) \in Seq(Segment)
<1>1. Peer(e) \in Side
  BY Zenon DEF Peer, Side
<1>2. conn[Peer(e)] \in Seq(Segment) /\ conn[Peer(e)] # <<>>
  BY <1>1, Zenon DEF TypeOK, Reads
<1>3. Head(conn[Peer(e)]) \in Segment /\ Tail(conn[Peer(e)]) \in Seq(Segment)
  BY <1>2
<1>4. Arriving(e) \in Segment /\ Arriving(e).session \in Sessions
  BY <1>3, Zenon DEF Arriving, Segment
<1> QED  BY <1>1, <1>3, <1>4, Zenon DEF Target, End

\* The event loop takes a segment from the connection.
LEMMA ConsumeType ==
    ASSUME TypeOK, NEW e \in Side, Reads(e), Consume(e)
    PROVE  /\ conn' \in [Side -> Seq(Segment)]
           /\ event' \in [Side -> {"run", "wait", "last", "ended", "failed"}]
<1>1. conn' \in [Side -> Seq(Segment)]
  BY ArrivingType, Zenon DEF Consume, TypeOK
<1>2. event' \in [Side -> {"run", "wait", "last", "ended", "failed"}]
  BY Zenon DEF Consume, TypeOK
<1> QED  BY <1>1, <1>2, Zenon

\* A step of a session keeps the types.
LEMMA SessionTypes ==
    ASSUME TypeOK, NEW x \in End, SessionStep(x)
    PROVE  TypeOK'
<1>1. CASE Close(x)
  <2>1. /\ sendQueue' \in [End -> SUBSET Segment] /\ nextSend' \in [End -> Nat]
        /\ closing' \in [End -> {"none", "user", "peer", "refused", "output"}]
        /\ closeSeq' \in [End -> Nat] /\ promised' \in [End -> Nat]
    BY <1>1, StartCloseType, Zenon DEF Close
  <2> QED  BY <1>1, <2>1, Zenon DEF TypeOK, Close, closeVars, sendVars, recvVars, loopVars, connVars
<1>2. CASE CloseSucceeds(x)
  <2> QED  BY <1>2, Zenon DEF TypeOK, CloseSucceeds, closeVars, sendVars, recvVars, loopVars,
              connVars, Finish
<1>3. CASE CloseTimesOut(x)
  <2>1. conn' \in [Side -> Seq(Segment)]
    <3>1. Seg(x, "closeReq", closeSeq[x], 0) \in Segment
      <4>1. closeSeq[x] \in Nat /\ "closeReq" \in Kind /\ 0 \in Nat
        BY Zenon DEF Kind, TypeOK
      <4> QED  BY <4>1, SegType, Zenon
    <3> QED  BY <1>3, <3>1, PutType, Ends, Zenon DEF CloseTimesOut, TypeOK
  <2> QED  BY <1>3, <2>1, Zenon DEF TypeOK, CloseTimesOut, closeVars, sendVars, recvVars,
              loopVars, connVars, Finish
<1>4. CASE Write(x)
  <2>1. /\ sendQueue' \in [End -> SUBSET Segment] /\ nextSend' \in [End -> Nat]
        /\ log' \in [End -> Seq(Element)]
    <3>1. nextSend[x] + 1 \in Nat
      BY NextNat, Zenon
    <3>2. Enqueue(x, "data", nextSend[x] + 1)
      BY <1>4, Zenon DEF Write
    <3> QED  BY <3>1, <3>2, EnqueueType, Zenon DEF Kind, StreamKind
  <2> QED  BY <1>4, <2>1, Zenon DEF TypeOK, Write, closeVars, sendVars, recvVars, loopVars, connVars
<1>5. CASE Read(x)
  <2>1. PICK seg \in recvQueue[x] :
            /\ recvQueue' = [recvQueue EXCEPT ![x] = @ \ {seg}]
            /\ delivered' = [delivered EXCEPT ![x] = Append(@, Entry(seg))]
            /\ state' = IF seg.kind = "openResp" /\ state[x] = "Attached"
                        THEN [state EXCEPT ![x] = "Established"] ELSE state
    BY <1>5, Zenon DEF Read, First
  <2>2. Append(delivered[x], Entry(seg)) \in Seq(Element)
    <3>1. Entry(seg) \in Element
      BY DEF TypeOK, Segment, Entry, Element
    <3> QED  BY <3>1 DEF TypeOK
  <2>3. state' \in [End -> {"Init", "Closed"} \cup Live]
    <3>1. [state EXCEPT ![x] = "Established"] \in [End -> {"Init", "Closed"} \cup Live]
      BY Zenon DEF TypeOK, Live
    <3> QED  BY <2>1, <3>1, Zenon DEF TypeOK
  <2> QED  BY <1>5, <2>1, <2>2, <2>3, Zenon DEF TypeOK, Read, closeVars, sendVars, recvVars,
              loopVars, connVars
<1>6. CASE OutputTake(x)
  <2>1. PICK seg \in sendQueue[x] :
            /\ hand' = [hand EXCEPT ![x] = {seg}]
            /\ sendQueue' = [sendQueue EXCEPT ![x] = @ \ {seg}]
    BY <1>6, Zenon DEF OutputTake, First
  <2> QED  BY <1>6, <2>1 DEF TypeOK, OutputTake, closeVars, sendVars, recvVars, loopVars, connVars
<1>7. CASE OutputPut(x)
  <2>1. PICK seg \in hand[x] : Put(x[1], seg) /\ lastSend' = [lastSend EXCEPT ![x] = seg.seq]
    BY <1>7, Zenon DEF OutputPut
  <2>2. conn' \in [Side -> Seq(Segment)] /\ seg.seq \in Nat
    <3>1. seg \in Segment /\ x[1] \in Side
      BY Ends, Zenon DEF TypeOK
    <3> QED  BY <2>1, <3>1, PutType, Zenon DEF Segment
  <2> QED  BY <1>7, <2>1, <2>2, Zenon DEF TypeOK, OutputPut, closeVars, sendVars, recvVars,
              loopVars, connVars
<1>8. CASE OutputFails(x)
  <2>1. /\ sendQueue' \in [End -> SUBSET Segment] /\ nextSend' \in [End -> Nat]
        /\ closing' \in [End -> {"none", "user", "peer", "refused", "output"}]
        /\ closeSeq' \in [End -> Nat] /\ promised' \in [End -> Nat]
        /\ state' \in [End -> {"Init", "Closed"} \cup Live]
    <3>1. CASE closing[x] = "none"
      BY <1>8, <3>1, AbortType, Zenon DEF OutputFails
    <3>2. CASE closing[x] # "none"
      BY <1>8, <3>2, Zenon DEF OutputFails, TypeOK, closeVars
    <3> QED  BY <3>1, <3>2, Zenon
  <2> QED  BY <1>8, <2>1, Zenon DEF TypeOK, OutputFails, closeVars, sendVars, recvVars, loopVars,
              connVars, Unlock
<1>9. CASE InputData(x)
  <2>1. recvQueue' \in [End -> SUBSET Segment] /\ recvChan' \in [End -> Seq(Segment)]
    BY <1>9, AcceptType, Zenon DEF InputData, InputRuns
  <2> QED  BY <1>9, <2>1, Zenon DEF TypeOK, InputData, closeVars, sendVars, recvVars, loopVars,
              connVars
<1>10. CASE InputOpen(x)
  <2>1. recvQueue' \in [End -> SUBSET Segment] /\ recvChan' \in [End -> Seq(Segment)]
    BY <1>10, AcceptType, Zenon DEF InputOpen, InputRuns
  <2>2. /\ sendQueue' \in [End -> SUBSET Segment] /\ nextSend' \in [End -> Nat]
        /\ log' \in [End -> Seq(Element)]
    BY <1>10, EnqueueType, Zenon DEF InputOpen, Kind, StreamKind
  <2>3. state' \in [End -> {"Init", "Closed"} \cup Live]
    BY <1>10, Zenon DEF InputOpen, TypeOK, Live
  <2> QED  BY <1>10, <2>1, <2>2, <2>3, Zenon DEF TypeOK, InputOpen, closeVars, sendVars, recvVars,
              loopVars, connVars
<1>11. CASE InputRefused(x)
  <2>1. recvQueue' \in [End -> SUBSET Segment] /\ recvChan' \in [End -> Seq(Segment)]
    BY <1>11, AcceptType, Zenon DEF InputRefused, InputRuns
  <2>2. /\ sendQueue' \in [End -> SUBSET Segment] /\ nextSend' \in [End -> Nat]
        /\ closing' \in [End -> {"none", "user", "peer", "refused", "output"}]
        /\ closeSeq' \in [End -> Nat] /\ promised' \in [End -> Nat]
    BY <1>11, StartCloseType, Zenon DEF InputRefused
  <2> QED  BY <1>11, <2>1, <2>2, Zenon DEF TypeOK, InputRefused, closeVars, sendVars, recvVars,
              loopVars, connVars
<1>12. CASE InputClose(x)
  <2>1. recvChan' \in [End -> Seq(Segment)]
    <3>1. Tail(recvChan[x]) \in Seq(Segment)
      BY <1>12 DEF InputClose, InputRuns, TypeOK
    <3> QED  BY <1>12, <3>1, Zenon DEF InputClose, TypeOK
  <2>2. /\ sendQueue' \in [End -> SUBSET Segment] /\ nextSend' \in [End -> Nat]
        /\ closing' \in [End -> {"none", "user", "peer", "refused", "output"}]
        /\ closeSeq' \in [End -> Nat] /\ promised' \in [End -> Nat]
    BY <1>12, StartCloseType, Zenon DEF InputClose
  <2>3. conn' \in [Side -> Seq(Segment)] /\ lastSend' \in [End -> Nat]
    <3>1. Seg(x, "closeResp", nextSend[x], 0) \in Segment /\ nextSend[x] \in Nat
      BY SegType, Zenon DEF Kind, TypeOK
    <3> QED  BY <1>12, <3>1, PutType, Ends, Zenon DEF InputClose, TypeOK
  <2> QED  BY <1>12, <2>1, <2>2, <2>3, Zenon DEF TypeOK, InputClose, closeVars, sendVars,
              recvVars, loopVars, connVars
<1>13. CASE InputCloseFails(x)
  <2>1. /\ sendQueue' \in [End -> SUBSET Segment] /\ nextSend' \in [End -> Nat]
        /\ closing' \in [End -> {"none", "user", "peer", "refused", "output"}]
        /\ closeSeq' \in [End -> Nat] /\ promised' \in [End -> Nat]
        /\ state' \in [End -> {"Init", "Closed"} \cup Live]
    BY <1>13, AbortType, Zenon DEF InputCloseFails
  <2> QED  BY <1>13, <2>1, Zenon DEF TypeOK, InputCloseFails, closeVars, sendVars, recvVars,
              loopVars, connVars
<1> QED
  BY <1>1, <1>2, <1>3, <1>4, <1>5, <1>6, <1>7, <1>8, <1>9, <1>10, <1>11, <1>12, <1>13
 , Zenon DEF SessionStep, InputStep

\* A step of an event loop keeps the types.
LEMMA UnderlayTypes ==
    ASSUME TypeOK, NEW e \in Side, UnderlayStep(e)
    PROVE  TypeOK'
<1>1. CASE Deliver(e)
  <2>1. /\ conn' \in [Side -> Seq(Segment)]
        /\ event' \in [Side -> {"run", "wait", "last", "ended", "failed"}]
    BY <1>1, ConsumeType, Zenon DEF Deliver
  <2>2. recvChan' \in [End -> Seq(Segment)]
    <3>1. Append(recvChan[Target(e)], Arriving(e)) \in Seq(Segment) /\ Target(e) \in End
      BY <1>1, ArrivingType DEF Deliver, TypeOK
    <3> QED  BY <1>1, <3>1, ZenonT(60) DEF Deliver, DeliverSegmentToSession, TypeOK
  <2> QED  BY <1>1, <2>1, <2>2, Zenon DEF TypeOK, Deliver, closeVars, sendVars, recvVars,
              loopVars, connVars
<1>2. CASE OnOpenSessionRequest(e)
  <2>1. /\ conn' \in [Side -> Seq(Segment)]
        /\ event' \in [Side -> {"run", "wait", "last", "ended", "failed"}]
    BY <1>2, ConsumeType, ZenonT(60) DEF OnOpenSessionRequest
  <2>2. Target(e) \in End /\ <<Arriving(e)>> \in Seq(Segment)
    BY <1>2, ArrivingType DEF OnOpenSessionRequest
  <2>3. recvChan' \in [End -> Seq(Segment)]
    BY <1>2, <2>2, Zenon DEF OnOpenSessionRequest, TypeOK
  <2>4. state' \in [End -> {"Init", "Closed"} \cup Live]
    BY <1>2, <2>2, Zenon DEF OnOpenSessionRequest, TypeOK, Live
  <2> QED  BY <1>2, <2>1, <2>2, <2>3, <2>4, Zenon DEF TypeOK, OnOpenSessionRequest, closeVars,
              sendVars, recvVars, loopVars, connVars
<1>3. CASE OnUnknownOpenResponse(e)
  <2> QED  BY <1>3, Zenon DEF TypeOK, OnUnknownOpenResponse, closeVars, sendVars, recvVars,
              loopVars, connVars, CloseConn
<1>4. CASE OnUnknownSession(e)
  <2>1. /\ conn' \in [Side -> Seq(Segment)]
        /\ event' \in [Side -> {"run", "wait", "last", "ended", "failed"}]
    BY <1>4, ConsumeType, Zenon DEF OnUnknownSession
  <2>2. answer' \in [Side -> SUBSET Sessions]
    <3>1. Arriving(e).session \in Sessions
      BY <1>4, ArrivingType, Zenon DEF OnUnknownSession, Segment
    <3> QED  BY <1>4, <3>1, Zenon DEF OnUnknownSession, TypeOK
  <2> QED  BY <1>4, <2>1, <2>2, Zenon DEF TypeOK, OnUnknownSession, closeVars, sendVars, recvVars,
              loopVars, connVars
<1>5. CASE Answer(e)
  <2>1. conn' \in [Side -> Seq(Segment)]
    <3>1. PICK s \in answer[e] : Put(e, Seg(<<e, s>>, "closeReq", 0, 0))
      BY <1>5, Zenon DEF Answer
    <3>2. <<e, s>> \in End
      BY Zenon DEF TypeOK, End
    <3>3. Seg(<<e, s>>, "closeReq", 0, 0) \in Segment
      BY <3>2, SegType, Zenon DEF Kind
    <3> QED  BY <3>1, <3>3, PutType, Zenon
  <2> QED  BY <1>5, <2>1, Zenon DEF TypeOK, Answer, closeVars, sendVars, recvVars, loopVars,
              connVars
<1>6. CASE CleanSessions(e)
  <2> QED  BY <1>6, Zenon DEF TypeOK, CleanSessions, closeVars, sendVars, recvVars, loopVars,
              connVars, ClosedOn
<1>7. CASE CleanSessionsEnd(e)
  <2> QED  BY <1>7, Zenon DEF TypeOK, CleanSessionsEnd, closeVars, sendVars, recvVars, loopVars,
              connVars
<1>8. CASE EventFails(e)
  <2> QED  BY <1>8, Zenon DEF TypeOK, EventFails, closeVars, sendVars, recvVars, loopVars,
              connVars, CloseConn
<1>9. CASE EventEnds(e)
  <2> QED  BY <1>9, Zenon DEF TypeOK, EventEnds, closeVars, sendVars, recvVars, loopVars,
              connVars, CloseConn, ClosedOn
<1>10. CASE CloseUnderlay(e)
  <2> QED  BY <1>10, Zenon DEF TypeOK, CloseUnderlay, closeVars, sendVars, recvVars, loopVars,
              connVars
<1>11. CASE CloseUnderlayEnd(e)
  <2> QED  BY <1>11, Zenon DEF TypeOK, CloseUnderlayEnd, closeVars, sendVars, recvVars, loopVars,
              connVars
<1> QED
  BY <1>1, <1>2, <1>3, <1>4, <1>5, <1>6, <1>7, <1>8, <1>9, <1>10, <1>11
 , Zenon DEF UnderlayStep, EventStep

\* Every variable stays in its type.
LEMMA TypeStep == TypeOK /\ [Next]_vars => TypeOK'
<1> SUFFICES ASSUME TypeOK, [Next]_vars PROVE TypeOK'
  BY Zenon
<1>1. ASSUME NEW s \in Sessions, DialSession(s) PROVE TypeOK'
  <2>1. <<"client", s>> \in End
    BY Zenon DEF End, Side
  <2>2. state' \in [End -> {"Init", "Closed"} \cup Live] /\ registered' \subseteq End
    BY <1>1, <2>1, Zenon DEF DialSession, TypeOK, Live
  <2> QED  BY <1>1, <2>2, Zenon DEF TypeOK, DialSession, closeVars, sendVars, recvVars, connVars
<1>2. ASSUME NEW s \in Sessions, NEW d \in {0, 1}, OpenSession(s, d) PROVE TypeOK'
  <2>1. <<"client", s>> \in End
    BY Zenon DEF End, Side
  <2>2. Enqueue(<<"client", s>>, "openReq", d)
    BY <1>2, Zenon DEF OpenSession
  <2>3. /\ sendQueue' \in [End -> SUBSET Segment] /\ nextSend' \in [End -> Nat]
        /\ log' \in [End -> Seq(Element)]
    BY <2>1, <2>2, EnqueueType, Zenon DEF Kind, StreamKind
  <2> QED  BY <1>2, <2>3, Zenon DEF TypeOK, OpenSession, closeVars, recvVars, loopVars, connVars
<1>3. CASE CloseIfIdle
  <2>1. nextSend' \in [End -> Nat] /\ closeSeq' \in [End -> Nat]
    BY <1>3 DEF CloseIfIdle, TypeOK
  <2>2. state' \in [End -> {"Init", "Closed"} \cup Live]
    BY <1>3, Zenon DEF CloseIfIdle, TypeOK
  <2>3. sendQueue' \in [End -> SUBSET Segment]
    BY <1>3, Zenon DEF CloseIfIdle, TypeOK
  <2>4. closing' \in [End -> {"none", "user", "peer", "refused", "output"}]
    BY <1>3, Zenon DEF CloseIfIdle, TypeOK
  <2>5. /\ oLock' \subseteq End /\ toClose' \in [Side -> SUBSET End]
        /\ done' \subseteq deadline' /\ deadline' \subseteq Side
    BY <1>3, Zenon DEF CloseIfIdle, TypeOK, Side
  <2> QED  BY <1>3, <2>1, <2>2, <2>3, <2>4, <2>5
          , Zenon DEF TypeOK, CloseIfIdle, recvVars, loopVars
<1>4. CASE Break
  BY <1>4, Zenon DEF Break, TypeOK, closeVars, sendVars, recvVars, loopVars
<1>5. CASE UNCHANGED vars
  BY <1>5, Zenon DEF vars, TypeOK, closeVars, sendVars, recvVars, loopVars, connVars
<1> QED  BY <1>1, <1>2, <1>3, <1>4, <1>5, SessionTypes, UnderlayTypes, Zenon DEF Next

-----------------------------------------------------------------------------
(* What a step leaves alone.                                               *)

\* As far as the flows are concerned: what an end sends, what it receives and
\* what it has on the connection stays; and all of an end stays.
SendSame(x) ==
    /\ log'[x] = log[x] /\ Str(sendQueue'[x]) = Str(sendQueue[x]) /\ Str(hand'[x]) = Str(hand[x])
    /\ nextSend'[x] >= nextSend[x]
    /\ state'[x] # "Closed" => state[x] # "Closed"
    /\ x \notin outputErr' => x \notin outputErr
RecvSame(x) ==
    /\ recvChan'[x] = recvChan[x] /\ recvQueue'[x] = recvQueue[x] /\ delivered'[x] = delivered[x]
    /\ state'[x] # "Closed" => state[x] # "Closed"
ConnSame(x) ==
    /\ Fl(x[2], conn'[x[1]]) = Fl(x[2], conn[x[1]])
    /\ Sorted(x[2], conn'[x[1]])
SameEnd(x) ==
    /\ log'[x] = log[x] /\ sendQueue'[x] = sendQueue[x] /\ hand'[x] = hand[x]
    /\ nextSend'[x] = nextSend[x] /\ state'[x] = state[x] /\ closing'[x] = closing[x]
    /\ recvChan'[x] = recvChan[x] /\ recvQueue'[x] = recvQueue[x] /\ delivered'[x] = delivered[x]
    /\ (x \in outputErr' <=> x \in outputErr) /\ (x \in oLock' <=> x \in oLock)
    /\ closeSeq'[x] = closeSeq[x] /\ promised'[x] = promised[x] /\ lastSend'[x] = lastSend[x]

\* What TypeOK says of one end.
LEMMA EndTypes ==
    ASSUME TypeOK, NEW x \in End
    PROVE  /\ log[x] \in Seq(Element) /\ nextSend[x] \in Nat /\ delivered[x] \in Seq(Element)
           /\ recvQueue[x] \in SUBSET Segment /\ recvChan[x] \in Seq(Segment)
           /\ sendQueue[x] \in SUBSET Segment /\ hand[x] \in SUBSET Segment
           /\ Str(sendQueue[x]) \in SUBSET Segment /\ Str(hand[x]) \in SUBSET Segment
           /\ conn[x[1]] \in Seq(Segment)
BY Ends, Zenon DEF TypeOK, Str

\* The flow of a sequence of segments is a set of segments.
LEMMA FlType ==
    ASSUME NEW s, NEW q \in Seq(Segment)
    PROVE  Fl(s, q) \in SUBSET Segment
BY DEF Fl

\* The types of what FlowOf(x) is about.
LEMMA FlowTypes ==
    ASSUME TypeOK, NEW x \in End
    PROVE  /\ log[x] \in Seq(Element) /\ nextSend[x] \in Nat /\ delivered[Other(x)] \in Seq(Element)
           /\ recvQueue[Other(x)] \in SUBSET Segment
           /\ Fl(x[2], recvChan[Other(x)]) \in SUBSET Segment
           /\ Fl(x[2], conn[x[1]]) \in SUBSET Segment
           /\ Str(hand[x]) \in SUBSET Segment /\ Str(sendQueue[x]) \in SUBSET Segment
<1>1. Other(x) \in End
  BY Ends, Zenon
<1>2. recvChan[Other(x)] \in Seq(Segment) /\ conn[x[1]] \in Seq(Segment)
  BY <1>1, EndTypes, ZenonT(60)
<1> QED  BY <1>1, <1>2, EndTypes, FlType, Zenon

\* The start of a close changes the variables of its end only.
LEMMA ClosesHere ==
    ASSUME TypeOK, NEW z \in End, NEW who, NEW reply, StartClose(z, who, reply), NEW x \in End, x # z
    PROVE  /\ closing'[x] = closing[x] /\ closeSeq'[x] = closeSeq[x] /\ promised'[x] = promised[x]
           /\ nextSend'[x] = nextSend[x] /\ sendQueue'[x] = sendQueue[x]
<1>1. CASE closing[z] # "none"
  BY <1>1, ZenonT(60) DEF StartClose, closeVars, TypeOK
<1>2. CASE closing[z] = "none"
  <2>1. closing'[x] = closing[x]
    BY <1>2, ZenonT(60) DEF StartClose, TypeOK
  <2>3. closeSeq'[x] = closeSeq[x]
    BY <1>2, Zenon DEF StartClose, TypeOK
  <2>4. nextSend'[x] = nextSend[x]
    BY <1>2, Zenon DEF StartClose, TypeOK
  <2>2. sendQueue'[x] = sendQueue[x] /\ promised'[x] = promised[x]
    <3>1. \/ UNCHANGED <<sendQueue, promised>>
          \/ \E q, n : sendQueue' = [sendQueue EXCEPT ![z] = q] /\ promised' = [promised EXCEPT ![z] = n]
      BY <1>2, Zenon DEF StartClose
    <3> QED
      BY <3>1, Zenon DEF TypeOK
  <2> QED
    BY <2>1, <2>2, <2>3, <2>4
<1> QED
  BY <1>1, <1>2

\* A step of a session changes the variables of its end only.
LEMMA OnlyHere ==
    ASSUME TypeOK, NEW z \in End, SessionStep(z), NEW x \in End, x # z
    PROVE  SameEnd(x) /\ up' = up /\ registered' = registered /\ deadline' = deadline
           /\ openSent' = openSent /\ answer' = answer
<1> USE DEF SameEnd, TypeOK, closeVars, sendVars, recvVars, loopVars, connVars
<1>1. CASE Close(z)
  BY <1>1, ClosesHere, Zenon DEF Close
<1>2. CASE CloseSucceeds(z)
  BY <1>2, Zenon DEF CloseSucceeds, Finish
<1>3. CASE CloseTimesOut(z)
  BY <1>3, Zenon DEF CloseTimesOut, Finish
<1>4. CASE Write(z)
  BY <1>4, Zenon DEF Write, Enqueue
<1>5. CASE Read(z)
  BY <1>5 DEF Read
<1>6. CASE OutputTake(z)
  BY <1>6, Zenon DEF OutputTake
<1>7. CASE OutputPut(z)
  BY <1>7, Zenon DEF OutputPut
<1>8. CASE OutputFails(z)
  BY <1>8, SMTT(30) DEF OutputFails, Unlock, Abort, Finish
<1>9. CASE InputData(z)
  BY <1>9, Zenon DEF InputData, Accept
<1>10. CASE InputOpen(z)
  BY <1>10, Zenon DEF InputOpen, Accept, Enqueue
<1>11. CASE InputRefused(z)
  BY <1>11, ClosesHere, Zenon DEF InputRefused, Accept
<1>12. CASE InputClose(z)
  BY <1>12, ClosesHere, Zenon DEF InputClose
<1>13. CASE InputCloseFails(z)
  BY <1>13, Zenon DEF InputCloseFails, Abort, Finish
<1> QED
  BY <1>1, <1>2, <1>3, <1>4, <1>5, <1>6, <1>7, <1>8, <1>9, <1>10, <1>11, <1>12, <1>13, ZenonT(60)
 , Zenon DEF SessionStep, InputStep

\* Writing a segment does not move those of other ends; a close request or a
\* close response moves none.
LEMMA PutElsewhere ==
    ASSUME TypeOK, NEW x \in End, Order(x), NEW e \in Side, NEW seg \in Segment,
           ~Mine(x[2], seg) \/ x[1] # e, Put(e, seg)
    PROVE  ConnSame(x)
<1>1. CASE conn'[x[1]] = conn[x[1]]
  BY <1>1, Zenon DEF ConnSame, Order
<1>2. CASE conn'[x[1]] # conn[x[1]]
  <2>1. x[1] = e /\ conn'[e] = Append(conn[e], seg) /\ ~Mine(x[2], seg)
    BY <1>2, Ends, Zenon DEF Put, TypeOK
  <2>2. conn[e] \in Seq(Segment)
    BY Zenon DEF TypeOK
  <2> DEFINE s == x[2]
             q == conn[e]
  <2>3. Sorted(s, q) /\ q \in Seq(Segment) /\ ~Mine(s, seg)
    BY <2>1, <2>2, Zenon DEF Order
  <2> HIDE DEF s, q
  <2>4. Fl(s, Append(q, seg)) = Fl(s, q) /\ Sorted(s, Append(q, seg))
    BY <2>3, FlAppend, Zenon
  <2> QED  BY <2>1, <2>4, Zenon DEF ConnSame, s, q
<1> QED  BY <1>1, <1>2, Zenon

\* A step of a session moves no segment of another end on the connection.
LEMMA ConnElsewhere ==
    ASSUME SInv, NEW z \in End, SessionStep(z), NEW x \in End, x # z
    PROVE  ConnSame(x)
<1>1. TypeOK /\ Order(x) /\ Own(z) /\ z[1] \in Side
  BY Ends, Zenon DEF SInv
<1>2. CASE UNCHANGED conn
  BY <1>1, <1>2, Zenon DEF ConnSame, Order
<1>3. ASSUME NEW seg \in Segment, seg.session = z[2], Put(z[1], seg)
      PROVE  ConnSame(x)
  <2>1. x[1] # z[1] \/ x[2] # z[2]
    BY Ends, Zenon
  <2> QED  BY <1>1, <1>3, <2>1, PutElsewhere, Zenon DEF Mine
<1>4. CASE CloseTimesOut(z)
  <2>1. CASE Put(z[1], Seg(z, "closeReq", closeSeq[z], 0))
    <3>1. closeSeq[z] \in Nat /\ "closeReq" \in Kind /\ 0 \in Nat
      BY <1>1, Zenon DEF Kind, TypeOK
    <3>2. /\ Seg(z, "closeReq", closeSeq[z], 0) \in Segment
          /\ Seg(z, "closeReq", closeSeq[z], 0).session = z[2]
      BY <3>1, SegType
    <3> QED  BY <3>2, <1>3, <2>1, Zenon
  <2> QED  BY <1>2, <1>4, <2>1, Zenon DEF CloseTimesOut
<1>5. CASE OutputPut(z)
  <2>1. PICK seg \in hand[z] : Put(z[1], seg)
    BY <1>5, Zenon DEF OutputPut
  <2> QED  BY <2>1, <1>1, <1>3, EndTypes, Zenon DEF Own
<1>6. CASE InputClose(z)
  <2>1. CASE Put(z[1], Seg(z, "closeResp", nextSend[z], 0))
    <3>1. nextSend[z] \in Nat /\ "closeResp" \in Kind /\ 0 \in Nat
      BY <1>1, Zenon DEF Kind, TypeOK
    <3>2. /\ Seg(z, "closeResp", nextSend[z], 0) \in Segment
          /\ Seg(z, "closeResp", nextSend[z], 0).session = z[2]
      BY <3>1, SegType
    <3> QED  BY <3>2, <1>3, <2>1, Zenon
  <2> QED  BY <1>2, <1>6, <2>1, Zenon DEF InputClose
<1> QED
  BY <1>2, <1>4, <1>5, <1>6, Zenon DEF SessionStep, InputStep, Close, CloseSucceeds, Write, Read,
     OutputTake, OutputFails, InputData, InputOpen, InputRefused, InputCloseFails

-----------------------------------------------------------------------------
(* The flow of an end, when the end itself takes a step.                   *)

\* Queueing a stream segment.
LEMMA EnqueueFlow ==
    ASSUME SInv, TypeOK', NEW x \in End, NEW kind \in StreamKind, NEW data \in Nat,
           Enqueue(x, kind, data), state[x] # "Closed", hand'[x] = hand[x],
           state'[x] # "Closed" => state[x] # "Closed", x \notin outputErr' => x \notin outputErr,
           RecvSame(Other(x)), ConnSame(x), up' => up
    PROVE  FlowOf(x)' /\ Order(x)'
<1>1. FlowOf(x) /\ Order(x) /\ Own(x) /\ TypeOK
  BY Zenon DEF SInv
<1>2. Order(x)'
  BY <1>1, Zenon DEF Order, RecvSame, ConnSame
<1> DEFINE L == log[x]
           n == nextSend[x]
           D == delivered[Other(x)]
           R == recvQueue[Other(x)]
           C == Fl(x[2], recvChan[Other(x)])
           N == Fl(x[2], conn[x[1]])
           H == Str(hand[x])
           Q == Str(sendQueue[x])
           xs == state[x]
           ys == state[Other(x)]
           ws == Way(x)
           xp == state'[x]
           yp == state'[Other(x)]
           wp == Way(x)'
           g == Seg(x, kind, n, data)
           K == Append(L, Entry(g))
           m == n + 1
           P == Q \cup {g}
<1>3. Flow(L, n, D, R, C, N, H, Q, xs, ys, ws)
  BY <1>1, Zenon DEF FlowOf
<1>4. /\ L \in Seq(Element) /\ n \in Nat /\ D \in Seq(Element) /\ R \in SUBSET Segment
      /\ C \in SUBSET Segment /\ N \in SUBSET Segment /\ H \in SUBSET Segment
      /\ Q \in SUBSET Segment
  BY <1>1, FlowTypes, Zenon
<1>5. /\ xs # "Closed" /\ (wp = "works" => ws = "works")
      /\ (xp # "Closed" => xs # "Closed") /\ (yp # "Closed" => ys # "Closed")
  BY Zenon DEF RecvSame, TypeOK, Way
<1>6. g \in Segment /\ g.seq = n /\ g.kind = kind
  BY <1>4, SegType DEF Kind
<1>7. /\ log'[x] = Append(L, Entry(g)) /\ nextSend'[x] = n + 1
      /\ sendQueue'[x] = Insert(sendQueue[x], g)
  BY <1>1, Zenon DEF Enqueue, TypeOK
<1>8. Str(sendQueue'[x]) = Q \cup {g}
  <2>1. \A h \in sendQueue[x] : h.seq # g.seq
    BY <1>1, <1>4, <1>6, EndTypes DEF Own, Segment
  <2>2. Insert(sendQueue[x], g) = sendQueue[x] \cup {g}
    BY <2>1, Zenon DEF Insert
  <2> QED  BY <1>6, <1>7, <2>2, ZenonT(60) DEF Str
<1>9. FlowOf(x)' = Flow(K, m, D, R, C, N, H, P, xp, yp, wp)
  BY <1>7, <1>8, Zenon DEF FlowOf, RecvSame, ConnSame
<1>10. K \in Seq(Element) /\ P \in SUBSET Segment
  <2>1. Entry(g) \in Element
    BY <1>6, Zenon DEF Entry, Element, Segment
  <2> QED  BY <2>1, <1>4, <1>6
<1> HIDE DEF L, n, D, R, C, N, H, Q, xs, ys, ws, xp, yp, wp, g
<1>11. Flow(K, m, D, R, C, N, H, P, xs, ys, ws)
  BY <1>3, <1>4, <1>5, <1>6, FlowEnqueue, ZenonT(60)
<1> HIDE DEF K, m, P
<1>12. Flow(K, m, D, R, C, N, H, P, xp, yp, wp)
  BY <1>5, <1>11, FlowEases
<1> QED  BY <1>2, <1>9, <1>12, Zenon

-----------------------------------------------------------------------------
(* The moves of a flow.                                                    *)

\* The five places of the flow that end x sends.
Got(x) == recvQueue[Other(x)]
Chan(x) == Fl(x[2], recvChan[Other(x)])
Net(x) == Fl(x[2], conn[x[1]])
Out(x) == Str(hand[x])
Que(x) == Str(sendQueue[x])

\* Nothing is numbered, reopened or repaired; and what the moves leave alone.
Eased(x) ==
    /\ log'[x] = log[x] /\ nextSend'[x] >= nextSend[x]
    /\ state'[x] # "Closed" => state[x] # "Closed"
    /\ state'[Other(x)] # "Closed" => state[Other(x)] # "Closed"
    /\ Way(x)' = "works" => Way(x) = "works"
SendKept(x) == Net(x)' = Net(x) /\ Out(x)' = Out(x) /\ Que(x)' = Que(x)
RecvKept(x) ==
    Got(x)' = Got(x) /\ Chan(x)' = Chan(x) /\ delivered'[Other(x)] = delivered[Other(x)]

\* The moves: the sender closes, loses a segment with the connection, takes one
\* from its queue or writes it; the event loop reads it from the connection, the
\* receiver accepts it and the application reads it.
Closes(x) ==
    /\ Que(x)' = {} /\ state'[x] = "Closed"
    /\ Out(x)' = Out(x) \/ Out(x)' = {}
    /\ RecvKept(x) /\ Net(x)' = Net(x)
Loses(x) ==
    /\ Out(x)' = {} /\ Way(x)' = "broken"
    /\ RecvKept(x) /\ Net(x)' = Net(x) /\ Que(x)' = Que(x)
Takes(x, g) ==
    /\ Out(x) = {} /\ g \in Que(x) /\ (\A h \in Que(x) : g.seq <= h.seq)
    /\ Out(x)' = {g} /\ Que(x)' = Que(x) \ {g}
    /\ RecvKept(x) /\ Net(x)' = Net(x)
Puts(x, g) ==
    /\ Out(x) = {g} /\ Way(x) = "works"
    /\ Out(x)' = {} /\ Net(x)' = Net(x) \cup {g}
    /\ RecvKept(x) /\ Que(x)' = Que(x)
Arrives(x, g) ==
    /\ g \in Net(x) /\ Net(x) = Net(x)' \cup {g} /\ Below({g}, Net(x)')
    /\ \/ Chan(x)' = Chan(x) \cup {g}
       \/ state[Other(x)] = "Closed" /\ Chan(x)' = Chan(x)
    /\ Got(x)' = Got(x) /\ delivered'[Other(x)] = delivered[Other(x)]
    /\ Out(x)' = Out(x) /\ Que(x)' = Que(x)
Accepts(x, g) ==
    /\ g \in Chan(x) /\ Chan(x) = Chan(x)' \cup {g} /\ Below({g}, Chan(x)')
    /\ state[Other(x)] # "Closed" /\ Got(x)' = Insert(Got(x), g)
    /\ delivered'[Other(x)] = delivered[Other(x)] /\ SendKept(x)
IsRead(x, g) ==
    /\ g \in Got(x) /\ (\A h \in Got(x) : g.seq <= h.seq) /\ Got(x)' = Got(x) \ {g}
    /\ delivered'[Other(x)] = Append(delivered[Other(x)], Entry(g))
    /\ Chan(x)' = Chan(x) /\ SendKept(x)

\* A flow is kept by every one of these moves.
LEMMA Moved ==
    ASSUME TypeOK, TypeOK', NEW x \in End, FlowOf(x), Eased(x),
           \/ SendKept(x) /\ RecvKept(x)
           \/ Closes(x) \/ Loses(x)
           \/ \E g : Takes(x, g) \/ Puts(x, g) \/ Arrives(x, g) \/ Accepts(x, g) \/ IsRead(x, g)
    PROVE  FlowOf(x)'
<1> DEFINE L == log[x]
           n == nextSend[x]
           D == delivered[Other(x)]
           R == Got(x)
           C == Chan(x)
           N == Net(x)
           H == Out(x)
           Q == Que(x)
           xs == state[x]
           ys == state[Other(x)]
           ws == Way(x)
           m == nextSend'[x]
           Dp == delivered'[Other(x)]
           Rp == Got(x)'
           Cp == Chan(x)'
           Np == Net(x)'
           Hp == Out(x)'
           Qp == Que(x)'
           xp == state'[x]
           yp == state'[Other(x)]
           wp == Way(x)'
<1>1. Flow(L, n, D, R, C, N, H, Q, xs, ys, ws)
  BY Zenon DEF FlowOf, Got, Chan, Net, Out, Que
<1>2. /\ L \in Seq(Element) /\ n \in Nat /\ D \in Seq(Element) /\ R \in SUBSET Segment
      /\ C \in SUBSET Segment /\ N \in SUBSET Segment /\ H \in SUBSET Segment
      /\ Q \in SUBSET Segment
  BY FlowTypes, Zenon DEF Got, Chan, Net, Out, Que
<1>3. /\ m \in Nat /\ m >= n /\ (wp = "works" => ws = "works")
      /\ (xp # "Closed" => xs # "Closed") /\ (yp # "Closed" => ys # "Closed")
  BY Zenon DEF Eased, TypeOK
<1>4. FlowOf(x)' <=> Flow(L, m, Dp, Rp, Cp, Np, Hp, Qp, xp, yp, wp)
  BY Zenon DEF Eased, FlowOf, Got, Chan, Net, Out, Que
<1>5. \/ Dp = D /\ Rp = R /\ Cp = C /\ Np = N /\ Hp = H /\ Qp = Q
      \/ Dp = D /\ Rp = R /\ Cp = C /\ Np = N /\ (Hp = H \/ Hp = {}) /\ Qp = {} /\ xp = "Closed"
      \/ Dp = D /\ Rp = R /\ Cp = C /\ Np = N /\ Hp = {} /\ Qp = Q /\ wp = "broken"
      \/ \E g : \/ /\ H = {} /\ g \in Q /\ (\A h \in Q : g.seq <= h.seq)
                   /\ Dp = D /\ Rp = R /\ Cp = C /\ Np = N /\ Hp = {g} /\ Qp = Q \ {g}
                \/ /\ H = {g} /\ ws = "works"
                   /\ Dp = D /\ Rp = R /\ Cp = C /\ Np = N \cup {g} /\ Hp = {} /\ Qp = Q
                \/ /\ g \in N /\ N = Np \cup {g} /\ Below({g}, Np)
                   /\ Cp = C \cup {g} \/ (ys = "Closed" /\ Cp = C)
                   /\ Dp = D /\ Rp = R /\ Hp = H /\ Qp = Q
                \/ /\ g \in C /\ C = Cp \cup {g} /\ Below({g}, Cp) /\ ys # "Closed"
                   /\ Dp = D /\ Rp = Insert(R, g) /\ Np = N /\ Hp = H /\ Qp = Q
                \/ /\ g \in R /\ (\A h \in R : g.seq <= h.seq)
                   /\ Dp = Append(D, Entry(g)) /\ Rp = R \ {g}
                   /\ Cp = C /\ Np = N /\ Hp = H /\ Qp = Q
  BY Zenon DEF Closes, Loses, Takes, Puts, Arrives, Accepts, IsRead, SendKept, RecvKept
<1> HIDE DEF L, n, D, R, C, N, H, Q, xs, ys, ws, m, Dp, Rp, Cp, Np, Hp, Qp, xp, yp, wp
<1>6. \E a, b, c : /\ Flow(L, n, Dp, Rp, Cp, Np, Hp, Qp, a, b, c)
                   /\ (wp = "works" => c = "works")
                   /\ (xp # "Closed" => a # "Closed") /\ (yp # "Closed" => b # "Closed")
  <2>1. CASE Dp = D /\ Rp = R /\ Cp = C /\ Np = N /\ Hp = H /\ Qp = Q
    BY <2>1, <1>1, <1>3, Zenon
  <2>2. CASE /\ Dp = D /\ Rp = R /\ Cp = C /\ Np = N /\ (Hp = H \/ Hp = {})
             /\ Qp = {} /\ xp = "Closed"
    <3>1. Flow(L, n, D, R, C, N, H, {}, "Closed", ys, ws)
      BY <1>1, <1>2, FlowClose, Zenon
    <3>2. Flow(L, n, D, R, C, N, {}, {}, "Closed", ys, ws)
      BY <1>1, <1>2, FlowAbort, Zenon
    <3> QED  BY <2>2, <3>1, <3>2, <1>3, Zenon
  <2>3. CASE Dp = D /\ Rp = R /\ Cp = C /\ Np = N /\ Hp = {} /\ Qp = Q /\ wp = "broken"
    <3>1. Flow(L, n, D, R, C, N, {}, Q, xs, ys, "broken")
      BY <1>1, <1>2, FlowLoses, Zenon
    <3> QED  BY <2>3, <3>1, <1>3, Zenon
  <2>4. ASSUME NEW g, H = {}, g \in Q, \A h \in Q : g.seq <= h.seq,
               Dp = D, Rp = R, Cp = C, Np = N, Hp = {g}, Qp = Q \ {g}
        PROVE  Flow(L, n, Dp, Rp, Cp, Np, Hp, Qp, xs, ys, ws)
    BY <2>4, <1>1, <1>2, FlowTake, Zenon
  <2>5. ASSUME NEW g, H = {g}, ws = "works",
               Dp = D, Rp = R, Cp = C, Np = N \cup {g}, Hp = {}, Qp = Q
        PROVE  Flow(L, n, Dp, Rp, Cp, Np, Hp, Qp, xs, ys, ws)
    BY <2>5, <1>1, <1>2, FlowPut, Zenon
  <2>6. ASSUME NEW g, g \in N, N = Np \cup {g}, Below({g}, Np),
               Dp = D, Rp = R, Cp = C \cup {g}, Hp = H, Qp = Q
        PROVE  Flow(L, n, Dp, Rp, Cp, Np, Hp, Qp, xs, ys, ws)
    BY <2>6, <1>1, <1>2, FlowArrives, Zenon
  <2>7. ASSUME Np \in SUBSET N, ys = "Closed", Dp = D, Rp = R, Cp = C, Hp = H, Qp = Q
        PROVE  Flow(L, n, Dp, Rp, Cp, Np, Hp, Qp, xs, ys, ws)
    BY <2>7, <1>1, <1>2, FlowDrop, Zenon
  <2>8. ASSUME NEW g, g \in C, C = Cp \cup {g}, Below({g}, Cp), ys # "Closed",
               Dp = D, Rp = Insert(R, g), Np = N, Hp = H, Qp = Q
        PROVE  Flow(L, n, Dp, Rp, Cp, Np, Hp, Qp, xs, ys, ws)
    BY <2>8, <1>1, <1>2, FlowAccept, Zenon
  <2>9. ASSUME NEW g, g \in R, \A h \in R : g.seq <= h.seq,
               Dp = Append(D, Entry(g)), Rp = R \ {g}, Cp = C, Np = N, Hp = H, Qp = Q
        PROVE  Flow(L, n, Dp, Rp, Cp, Np, Hp, Qp, xs, ys, ws)
    BY <2>9, <1>1, <1>2, FlowRead, Zenon
  <2>10. \/ Dp = D /\ Rp = R /\ Cp = C /\ Np = N /\ Hp = H /\ Qp = Q
         \/ Dp = D /\ Rp = R /\ Cp = C /\ Np = N /\ (Hp = H \/ Hp = {}) /\ Qp = {} /\ xp = "Closed"
         \/ Dp = D /\ Rp = R /\ Cp = C /\ Np = N /\ Hp = {} /\ Qp = Q /\ wp = "broken"
         \/ Flow(L, n, Dp, Rp, Cp, Np, Hp, Qp, xs, ys, ws)
    BY <1>5, <2>4, <2>5, <2>6, <2>7, <2>8, <2>9, ZenonT(60)
  <2> QED  BY <2>1, <2>2, <2>3, <2>10, <1>3, Zenon
<1>7. Flow(L, m, Dp, Rp, Cp, Np, Hp, Qp, xp, yp, wp)
  <2>1. PICK a, b, c : /\ Flow(L, n, Dp, Rp, Cp, Np, Hp, Qp, a, b, c)
                       /\ (wp = "works" => c = "works")
                       /\ (xp # "Closed" => a # "Closed") /\ (yp # "Closed" => b # "Closed")
    BY <1>6, Zenon
  <2> QED  BY <2>1, <1>2, <1>3, FlowWeaken
<1> QED  BY <1>4, <1>7, Zenon

\* A step that moves no stream segment of x keeps its flow.
LEMMA FlowKept ==
    ASSUME SInv, TypeOK', NEW x \in End, SendSame(x), RecvSame(Other(x)), ConnSame(x), up' => up
    PROVE  FlowOf(x)' /\ Order(x)'
<1>1. FlowOf(x) /\ Order(x) /\ TypeOK
  BY Zenon DEF SInv
<1>2. Eased(x) /\ SendKept(x) /\ RecvKept(x)
  BY Zenon DEF SendSame, RecvSame, ConnSame, Eased, SendKept, RecvKept, Got, Chan, Net, Out, Que,
     Way
<1>3. Order(x)'
  BY <1>1, Zenon DEF Order, RecvSame, ConnSame
<1> QED  BY <1>1, <1>2, <1>3, Moved, Zenon

-----------------------------------------------------------------------------
(* The flow to an end that takes a step.                                   *)

\* The input loop takes the first segment of the channel.
LEMMA ChanHead ==
    ASSUME SInv, NEW z \in End, recvChan[z] # <<>>, recvChan'[z] = Tail(recvChan[z]),
           NEW g, g = Head(recvChan[z])
    PROVE  /\ g \in Segment /\ g.session = z[2]
           /\ g.kind \in StreamKind =>
                /\ g \in Chan(Other(z)) /\ Chan(Other(z)) = Chan(Other(z))' \cup {g}
                /\ Below({g}, Chan(Other(z))')
           /\ g.kind \notin StreamKind => Chan(Other(z))' = Chan(Other(z))
           /\ Sorted(z[2], recvChan'[z])
<1> DEFINE q == recvChan[z]
           s == z[2]
<1>1. q \in Seq(Segment) /\ q # <<>> /\ g = Head(q) /\ recvChan'[z] = Tail(q)
  BY EndTypes, Zenon DEF SInv
<1>2. Sorted(s, q)
  BY Ends, Zenon DEF SInv, Order
<1>3. g.session = s
  <2>1. 1 \in 1..Len(q) /\ g = q[1]
    BY <1>1
  <2> QED  BY <2>1, Zenon DEF SInv, Own
<1>4. Chan(Other(z)) = Fl(s, q) /\ Chan(Other(z))' = Fl(s, recvChan'[z])
  BY Ends, Zenon DEF Chan
<1> HIDE DEF q, s
<1>5. /\ g \in Segment /\ Sorted(s, Tail(q))
      /\ Mine(s, g) => Fl(s, q) = Fl(s, Tail(q)) \cup {g} /\ Below({g}, Fl(s, Tail(q)))
      /\ ~Mine(s, g) => Fl(s, q) = Fl(s, Tail(q))
  <2> DEFINE t == Tail(q)
  <2> HIDE DEF t
  <2>1. Head(q) \in Segment /\ Sorted(s, t)
    BY <1>1, <1>2, FlTail, Zenon DEF t
  <2>2. Mine(s, Head(q)) => Fl(s, q) = Fl(s, t) \cup {Head(q)} /\ Below({Head(q)}, Fl(s, t))
    BY <1>1, <1>2, FlTail, Zenon DEF t
  <2>3. ~Mine(s, Head(q)) => Fl(s, q) = Fl(s, t)
    BY <1>1, FlTail, Zenon DEF t
  <2> QED  BY <1>1, <2>1, <2>2, <2>3, Zenon DEF t
<1>6. Mine(s, g) <=> g.kind \in StreamKind
  BY <1>3, Zenon DEF Mine
<1> QED  BY <1>1, <1>3, <1>4, <1>5, <1>6, Zenon DEF s

\* The flow to the end whose session takes a step.
LEMMA RecvFlow ==
    ASSUME SInv, TypeOK', NEW z \in End, SessionStep(z), NEW x \in End, x = Other(z)
    PROVE  FlowOf(x)' /\ Order(x)'
<1>1. x # z /\ Other(x) = z /\ x[2] = z[2]
  BY Ends, Zenon
<1>2. SameEnd(x) /\ up' = up /\ ConnSame(x)
  BY <1>1, OnlyHere, ConnElsewhere, Zenon DEF SInv
<1>3. TypeOK /\ FlowOf(x) /\ Order(x) /\ Own(z)
  BY Zenon DEF SInv
<1>4. SendSame(x)
  BY <1>2, <1>3, SMTT(30) DEF SameEnd, SendSame, TypeOK
<1>5. SendKept(x) /\ ((state'[z] # "Closed" => state[z] # "Closed") => Eased(x))
  BY <1>1, <1>2, <1>4, Zenon DEF SameEnd, SendSame, ConnSame, SendKept, Eased, Net, Out, Que, Way
<1>6. CASE RecvSame(z)
  BY <1>1, <1>2, <1>3, <1>4, <1>6, FlowKept, Zenon
<1>7. CASE InputData(z) \/ InputOpen(z) \/ InputRefused(z)
  <2> DEFINE g == Head(recvChan[z])
  <2>1. /\ recvChan[z] # <<>> /\ recvChan'[z] = Tail(recvChan[z]) /\ g.kind \in StreamKind
        /\ recvQueue'[z] = Insert(recvQueue[z], g) /\ delivered' = delivered
        /\ state[z] \in Live
    BY <1>3, <1>7, Zenon DEF InputData, InputOpen, InputRefused, InputRuns, Accept, TypeOK,
       StreamKind
  <2>2. /\ g \in Chan(x) /\ Chan(x) = Chan(x)' \cup {g} /\ Below({g}, Chan(x)')
        /\ Sorted(z[2], recvChan'[z])
    BY <2>1, ChanHead, Zenon
  <2>3. state[z] # "Closed"
    BY <2>1, Zenon DEF Live
  <2>4. Accepts(x, g)
    BY <1>1, <1>5, <2>1, <2>2, <2>3, Zenon DEF Accepts, Got
  <2>5. FlowOf(x)'
    BY <1>3, <1>5, <2>3, <2>4, Moved, Zenon
  <2>6. Order(x)'
    BY <1>1, <1>2, <2>2, Zenon DEF Order, ConnSame
  <2> QED  BY <2>5, <2>6, Zenon
<1>8. CASE InputClose(z)
  <2> DEFINE g == Head(recvChan[z])
  <2>1. /\ recvChan[z] # <<>> /\ recvChan'[z] = Tail(recvChan[z]) /\ g.kind \notin StreamKind
        /\ recvQueue' = recvQueue /\ delivered' = delivered /\ state' = state
    BY <1>3, <1>8, Zenon DEF InputClose, InputRuns, TypeOK, StreamKind
  <2>2. Chan(x)' = Chan(x) /\ Sorted(z[2], recvChan'[z])
    BY <2>1, ChanHead, Zenon
  <2>3. FlowOf(x)'
    BY <1>1, <1>3, <1>5, <2>1, <2>2, Moved, Zenon DEF RecvKept, Got
  <2>4. Order(x)'
    BY <1>1, <1>2, <2>2, Zenon DEF Order, ConnSame
  <2> QED  BY <2>3, <2>4, Zenon
<1>9. CASE Read(z)
  <2>1. PICK g \in First(recvQueue[z]) :
            /\ recvQueue' = [recvQueue EXCEPT ![z] = @ \ {g}]
            /\ delivered' = [delivered EXCEPT ![z] = Append(@, Entry(g))]
            /\ state' = IF g.kind = "openResp" /\ state[z] = "Attached"
                        THEN [state EXCEPT ![z] = "Established"] ELSE state
    BY <1>9, Zenon DEF Read
  <2>2. /\ g \in recvQueue[z] /\ (\A h \in recvQueue[z] : g.seq <= h.seq)
        /\ recvQueue'[z] = recvQueue[z] \ {g}
        /\ delivered'[z] = Append(delivered[z], Entry(g)) /\ recvChan' = recvChan
    BY <1>3, <1>9, <2>1, ZenonT(60) DEF First, TypeOK, Read
  <2>3. state'[z] # "Closed" => state[z] # "Closed"
    BY <1>3, <2>1, Zenon DEF TypeOK
  <2>4. IsRead(x, g)
    BY <1>1, <1>5, <2>2, Zenon DEF IsRead, Got, Chan
  <2>5. FlowOf(x)'
    BY <1>3, <1>5, <2>3, <2>4, Moved, Zenon
  <2>6. Order(x)'
    BY <1>1, <1>2, <1>3, <2>2, Zenon DEF Order, ConnSame
  <2> QED  BY <2>5, <2>6, Zenon
<1>10. SessionStep(z) => \/ RecvSame(z) \/ Read(z) \/ InputClose(z)
                        \/ InputData(z) \/ InputOpen(z) \/ InputRefused(z)
  BY <1>3, ZenonT(60) DEF SessionStep, InputStep, RecvSame, TypeOK, recvVars, Close, CloseSucceeds,
     CloseTimesOut,
     Write, OutputTake, OutputPut, OutputFails, InputCloseFails, Abort, Finish
<1> QED  BY <1>6, <1>7, <1>8, <1>9, <1>10, Zenon

-----------------------------------------------------------------------------
(* The flow from an end that takes a step.                                 *)

\* closeWithError queues a close request, which is no stream segment.
LEMMA StartCloseFlow ==
    ASSUME TypeOK, NEW z \in End, Own(z), NEW who, NEW reply \in Nat, StartClose(z, who, reply)
    PROVE  Que(z)' = Que(z) /\ nextSend'[z] >= nextSend[z]
<1>1. nextSend[z] \in Nat /\ sendQueue[z] \in SUBSET Segment
  BY EndTypes, Zenon
<1>2. nextSend'[z] >= nextSend[z]
  BY <1>1 DEF StartClose, TypeOK
<1> DEFINE g == Seg(z, "closeReq", nextSend[z] + reply, 0)
<1>3. CASE sendQueue' = sendQueue
  BY <1>2, <1>3, Zenon DEF Que
<1>4. CASE sendQueue' = [sendQueue EXCEPT ![z] = Insert(@, g)]
  <2>0. nextSend[z] + reply \in Nat /\ "closeReq" \in Kind /\ 0 \in Nat
    BY <1>1 DEF Kind
  <2>1. g \in Segment /\ g.kind = "closeReq" /\ g.seq = nextSend[z] + reply
    BY <2>0, SegType, SMTT(30)
  <2>2. \A h \in sendQueue[z] : h.seq # g.seq
    BY <1>1, <2>1 DEF Own, Segment
  <2>3. sendQueue'[z] = sendQueue[z] \cup {g}
    BY <1>4, <2>2, Zenon DEF TypeOK, Insert
  <2> QED  BY <1>2, <2>1, <2>3, Zenon DEF Que, Str, StreamKind
<1> QED  BY <1>3, <1>4, Zenon DEF StartClose

\* A close segment that is written moves no stream segment.
LEMMA PutCloses ==
    ASSUME TypeOK, NEW z \in End, Order(z), NEW kind \in {"closeReq", "closeResp"}, NEW seq \in Nat,
           Put(z[1], Seg(z, kind, seq, 0))
    PROVE  ConnSame(z)
<1>0. kind \in Kind /\ 0 \in Nat
  BY Zenon DEF Kind
<1>1. Seg(z, kind, seq, 0) \in Segment /\ Seg(z, kind, seq, 0).kind = kind
  <2>1. Seg(z, kind, seq, 0).kind = kind
    BY Zenon DEF Seg
  <2>2. Seg(z, kind, seq, 0) \in Segment
    BY <1>0, Ends, Zenon DEF Seg, Segment
  <2> QED  BY <2>1, <2>2, Zenon
<1>2. ~Mine(z[2], Seg(z, kind, seq, 0))
  BY <1>1, Zenon DEF Mine, StreamKind
<1> QED  BY <1>1, <1>2, Ends, PutElsewhere, Zenon

\* The output loop writes a stream segment.
LEMMA PutFlow ==
    ASSUME SInv, NEW z \in End, NEW g \in hand[z], g.kind \in StreamKind, up, Put(z[1], g)
    PROVE  Net(z)' = Net(z) \cup {g} /\ Sorted(z[2], conn'[z[1]])
<1> DEFINE q == conn[z[1]]
           s == z[2]
<1>1. q \in Seq(Segment) /\ g \in Segment
  BY EndTypes, Zenon DEF SInv
<1>2. Mine(s, g)
  BY Zenon DEF SInv, Own, Mine
<1>3. Sorted(s, q)
  BY Zenon DEF SInv, Order
<1>4. \A h \in Fl(s, q) : h.seq < g.seq
  <2>1. FlowOf(z) /\ g \in Str(hand[z])
    BY Zenon DEF SInv, Str
  <2>2. Below(Fl(s, q), Str(hand[z]))
    BY <2>1, Zenon DEF FlowOf, Flow, Stages
  <2> QED  BY <2>1, <2>2, Zenon DEF Below
<1> DEFINE p == conn'[z[1]]
<1>5. p = Append(q, g)
  BY Ends, Zenon DEF Put, SInv, TypeOK
<1>6. Net(z) = Fl(s, q) /\ Net(z)' = Fl(s, p)
  BY Zenon DEF Net
<1> HIDE DEF q, s, p
<1>7. Fl(s, p) = Fl(s, q) \cup {g} /\ Sorted(s, p)
  <2>1. Fl(s, Append(q, g)) = Fl(s, q) \cup {g}
    BY <1>1, <1>2, FlGrows
  <2>2. Sorted(s, Append(q, g))
    BY <1>1, <1>2, <1>3, <1>4, FlSorted, Zenon
  <2> QED  BY <1>5, <2>1, <2>2, ZenonT(60)
<1> QED  BY <1>6, <1>7, Zenon DEF s, p

\* The flow from the end whose session takes a step.
LEMMA SendFlow ==
    ASSUME SInv, TypeOK', NEW z \in End, SessionStep(z)
    PROVE  FlowOf(z)' /\ Order(z)'
<1>1. Other(z) \in End /\ Other(z) # z /\ z[1] \in Side
  BY Ends, Zenon
<1>2. SameEnd(Other(z)) /\ up' = up
  BY <1>1, OnlyHere, Zenon DEF SInv
<1>3. TypeOK /\ FlowOf(z) /\ Order(z) /\ Own(z)
  BY Zenon DEF SInv
<1>4. RecvSame(Other(z)) /\ RecvKept(z)
  BY <1>2, Zenon DEF SameEnd, RecvSame, RecvKept, Got, Chan
<1>5. /\ nextSend[z] \in Nat /\ closeSeq[z] \in Nat /\ hand[z] \in SUBSET Segment
      /\ sendQueue[z] \in SUBSET Segment
  BY <1>1, <1>3, Zenon DEF TypeOK
<1>6. CASE SendSame(z) /\ ConnSame(z)
  BY <1>2, <1>4, <1>6, FlowKept, Zenon
<1>7. CASE Close(z) \/ InputRefused(z) \/ InputClose(z)
  <2>1. PICK who \in {"user", "refused", "peer"}, reply \in Nat : StartClose(z, who, reply)
    <3>1. CASE StartClose(z, "user", 0)
      BY <3>1, Zenon
    <3>2. CASE StartClose(z, "refused", 0)
      BY <3>2, Zenon
    <3>3. CASE StartClose(z, "peer", 0) \/ StartClose(z, "peer", 1)
      BY <3>3, Zenon
    <3> QED  BY <1>7, <3>1, <3>2, <3>3, Zenon DEF Close, InputRefused, InputClose
  <2>2. Que(z)' = Que(z) /\ nextSend'[z] >= nextSend[z]
    BY <2>1, <1>3, StartCloseFlow, Zenon
  <2>3. ConnSame(z)
    <3>1. CASE UNCHANGED conn
      BY <3>1, <1>3, Zenon DEF ConnSame, Order
    <3>2. CASE Put(z[1], Seg(z, "closeResp", nextSend[z], 0))
      BY <3>2, <1>3, <1>5, PutCloses, Zenon
    <3> QED  BY <1>7, <3>1, <3>2, Zenon DEF Close, InputRefused, InputClose
  <2>4. SendSame(z)
    BY <2>2, <1>7, Zenon DEF SendSame, Que, Close, InputRefused, InputClose
  <2> QED  BY <2>3, <2>4, <1>6, Zenon
<1>8. CASE CloseSucceeds(z) \/ CloseTimesOut(z) \/ InputCloseFails(z)
  <2>1. ConnSame(z)
    <3>1. CASE UNCHANGED conn
      BY <3>1, <1>3, Zenon DEF ConnSame, Order
    <3>2. CASE Put(z[1], Seg(z, "closeReq", closeSeq[z], 0))
      BY <3>2, <1>3, <1>5, PutCloses, Zenon
    <3> QED  BY <1>8, <3>1, <3>2, Zenon DEF CloseSucceeds, CloseTimesOut, InputCloseFails
  <2>2. /\ sendQueue'[z] = {} /\ state'[z] = "Closed" /\ hand' = hand /\ log' = log
        /\ nextSend'[z] >= nextSend[z] /\ outputErr' = outputErr
    <3>1. /\ hand' = hand /\ log' = log /\ outputErr' = outputErr /\ Finish(z)
          /\ nextSend' = nextSend \/ nextSend' = [nextSend EXCEPT ![z] = @ + 1]
      BY <1>8, Zenon DEF CloseSucceeds, CloseTimesOut, InputCloseFails, Abort
    <3>2. sendQueue'[z] = {} /\ state'[z] = "Closed"
      BY <1>3, <3>1, ZenonT(60) DEF Finish, TypeOK
    <3>3. nextSend'[z] >= nextSend[z]
      BY <1>3, <1>5, <3>1, SMTT(30) DEF TypeOK
    <3> QED  BY <3>1, <3>2, <3>3, Zenon
  <2>3. Closes(z) /\ Eased(z)
    BY <1>2, <1>4, <2>1, <2>2, Zenon DEF Closes, Eased, ConnSame, Que, Out, Net, Str, Way, SameEnd
  <2>4. FlowOf(z)'
    BY <1>3, <2>3, Moved, Zenon
  <2> QED  BY <1>3, <1>4, <2>1, <2>4, Zenon DEF Order, ConnSame, RecvSame
<1>9. CASE Write(z)
  <2>1. nextSend[z] + 1 \in Nat /\ state[z] # "Closed" /\ "data" \in StreamKind
    BY <1>3, <1>9, NextNat, Zenon DEF Write, MayWrite, Live, StreamKind
  <2>2. /\ Enqueue(z, "data", nextSend[z] + 1) /\ hand' = hand /\ state' = state
        /\ outputErr' = outputErr /\ conn' = conn
    BY <1>9, Zenon DEF Write
  <2>3. ConnSame(z)
    BY <2>2, <1>3, Zenon DEF ConnSame, Order
  <2> QED  BY <1>2, <1>4, <2>1, <2>2, <2>3, EnqueueFlow, Zenon
<1>10. CASE InputOpen(z)
  <2>1. state[z] # "Closed" /\ "openResp" \in StreamKind /\ 0 \in Nat
    BY <1>10, Zenon DEF InputOpen, InputRuns, Live, StreamKind
  <2>2. /\ Enqueue(z, "openResp", 0) /\ hand' = hand
        /\ outputErr' = outputErr /\ conn' = conn
    BY <1>10, Zenon DEF InputOpen
  <2>3. ConnSame(z)
    BY <2>2, <1>3, Zenon DEF ConnSame, Order
  <2> QED  BY <1>2, <1>4, <2>1, <2>2, <2>3, EnqueueFlow, Zenon
<1>11. CASE OutputTake(z)
  <2>1. PICK g \in First(sendQueue[z]) :
            /\ hand' = [hand EXCEPT ![z] = {g}]
            /\ sendQueue' = [sendQueue EXCEPT ![z] = @ \ {g}]
    BY <1>11, Zenon DEF OutputTake
  <2>2. /\ g \in sendQueue[z] /\ (\A h \in sendQueue[z] : g.seq <= h.seq)
        /\ hand'[z] = {g} /\ sendQueue'[z] = sendQueue[z] \ {g}
    BY <2>1, <1>3, Zenon DEF First, TypeOK
  <2>3. hand[z] = {}
    BY <1>3, <1>11, Zenon DEF OutputTake, Own
  <2>4. /\ state' = state /\ outputErr' = outputErr /\ nextSend' = nextSend /\ log' = log
        /\ conn' = conn
    BY <1>11, Zenon DEF OutputTake
  <2>5. Eased(z) /\ ConnSame(z) /\ Net(z)' = Net(z)
    <3>1. ConnSame(z) /\ Net(z)' = Net(z)
      BY <1>3, <2>4, Zenon DEF ConnSame, Order, Net
    <3>2. nextSend'[z] >= nextSend[z]
      BY <1>3, <1>5, <2>4, SMTT(30) DEF TypeOK
    <3>3. Way(z)' = "works" => Way(z) = "works"
      BY <1>2, <1>3, <2>4, Zenon DEF SameEnd, Way
    <3> QED  BY <2>4, <3>1, <3>2, <3>3, Zenon DEF Eased
  <2>6. CASE g.kind \in StreamKind
    <3>1. Takes(z, g)
      BY <1>4, <2>2, <2>3, <2>5, <2>6, Zenon DEF Takes, Out, Que, Str
    <3>2. FlowOf(z)'
      BY <1>3, <2>5, <3>1, Moved, Zenon
    <3> QED  BY <3>2, <1>3, <1>4, <2>4, Zenon DEF Order, RecvSame
  <2>7. CASE g.kind \notin StreamKind
    <3>1. SendSame(z)
      BY <1>5, <2>2, <2>3, <2>4, <2>7, SMTT(30) DEF SendSame, Str
    <3> QED  BY <1>6, <2>5, <3>1, ZenonT(60)
  <2> QED  BY <2>6, <2>7, Zenon
<1>12. CASE OutputPut(z)
  <2>1. PICK g \in hand[z] : Put(z[1], g)
    BY <1>12, Zenon DEF OutputPut
  <2>2. hand[z] = {g} /\ hand'[z] = {}
    <3>1. hand'[z] = {}
      BY <1>3, <1>12, Zenon DEF OutputPut, TypeOK
    <3>2. \A h \in hand[z] : h = g
      BY <1>3, <2>1, Zenon DEF Own
    <3> QED  BY <2>1, <3>1, <3>2, Zenon
  <2>3. /\ state' = state /\ outputErr' = outputErr /\ nextSend' = nextSend /\ log' = log
        /\ sendQueue' = sendQueue
    BY <1>12, ZenonT(60) DEF OutputPut
  <2>4. Eased(z) /\ Que(z)' = Que(z)
    <3>1. nextSend'[z] >= nextSend[z]
      BY <1>3, <1>5, <2>3, SMTT(30) DEF TypeOK
    <3>2. Way(z)' = "works" => Way(z) = "works"
      BY <1>2, <1>3, <2>3, Zenon DEF SameEnd, Way
    <3> QED  BY <2>3, <3>1, <3>2, Zenon DEF Eased, Que
  <2>5. CASE g.kind \in StreamKind /\ up
    <3>1. Net(z)' = Net(z) \cup {g} /\ Sorted(z[2], conn'[z[1]])
      BY <2>1, <2>5, PutFlow, Zenon
    <3>2. Way(z) = "works"
      BY <1>3, <2>2, <2>5, Zenon DEF Way, Own
    <3>3. Puts(z, g)
      BY <1>4, <2>2, <2>4, <2>5, <3>1, <3>2, Zenon DEF Puts, Out, Str
    <3>4. FlowOf(z)'
      BY <1>3, <2>4, <3>3, Moved, Zenon
    <3> QED  BY <3>1, <3>4, <1>3, <1>4, Zenon DEF Order, RecvSame
  <2>6. CASE g.kind \notin StreamKind
    <3>1. ConnSame(z)
      BY <1>1, <1>3, <1>5, <2>1, <2>6, PutElsewhere, ZenonT(60) DEF Mine
    <3>2. SendSame(z)
      BY <1>5, <2>2, <2>3, <2>6 DEF SendSame, Str
    <3> QED  BY <1>6, <3>1, <3>2, Zenon
  <2>7. CASE ~up
    <3>1. conn' = conn
      BY <2>1, <2>7, Zenon DEF Put
    <3>2. Loses(z)
      BY <1>2, <1>4, <2>2, <2>4, <2>7, <3>1, Zenon DEF Loses, Way, Out, Net, Str
    <3>3. FlowOf(z)'
      BY <1>3, <2>4, <3>2, Moved, Zenon
    <3> QED  BY <3>1, <3>3, <1>3, <1>4, Zenon DEF Order, RecvSame
  <2> QED  BY <2>5, <2>6, <2>7, Zenon
<1>13. CASE OutputFails(z)
  <2>1. hand'[z] = {} /\ z \in outputErr' /\ log' = log /\ conn' = conn
    BY <1>3, <1>13, Zenon DEF OutputFails, TypeOK
  <2>2. Way(z)' = "broken"
    BY <2>1, Zenon DEF Way
  <2>3. CASE closing[z] = "none"
    <3>1. sendQueue'[z] = {} /\ state'[z] = "Closed" /\ nextSend'[z] >= nextSend[z]
      BY <1>3, <1>5, <1>13, <2>3, SMTT(30) DEF OutputFails, Abort, Finish, TypeOK
    <3>2. Closes(z) /\ Eased(z)
      BY <1>2, <1>4, <2>1, <2>2, <3>1, ZenonT(60) DEF Closes, Eased, SameEnd, Out, Que, Net, Str
    <3>3. FlowOf(z)'
      BY <1>3, <3>2, Moved, Zenon
    <3> QED  BY <2>1, <3>3, <1>3, <1>4, ZenonT(60) DEF Order, RecvSame
  <2>4. CASE closing[z] # "none"
    <3>1. sendQueue' = sendQueue /\ state' = state /\ nextSend' = nextSend
      BY <1>13, <2>4, Zenon DEF OutputFails
    <3>2. Loses(z) /\ Eased(z)
      <4>1. nextSend'[z] >= nextSend[z]
        BY <1>5, <3>1
      <4>2. Out(z)' = {}
        BY <2>1, Zenon DEF Out, Str
      <4>3. Net(z)' = Net(z) /\ Que(z)' = Que(z)
        BY <2>1, <3>1, Zenon DEF Net, Que
      <4>4. Eased(z)
        BY <1>2, <2>1, <2>2, <3>1, <4>1, Zenon DEF Eased, SameEnd
      <4> QED  BY <1>4, <2>2, <4>2, <4>3, <4>4, Zenon DEF Loses
    <3>3. FlowOf(z)'
      BY <1>3, <3>2, Moved, Zenon
    <3> QED  BY <2>1, <3>3, <1>3, <1>4, Zenon DEF Order, RecvSame
  <2> QED  BY <2>3, <2>4, Zenon
<1>14. CASE Read(z) \/ InputData(z)
  <2>1. SendSame(z)
    <3>1. UNCHANGED sendVars /\ outputErr' = outputErr
      BY <1>14, Zenon DEF Read, InputData
    <3>2. state'[z] # "Closed" => state[z] # "Closed"
      BY <1>3, <1>14, Zenon DEF Read, InputData, TypeOK
    <3>3. log' = log /\ sendQueue' = sendQueue /\ hand' = hand /\ nextSend' = nextSend
      BY <3>1, Zenon DEF sendVars
    <3> QED  BY <1>3, <3>1, <3>2, <3>3, NextNat, Zenon DEF SendSame
  <2>2. ConnSame(z)
    BY <1>3, <1>14, Zenon DEF Read, InputData, ConnSame, Order
  <2> QED  BY <1>6, <2>1, <2>2, Zenon
<1> QED  BY <1>7, <1>8, <1>9, <1>10, <1>11, <1>12, <1>13, <1>14, Zenon DEF SessionStep, InputStep

-----------------------------------------------------------------------------
(* The flows when an event loop takes a step.                              *)

\* The segment g that is next on its connection leaves the flow from x.
Leaves(x, g) == /\ g \in Net(x) /\ Net(x) = Net(x)' \cup {g} /\ Below({g}, Net(x)')
                /\ Sorted(x[2], conn'[x[1]])

\* What a side reads is a segment of one of its sessions.
LEMMA ArrivingFacts ==
    ASSUME TypeOK, NEW e \in Side, conn[Peer(e)] # <<>>
    PROVE  /\ Arriving(e) \in Segment /\ Target(e) \in End /\ Target(e)[1] = e
           /\ Target(e)[2] = Arriving(e).session
           /\ Other(Target(e)) \in End /\ Other(Other(Target(e))) = Target(e)
           /\ Other(Target(e)) = <<Peer(e), Arriving(e).session>>
<1>1. Peer(e) \in Side
  BY Zenon DEF Side, Peer
<1>2. conn[Peer(e)] \in Seq(Segment)
  BY <1>1, ZenonT(60) DEF TypeOK
<1>3. Head(conn[Peer(e)]) \in Segment
  BY <1>2
<1>4. Arriving(e) \in Segment /\ Arriving(e).session \in Sessions
  BY <1>3, Zenon DEF Arriving, Segment
<1>5. /\ Target(e) \in End /\ Target(e)[1] = e /\ Target(e)[2] = Arriving(e).session
      /\ Other(Target(e)) = <<Peer(e), Arriving(e).session>>
  BY <1>4, Zenon DEF Target, End, Other
<1> QED  BY <1>4, <1>5, Ends, Zenon

\* A side reads the segment that is next on the connection.
LEMMA ConsumeFlow ==
    ASSUME SInv, NEW e \in Side, conn[Peer(e)] # <<>>, Consume(e), NEW x \in End
    PROVE  /\ x # Other(Target(e)) \/ Arriving(e).kind \notin StreamKind => ConnSame(x)
           /\ x = Other(Target(e)) /\ Arriving(e).kind \in StreamKind => Leaves(x, Arriving(e))
<1> SUFFICES ASSUME NEW g, g = Arriving(e), NEW t, t = Target(e)
             PROVE  /\ x # Other(t) \/ g.kind \notin StreamKind => ConnSame(x)
                    /\ x = Other(t) /\ g.kind \in StreamKind => Leaves(x, g)
  BY Zenon
<1> DEFINE q == conn[x[1]]
           s == x[2]
           r == Tail(q)
<1>1. Peer(e) \in Side /\ x[1] \in Side
  BY Ends, Zenon DEF Side, Peer
<1>2. q \in Seq(Segment) /\ Sorted(s, q) /\ conn[Peer(e)] \in Seq(Segment)
  BY <1>1, Zenon DEF SInv, TypeOK, Order
<1>4. /\ g \in Segment /\ t \in End /\ t[1] = e /\ t[2] = g.session
      /\ Other(t) = <<Peer(e), g.session>>
  BY ArrivingFacts, Zenon DEF SInv
<1>5. CASE x[1] # Peer(e)
  <2>1. conn'[x[1]] = q
    BY <1>1, <1>5, Zenon DEF Consume, SInv, TypeOK
  <2>2. x # Other(t)
    BY <1>4, <1>5
  <2> QED  BY <1>2, <1>4, <2>1, <2>2, Zenon DEF ConnSame
<1>6. CASE x[1] = Peer(e)
  <2>1. conn'[x[1]] = r /\ q # <<>> /\ g = Head(q)
    BY <1>1, <1>6, Zenon DEF Consume, SInv, TypeOK, Arriving
  <2>2. x = Other(t) <=> g.session = s
    BY <1>4, <1>6, Ends
  <2>3. Mine(s, g) <=> x = Other(t) /\ g.kind \in StreamKind
    BY <2>2, Zenon DEF Mine
  <2>4. Net(x) = Fl(s, q) /\ Net(x)' = Fl(s, r)
    BY <2>1, Zenon DEF Net
  <2> HIDE DEF q, s
  <2>5. Sorted(s, r)
    BY <1>2, <2>1, FlTail, Zenon
  <2>6. Mine(s, Head(q)) => Fl(s, q) = Fl(s, r) \cup {Head(q)}
    BY <1>2, <2>1, FlTail, Zenon
  <2>7. Mine(s, Head(q)) => Below({Head(q)}, Fl(s, r))
    BY <1>2, <2>1, FlTail, Zenon
  <2>8. ~Mine(s, Head(q)) => Fl(s, q) = Fl(s, r)
    BY <1>2, <2>1, FlTail, Zenon
  <2> HIDE DEF r
  <2>9. x # Other(t) \/ g.kind \notin StreamKind => ConnSame(x)
    BY <2>1, <2>3, <2>5, <2>8, Zenon DEF ConnSame, q, s
  <2>10. x = Other(t) /\ g.kind \in StreamKind => Leaves(x, g)
    BY <2>1, <2>3, <2>4, <2>5, <2>6, <2>7, Zenon DEF s, Leaves
  <2> QED  BY <2>9, <2>10, Zenon
<1> QED  BY <1>5, <1>6, Zenon

\* It is the first of its flow on the connection.
LEMMA ArrivesFirst ==
    ASSUME SInv, NEW e \in Side, conn[Peer(e)] # <<>>, Consume(e), Arriving(e).kind \in StreamKind
    PROVE  /\ Arriving(e) \in Net(Other(Target(e)))
           /\ \A h \in Net(Other(Target(e))) : h # Arriving(e) => Arriving(e).seq < h.seq
<1>1. PICK w \in End : w = Other(Target(e))
  BY ArrivingFacts, Zenon DEF SInv
<1>2. Leaves(w, Arriving(e))
  BY <1>1, ConsumeFlow, Zenon
<1> QED  BY <1>1, <1>2, Zenon DEF Leaves, Below

\* The channel of the target grows by the segment.
LEMMA ChanGrows ==
    ASSUME SInv, NEW t \in End, NEW x \in End, x = Other(t), NEW g \in Segment, g.session = t[2],
           g.kind \in StreamKind => g \in Net(x), recvChan'[t] = Append(recvChan[t], g)
    PROVE  /\ g.kind \in StreamKind => Chan(x)' = Chan(x) \cup {g}
           /\ g.kind \notin StreamKind => Chan(x)' = Chan(x)
           /\ Sorted(x[2], recvChan'[t])
<1> DEFINE q == recvChan[t]
           s == x[2]
<1>1. q \in Seq(Segment) /\ Other(x) = t /\ s = t[2]
  BY Ends, EndTypes, Zenon DEF SInv
<1>2. Sorted(s, q)
  BY <1>1, Zenon DEF SInv, Order
<1>3. Mine(s, g) <=> g.kind \in StreamKind
  BY <1>1, Zenon DEF Mine
<1>4. Chan(x) = Fl(s, q) /\ Chan(x)' = Fl(s, recvChan'[t])
  BY <1>1, Zenon DEF Chan
<1>5. CASE g.kind \in StreamKind
  <2>1. \A h \in Fl(s, q) : h.seq < g.seq
    <3>1. FlowOf(x) /\ g \in Fl(x[2], conn[x[1]])
      BY <1>5, Zenon DEF SInv, Net
    <3>2. Below(Fl(x[2], recvChan[Other(x)]), Fl(x[2], conn[x[1]]))
      BY <3>1, Zenon DEF FlowOf, Flow, Stages
    <3> QED  BY <1>1, <3>1, <3>2, Zenon DEF Below
  <2> HIDE DEF q, s
  <2>2. Fl(s, Append(q, g)) = Fl(s, q) \cup {g}
    BY <1>1, <1>3, <1>5, FlGrows, SMTT(30)
  <2>3. Sorted(s, Append(q, g))
    BY <1>1, <1>2, <1>3, <1>5, <2>1, FlSorted, Zenon
  <2> QED  BY <1>4, <1>5, <2>2, <2>3, Zenon DEF q, s
<1>6. CASE g.kind \notin StreamKind
  <2> HIDE DEF q, s
  <2>1. ~Mine(s, g)
    BY <1>3, <1>6, Zenon
  <2>2. Fl(s, Append(q, g)) = Fl(s, q) /\ Sorted(s, Append(q, g))
    BY <1>1, <1>2, <2>1, FlAppend, ZenonT(60)
  <2> QED  BY <1>4, <1>6, <2>2, Zenon DEF q, s
<1> QED  BY <1>5, <1>6, Zenon

\* What has arrived was numbered by the sender.
LEMMA Numbering ==
    ASSUME SInv, NEW x \in End, NEW g \in Net(x)
    PROVE  \E i \in 1..Len(log[x]) : log[x][i] = Entry(g) /\ Len(delivered[Other(x)]) < i
<1>1. FlowOf(x) /\ log[x] \in Seq(Element) /\ delivered[Other(x)] \in Seq(Element)
  BY FlowTypes, Zenon DEF SInv
<1>2. PICK i \in Rest(log[x], delivered[Other(x)]) : log[x][i] = Entry(g)
  BY <1>1, Zenon DEF FlowOf, Flow, Numbered, Net
<1>3. Len(log[x]) \in Nat /\ Len(delivered[Other(x)]) \in Nat
  BY <1>1
<1> QED  BY <1>2, <1>3 DEF Rest

\* The open request reaches a server that has no session yet.
LEMMA OpenReqIsFirst ==
    ASSUME SInv, NEW t \in End, NEW x \in End, x = Other(t), NEW g \in Net(x),
           g.kind = "openReq"
    PROVE  t[1] = "server" /\ state[t] = "Init" /\ t[2] \in openSent
<1> DEFINE s == t[2]
<1>1. s \in Sessions /\ x[2] = s /\ t = <<t[1], s>> /\ x = <<Peer(t[1]), s>> /\ t[1] \in Side
  BY Ends, Zenon DEF Other
<1>2. g \in Sending(x)
  BY Zenon DEF Sending, Net
<1>3. Opened(s)
  BY <1>1, Zenon DEF SInv
<1>4. t[1] = "server"
  BY <1>1, <1>2, <1>3, Zenon DEF Opened, Side, Peer
<1>5. x = <<"client", s>> /\ t = <<"server", s>>
  BY <1>1, <1>4, Zenon DEF Peer
<1>6. state[t] = "Init"
  BY <1>2, <1>3, <1>5, Zenon DEF Opened
<1>7. log[x] # <<>>
  BY Numbering
<1> QED  BY <1>3, <1>4, <1>5, <1>6, <1>7, Zenon DEF Opened

\* Other stream segments do not reach an end that has not been opened.
LEMMA DataIsLater ==
    ASSUME SInv, NEW t \in End, NEW x \in End, x = Other(t), NEW g \in Net(x),
           g.kind # "openReq", \A h \in Net(x) : h # g => g.seq < h.seq
    PROVE  state[t] # "Init"
<1> DEFINE s == t[2]
           c == <<"client", s>>
           v == <<"server", s>>
<1>1. s \in Sessions /\ t = <<t[1], s>> /\ x = <<Peer(t[1]), s>> /\ t[1] \in Side /\ Other(x) = t
  BY Ends, Zenon DEF Other
<1>2. Opened(s) /\ c \in End /\ v \in End
  BY <1>1, Zenon DEF SInv, End, Side
<1>3. PICK i \in 1..Len(log[x]) : log[x][i] = Entry(g) /\ Len(delivered[Other(x)]) < i
  BY Numbering, Zenon
<1>4. log[x] \in Seq(Element) /\ delivered[t] \in Seq(Element) /\ Len(log[x]) \in Nat
  BY EndTypes DEF SInv
<1>5. log[x] # <<>>
  BY <1>3, <1>4
<1>6. CASE t = c
  <2>1. x = v
    BY <1>1, <1>6 DEF Peer
  <2>2. state[v] # "Init"
    BY <1>2, <1>5, <2>1, Zenon DEF SInv, Life
  <2> QED  BY <1>2, <1>6, <2>2, Zenon DEF Opened
<1>7. CASE t = v
  <2> SUFFICES ASSUME state[v] = "Init" PROVE FALSE
    BY <1>7, Zenon
  <2>1. x = c
    BY <1>1, <1>7, Zenon DEF Peer
  <2>2. recvChan[v] = <<>> /\ recvQueue[v] = {} /\ delivered[v] = <<>>
    BY <1>2, Zenon DEF SInv, Life
  <2>3. Got(x) = {} /\ Chan(x) = {}
    <3>1. Len(recvChan[t]) = 0
      BY <1>7, <2>2, SMTT(30)
    <3>2. Chan(x) = {}
      BY <1>1, <3>1, SMTT(30) DEF Chan, Fl
    <3> QED  BY <1>1, <1>7, <2>2, <3>2, Zenon DEF Got
  <2>4. Len(delivered[t]) = 0
    BY <1>7, <2>2
  <2>5. 1 \in Rest(log[x], delivered[t]) /\ 1 \in 1..Len(log[x])
    BY <1>3, <1>4, <2>4 DEF Rest
  <2>6. log[x][1].seq # g.seq
    <3>1. g \in Sending(c) /\ g.kind # "openReq"
      BY <2>1, Zenon DEF Sending, Net
    <3> QED  BY <1>2, <2>1, <3>1, Zenon DEF Opened
  <2>7. FlowOf(x)
    BY Zenon DEF SInv
  <2>a. Entry(g).seq = g.seq
    BY Zenon DEF Entry
  <2>8. log[x][1].seq < g.seq
    <3>1. log[x][i].seq = g.seq
      BY <1>3, <2>a, Zenon
    <3>2. i # 1
      BY <2>6, <3>1, Zenon
    <3>3. \A j, k \in 1..Len(log[x]) : j < k => log[x][j].seq < log[x][k].seq
      BY <2>7, Zenon DEF FlowOf, Flow, Numbers
    <3>4. 1 < i
      BY <1>3, <1>4, <3>2, Numerals, Zenon
    <3> QED  BY <1>3, <2>5, <3>1, <3>3, <3>4, Zenon
  <2>9. NoGap(log[x], delivered[t], Chan(x) \cup Net(x), Got(x) \cup Chan(x) \cup Net(x))
    BY <1>1, <1>7, <2>7, Zenon DEF FlowOf, Flow, Got, Chan, Net
  <2>10. PICK h \in Net(x) : h.seq = log[x][1].seq
    BY <2>3, <2>5, <2>8, <2>9, ZenonT(60) DEF NoGap
  <2>11. h # g /\ g.seq < h.seq
    BY <2>6, <2>10, Zenon
  <2>12. log[x][1].seq \in Nat /\ log[x][i].seq \in Nat /\ log[x][i].seq = g.seq
    BY <1>3, <1>4, <2>5, <2>a, ElementAt, Zenon
  <2>13. ~(log[x][1].seq < g.seq /\ g.seq < log[x][1].seq)
    BY <2>12, Numerals, Zenon
  <2> QED  BY <2>8, <2>10, <2>11, <2>13, Zenon
<1> QED  BY <1>1, <1>6, <1>7, Zenon DEF Side

\* What stays the same when a segment arrives.
Waits == /\ UNCHANGED <<sendVars, closeVars, outputErr, recvQueue, delivered, up, openSent>>
         /\ \A y \in End : state'[y] # "Closed" => state[y] # "Closed"

\* The event loop hands the segment over, or drops it because the session is
\* closed.
LEMMA ArrivalFlow ==
    ASSUME SInv, TypeOK', NEW e \in Side, conn[Peer(e)] # <<>>, Consume(e), Waits,
           NEW x \in End,
           \A y \in End : y # Target(e) => recvChan'[y] = recvChan[y],
           \/ recvChan'[Target(e)] = Append(recvChan[Target(e)], Arriving(e))
           \/ /\ recvChan'[Target(e)] = recvChan[Target(e)]
              /\ Arriving(e).kind \in StreamKind => state[Target(e)] = "Closed"
    PROVE  FlowOf(x)' /\ Order(x)'
<1>0. PICK g, t : g = Arriving(e) /\ t = Target(e)
  BY Zenon
<1>1. /\ g \in Segment /\ t \in End /\ t[1] = e /\ t[2] = g.session
      /\ x # Other(t) \/ g.kind \notin StreamKind => ConnSame(x)
      /\ x = Other(t) /\ g.kind \in StreamKind =>
           /\ g \in Net(x) /\ Net(x) = Net(x)' \cup {g} /\ Below({g}, Net(x)')
           /\ Sorted(x[2], conn'[x[1]])
  BY <1>0, ArrivingFacts, ConsumeFlow, Zenon DEF SInv, Leaves
<1>a. /\ \A y \in End : y # t => recvChan'[y] = recvChan[y]
      /\ \/ recvChan'[t] = Append(recvChan[t], g)
         \/ recvChan'[t] = recvChan[t] /\ (g.kind \in StreamKind => state[t] = "Closed")
  BY <1>0, ZenonT(60)
<1>2. /\ SendSame(x) /\ Eased(x) /\ up' = up /\ Out(x)' = Out(x) /\ Que(x)' = Que(x)
      /\ Got(x)' = Got(x) /\ delivered'[Other(x)] = delivered[Other(x)]
  BY Ends, EndTypes DEF Waits, SendSame, Eased, Way, sendVars, Out, Que, Got, SInv
<1>3. recvChan'[Other(x)] = recvChan[Other(x)] => RecvSame(Other(x))
  BY Ends, Zenon DEF Waits, RecvSame
<1>4. CASE recvChan'[Other(x)] = recvChan[Other(x)] /\ ConnSame(x)
  BY <1>2, <1>3, <1>4, FlowKept, Zenon
<1>5. CASE x # Other(t)
  <2>1. Other(x) # t /\ Other(x) \in End
    BY <1>1, <1>5, Ends, ZenonT(60)
  <2> QED  BY <1>a, <1>1, <1>4, <1>5, <2>1, Zenon
<1>6. CASE x = Other(t)
  <2>1. Other(x) = t /\ x[2] = t[2]
    BY <1>1, <1>6, Ends, Zenon
  <2>2. TypeOK /\ FlowOf(x) /\ Order(x)
    BY Zenon DEF SInv
  <2>3. CASE recvChan'[t] = Append(recvChan[t], g) /\ g.kind \in StreamKind
    <3>1. Chan(x)' = Chan(x) \cup {g} /\ Sorted(x[2], recvChan'[t])
      BY <1>1, <1>6, <2>3, ChanGrows, ZenonT(60)
    <3>2. Arrives(x, g)
      BY <1>1, <1>2, <1>6, <2>3, <3>1, Zenon DEF Arrives
    <3>3. FlowOf(x)'
      BY <1>2, <2>2, <3>2, Moved, Zenon
    <3> QED  BY <1>1, <1>6, <2>1, <2>3, <3>1, <3>3, ZenonT(60) DEF Order
  <2>4. CASE recvChan'[t] = Append(recvChan[t], g) /\ g.kind \notin StreamKind
    <3>1. Chan(x)' = Chan(x) /\ Sorted(x[2], recvChan'[t])
      BY <1>1, <1>6, <2>4, ChanGrows, Zenon
    <3>2. ConnSame(x)
      BY <1>1, <2>4, Zenon
    <3>3. SendKept(x) /\ RecvKept(x)
      BY <1>2, <3>1, <3>2, Zenon DEF SendKept, RecvKept, ConnSame, Net
    <3>4. FlowOf(x)'
      BY <1>2, <2>2, <3>3, Moved, Zenon
    <3> QED  BY <2>1, <3>1, <3>2, <3>4, Zenon DEF Order, ConnSame
  <2>5. CASE recvChan'[t] = recvChan[t] /\ g.kind \in StreamKind /\ state[t] = "Closed"
    <3>1. Chan(x)' = Chan(x)
      BY <2>1, <2>5, Zenon DEF Chan
    <3>2. Arrives(x, g)
      BY <1>1, <1>2, <1>6, <2>1, <2>5, <3>1, ZenonT(60) DEF Arrives
    <3>3. FlowOf(x)'
      BY <1>2, <2>2, <3>2, Moved, Zenon
    <3> QED  BY <1>1, <1>6, <2>1, <2>2, <2>5, <3>3, Zenon DEF Order
  <2>6. CASE recvChan'[t] = recvChan[t] /\ g.kind \notin StreamKind
    BY <1>1, <1>4, <2>1, <2>6, Zenon
  <2> QED  BY <1>a, <2>3, <2>4, <2>5, <2>6, Zenon
<1> QED  BY <1>5, <1>6, Zenon

\* A step of an underlay keeps the flows.
LEMMA UnderlayFlow ==
    ASSUME SInv, TypeOK', NEW e \in Side, UnderlayStep(e), NEW x \in End
    PROVE  FlowOf(x)' /\ Order(x)'
<1> DEFINE g == Arriving(e)
           t == Target(e)
           w == Other(t)
<1>1. TypeOK /\ Order(x)
  BY Zenon DEF SInv
<1>2. ASSUME Reads(e), Consume(e)
      PROVE  /\ conn[Peer(e)] # <<>> /\ t \in End /\ w \in End /\ Other(w) = t
             /\ g.kind \in StreamKind => g \in Net(w) /\ \A h \in Net(w) : h # g => g.seq < h.seq
  <2>1. conn[Peer(e)] # <<>>
    BY <1>2, Zenon DEF Reads
  <2>2. t \in End /\ w \in End /\ Other(w) = t
    BY <1>1, <2>1, ArrivingFacts, Zenon
  <2> QED  BY <1>2, <2>1, <2>2, ArrivesFirst, Zenon
<1>3. CASE Deliver(e)
  <2>1. Reads(e) /\ Consume(e) /\ Waits
    BY <1>3, Zenon DEF Deliver, Waits, connVars
  <2>2. /\ \A y \in End : y # t => recvChan'[y] = recvChan[y]
        /\ \/ recvChan'[t] = Append(recvChan[t], g)
           \/ recvChan'[t] = recvChan[t] /\ state[t] = "Closed"
    BY <1>1, <1>2, <1>3, <2>1, ZenonT(60) DEF Deliver, DeliverSegmentToSession, TypeOK
  <2> QED  BY <1>2, <2>1, <2>2, ArrivalFlow, Zenon
<1>4. CASE OnOpenSessionRequest(e)
  <2>1. Reads(e) /\ Consume(e) /\ g.kind = "openReq" /\ g.kind \in StreamKind
    BY <1>4, Zenon DEF OnOpenSessionRequest, StreamKind
  <2>2. state[t] = "Init"
    BY <1>2, <2>1, OpenReqIsFirst, Zenon
  <2>3. recvChan[t] = <<>>
    BY <1>2, <2>1, <2>2, ZenonT(60) DEF SInv, Life
  <2>4. /\ \A y \in End : y # t => recvChan'[y] = recvChan[y]
        /\ recvChan'[t] = Append(recvChan[t], g)
    BY <1>1, <1>2, <1>4, <2>1, <2>3, SMTT(30) DEF OnOpenSessionRequest, TypeOK
  <2>5. Waits
    BY <1>1, <1>2, <1>4, <2>1, <2>2, ZenonT(60) DEF OnOpenSessionRequest, Waits, connVars, TypeOK
  <2> QED  BY <1>2, <2>1, <2>4, <2>5, ArrivalFlow, Zenon
<1>5. CASE OnUnknownSession(e)
  <2>1. Reads(e) /\ Consume(e) /\ Waits /\ t \notin registered
    BY <1>5, Zenon DEF OnUnknownSession, Waits, connVars, recvVars
  <2>2. UNCHANGED recvChan /\ (g.kind \in StreamKind => g.kind # "openReq")
    BY <1>5, Zenon DEF OnUnknownSession, recvVars, StreamKind
  <2>3. g.kind \in StreamKind => state[t] = "Closed"
    <3>1. g.kind \in StreamKind => state[t] # "Init"
      BY <1>2, <2>1, <2>2, DataIsLater, Zenon
    <3>2. state[t] \notin Live
      BY <1>2, <2>1, Zenon DEF SInv, Life
    <3> QED  BY <1>1, <1>2, <2>1, <3>1, <3>2, ZenonT(60) DEF TypeOK
  <2> QED  BY <1>2, <2>1, <2>2, <2>3, ArrivalFlow, Zenon
<1>6. ASSUME UNCHANGED <<state, outputErr, sendVars, recvVars>>, ConnSame(x), up' => up
      PROVE  FlowOf(x)' /\ Order(x)'
  <2>1. SendSame(x) /\ RecvSame(Other(x))
    BY <1>1, <1>6, NextNat, Zenon DEF SendSame, RecvSame, sendVars, recvVars
  <2> QED  BY <1>6, <2>1, FlowKept, Zenon
<1>7. CASE Answer(e)
  <2>1. PICK s \in answer[e] : Put(e, Seg(<<e, s>>, "closeReq", 0, 0))
    BY <1>7, Zenon DEF Answer
  <2>2. <<e, s>> \in End /\ "closeReq" \in Kind /\ 0 \in Nat
    BY <1>1, <2>1, ZenonT(60) DEF TypeOK, End, Kind
  <2>3. Seg(<<e, s>>, "closeReq", 0, 0) \in Segment
    BY <2>2, SegType, Zenon
  <2>4. ~Mine(x[2], Seg(<<e, s>>, "closeReq", 0, 0))
    BY Zenon DEF Mine, Seg, StreamKind
  <2>5. ConnSame(x)
    BY <1>1, <2>1, <2>3, <2>4, PutElsewhere, Zenon
  <2> QED  BY <1>6, <1>7, <2>5, Zenon DEF Answer, connVars
<1>8. CASE UNCHANGED conn /\ UNCHANGED <<state, outputErr, sendVars, recvVars>> /\ (up' => up)
  BY <1>1, <1>6, <1>8, Zenon DEF ConnSame, Order
<1>9. \/ OnUnknownOpenResponse(e) \/ CleanSessions(e) \/ CleanSessionsEnd(e) \/ EventFails(e)
      \/ EventEnds(e) \/ CloseUnderlay(e) \/ CloseUnderlayEnd(e)
      => UNCHANGED conn /\ UNCHANGED <<state, outputErr, sendVars, recvVars>> /\ (up' => up)
  <2>1. OnUnknownOpenResponse(e) \/ EventFails(e) \/ EventEnds(e)
        => UNCHANGED <<conn, state, outputErr, sendVars, recvVars>> /\ up' = FALSE
    BY Zenon DEF OnUnknownOpenResponse, EventFails, EventEnds, CloseConn
  <2>2. CleanSessions(e) \/ CleanSessionsEnd(e)
        => UNCHANGED <<conn, state, outputErr, sendVars, recvVars>> /\ up' = up
    BY Zenon DEF CleanSessions, CleanSessionsEnd, connVars
  <2>3. CloseUnderlay(e) \/ CloseUnderlayEnd(e)
        => UNCHANGED <<conn, state, outputErr, sendVars, recvVars>> /\ up' = up
    BY Zenon DEF CloseUnderlay, CloseUnderlayEnd
  <2> QED  BY <2>1, <2>2, <2>3, Zenon
<1> QED  BY <1>3, <1>4, <1>5, <1>7, <1>8, <1>9, Zenon DEF UnderlayStep, EventStep

\* Every step keeps the flows.
LEMMA FlowStep ==
    ASSUME SInv, TypeOK', [Next]_vars, NEW x \in End
    PROVE  FlowOf(x)' /\ Order(x)'
<1>1. TypeOK /\ FlowOf(x) /\ Order(x) /\ Other(x) \in End
  BY Ends, Zenon DEF SInv
<1>2. ASSUME NEW z \in End, SessionStep(z) PROVE FlowOf(x)' /\ Order(x)'
  <2>1. CASE x = z
    BY <1>2, <2>1, SendFlow, Zenon
  <2>2. CASE x = Other(z)
    BY <1>2, <2>2, RecvFlow, Zenon
  <2>3. CASE x # z /\ Other(x) # z
    <3>1. SameEnd(x) /\ SameEnd(Other(x)) /\ up' = up
      BY <1>1, <1>2, <2>3, OnlyHere, Zenon
    <3>2. ConnSame(x)
      BY <1>2, <2>3, ConnElsewhere, Zenon
    <3>3. SendSame(x) /\ RecvSame(Other(x))
      BY <1>1, <3>1, NextNat, Zenon DEF SameEnd, SendSame, RecvSame
    <3> QED  BY <3>1, <3>2, <3>3, FlowKept, Zenon
  <2> QED  BY <1>2, <2>1, <2>2, <2>3, Ends, Zenon
<1>3. ASSUME NEW e \in Side, UnderlayStep(e) PROVE FlowOf(x)' /\ Order(x)'
  BY <1>3, UnderlayFlow, Zenon
<1>4. ASSUME UNCHANGED <<outputErr, sendVars, recvVars, conn>>, up' => up,
             \A y \in End : state'[y] # "Closed" => state[y] # "Closed"
      PROVE  FlowOf(x)' /\ Order(x)'
  <2>1. SendSame(x) /\ RecvSame(Other(x)) /\ ConnSame(x)
    BY <1>1, <1>4, NextNat, Zenon DEF SendSame, RecvSame, ConnSame, Order, sendVars, recvVars
  <2> QED  BY <1>4, <2>1, FlowKept, Zenon
<1>5. ASSUME NEW s \in Sessions, DialSession(s) PROVE FlowOf(x)' /\ Order(x)'
  BY <1>1, <1>4, <1>5, Zenon DEF DialSession, TypeOK, connVars
<1>6. ASSUME NEW s \in Sessions, NEW data \in {0, 1}, OpenSession(s, data)
      PROVE  FlowOf(x)' /\ Order(x)'
  <2> DEFINE c == <<"client", s>>
  <2>1. c \in End /\ state[c] = "Attached" /\ Enqueue(c, "openReq", data)
    BY <1>6, Zenon DEF OpenSession, End, Side
  <2>2. UNCHANGED <<state, outputErr, hand, recvVars, conn, up>>
    BY <1>6, Zenon DEF OpenSession, connVars
  <2>3. RecvSame(Other(x)) /\ ConnSame(x)
    BY <1>1, <2>2, Zenon DEF RecvSame, ConnSame, Order, recvVars
  <2>4. CASE x = c
    <3>1. "openReq" \in StreamKind /\ data \in Nat /\ state[x] # "Closed"
      BY <2>1, <2>4 DEF StreamKind
    <3> QED  BY <2>1, <2>2, <2>3, <2>4, <3>1, EnqueueFlow, ZenonT(60)
  <2>5. CASE x # c
    <3>1. SendSame(x)
      BY <1>1, <2>1, <2>2, <2>5, NextNat, ZenonT(60) DEF Enqueue, SendSame, TypeOK
    <3> QED  BY <2>2, <2>3, <3>1, FlowKept, Zenon
  <2> QED  BY <2>4, <2>5, Zenon
<1>7. CASE CloseIfIdle
  <2>1. /\ state'[x] # "Closed" => state[x] # "Closed"
        /\ state'[Other(x)] # "Closed" => state[Other(x)] # "Closed"
        /\ nextSend'[x] >= nextSend[x] /\ up' = FALSE
    BY <1>1, <1>7, NextNat, Zenon DEF CloseIfIdle
  <2>2. Eased(x) /\ RecvKept(x) /\ Net(x)' = Net(x) /\ Out(x)' = Out(x)
    BY <1>7, <2>1, Zenon DEF CloseIfIdle, Eased, RecvKept, Net, Out, Got, Chan, Way, recvVars
  <2>3. Order(x)'
    BY <1>1, <1>7, Zenon DEF CloseIfIdle, recvVars, Order
  <2>4. CASE sendQueue'[x] = sendQueue[x]
    BY <1>1, <2>2, <2>3, <2>4, Moved, ZenonT(60) DEF SendKept, Que
  <2>5. CASE sendQueue'[x] = {} /\ state'[x] = "Closed"
    <3>1. Closes(x)
      BY <2>2, <2>5, Zenon DEF Closes, Que, Str
    <3> QED  BY <1>1, <2>2, <2>3, <3>1, Moved, Zenon
  <2> QED  BY <1>7, <2>4, <2>5, Zenon DEF CloseIfIdle
<1>8. CASE Break
  BY <1>4, <1>8, Zenon DEF Break
<1>9. CASE UNCHANGED vars
  BY <1>4, <1>9, Zenon DEF vars, connVars
<1> QED  BY <1>2, <1>3, <1>5, <1>6, <1>7, <1>8, <1>9, Zenon DEF Next

=============================================================================
