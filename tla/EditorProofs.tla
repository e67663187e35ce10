---------------------------- MODULE EditorProofs ----------------------------
(***************************************************************************)
(* The process designer, for any nodes, any depth of the history, any      *)
(* definitions and any budget.                                             *)
(*   The history store keeps well-formed stacks that together never exceed *)
(* the depth; every step on a mounted canvas, and every step of the page   *)
(* around it that does not mount it again, moves on one line of versions;  *)
(* and a drawing that a 409 refused stays where it is.                     *)
(***************************************************************************)
EXTENDS Editor, SequenceTheorems, FiniteSetTheorems, TLAPS

(* A history store around a drawing, within its depth.                     *)
History == [past : Seq(Drawing), now : Drawing, future : Seq(Drawing)]

Bounded(l) == Len(l.past) + Len(l.future) <= MaxDepth

Update == [node : SubProcesses, ok : BOOLEAN]

Trigger == [layout : BOOLEAN, undo : BOOLEAN, redo : BOOLEAN,
            update : Update \union {None}, add : BOOLEAN]

PanelType ==
    /\ edited \in Node \union {None}
    /\ chosen \in Node \union Edge \union {None}
    /\ dialog \in Edge \union {None}
    /\ layouts \subseteq Drawing
    /\ asked \in Trigger
    /\ dirty \in BOOLEAN
    /\ edits \in Nat

-----------------------------------------------------------------------------
(* Every operation turns a drawing into a drawing.                         *)
LEMMA DrawingsStay ==
    ASSUME NEW d \in Drawing
    PROVE  /\ Blank \in Drawing
           /\ \A n \in Node : WithNode(d, n) \in Drawing /\ WithoutNode(d, n) \in Drawing
           /\ \A e \in Edge : /\ WithEdge(d, e) \in Drawing /\ WithRule(d, e) \in Drawing
                              /\ WithoutEdge(d, e) \in Drawing
           /\ \A u \in Update : WithInterface(d, u) \in Drawing
           /\ \A t \in Drawing : LaidOut(d, t) \in Drawing
<1> USE DEF Drawing
<1>1. Blank \in Drawing BY DEF Blank
<1>2. ASSUME NEW n \in Node PROVE WithNode(d, n) \in Drawing /\ WithoutNode(d, n) \in Drawing
  BY DEF WithNode, WithoutNode
<1>3. ASSUME NEW e \in Edge
      PROVE  /\ WithEdge(d, e) \in Drawing /\ WithRule(d, e) \in Drawing
             /\ WithoutEdge(d, e) \in Drawing
  BY DEF WithEdge, WithRule, WithoutEdge
<1>4. ASSUME NEW u \in Update PROVE WithInterface(d, u) \in Drawing
  BY DEF WithInterface, Update
<1>5. ASSUME NEW t \in Drawing PROVE LaidOut(d, t) \in Drawing
  BY DEF LaidOut
<1>6. QED BY <1>1, <1>2, <1>3, <1>4, <1>5

(* The newest entries of a stack, at most MaxDepth of them.                *)
LEMMA CappedIsTheEnd ==
    ASSUME NEW s \in Seq(Drawing)
    PROVE  /\ Capped(s) \in Seq(Drawing)
           /\ Len(Capped(s)) = IF Len(s) > MaxDepth THEN MaxDepth ELSE Len(s)
           /\ \A i \in 1..Len(Capped(s)) : Capped(s)[i] = s[i + Len(s) - Len(Capped(s))]
<1> USE MaxDepthAssumption
<1>1. Len(s) \in Nat /\ \A i \in 1..Len(s) : s[i] \in Drawing
  BY LenProperties, ElementOfSeq
<1>2. CASE Len(s) > MaxDepth
  <2> DEFINE m == Len(s) - MaxDepth + 1
  <2>1. m \in Int /\ Len(s) \in Int /\ m <= Len(s) /\ m >= 1 BY <1>1, <1>2
  <2>2. \A i \in m..Len(s) : s[i] \in Drawing BY <1>1, <2>1
  <2>3. /\ SubSeq(s, m, Len(s)) \in Seq(Drawing)
        /\ Len(SubSeq(s, m, Len(s))) = IF m <= Len(s) THEN Len(s) - m + 1 ELSE 0
        /\ \A i \in 1..Len(s) - m + 1 : SubSeq(s, m, Len(s))[i] = s[m + i - 1]
    <3> HIDE DEF m
    <3>1. QED BY <2>1, <2>2, SubSeqProperties
  <2>4. Capped(s) = SubSeq(s, m, Len(s)) BY <1>2 DEF Capped
  <2>5. Len(s) - m + 1 = MaxDepth BY <1>1
  <2>6. \A i \in Nat : m + i - 1 = i + Len(s) - MaxDepth BY <1>1
  <2> HIDE DEF m
  <2>7. QED BY <1>1, <1>2, <2>1, <2>3, <2>4, <2>5, <2>6
<1>3. CASE ~(Len(s) > MaxDepth)
  <2>1. Capped(s) = s BY <1>3 DEF Capped
  <2>2. \A i \in 1..Len(s) : i + Len(s) - Len(s) = i BY <1>1
  <2>3. QED BY <1>3, <2>1, <2>2
<1>4. QED BY <1>2, <1>3

LEMMA LinesAreHistories ==
    ASSUME NEW p \in Seq(Drawing), NEW n \in Drawing, NEW f \in Seq(Drawing)
    PROVE  /\ Line(p, n, f) \in History
           /\ Line(p, n, f).past = p /\ Line(p, n, f).now = n /\ Line(p, n, f).future = f
BY DEF Line, History

LEMMA HistoryParts ==
    ASSUME NEW l \in History
    PROVE  /\ l.past \in Seq(Drawing) /\ l.now \in Drawing /\ l.future \in Seq(Drawing)
           /\ Len(l.past) \in Nat /\ Len(l.future) \in Nat
<1>1. l.past \in Seq(Drawing) /\ l.now \in Drawing /\ l.future \in Seq(Drawing) BY DEF History
<1>2. QED BY <1>1, LenProperties

(* What each operation of the store does to the two stacks.                *)
LEMMA SnapshotOf ==
    ASSUME NEW l \in History
    PROVE  LET s == Snapshot(l)
               kept == IF Len(l.past) + 1 > MaxDepth THEN MaxDepth ELSE Len(l.past) + 1
           IN /\ s \in History /\ s.now = l.now /\ s.future = <<>>
              /\ Len(s.future) = 0
              /\ Len(s.past) = kept
              /\ \A i \in 1..kept : s.past[i] =
                    LET j == i + Len(l.past) + 1 - kept
                    IN IF j <= Len(l.past) THEN l.past[j] ELSE l.now
<1> DEFINE s == Snapshot(l)
           p == Append(l.past, l.now)
           kept == IF Len(l.past) + 1 > MaxDepth THEN MaxDepth ELSE Len(l.past) + 1
<1>1. l.past \in Seq(Drawing) /\ l.now \in Drawing /\ Len(l.past) \in Nat BY HistoryParts
<1>2. /\ p \in Seq(Drawing) /\ Len(p) = Len(l.past) + 1
      /\ \A j \in 1..Len(p) : p[j] = IF j <= Len(l.past) THEN l.past[j] ELSE l.now
  BY <1>1
<1>3. /\ Capped(p) \in Seq(Drawing) /\ Len(Capped(p)) = kept
      /\ \A i \in 1..Len(Capped(p)) : Capped(p)[i] = p[i + Len(p) - Len(Capped(p))]
  <2> HIDE DEF p
  <2>1. QED BY <1>2, CappedIsTheEnd
<1>4. s = Line(Capped(p), l.now, <<>>) BY DEF Snapshot
<1>5. <<>> \in Seq(Drawing) /\ Len(<<>>) = 0 OBVIOUS
<1>6. kept \in Nat /\ kept <= Len(l.past) + 1 BY <1>1, MaxDepthAssumption
<1> HIDE DEF p, s, kept
<1>7. s \in History /\ s.now = l.now /\ s.future = <<>> /\ s.past = Capped(p)
  <2> DEFINE c == Capped(p)
             none == <<>>
             made == Line(c, l.now, none)
  <2>1. c \in Seq(Drawing) /\ none \in Seq(Drawing) /\ s = made BY <1>3, <1>4, <1>5
  <2> HIDE DEF c, none
  <2>2. made \in History /\ made.past = c /\ made.now = l.now /\ made.future = none
    BY <1>1, <2>1, LinesAreHistories
  <2> HIDE DEF made
  <2>3. QED BY <2>1, <2>2 DEF c, none
<1>8. \A i \in 1..kept : s.past[i] =
         IF i + Len(l.past) + 1 - kept <= Len(l.past)
         THEN l.past[i + Len(l.past) + 1 - kept] ELSE l.now
  <2>1. TAKE i \in 1..kept
  <2> DEFINE j == i + Len(l.past) + 1 - kept
  <2>2. j \in 1..Len(p) /\ j = i + Len(p) - Len(Capped(p)) BY <1>1, <1>2, <1>3, <1>6
  <2>3. s.past[i] = p[j] BY <1>3, <1>7, <2>2
  <2> HIDE DEF j
  <2>4. s.past[i] = IF j <= Len(l.past) THEN l.past[j] ELSE l.now BY <1>2, <2>2, <2>3
  <2>5. QED BY <2>4 DEF j
<1>9. QED BY <1>3, <1>5, <1>7, <1>8 DEF s, kept

LEMMA UndoneIs ==
    ASSUME NEW l \in History, l.past # <<>>
    PROVE  LET u == Undone(l)
           IN /\ u \in History
              /\ Len(l.past) >= 1 /\ u.now = l.past[Len(l.past)]
              /\ Len(u.past) = Len(l.past) - 1 /\ Len(u.future) = Len(l.future) + 1
              /\ \A i \in 1..(Len(l.past) - 1) : u.past[i] = l.past[i]
              /\ u.future[1] = l.now
              /\ \A i \in 1..Len(l.future) : u.future[i + 1] = l.future[i]
<1> DEFINE n == Len(l.past)
           p == SubSeq(l.past, 1, n - 1)
           f == <<l.now>> \o l.future
<1>1. /\ l.past \in Seq(Drawing) /\ l.now \in Drawing /\ l.future \in Seq(Drawing)
      /\ n \in Nat /\ Len(l.future) \in Nat
  BY HistoryParts
<1>2. n >= 1 /\ l.past[n] \in Drawing
  <2>1. n # 0 BY <1>1, EmptySeq
  <2>2. QED BY <1>1, <2>1, ElementOfSeq
<1>3. /\ p \in Seq(Drawing) /\ Len(p) = n - 1
      /\ \A i \in 1..(n - 1) : p[i] = l.past[i]
  BY <1>1, <1>2
<1>4. /\ f \in Seq(Drawing) /\ Len(f) = Len(l.future) + 1 /\ f[1] = l.now
      /\ \A i \in 1..Len(l.future) : f[i + 1] = l.future[i]
  BY <1>1
<1>5. Undone(l) = Line(p, l.past[n], f) BY DEF Undone
<1> DEFINE made == Line(p, l.past[n], f)
<1> HIDE DEF p, f
<1>6. /\ made \in History
      /\ made.past = p /\ made.now = l.past[n] /\ made.future = f
  BY <1>1, <1>2, <1>3, <1>4, LinesAreHistories
<1> HIDE DEF made
<1>7. QED BY <1>1, <1>2, <1>3, <1>4, <1>5, <1>6 DEF made

LEMMA RedoneIs ==
    ASSUME NEW l \in History, l.future # <<>>
    PROVE  LET r == Redone(l)
           IN /\ r \in History
              /\ Len(l.future) >= 1 /\ r.now = l.future[1] /\ l.future[1] \in Drawing
              /\ Len(r.past) = Len(l.past) + 1 /\ Len(r.future) = Len(l.future) - 1
              /\ \A i \in 1..Len(l.past) : r.past[i] = l.past[i]
              /\ r.past[Len(l.past) + 1] = l.now
              /\ \A i \in 1..(Len(l.future) - 1) : r.future[i] = l.future[i + 1]
<1> DEFINE n == Len(l.future)
           p == Append(l.past, l.now)
           f == Tail(l.future)
<1>1. /\ l.past \in Seq(Drawing) /\ l.now \in Drawing /\ l.future \in Seq(Drawing)
      /\ n \in Nat /\ Len(l.past) \in Nat
  BY HistoryParts
<1>2. n >= 1 /\ l.future[1] \in Drawing
  <2>1. n # 0 BY <1>1, EmptySeq
  <2>2. QED BY <1>1, <2>1, ElementOfSeq
<1>3. /\ p \in Seq(Drawing) /\ Len(p) = Len(l.past) + 1 /\ p[Len(l.past) + 1] = l.now
      /\ \A i \in 1..Len(l.past) : p[i] = l.past[i]
  BY <1>1
<1>4. /\ f \in Seq(Drawing) /\ Len(f) = n - 1 /\ \A i \in 1..(n - 1) : f[i] = l.future[i + 1]
  BY <1>1, HeadTailProperties
<1>5. Redone(l) = Line(p, l.future[1], f) BY DEF Redone
<1> DEFINE made == Line(p, l.future[1], f)
<1> HIDE DEF p, f
<1>6. /\ made \in History
      /\ made.past = p /\ made.now = l.future[1] /\ made.future = f
  BY <1>1, <1>2, <1>3, <1>4, LinesAreHistories
<1> HIDE DEF made
<1>7. QED BY <1>1, <1>2, <1>3, <1>4, <1>5, <1>6 DEF made

-----------------------------------------------------------------------------
(* Where a history stands on the line of versions.                         *)
Versions(l) == l.past \o <<l.now>> \o l.future

LEMMA VersionsAre ==
    ASSUME NEW l \in History
    PROVE  LET n == Len(l.past)
           IN /\ Versions(l) \in Seq(Drawing)
              /\ Len(Versions(l)) = n + 1 + Len(l.future)
              /\ \A i \in 1..n : Versions(l)[i] = l.past[i]
              /\ Versions(l)[n + 1] = l.now
              /\ \A i \in 1..Len(l.future) : Versions(l)[n + 1 + i] = l.future[i]
<1> DEFINE n == Len(l.past)
           b == l.past \o <<l.now>>
<1>1. /\ l.past \in Seq(Drawing) /\ l.now \in Drawing /\ l.future \in Seq(Drawing)
      /\ n \in Nat /\ Len(l.future) \in Nat
  BY HistoryParts
<1>2. /\ b \in Seq(Drawing) /\ Len(b) = n + 1 /\ b[n + 1] = l.now
      /\ \A i \in 1..n : b[i] = l.past[i]
  BY <1>1
<1> HIDE DEF b
<1>3. /\ b \o l.future \in Seq(Drawing)
      /\ Len(b \o l.future) = n + 1 + Len(l.future)
      /\ \A i \in 1..(n + 1) : (b \o l.future)[i] = b[i]
      /\ \A i \in 1..Len(l.future) : (b \o l.future)[n + 1 + i] = l.future[i]
  <2> DEFINE f == l.future
             v == b \o f
             a == Len(b)
             c == Len(f)
  <2>1. f \in Seq(Drawing) /\ b \in Seq(Drawing) /\ a = n + 1 /\ n \in Nat /\ c \in Nat BY <1>1, <1>2
  <2> HIDE DEF f, n
  <2>2. /\ v \in Seq(Drawing) /\ Len(v) = a + c
        /\ \A i \in 1..(a + c) : v[i] = IF i <= a THEN b[i] ELSE f[i - a]
    BY <2>1, ConcatProperties
  <2> HIDE DEF v, a, c
  <2>3. \A i \in 1..(n + 1) : i \in 1..(a + c) /\ i <= a BY <2>1
  <2>4. Len(v) = n + 1 + c BY <2>1, <2>2
  <2>5. \A i \in 1..(n + 1) : v[i] = b[i] BY <2>2, <2>3
  <2>6. \A i \in 1..c : v[n + 1 + i] = f[i]
    <3>1. TAKE i \in 1..c
    <3> DEFINE j == n + 1 + i
    <3>2. j \in 1..(a + c) /\ ~(j <= a) /\ j - a = i BY <2>1
    <3> HIDE DEF j
    <3>3. v[j] = f[i] BY <2>2, <3>2
    <3>4. QED BY <3>3 DEF j
  <2>7. QED BY <2>2, <2>4, <2>5, <2>6 DEF f, v, c
<1>4. Versions(l) = b \o l.future BY DEF Versions, b
<1>5. n + 1 \in 1..(n + 1) /\ \A i \in 1..n : i \in 1..(n + 1) BY <1>1
<1>6. QED BY <1>2, <1>3, <1>4, <1>5

(* m shows the i-th version of `base', which may have changed.             *)
Shows(m, base, i) ==
    /\ Len(m.past) + 1 = i
    /\ Len(Versions(m)) = Len(base)
    /\ \A j \in 1..Len(base) : j # i => Versions(m)[j] = base[j]

(* s is l after k snapshots of it.                                         *)
Kept(n, k) == IF n + k > MaxDepth THEN MaxDepth ELSE n + k

Copied(l, s, k) ==
    LET n == Len(l.past)
        q == Kept(n, k)
    IN /\ s \in History /\ s.now = l.now /\ Len(s.future) = 0
       /\ Len(s.past) = q
       /\ \A i \in 1..q :
             s.past[i] = IF i + n + k - q <= n THEN l.past[i + n + k - q] ELSE l.now

LEMMA Copies ==
    ASSUME NEW l \in History
    PROVE  Copied(l, Snapshot(l), 1) /\ Copied(l, Snapshot(Snapshot(l)), 2)
<1> USE MaxDepthAssumption
<1> DEFINE s == Snapshot(l)
           t == Snapshot(Snapshot(l))
           n == Len(l.past)
           q == Kept(n, 1)
           r == Kept(n, 2)
<1>1. n \in Nat BY HistoryParts
<1>2. Copied(l, s, 1) BY SnapshotOf DEF Copied, Kept
<1>3. /\ s \in History /\ s.now = l.now /\ Len(s.past) = q
      /\ \A i \in 1..q : s.past[i] = IF i + n + 1 - q <= n THEN l.past[i + n + 1 - q] ELSE l.now
  BY <1>2 DEF Copied
<1>4. q \in Nat /\ r \in Nat /\ r = Kept(q, 1) BY <1>1 DEF Kept
<1> HIDE DEF s
<1>5. Copied(s, Snapshot(s), 1) BY <1>3, SnapshotOf DEF Copied, Kept
<1>6. /\ t \in History /\ t.now = s.now /\ Len(t.future) = 0 /\ Len(t.past) = r
      /\ \A i \in 1..r : t.past[i] = IF i + q + 1 - r <= q THEN s.past[i + q + 1 - r] ELSE s.now
  BY <1>3, <1>4, <1>5 DEF Copied, s
<1> HIDE DEF t, q, r
<1>7. ASSUME NEW i \in 1..r
      PROVE  t.past[i] = IF i + n + 2 - r <= n THEN l.past[i + n + 2 - r] ELSE l.now
  <2> DEFINE j == i + q + 1 - r
  <2>1. t.past[i] = IF j <= q THEN s.past[j] ELSE l.now BY <1>3, <1>6
  <2>2. r <= q + 1 /\ j \in Nat /\ j >= 1 BY <1>1, <1>4 DEF q, r, Kept
  <2>3. i + n + 2 - r = j + n + 1 - q
    <3>1. i \in Nat /\ n \in Nat /\ q \in Nat /\ r \in Nat BY <1>1, <1>4
    <3> HIDE DEF n
    <3>2. QED BY <3>1
  <2>4. CASE j <= q
    <3>1. j \in 1..q BY <1>4, <2>2, <2>4
    <3>2. s.past[j] = IF j + n + 1 - q <= n THEN l.past[j + n + 1 - q] ELSE l.now BY <1>3, <3>1
    <3> HIDE DEF j
    <3>3. QED BY <2>1, <2>3, <2>4, <3>2
  <2>5. CASE ~(j <= q)
    <3>1. q <= n + 1 BY <1>1 DEF q, Kept
    <3>2. ~(j + n + 1 - q <= n) BY <1>1, <1>4, <2>2, <2>5, <3>1
    <3> HIDE DEF j
    <3>3. QED BY <2>1, <2>3, <2>5, <3>2
  <2>6. QED BY <2>4, <2>5
<1>8. Copied(l, t, 2)
  <2>1. t.now = l.now BY <1>3, <1>6
  <2>2. QED BY <1>6, <1>7, <2>1 DEF Copied, r
<1>9. QED BY <1>2, <1>8 DEF s, t

(* Drawing something else changes the present version only.                *)
LEMMA DrawnOver ==
    ASSUME NEW l \in History, NEW d \in Drawing
    PROVE  /\ Draw(l, d) \in History /\ Draw(l, d).now = d
           /\ Draw(l, d).past = l.past /\ Draw(l, d).future = l.future
           /\ Shows(Draw(l, d), Versions(l), Len(l.past) + 1)
<1> DEFINE m == Draw(l, d)
           n == Len(l.past)
<1>1. l.past \in Seq(Drawing) /\ l.future \in Seq(Drawing) /\ n \in Nat /\ Len(l.future) \in Nat
  BY HistoryParts
<1>2. m \in History /\ m.now = d /\ m.past = l.past /\ m.future = l.future
  BY <1>1, LinesAreHistories DEF Draw
<1> HIDE DEF m
<1> DEFINE v == Versions(l)
           w == Versions(m)
           f == l.future
           c == Len(f)
<1>3. /\ Len(v) = n + 1 + c
      /\ \A i \in 1..n : v[i] = l.past[i]
      /\ \A i \in 1..c : v[n + 1 + i] = f[i]
  BY VersionsAre
<1>4. /\ Len(w) = n + 1 + c
      /\ \A i \in 1..n : w[i] = l.past[i]
      /\ \A i \in 1..c : w[n + 1 + i] = f[i]
  <2>1. /\ Len(w) = Len(m.past) + 1 + Len(m.future)
        /\ \A i \in 1..Len(m.past) : w[i] = m.past[i]
        /\ \A i \in 1..Len(m.future) : w[Len(m.past) + 1 + i] = m.future[i]
    BY <1>2, VersionsAre
  <2>2. QED BY <1>2, <2>1
<1>5. n \in Nat /\ c \in Nat BY <1>1
<1> HIDE DEF v, w, f, c, n
<1>6. ASSUME NEW j \in 1..Len(v), j # n + 1
      PROVE  w[j] = v[j]
  <2>1. CASE j <= n
    <3>1. j \in 1..n BY <1>3, <1>5, <2>1
    <3>2. QED BY <1>3, <1>4, <3>1
  <2>2. CASE ~(j <= n)
    <3> DEFINE i == j - (n + 1)
    <3>1. i \in 1..c /\ j = n + 1 + i BY <1>3, <1>5, <1>6, <2>2
    <3> HIDE DEF i
    <3>2. QED BY <1>3, <1>4, <3>1
  <2>3. QED BY <2>1, <2>2
<1>7. Shows(m, v, n + 1)
  <2>1. Len(m.past) + 1 = n + 1 BY <1>2 DEF n
  <2>2. QED BY <1>3, <1>4, <1>6, <2>1 DEF Shows, w
<1>8. QED BY <1>2, <1>7 DEF v, n, m

(* Drawing after k snapshots is the k-fold fork of the line.               *)
LEMMA DrawnAnew ==
    ASSUME NEW l \in History, NEW d \in Drawing, NEW k \in {1, 2},
           NEW s, Copied(l, s, k)
    PROVE  LET at == Len(l.past) + 1
               kept == SubSeq(Versions(l), 1, at) \o [i \in 1..k |-> Versions(l)[at]]
               drop == IF at + k > MaxDepth + 1 THEN at + k - (MaxDepth + 1) ELSE 0
           IN Shows(Draw(s, d), SubSeq(kept, drop + 1, at + k), at + k - drop)
<1> USE MaxDepthAssumption
<1> DEFINE n == Len(l.past)
           at == n + 1
           q == Kept(n, k)
           head == SubSeq(Versions(l), 1, at)
           copies == [i \in 1..k |-> Versions(l)[at]]
           kept == head \o copies
           drop == IF at + k > MaxDepth + 1 THEN at + k - (MaxDepth + 1) ELSE 0
           base == SubSeq(kept, drop + 1, at + k)
           m == Draw(s, d)
<1>1. l.past \in Seq(Drawing) /\ n \in Nat /\ Len(l.future) \in Nat BY HistoryParts
<1>2. /\ s \in History /\ s.now = l.now /\ Len(s.future) = 0 /\ Len(s.past) = q
      /\ \A i \in 1..q : s.past[i] = IF i + n + k - q <= n THEN l.past[i + n + k - q] ELSE l.now
  BY DEF Copied
<1>3. /\ q \in Nat /\ drop \in Nat /\ drop = n + k - q /\ at + k - drop = q + 1
      /\ q <= MaxDepth /\ q <= n + k
  <2>1. n \in Nat /\ k \in Nat BY <1>1
  <2> HIDE DEF n
  <2>2. QED BY <2>1 DEF Kept
<1>4. /\ Versions(l) \in Seq(Drawing) /\ Len(Versions(l)) = n + 1 + Len(l.future)
      /\ \A i \in 1..n : Versions(l)[i] = l.past[i]
      /\ Versions(l)[at] = l.now
  BY VersionsAre
<1>5. /\ head \in Seq(Drawing) /\ Len(head) = at
      /\ \A i \in 1..at : head[i] = Versions(l)[i]
  <2> DEFINE v == Versions(l)
             c == Len(l.future)
  <2>1. n \in Nat /\ c \in Nat /\ v \in Seq(Drawing) /\ Len(v) = n + 1 + c BY <1>1, <1>4
  <2> HIDE DEF n, c, v
  <2>2. \A i \in 1..at : i \in 1..Len(v) BY <2>1
  <2>3. \A i \in 1..at : v[i] \in Drawing BY <2>1, <2>2, ElementOfSeq
  <2>4. /\ SubSeq(v, 1, at) \in Seq(Drawing)
        /\ Len(SubSeq(v, 1, at)) = IF 1 <= at THEN at - 1 + 1 ELSE 0
        /\ \A i \in 1..at - 1 + 1 : SubSeq(v, 1, at)[i] = v[1 + i - 1]
    <3>1. 1 \in Int /\ at \in Int BY <2>1
    <3> HIDE DEF at
    <3>2. QED BY <2>3, <3>1, SubSeqProperties
  <2>5. 1 <= at /\ at - 1 + 1 = at /\ \A i \in 1..at : 1 + i - 1 = i BY <2>1
  <2>6. QED BY <2>4, <2>5 DEF v
<1>6. l.now \in Drawing BY HistoryParts
<1>7. /\ copies \in Seq(Drawing) /\ Len(copies) = k
      /\ \A i \in 1..k : copies[i] = l.now
  BY <1>4, <1>6
<1> HIDE DEF head, copies, q, drop
<1>8. /\ kept \in Seq(Drawing) /\ Len(kept) = at + k
      /\ \A i \in 1..(at + k) : kept[i] = IF i <= at THEN head[i] ELSE copies[i - at]
  BY <1>1, <1>5, <1>7
<1>9. ASSUME NEW i \in 1..(at + k)
      PROVE  kept[i] = IF i <= n THEN l.past[i] ELSE l.now
  <2>1. CASE i <= n
    <3>1. i \in 1..n /\ i \in 1..at /\ i <= at BY <1>1, <2>1
    <3>2. QED BY <1>4, <1>5, <1>8, <2>1, <3>1
  <2>2. CASE i = at
    <3>1. i \in 1..at /\ i <= at /\ ~(i <= n) BY <1>1, <2>2
    <3>2. QED BY <1>4, <1>5, <1>8, <2>2, <3>1
  <2>3. CASE i > at
    <3>1. i - at \in 1..k /\ ~(i <= at) /\ ~(i <= n) BY <1>1, <2>3
    <3>2. QED BY <1>7, <1>8, <3>1
  <2>4. i <= n \/ i = at \/ i > at
    <3>1. \A a, b \in Nat : a <= b \/ a = b + 1 \/ a > b + 1 OBVIOUS
    <3>2. QED BY <1>1, <3>1
  <2>5. QED BY <2>1, <2>2, <2>3, <2>4
<1> HIDE DEF kept
<1>10. /\ Len(base) = q + 1
       /\ \A j \in 1..(q + 1) : base[j] = kept[drop + j]
  BY <1>1, <1>3, <1>8
<1> HIDE DEF base
<1>11. m \in History /\ m.past = s.past /\ m.future = s.future BY <1>2, DrawnOver
<1> HIDE DEF m
<1>12. /\ Len(Versions(m)) = q + 1
       /\ \A j \in 1..q : Versions(m)[j] = s.past[j]
  <2>1. /\ Len(Versions(m)) = Len(m.past) + 1 + Len(m.future)
        /\ \A j \in 1..Len(m.past) : Versions(m)[j] = m.past[j]
    BY <1>11, VersionsAre
  <2>2. q + 1 + 0 = q + 1 BY <1>3
  <2>3. QED BY <1>2, <1>11, <2>1, <2>2
<1>13. ASSUME NEW j \in 1..(q + 1), j # q + 1
       PROVE  Versions(m)[j] = base[j]
  <2> DEFINE i == j + n + k - q
  <2>1. j \in 1..q /\ i = drop + j /\ i \in 1..(at + k) BY <1>1, <1>3, <1>13
  <2> HIDE DEF i
  <2>2. base[j] = IF i <= n THEN l.past[i] ELSE l.now BY <1>9, <1>10, <2>1
  <2>3. s.past[j] = IF i <= n THEN l.past[i] ELSE l.now BY <1>2, <2>1 DEF i
  <2>4. QED BY <1>12, <2>1, <2>2, <2>3
<1>14. Shows(m, base, at + k - drop)
  BY <1>2, <1>3, <1>10, <1>11, <1>12, <1>13 DEF Shows
<1>15. QED BY <1>14 DEF m, base, kept, head, copies, drop

-----------------------------------------------------------------------------
(* The operations of the store are the steps of UndoLine.                  *)
LEMMA Amends ==
    ASSUME line \in History, Bounded(line), NEW d \in Drawing, line' = Draw(line, d)
    PROVE  line' \in History /\ Bounded(line') /\ line'.now = d /\ UL!LineNext
<1>1. /\ line' \in History /\ line'.now = d
      /\ line'.past = line.past /\ line'.future = line.future
      /\ Shows(line', Versions(line), Len(line.past) + 1)
  BY DrawnOver
<1>2. Bounded(line') BY <1>1 DEF Bounded
<1>3. UL!Amend BY <1>1 DEF Shows, Versions, Timeline, UL!Amend, UL!Showing
<1>4. QED BY <1>1, <1>2, <1>3 DEF UL!LineNext

LEMMA Forks ==
    ASSUME line \in History, NEW d \in Drawing, NEW k \in {1, 2},
           NEW s, Copied(line, s, k), line' = Draw(s, d)
    PROVE  line' \in History /\ Bounded(line') /\ UL!LineNext
<1>1. s \in History /\ Len(s.future) = 0 /\ Len(s.past) \in Nat /\ Len(s.past) <= MaxDepth
  <2>1. Len(line.past) \in Nat BY HistoryParts
  <2>2. \A a \in Nat : Kept(a, k) \in Nat /\ Kept(a, k) <= MaxDepth
    BY MaxDepthAssumption DEF Kept
  <2>3. QED BY <2>1, <2>2 DEF Copied
<1>2. /\ line' \in History /\ line'.past = s.past /\ line'.future = s.future
  BY <1>1, DrawnOver
<1>3. Bounded(line')
  <2>1. \A a \in Nat : a + 0 = a OBVIOUS
  <2>2. QED BY <1>1, <1>2, <2>1 DEF Bounded
<1>4. UL!Fork(k)
  <2>1. LET at == Len(line.past) + 1
            kept == SubSeq(Versions(line), 1, at) \o [i \in 1..k |-> Versions(line)[at]]
            drop == IF at + k > MaxDepth + 1 THEN at + k - (MaxDepth + 1) ELSE 0
        IN Shows(line', SubSeq(kept, drop + 1, at + k), at + k - drop)
    BY DrawnAnew
  <2>2. QED BY <2>1 DEF Shows, Versions, Timeline, UL!Fork, UL!Showing
<1>5. QED BY <1>2, <1>3, <1>4 DEF UL!LineNext

LEMMA Backs ==
    ASSUME NEW l \in History, Bounded(l)
    PROVE  /\ Undone(l) \in History /\ Bounded(Undone(l))
           /\ \/ Undone(l) = l
              \/ /\ Len(l.past) >= 1 /\ Len(Undone(l).past) = Len(l.past) - 1
                 /\ Versions(Undone(l)) = Versions(l)
<1> DEFINE u == Undone(l)
           n == Len(l.past)
           c == Len(l.future)
<1>1. CASE l.past = <<>>
  BY <1>1 DEF Undone
<1>2. CASE l.past # <<>>
  <2>1. n \in Nat /\ c \in Nat BY HistoryParts
  <2>2. /\ u \in History /\ n >= 1 /\ u.now = l.past[n]
        /\ Len(u.past) = n - 1 /\ Len(u.future) = c + 1
        /\ \A i \in 1..(n - 1) : u.past[i] = l.past[i]
        /\ u.future[1] = l.now
        /\ \A i \in 1..c : u.future[i + 1] = l.future[i]
    BY <1>2, UndoneIs
  <2> HIDE DEF u
  <2> DEFINE v == Versions(l)
             w == Versions(u)
  <2>3. /\ v \in Seq(Drawing) /\ Len(v) = n + 1 + c
        /\ \A i \in 1..n : v[i] = l.past[i]
        /\ v[n + 1] = l.now
        /\ \A i \in 1..c : v[n + 1 + i] = l.future[i]
    BY VersionsAre
  <2>4. /\ w \in Seq(Drawing) /\ Len(w) = Len(u.past) + 1 + Len(u.future)
        /\ \A i \in 1..Len(u.past) : w[i] = u.past[i]
        /\ w[Len(u.past) + 1] = u.now
        /\ \A i \in 1..Len(u.future) : w[Len(u.past) + 1 + i] = u.future[i]
    BY <2>2, VersionsAre
  <2>5. /\ n + c <= MaxDepth BY DEF Bounded
  <2> HIDE DEF v, w, n, c
  <2>6. Bounded(u)
    <3>1. (n - 1) + (c + 1) <= MaxDepth BY <2>1, <2>5, MaxDepthAssumption
    <3>2. QED BY <2>2, <3>1 DEF Bounded
  <2>7. Len(w) = Len(v) BY <2>1, <2>2, <2>3, <2>4
  <2>8. ASSUME NEW j \in 1..Len(v) PROVE w[j] = v[j]
    <3>1. CASE j \in 1..(n - 1)
      <4>1. j \in 1..n BY <2>1, <3>1
      <4>2. QED BY <2>2, <2>3, <2>4, <3>1, <4>1
    <3>2. CASE j = n
      <4>1. n >= 1 BY <2>2
      <4>2. n \in 1..n /\ n - 1 + 1 = n BY <2>1, <4>1
      <4>3. QED BY <2>2, <2>3, <2>4, <3>2, <4>2
    <3>3. CASE j = n + 1
      <4>1. 1 \in 1..(c + 1) /\ n - 1 + 1 + 1 = n + 1 BY <2>1
      <4>2. QED BY <2>2, <2>3, <2>4, <3>3, <4>1
    <3>4. CASE j > n + 1
      <4> DEFINE i == j - (n + 1)
                 k == i + 1
      <4>1. i \in 1..c /\ j = n + 1 + i /\ k \in 1..(c + 1) /\ j = n - 1 + 1 + k
        BY <2>1, <2>3, <3>4
      <4>2. v[j] = l.future[i] /\ u.future[k] = l.future[i] BY <2>2, <2>3, <4>1
      <4> HIDE DEF i, k
      <4>3. w[j] = u.future[k] BY <2>2, <2>4, <4>1
      <4>4. QED BY <4>2, <4>3
    <3>5. j \in 1..(n - 1) \/ j = n \/ j = n + 1 \/ j > n + 1 BY <2>1, <2>2, <2>3
    <3>6. QED BY <3>1, <3>2, <3>3, <3>4, <3>5
  <2>9. w = v BY <2>3, <2>4, <2>7, <2>8, SeqEqual
  <2>10. QED BY <2>2, <2>6, <2>9 DEF u, v, w, n
<1>3. QED BY <1>1, <1>2

LEMMA Forths ==
    ASSUME NEW l \in History, Bounded(l)
    PROVE  /\ Redone(l) \in History /\ Bounded(Redone(l))
           /\ \/ Redone(l) = l
              \/ /\ Len(l.past) + 1 < Len(Versions(l))
                 /\ Len(Redone(l).past) = Len(l.past) + 1
                 /\ Versions(Redone(l)) = Versions(l)
<1> DEFINE r == Redone(l)
           n == Len(l.past)
           c == Len(l.future)
<1>1. CASE l.future = <<>>
  BY <1>1 DEF Redone
<1>2. CASE l.future # <<>>
  <2>1. n \in Nat /\ c \in Nat BY HistoryParts
  <2>2. /\ r \in History /\ c >= 1 /\ r.now = l.future[1]
        /\ Len(r.past) = n + 1 /\ Len(r.future) = c - 1
        /\ \A i \in 1..n : r.past[i] = l.past[i]
        /\ r.past[n + 1] = l.now
        /\ \A i \in 1..(c - 1) : r.future[i] = l.future[i + 1]
    BY <1>2, RedoneIs
  <2> HIDE DEF r
  <2> DEFINE v == Versions(l)
             w == Versions(r)
  <2>3. /\ v \in Seq(Drawing) /\ Len(v) = n + 1 + c
        /\ \A i \in 1..n : v[i] = l.past[i]
        /\ v[n + 1] = l.now
        /\ \A i \in 1..c : v[n + 1 + i] = l.future[i]
    BY VersionsAre
  <2>4. /\ w \in Seq(Drawing) /\ Len(w) = Len(r.past) + 1 + Len(r.future)
        /\ \A i \in 1..Len(r.past) : w[i] = r.past[i]
        /\ w[Len(r.past) + 1] = r.now
        /\ \A i \in 1..Len(r.future) : w[Len(r.past) + 1 + i] = r.future[i]
    BY <2>2, VersionsAre
  <2>5. n + c <= MaxDepth BY DEF Bounded
  <2> HIDE DEF v, w, n, c
  <2>6. Bounded(r)
    <3>1. (n + 1) + (c - 1) <= MaxDepth BY <2>1, <2>5, MaxDepthAssumption
    <3>2. QED BY <2>2, <3>1 DEF Bounded
  <2>7. Len(w) = Len(v) /\ n + 1 < Len(v) BY <2>1, <2>2, <2>3, <2>4
  <2>8. ASSUME NEW j \in 1..Len(v) PROVE w[j] = v[j]
    <3>1. CASE j \in 1..n
      <4>1. j \in 1..(n + 1) BY <2>1, <3>1
      <4>2. QED BY <2>2, <2>3, <2>4, <3>1, <4>1
    <3>2. CASE j = n + 1
      <4>1. n + 1 \in 1..(n + 1) BY <2>1
      <4>2. QED BY <2>2, <2>3, <2>4, <3>2, <4>1
    <3>3. CASE j = n + 1 + 1
      <4>1. 1 \in 1..c BY <2>1, <2>2
      <4>2. QED BY <2>2, <2>3, <2>4, <3>3, <4>1
    <3>4. CASE j > n + 1 + 1
      <4> DEFINE k == j - (n + 1 + 1)
                 i == k + 1
      <4>1. k \in 1..(c - 1) /\ j = n + 1 + 1 + k /\ i \in 1..c /\ j = n + 1 + i
        BY <2>1, <2>3, <3>4
      <4>2. r.future[k] = l.future[i] BY <2>2, <4>1
      <4> HIDE DEF i, k
      <4>3. w[j] = r.future[k] /\ v[j] = l.future[i] BY <2>2, <2>3, <2>4, <4>1
      <4>4. QED BY <4>2, <4>3
    <3>5. j \in 1..n \/ j = n + 1 \/ j = n + 1 + 1 \/ j > n + 1 + 1 BY <2>1, <2>2, <2>3
    <3>6. QED BY <3>1, <3>2, <3>3, <3>4, <3>5
  <2>9. w = v BY <2>3, <2>4, <2>7, <2>8, SeqEqual
  <2>10. QED BY <2>2, <2>6, <2>7, <2>9 DEF r, v, w, n
<1>3. QED BY <1>1, <1>2

LEMMA Forgets ==
    ASSUME NEW d \in Drawing
    PROVE  LET l == Line(<<>>, d, <<>>)
           IN l \in History /\ Bounded(l) /\ l.now = d /\ Len(l.past) + 1 = 1 /\ Len(Versions(l)) = 1
<1> DEFINE none == <<>>
           l == Line(none, d, none)
<1>1. none \in Seq(Drawing) OBVIOUS
<1>2. Len(none) = 0 OBVIOUS
<1> HIDE DEF none
<1>3. l \in History /\ l.past = none /\ l.now = d /\ l.future = none BY <1>1, LinesAreHistories
<1> HIDE DEF l
<1>4. 0 + 0 <= MaxDepth BY MaxDepthAssumption
<1>5. Bounded(l) BY <1>2, <1>3, <1>4 DEF Bounded
<1>6. Len(Versions(l)) = Len(l.past) + 1 + Len(l.future) BY <1>3, VersionsAre
<1>7. Len(l.past) + 1 = 1 /\ Len(Versions(l)) = 1 BY <1>2, <1>3, <1>6
<1>8. QED BY <1>3, <1>5, <1>7 DEF l, none

-----------------------------------------------------------------------------
(* The operations on a mounted canvas.                                     *)
LineStep == line' \in History /\ Bounded(line') /\ (UL!LineNext \/ UNCHANGED line)

LEMMA SnapshotSteps ==
    ASSUME line \in History, Bounded(line)
    PROVE  /\ line' = Snapshot(line) => LineStep
           /\ \A d \in Drawing : line' = Draw(Snapshot(line), d) => LineStep
           /\ \A d \in Drawing : line' = Draw(Snapshot(Snapshot(line)), d) => LineStep
           /\ \A d \in Drawing : line' = Draw(line, d) => LineStep
           /\ UNCHANGED line => LineStep
<1>1. ASSUME NEW d \in Drawing, line' = Draw(Snapshot(line), d) PROVE LineStep
  <2>1. 1 \in {1, 2} OBVIOUS
  <2>2. QED BY <1>1, <2>1, Copies, Forks DEF LineStep
<1>2. ASSUME NEW d \in Drawing, line' = Draw(Snapshot(Snapshot(line)), d) PROVE LineStep
  <2>1. 2 \in {1, 2} OBVIOUS
  <2>2. QED BY <1>2, <2>1, Copies, Forks DEF LineStep
<1>3. ASSUME NEW d \in Drawing, line' = Draw(line, d) PROVE LineStep
  BY <1>3, Amends DEF LineStep
<1>4. ASSUME line' = Snapshot(line) PROVE LineStep
  <2>1. line.now \in Drawing BY HistoryParts
  <2>2. Snapshot(line) = Draw(Snapshot(line), line.now) BY DEF Snapshot, Draw, Line
  <2>3. QED BY <1>1, <1>4, <2>1, <2>2
<1>5. ASSUME UNCHANGED line PROVE LineStep
  BY <1>5 DEF LineStep
<1>6. QED BY <1>1, <1>2, <1>3, <1>4, <1>5

LEMMA MovingSteps ==
    ASSUME line \in History, Bounded(line)
    PROVE  (line' = Undone(line) => LineStep) /\ (line' = Redone(line) => LineStep)
<1>1. ASSUME line' = Undone(line) PROVE LineStep
  <2>1. line' \in History /\ Bounded(line') BY <1>1, Backs
  <2>2. \/ line' = line
        \/ /\ Len(line.past) >= 1 /\ Len(line'.past) = Len(line.past) - 1
           /\ Versions(line') = Versions(line)
    BY <1>1, Backs
  <2>3. Len(line.past) \in Nat BY HistoryParts
  <2>4. ASSUME Len(line.past) >= 1, Len(line'.past) = Len(line.past) - 1,
               Versions(line') = Versions(line)
        PROVE  UL!Back
    <3>1. Timeline' = Timeline BY <2>4 DEF Versions, Timeline
    <3>2. \A a \in Nat : a >= 1 => a + 1 > 1 /\ a - 1 + 1 = a + 1 - 1 OBVIOUS
    <3>3. QED BY <2>3, <2>4, <3>1, <3>2 DEF UL!Back
  <2>5. QED BY <2>1, <2>2, <2>4 DEF LineStep, UL!LineNext
<1>2. ASSUME line' = Redone(line) PROVE LineStep
  <2>1. line' \in History /\ Bounded(line') BY <1>2, Forths
  <2>2. \/ line' = line
        \/ /\ Len(line.past) + 1 < Len(Versions(line)) /\ Len(line'.past) = Len(line.past) + 1
           /\ Versions(line') = Versions(line)
    BY <1>2, Forths
  <2>3. ASSUME Len(line.past) + 1 < Len(Versions(line)), Len(line'.past) = Len(line.past) + 1,
               Versions(line') = Versions(line)
        PROVE  UL!Forth
    <3>1. Timeline' = Timeline /\ Len(Versions(line)) = Len(Timeline)
      BY <2>3 DEF Versions, Timeline
    <3>2. QED BY <2>3, <3>1 DEF UL!Forth
  <2>4. QED BY <2>1, <2>2, <2>3 DEF LineStep, UL!LineNext
<1>3. QED BY <1>1, <1>2

LEMMA ForgettingSteps ==
    ASSUME NEW d \in Drawing, line' = Line(<<>>, d, <<>>)
    PROVE  LineStep /\ line'.now = d
<1>1. /\ line' \in History /\ Bounded(line') /\ line'.now = d
      /\ Len(line'.past) + 1 = 1 /\ Len(Versions(line')) = 1
  BY Forgets
<1>2. UL!Forget BY <1>1 DEF UL!Forget, Versions, Timeline
<1>3. QED BY <1>1, <1>2 DEF LineStep, UL!LineNext

LEMMA CanvasSteps ==
    ASSUME line \in History, Bounded(line), PanelType, Change \/ Handle \/ Settle
    PROVE  LineStep /\ PanelType'
<1> DEFINE Goal == LineStep /\ PanelType'
<1>0. line.now \in Drawing BY HistoryParts
<1>1. ASSUME NEW n \in Node, DropNode(n) \/ AddNode(n) PROVE Goal
  <2>1. line' = Draw(Snapshot(line), WithNode(line.now, n)) BY <1>1 DEF DropNode, AddNode
  <2>2. LineStep BY <1>0, <2>1, DrawingsStay, SnapshotSteps
  <2>3. asked' \in Trigger BY <1>1 DEF DropNode, AddNode, PanelType, Trigger
  <2>4. /\ UNCHANGED <<edited, chosen, dialog, layouts>>
        /\ dirty' = TRUE /\ edits' = edits + 1
    BY <1>1 DEF DropNode, AddNode, Touch
  <2>5. PanelType' BY <2>3, <2>4 DEF PanelType
  <2>6. QED BY <2>2, <2>5
<1>2. ASSUME NEW e \in Edge, Connect(e) PROVE Goal
  <2>1. line' = Draw(Snapshot(line), WithEdge(line.now, e)) BY <1>2 DEF Connect
  <2>2. LineStep BY <1>0, <2>1, DrawingsStay, SnapshotSteps
  <2>3. PanelType' BY <1>2 DEF Connect, Touch, PanelType
  <2>4. QED BY <2>2, <2>3
<1>3. ASSUME NEW e \in Edge, ConnectGateway(e) PROVE Goal
  <2>1. LineStep BY <1>3, SnapshotSteps DEF ConnectGateway
  <2>2. PanelType' BY <1>3 DEF ConnectGateway, PanelType
  <2>3. QED BY <2>1, <2>2
<1>4. ASSUME NEW ok \in BOOLEAN, EditNode(ok) PROVE Goal
  <2> DEFINE u == Interface(chosen, ok)
  <2>1. chosen \in SubProcesses /\ u \in Update BY <1>4 DEF EditNode, Interface, Update
  <2>2. WithInterface(line.now, u) \in Drawing BY <1>0, <2>1, DrawingsStay
  <2>3. \/ line' = Draw(Snapshot(line), WithInterface(line.now, u))
        \/ line' = Draw(line, WithInterface(line.now, u))
    BY <1>4 DEF EditNode
  <2>4. LineStep BY <2>2, <2>3, SnapshotSteps
  <2>5. edited' \in Node BY <1>4, <2>1 DEF EditNode, Node
  <2>6. asked' \in Trigger BY <1>4, <2>1 DEF EditNode, PanelType, Trigger
  <2>7. PanelType' BY <1>4, <2>5, <2>6 DEF EditNode, Touch, PanelType
  <2>8. QED BY <2>4, <2>7
<1>5. ASSUME DeleteChosen PROVE Goal
  <2>1. LineStep BY <1>5, SnapshotSteps DEF DeleteChosen
  <2>2. PanelType' BY <1>5 DEF DeleteChosen, Touch, PanelType
  <2>3. QED BY <2>1, <2>2
<1>6. ASSUME AutoLayout PROVE Goal
  <2>1. LineStep BY <1>6, SnapshotSteps DEF AutoLayout
  <2>2. asked' \in Trigger BY <1>6 DEF AutoLayout, PanelType, Trigger
  <2>3. PanelType' BY <1>0, <1>6, <2>2 DEF AutoLayout, PanelType
  <2>4. QED BY <2>1, <2>3
<1>7. ASSUME Undo \/ Redo PROVE Goal
  <2>1. line' = Undone(line) \/ line' = Redone(line) BY <1>7 DEF Undo, Redo
  <2>2. LineStep BY <2>1, MovingSteps
  <2>3. dirty' \in BOOLEAN BY <1>7 DEF Undo, Redo
  <2>4. asked' \in Trigger BY <1>7 DEF Undo, Redo, PanelType, Trigger
  <2>5. PanelType' BY <1>7, <2>3, <2>4 DEF Undo, Redo, PanelType
  <2>6. QED BY <2>2, <2>5
<1>8. ASSUME NEW e \in Edge, EditCondition(e) \/ ChooseEdge(e) PROVE Goal
  <2>1. LineStep BY <1>8, SnapshotSteps DEF EditCondition, ChooseEdge
  <2>2. CASE EditCondition(e)
    <3>1. PanelType' BY <2>2 DEF EditCondition, PanelType
    <3>2. QED BY <2>1, <3>1
  <2>3. CASE ChooseEdge(e)
    <3>1. PanelType' BY <2>3 DEF ChooseEdge, PanelType
    <3>2. QED BY <2>1, <3>1
  <2>4. QED BY <1>8, <2>2, <2>3
<1>9. ASSUME NEW e \in Edge, RemoveEdge(e) PROVE Goal
  <2>1. line' = Draw(Snapshot(line), WithoutEdge(line.now, e)) BY <1>9 DEF RemoveEdge
  <2>2. LineStep BY <1>0, <2>1, DrawingsStay, SnapshotSteps
  <2>3. PanelType' BY <1>9 DEF RemoveEdge, Touch, PanelType
  <2>4. QED BY <2>2, <2>3
<1>10. ASSUME NEW n \in Node, RemoveNode(n) PROVE Goal
  <2>1. \/ line' = Draw(Snapshot(line), WithoutNode(line.now, n))
        \/ line' = Draw(Snapshot(Snapshot(line)), WithoutNode(line.now, n))
    BY <1>10 DEF RemoveNode
  <2>2. LineStep BY <1>0, <2>1, DrawingsStay, SnapshotSteps
  <2>3. PanelType' BY <1>10 DEF RemoveNode, Touch, PanelType
  <2>4. QED BY <2>2, <2>3
<1>11. ASSUME NEW n \in Node, ChooseNode(n) PROVE Goal
  <2>1. LineStep BY <1>11, SnapshotSteps DEF ChooseNode
  <2>2. PanelType' BY <1>11 DEF ChooseNode, PanelType
  <2>3. QED BY <2>1, <2>2
<1>12. ASSUME ConfirmCondition PROVE Goal
  <2>1. dialog \in Edge /\ line' = Draw(line, WithRule(line.now, dialog))
    BY <1>12 DEF ConfirmCondition, PanelType
  <2>2. LineStep BY <1>0, <2>1, DrawingsStay, SnapshotSteps
  <2>3. PanelType' BY <1>12 DEF ConfirmCondition, PanelType
  <2>4. QED BY <2>2, <2>3
<1>13. ASSUME CancelCondition \/ ClosePanel \/ Measure PROVE Goal
  <2>1. LineStep BY <1>13, SnapshotSteps DEF CancelCondition, ClosePanel, Measure
  <2>2. PanelType' BY <1>13 DEF CancelCondition, ClosePanel, Measure, PanelType
  <2>3. QED BY <2>1, <2>2
<1>14. ASSUME NEW taken \in layouts, LayoutDone(taken) PROVE Goal
  <2>1. taken \in Drawing /\ line' = Draw(line, LaidOut(line.now, taken))
    BY <1>14 DEF LayoutDone, PanelType
  <2>2. LineStep BY <1>0, <2>1, DrawingsStay, SnapshotSteps
  <2>3. PanelType' BY <1>14 DEF LayoutDone, PanelType
  <2>4. QED BY <2>2, <2>3
<1>15. CASE Change
  BY <1>1, <1>2, <1>3, <1>4, <1>5, <1>6, <1>7, <1>15 DEF Change
<1>16. CASE Handle
  BY <1>8, <1>9, <1>10, <1>11, <1>16 DEF Handle
<1>17. CASE Settle
  BY <1>12, <1>13, <1>14, <1>17 DEF Settle
<1>18. QED BY <1>15, <1>16, <1>17

-----------------------------------------------------------------------------
(* The page around the canvas.                                             *)
Address == Def \union {New, None}

Entry == [graph : Drawing, draft : BOOLEAN]

Caches == [Def -> Entry \union {None}]

Draft == [def : Address, graph : Drawing, saved : BOOLEAN]

Sent == [id : Nat, kind : {"create", "update", "merge", "orphan"}, def : Address,
         graph : Drawing, visit : Nat, answer : {"none", "ok", "done"}]

PageType ==
    /\ page \in Address
    /\ visit \in Nat
    /\ server \in [Def -> Drawing]
    /\ released \subseteq Def
    /\ cache \in Caches
    /\ loading \subseteq Def /\ failed \subseteq Def
    /\ conflict \in {"none"} \union Stamps
    /\ draft \in Draft \union {None}
    /\ saves \subseteq Sent /\ IsFiniteSet(saves)
    /\ blocked \subseteq Address
    /\ others \in Nat
    /\ budget \in Budgets

(* A 409 takes the canvas off the screen.                                  *)
EditorInv ==
    /\ line \in History /\ Bounded(line)
    /\ PanelType /\ PageType
    /\ opened \in Drawing
    /\ mounted \in BOOLEAN /\ (mounted => conflict = "none")

LEMMA StoresStay ==
    ASSUME NEW l \in History, Bounded(l)
    PROVE  /\ Snapshot(l) \in History /\ Bounded(Snapshot(l))
           /\ \A d \in Drawing : Draw(l, d) \in History /\ Bounded(Draw(l, d)) /\ Draw(l, d).now = d
                                 /\ Draw(l, d).future = l.future
           /\ Undone(l) \in History /\ Bounded(Undone(l))
           /\ Redone(l) \in History /\ Bounded(Redone(l))
           /\ l.future # <<>> => l.future[1] \in Drawing
<1>1. Snapshot(l) \in History /\ Bounded(Snapshot(l))
  <2> DEFINE s == Snapshot(l)
  <2>1. s \in History /\ Len(s.future) = 0 /\ Len(s.past) = Kept(Len(l.past), 1)
    BY Copies DEF Copied
  <2>2. \A n \in Nat : Kept(n, 1) + 0 <= MaxDepth BY MaxDepthAssumption DEF Kept
  <2>3. Len(l.past) \in Nat BY HistoryParts
  <2> HIDE DEF s
  <2>4. Bounded(s) BY <2>1, <2>2, <2>3 DEF Bounded
  <2>5. QED BY <2>1, <2>4 DEF s
<1>2. ASSUME NEW d \in Drawing
      PROVE  /\ Draw(l, d) \in History /\ Bounded(Draw(l, d)) /\ Draw(l, d).now = d
             /\ Draw(l, d).future = l.future
  BY DrawnOver DEF Bounded
<1>3. Undone(l) \in History /\ Bounded(Undone(l)) BY Backs
<1>4. Redone(l) \in History /\ Bounded(Redone(l)) BY Forths
<1>5. l.future # <<>> => l.future[1] \in Drawing BY RedoneIs
<1>6. QED BY <1>1, <1>2, <1>3, <1>4, <1>5

(* Whatever a canvas that is mounted again replays, its history stays      *)
(* within the depth.                                                       *)
LEMMA ReplayedStays ==
    ASSUME line \in History, Bounded(line), NEW g \in Drawing, NEW ro, NEW a \in Trigger
    PROVE  Replayed(g, ro, a) \in History /\ Bounded(Replayed(g, ro, a))
<1> DEFINE h0 == Draw(line, g)
           h1 == IF a.layout /\ ~ro THEN Snapshot(h0) ELSE h0
           h2 == IF a.undo THEN Undone(h1) ELSE h1
           back == Redone(Draw(h2, g))
           h3 == IF a.redo /\ h2.future # <<>> THEN Draw(back, h2.future[1]) ELSE h2
           kept == Snapshot(Draw(h3, g))
           h4 == IF a.update # None /\ ~ro
                 THEN Draw(kept, WithInterface(h3.now, a.update)) ELSE h3
           again == Snapshot(Draw(h4, g))
           free == CHOOSE n \in Node : n \notin h4.now.nodes
           h5 == IF a.add /\ ~ro /\ Node \ h4.now.nodes # {}
                 THEN Draw(again, WithNode(h4.now, free)) ELSE h4
           Fine(h) == h \in History /\ Bounded(h)
<1>1. Replayed(g, ro, a) = h5 BY DEF Replayed
<1>2. Fine(h0) BY StoresStay
<1> HIDE DEF h0
<1>3. Fine(h1) BY <1>2, StoresStay
<1> HIDE DEF h1
<1>4. Fine(h2) BY <1>3, StoresStay
<1> HIDE DEF h2
<1>5. Fine(h3)
  <2>1. Fine(back)
    <3>1. Fine(Draw(h2, g)) BY <1>4, StoresStay
    <3>2. QED BY <3>1, StoresStay
  <2> HIDE DEF back
  <2>2. h2.future # <<>> => h2.future[1] \in Drawing BY <1>4, StoresStay
  <2>3. h2.future # <<>> => Fine(Draw(back, h2.future[1])) BY <2>1, <2>2, StoresStay
  <2>4. QED BY <1>4, <2>3
<1> HIDE DEF h3, back
<1>6. Fine(h4)
  <2>1. Fine(kept)
    <3>1. Fine(Draw(h3, g)) BY <1>5, StoresStay
    <3>2. QED BY <3>1, StoresStay
  <2> HIDE DEF kept
  <2>2. h3.now \in Drawing BY <1>5, HistoryParts
  <2>3. a.update # None => a.update \in Update BY DEF Trigger
  <2>4. a.update # None => WithInterface(h3.now, a.update) \in Drawing BY <2>2, <2>3, DrawingsStay
  <2>5. a.update # None => Fine(Draw(kept, WithInterface(h3.now, a.update))) BY <2>1, <2>4, StoresStay
  <2>6. QED BY <1>5, <2>5
<1> HIDE DEF h4, kept
<1>7. Fine(h5)
  <2>1. Fine(again)
    <3>1. Fine(Draw(h4, g)) BY <1>6, StoresStay
    <3>2. QED BY <3>1, StoresStay
  <2> HIDE DEF again
  <2>2. h4.now \in Drawing BY <1>6, HistoryParts
  <2>3. Node \ h4.now.nodes # {} => free \in Node OBVIOUS
  <2> HIDE DEF free
  <2>4. Node \ h4.now.nodes # {} => WithNode(h4.now, free) \in Drawing BY <2>2, <2>3, DrawingsStay
  <2>5. Node \ h4.now.nodes # {} => Fine(Draw(again, WithNode(h4.now, free)))
    BY <2>1, <2>4, StoresStay
  <2>6. QED BY <1>6, <2>5
<1> HIDE DEF h5
<1>8. QED BY <1>1, <1>7

ScreenType == [line : History, edited : Node \union {None}, dialog : Edge \union {None},
               layouts : SUBSET Drawing, dirty : BOOLEAN, mounted : BOOLEAN, opened : Drawing]

LEMMA GraphIsDrawn ==
    ASSUME NEW p, NEW c \in Caches
    PROVE  Graph(p, c) \in Drawing
<1>1. Blank \in Drawing BY DEF Blank, Drawing
<1>2. ASSUME Cached(p, c) PROVE c[p].graph \in Drawing
  <2>1. c[p] \in Entry BY <1>2 DEF Cached, Caches
  <2>2. QED BY <2>1 DEF Entry
<1>3. QED BY <1>1, <1>2 DEF Graph

(* A step of the page keeps what the canvas shows unless it mounts it, and *)
(* it does not mount it under a 409.                                       *)
LEMMA RenderedStays ==
    ASSUME line \in History, Bounded(line), asked \in Trigger,
           NEW s \in ScreenType, Bounded(s.line),
           NEW p, NEW c \in Caches, NEW l, NEW f, NEW k
    PROVE  LET r == Rendered(s, p, c, l, f, k)
           IN /\ r \in ScreenType /\ Bounded(r.line)
              /\ r.mounted => k = "none"
              /\ r.line = s.line \/ (~s.mounted /\ r.mounted)
<1> DEFINE shown == p # None /\ Surface(p, c, l, f, k) = "success"
           g == Graph(p, c)
           ro == ReadOnly(p, c)
           new == Mounted(s, g, ro, asked)
           gone == Unmounted(s)
           r == Rendered(s, p, c, l, f, k)
<1>1. r = IF shown /\ ~s.mounted THEN new ELSE IF ~shown /\ s.mounted THEN gone ELSE s
  BY DEF Rendered
<1>2. shown => k = "none" BY DEF Surface
<1>3. /\ new \in ScreenType /\ Bounded(new.line) /\ new.mounted
  <2> DEFINE h == Replayed(g, ro, asked)
  <2>1. g \in Drawing BY GraphIsDrawn
  <2> HIDE DEF g, ro
  <2>2. h \in History /\ Bounded(h) BY <2>1, ReplayedStays
  <2>3. new = [line |-> h,
               edited |-> IF asked.update # None /\ ~ro THEN asked.update.node ELSE None,
               dialog |-> None,
               layouts |-> IF asked.layout /\ ~ro THEN {g} ELSE {},
               dirty |-> s.dirty \/ h.now # g,
               mounted |-> TRUE, opened |-> g]
    BY DEF Mounted
  <2>4. asked.update # None => asked.update.node \in Node BY DEF Trigger, Update, Node
  <2>5. s.dirty \in BOOLEAN BY DEF ScreenType
  <2> HIDE DEF h, new
  <2>6. QED BY <2>1, <2>2, <2>3, <2>4, <2>5 DEF ScreenType
<1>4. gone \in ScreenType /\ gone.line = s.line /\ gone.mounted = FALSE
  BY DEF Unmounted, ScreenType
<1>5. s.mounted \in BOOLEAN BY DEF ScreenType
<1> HIDE DEF shown, new, gone, r
<1>6. /\ r \in ScreenType /\ Bounded(r.line) /\ (r.mounted => k = "none")
      /\ r.line = s.line \/ (~s.mounted /\ r.mounted)
  <2>1. CASE shown /\ ~s.mounted BY <1>1, <1>2, <1>3, <2>1
  <2>2. CASE ~shown /\ s.mounted BY <1>1, <1>4, <2>2
  <2>3. CASE shown /\ s.mounted BY <1>1, <1>2, <2>3
  <2>4. CASE ~shown /\ ~s.mounted BY <1>1, <2>4
  <2>5. QED BY <1>5, <2>1, <2>2, <2>3, <2>4
<1>7. QED BY <1>6 DEF r

-----------------------------------------------------------------------------
(* What every step of the page has to do.                                  *)
OneLineStep == (mounted' => mounted) => UL!LineNext \/ UNCHANGED line

KeepStep == conflict' # "none" /\ visit' = visit => line'.now = line.now

Good == EditorInv' /\ OneLineStep /\ KeepStep

LEMMA QuietSteps ==
    ASSUME EditorInv, PageType', UNCHANGED <<canvasVars, mounted, opened, conflict>>
    PROVE  Good
<1>1. PanelType' BY DEF EditorInv, PanelType, canvasVars
<1>2. EditorInv' BY <1>1 DEF EditorInv, canvasVars
<1>3. OneLineStep /\ KeepStep BY DEF OneLineStep, KeepStep, canvasVars
<1>4. QED BY <1>2, <1>3 DEF Good

LEMMA ScreenStays ==
    ASSUME EditorInv
    PROVE  /\ Screen \in ScreenType /\ Screen.line = line /\ Screen.mounted = mounted
           /\ [Screen EXCEPT !.dirty = FALSE] \in ScreenType
           /\ [Screen EXCEPT !.dirty = FALSE].line = line
           /\ [Screen EXCEPT !.dirty = FALSE].mounted = mounted
BY DEF EditorInv, PanelType, Screen, ScreenType

LEMMA ShownSteps ==
    ASSUME EditorInv, PageType', UNCHANGED <<chosen, asked, edits>>,
           NEW s \in ScreenType, s.mounted = mounted,
           s.line = line \/ s.line = Line(<<>>, line.now, <<>>),
           ShowPage(s)
    PROVE  Good
<1> DEFINE r == Rendered(s, page', cache', loading', failed', conflict')
<1>1. /\ line \in History /\ Bounded(line) /\ asked \in Trigger /\ line.now \in Drawing
      /\ mounted \in BOOLEAN
  BY HistoryParts DEF EditorInv, PanelType
<1>2. Bounded(s.line) /\ s.line.now = line.now BY <1>1, Forgets
<1>3. cache' \in Caches BY DEF PageType
<1>4. /\ r \in ScreenType /\ Bounded(r.line)
      /\ r.mounted => conflict' = "none"
      /\ r.line = s.line \/ (~s.mounted /\ r.mounted)
  BY <1>1, <1>2, <1>3, RenderedStays
<1>5. /\ line' = r.line /\ edited' = r.edited /\ dialog' = r.dialog
      /\ layouts' = r.layouts /\ dirty' = r.dirty /\ mounted' = r.mounted
      /\ opened' = r.opened
  BY DEF ShowPage, Show
<1> HIDE DEF r
<1>6. /\ r.line \in History /\ r.edited \in Node \union {None}
      /\ r.dialog \in Edge \union {None} /\ r.layouts \subseteq Drawing /\ r.dirty \in BOOLEAN
      /\ r.mounted \in BOOLEAN /\ r.opened \in Drawing
  BY <1>4 DEF ScreenType
<1>7. PanelType' BY <1>5, <1>6 DEF EditorInv, PanelType
<1>8. EditorInv' BY <1>4, <1>5, <1>6, <1>7 DEF EditorInv
<1>9. OneLineStep
  <2>1. SUFFICES ASSUME mounted' => mounted PROVE UL!LineNext \/ UNCHANGED line
    BY DEF OneLineStep
  <2>2. line' = s.line BY <1>1, <1>4, <1>5, <1>6, <2>1
  <2>3. QED BY <1>1, <2>2, ForgettingSteps DEF LineStep
<1>10. KeepStep
  <2>1. SUFFICES ASSUME conflict' # "none" PROVE line'.now = line.now
    BY DEF KeepStep
  <2>2. line' = s.line BY <1>4, <1>5, <2>1
  <2>3. QED BY <1>2, <2>2
<1>11. QED BY <1>8, <1>9, <1>10 DEF Good

LEMMA SavesStay ==
    ASSUME saves \subseteq Sent, IsFiniteSet(saves)
    PROVE  /\ \A r \in saves, a \in {"ok", "done"} :
                 Answered(r, a) \subseteq Sent /\ IsFiniteSet(Answered(r, a))
           /\ \A kind \in {"create", "update", "merge"}, g \in Drawing :
                 PageType /\ Send(kind, g) => saves' \subseteq Sent /\ IsFiniteSet(saves')
           /\ LET left == {[r EXCEPT !.kind = "orphan"] : r \in saves}
              IN left \subseteq Sent /\ IsFiniteSet(left)
<1>1. ASSUME NEW r \in saves, NEW a \in {"ok", "done"}
      PROVE  Answered(r, a) \subseteq Sent /\ IsFiniteSet(Answered(r, a))
  <2> DEFINE done == [r EXCEPT !.answer = a]
  <2>1. done \in Sent BY DEF Sent
  <2>2. IsFiniteSet(saves \ {r}) BY FS_Difference, FS_Singleton
  <2>3. IsFiniteSet({done}) BY FS_Singleton
  <2>4. Answered(r, a) = (saves \ {r}) \union {done} BY DEF Answered
  <2> HIDE DEF done
  <2>5. IsFiniteSet((saves \ {r}) \union {done}) BY <2>2, <2>3, FS_Union
  <2>6. QED BY <2>1, <2>4, <2>5
<1>2. ASSUME NEW kind \in {"create", "update", "merge"}, NEW g \in Drawing,
             PageType, Send(kind, g)
      PROVE  saves' \subseteq Sent /\ IsFiniteSet(saves')
  <2> DEFINE q == Request(kind, g)
  <2>1. Cardinality(saves) \in Nat BY FS_CardinalityType
  <2>2. q \in Sent BY <1>2, <2>1 DEF Request, Sent, PageType
  <2>3. saves' = saves \union {q} BY <1>2 DEF Send
  <2> HIDE DEF q
  <2>4. IsFiniteSet({q}) BY FS_Singleton
  <2>5. IsFiniteSet(saves \union {q}) BY <2>4, FS_Union
  <2>6. QED BY <2>2, <2>3, <2>5
<1>3. LET left == {[r EXCEPT !.kind = "orphan"] : r \in saves}
      IN left \subseteq Sent /\ IsFiniteSet(left)
  <2> DEFINE left == {[r EXCEPT !.kind = "orphan"] : r \in saves}
             f == [r \in saves |-> [r EXCEPT !.kind = "orphan"]]
  <2>1. left \subseteq Sent BY DEF Sent
  <2>2. f \in Surjection(saves, left) BY DEF Surjection
  <2> HIDE DEF left, f
  <2>3. IsFiniteSet(left) BY <2>2, FS_Surjection
  <2>4. QED BY <2>1, <2>3 DEF left
<1>4. QED BY <1>1, <1>2, <1>3

LEMMA MirroredStays ==
    ASSUME NEW p \in Address, NEW c \in Caches, NEW now \in Drawing,
           NEW d \in Draft \union {None}
    PROVE  Mirrored(p, c, now, d) \in Draft \union {None}
<1>1. (d # None /\ d.saved) \in BOOLEAN OBVIOUS
<1>2. QED BY <1>1 DEF Mirrored, Draft

LEMMA DrawnStays ==
    ASSUME EditorInv
    PROVE  /\ page \in Address /\ cache \in Caches /\ draft \in Draft \union {None}
           /\ line.now \in Drawing /\ saves \subseteq Sent /\ IsFiniteSet(saves)
BY HistoryParts DEF EditorInv, PageType

LEMMA WorkSteps == ASSUME EditorInv, Work PROVE Good
<1>1. LineStep /\ PanelType' BY CanvasSteps DEF EditorInv, Work
<1>2. mounted /\ UNCHANGED pageVars BY DEF Work
<1>3. PageType' BY <1>2 DEF EditorInv, PageType, pageVars
<1>4. EditorInv' BY <1>1, <1>2, <1>3 DEF EditorInv, LineStep, pageVars
<1>5. OneLineStep BY <1>1 DEF OneLineStep, LineStep
<1>6. KeepStep BY <1>2 DEF EditorInv, KeepStep, pageVars
<1>7. QED BY <1>4, <1>5, <1>6 DEF Good

LEMMA PressSteps == ASSUME EditorInv, PressUndo PROVE Good
<1>1. UNCHANGED <<line, edited, chosen, dialog, layouts, dirty, edits, pageVars>>
  BY DEF PressUndo
<1>2. asked' \in Trigger BY DEF PressUndo, EditorInv, PanelType, Trigger
<1>3. PanelType' BY <1>1, <1>2 DEF EditorInv, PanelType
<1>4. PageType' BY <1>1 DEF EditorInv, PageType, pageVars
<1>5. EditorInv' BY <1>1, <1>3, <1>4 DEF EditorInv, pageVars
<1>6. QED BY <1>1, <1>5 DEF Good, OneLineStep, KeepStep, pageVars

LEMMA FetchSteps ==
    ASSUME EditorInv, Refetch \/ (\E d \in Def : Loaded(d) \/ LoadFails(d))
    PROVE  Good
<1>1. CASE Refetch
  <2>1. PageType' BY <1>1 DEF Refetch, EditorInv, PageType
  <2>2. ShowPage(Screen) /\ UNCHANGED <<chosen, asked, edits>> BY <1>1 DEF Refetch
  <2>3. QED BY <2>1, <2>2, ScreenStays, ShownSteps
<1>2. ASSUME NEW d \in Def, Loaded(d) PROVE Good
  <2>1. [graph |-> server[d], draft |-> d \notin released] \in Entry
    BY DEF EditorInv, PageType, Entry
  <2>2. cache' \in Caches BY <1>2, <2>1, DrawnStays DEF Loaded, Caches
  <2>3. d \in Address BY DEF Address
  <2>4. Mirrored(d, cache', line.now, draft) \in Draft \union {None}
    BY <2>2, <2>3, DrawnStays, MirroredStays
  <2>5. draft' \in Draft \union {None} BY <1>2, <2>4, DrawnStays DEF Loaded
  <2>6. PageType' BY <1>2, <2>2, <2>5 DEF Loaded, EditorInv, PageType
  <2>7. ShowPage(Screen) /\ UNCHANGED <<chosen, asked, edits>> BY <1>2 DEF Loaded
  <2>8. QED BY <2>6, <2>7, ScreenStays, ShownSteps
<1>3. ASSUME NEW d \in Def, LoadFails(d) PROVE Good
  <2>1. PageType' BY <1>3 DEF LoadFails, EditorInv, PageType
  <2>2. ShowPage(Screen) /\ UNCHANGED <<chosen, asked, edits>> BY <1>3 DEF LoadFails
  <2>3. QED BY <2>1, <2>2, ScreenStays, ShownSteps
<1>4. QED BY <1>1, <1>2, <1>3

LEMMA SendSteps ==
    ASSUME EditorInv, Save \/ (\E mine \in BOOLEAN : SaveMerged(mine))
    PROVE  Good
<1>1. PageType BY DEF EditorInv
<1>2. CASE Save
  <2>1. saves' \subseteq Sent /\ IsFiniteSet(saves')
    <3>1. PICK kind \in {"create", "update", "merge"} : Send(kind, line.now)
      BY <1>2 DEF Save
    <3>2. QED BY <1>1, <3>1, DrawnStays, SavesStay
  <2>2. PageType' BY <1>1, <1>2, <2>1 DEF Save, PageType
  <2>3. UNCHANGED <<canvasVars, mounted, opened, conflict>> BY <1>2 DEF Save
  <2>4. QED BY <2>2, <2>3, QuietSteps
<1>3. ASSUME NEW mine \in BOOLEAN, SaveMerged(mine) PROVE Good
  <2> DEFINE g == IF mine THEN draft.graph ELSE Graph(page, cache)
  <2>1. g \in Drawing
    <3>1. Graph(page, cache) \in Drawing BY DrawnStays, GraphIsDrawn
    <3>2. draft \in Draft BY <1>3, DrawnStays DEF SaveMerged, Resolving
    <3>3. QED BY <3>1, <3>2 DEF Draft
  <2>2. Send("merge", g) BY <1>3 DEF SaveMerged
  <2> HIDE DEF g
  <2>3. saves' \subseteq Sent /\ IsFiniteSet(saves') BY <1>1, <2>1, <2>2, DrawnStays, SavesStay
  <2>4. PageType' BY <1>1, <1>3, <2>3 DEF SaveMerged, PageType
  <2>5. UNCHANGED <<canvasVars, mounted, opened, conflict>> BY <1>3 DEF SaveMerged
  <2>6. QED BY <2>4, <2>5, QuietSteps
<1>4. QED BY <1>2, <1>3

LEMMA AnswerSteps ==
    ASSUME EditorInv, NEW r \in saves,
           \/ Store(r) \/ SaveOk(r) \/ SaveFails(r) \/ MergeOk(r)
           \/ \E stamp \in Stamps : SaveRefused(r, stamp)
    PROVE  Good
<1>1. PageType /\ r \in Sent BY DrawnStays DEF EditorInv
<1>2. \A a \in {"ok", "done"} : Answered(r, a) \subseteq Sent /\ IsFiniteSet(Answered(r, a))
  BY DrawnStays, SavesStay
<1>3. r.graph \in Drawing /\ r.def \in Address BY <1>1 DEF Sent
<1>4. CASE Store(r)
  <2>1. saves' \subseteq Sent /\ IsFiniteSet(saves') BY <1>2, <1>4 DEF Store
  <2>2. server' \in [Def -> Drawing] BY <1>1, <1>3, <1>4 DEF Store, PageType
  <2>3. PageType' BY <1>1, <1>4, <2>1, <2>2 DEF Store, PageType
  <2>4. UNCHANGED <<canvasVars, mounted, opened, conflict>> BY <1>4 DEF Store
  <2>5. QED BY <2>3, <2>4, QuietSteps
<1>5. CASE SaveOk(r)
  <2> DEFINE s == [Screen EXCEPT !.line = Cleared(line),
                                 !.dirty = (dirty /\ r.visit # visit),
                                 !.opened = IF r.visit = visit THEN r.graph ELSE opened]
  <2>1. saves' \subseteq Sent /\ IsFiniteSet(saves') BY <1>2, <1>5 DEF SaveOk
  <2>2. loading' \subseteq Def BY <1>1, <1>5 DEF SaveOk, PageType
  <2>3. PageType' BY <1>1, <1>5, <2>1, <2>2 DEF SaveOk, PageType
  <2>4. Cleared(line) \in History /\ Cleared(line) = Line(<<>>, line.now, <<>>)
    BY DrawnStays, Forgets DEF Cleared
  <2>5. s \in ScreenType /\ s.line = Cleared(line) /\ s.mounted = mounted
    <3>1. opened \in Drawing BY DEF EditorInv
    <3>2. Screen \in ScreenType /\ Screen.mounted = mounted BY ScreenStays
    <3>3. QED BY <1>3, <2>4, <3>1, <3>2 DEF ScreenType
  <2>6. ShowPage(s) /\ UNCHANGED <<chosen, asked, edits>> BY <1>5 DEF SaveOk
  <2> HIDE DEF s
  <2>7. QED BY <2>3, <2>4, <2>5, <2>6, ShownSteps
<1>6. CASE SaveFails(r)
  <2>1. saves' \subseteq Sent /\ IsFiniteSet(saves') BY <1>2, <1>6 DEF SaveFails
  <2>2. PageType' BY <1>1, <1>6, <2>1 DEF SaveFails, PageType
  <2>3. UNCHANGED <<canvasVars, mounted, opened, conflict>> BY <1>6 DEF SaveFails
  <2>4. QED BY <2>2, <2>3, QuietSteps
<1>7. CASE MergeOk(r)
  <2>1. saves' \subseteq Sent /\ IsFiniteSet(saves') BY <1>2, <1>7 DEF MergeOk
  <2>2. draft' \in Draft \union {None} BY <1>3, <1>7 DEF MergeOk, Draft
  <2>3. conflict' \in {"none"} \union Stamps /\ loading' \subseteq Def
    BY <1>1, <1>7 DEF MergeOk, PageType
  <2>4. PageType' BY <1>1, <1>7, <2>1, <2>2, <2>3 DEF MergeOk, PageType
  <2>5. ShowPage(Screen) /\ UNCHANGED <<chosen, asked, edits>> BY <1>7 DEF MergeOk
  <2>6. QED BY <2>4, <2>5, ScreenStays, ShownSteps
<1>8. ASSUME NEW stamp \in Stamps, SaveRefused(r, stamp) PROVE Good
  <2>1. saves' \subseteq Sent /\ IsFiniteSet(saves') BY <1>2, <1>8 DEF SaveRefused
  <2>2. Mirrored(page, cache, line.now, draft) \in Draft \union {None}
    BY DrawnStays, MirroredStays
  <2>3. draft' \in Draft \union {None} BY <1>8, <2>2, DrawnStays DEF SaveRefused
  <2>4. conflict' \in {"none"} \union Stamps BY <1>1, <1>8 DEF SaveRefused, PageType
  <2>5. PageType' BY <1>1, <1>8, <2>1, <2>3, <2>4 DEF SaveRefused, PageType
  <2>6. ShowPage(Screen) /\ UNCHANGED <<chosen, asked, edits>> BY <1>8 DEF SaveRefused
  <2>7. QED BY <2>5, <2>6, ScreenStays, ShownSteps
<1>9. QED BY <1>4, <1>5, <1>6, <1>7, <1>8

LEMMA DiscardSteps == ASSUME EditorInv, Discard \/ DiscardDraft PROVE Good
<1>1. PageType BY DEF EditorInv
<1>2. CASE Discard
  <2>1. draft' \in Draft \union {None} BY <1>2, DrawnStays DEF Discard
  <2>2. PageType' BY <1>1, <1>2, <2>1 DEF Discard, Resolving, PageType
  <2>3. ShowPage(Screen) /\ UNCHANGED <<chosen, asked, edits>> BY <1>2 DEF Discard
  <2>4. QED BY <2>2, <2>3, ScreenStays, ShownSteps
<1>3. CASE DiscardDraft
  <2> DEFINE left == IF draft.def = page THEN None ELSE draft
  <2>1. left \in Draft \union {None} BY DrawnStays
  <2>2. draft' = Mirrored(page, cache, line.now, left) BY <1>3 DEF DiscardDraft
  <2> HIDE DEF left
  <2>3. draft' \in Draft \union {None} BY <2>1, <2>2, DrawnStays, MirroredStays
  <2>4. PageType' BY <1>1, <1>3, <2>3 DEF DiscardDraft, PageType
  <2>5. UNCHANGED <<canvasVars, mounted, opened, conflict>> BY <1>3 DEF DiscardDraft
  <2>6. QED BY <2>4, <2>5, QuietSteps
<1>4. QED BY <1>2, <1>3

(* A page that is left shows nothing.                                      *)
LEMMA LeavingSteps ==
    ASSUME EditorInv, PageType', conflict' = "none", asked' = NothingAsked, chosen' = None,
           UNCHANGED edits, NEW l, l \in {Draw(line, Blank), Line(<<>>, Blank, <<>>)},
           Show([Unmounted(Screen) EXCEPT !.dirty = FALSE, !.opened = Blank, !.line = l])
    PROVE  Good
<1>1. /\ line' = l /\ edited' = None /\ dialog' = None /\ layouts' = {}
      /\ dirty' = FALSE /\ mounted' = FALSE /\ opened' = Blank
  BY DEF Show, Unmounted, Screen
<1>2. Blank \in Drawing BY DEF Blank, Drawing
<1>3. LineStep
  <2>1. line \in History /\ Bounded(line) BY DEF EditorInv
  <2>2. CASE line' = Draw(line, Blank) BY <1>2, <2>1, <2>2, SnapshotSteps
  <2>3. CASE line' = Line(<<>>, Blank, <<>>) BY <1>2, <2>3, ForgettingSteps
  <2>4. QED BY <1>1, <2>2, <2>3
<1>4. asked' \in Trigger BY DEF NothingAsked, Asked, Trigger
<1>5. PanelType' BY <1>1, <1>4 DEF EditorInv, PanelType
<1>6. EditorInv' BY <1>1, <1>2, <1>3, <1>5 DEF EditorInv, LineStep
<1>7. QED BY <1>3, <1>6 DEF Good, OneLineStep, KeepStep, LineStep

LEMMA CloseSteps == ASSUME EditorInv, Close PROVE Good
<1>1. PageType' BY DEF Close, EditorInv, PageType, Address
<1>2. QED BY <1>1, LeavingSteps DEF Close

LEMMA OpenSteps ==
    ASSUME EditorInv, NEW q \in Def \union {New}, Open(q, FALSE)
    PROVE  Good
<1> DEFINE t == [Screen EXCEPT !.dirty = FALSE]
           s == Rendered(t, q, cache, loading', failed, conflict)
           l == Line(<<>>, s.line.now, <<>>)
<1>1. /\ line \in History /\ Bounded(line) /\ asked \in Trigger /\ mounted \in BOOLEAN
  BY DEF EditorInv, PanelType
<1>2. t \in ScreenType /\ t.line = line /\ t.mounted = mounted BY ScreenStays
<1> HIDE DEF t
<1>3. /\ s \in ScreenType /\ (s.mounted => conflict = "none")
      /\ s.line = line \/ (~mounted /\ s.mounted)
  BY <1>1, <1>2, DrawnStays, RenderedStays
<1>4. Show([s EXCEPT !.line = Cleared(@)]) BY DEF Open, t
<1> HIDE DEF s
<1>5. s.line.now \in Drawing BY <1>3, HistoryParts DEF ScreenType
<1>6. /\ line' = l /\ edited' = s.edited /\ dialog' = s.dialog
      /\ layouts' = s.layouts /\ dirty' = s.dirty /\ mounted' = s.mounted
      /\ opened' = s.opened
  BY <1>3, <1>4 DEF Show, Cleared, ScreenType
<1>7. LineStep /\ line'.now = s.line.now BY <1>5, <1>6, ForgettingSteps
<1> HIDE DEF l
<1>8. /\ s.edited \in Node \union {None} /\ s.dialog \in Edge \union {None}
      /\ s.layouts \subseteq Drawing /\ s.dirty \in BOOLEAN /\ s.mounted \in BOOLEAN
      /\ s.opened \in Drawing
  BY <1>3 DEF ScreenType
<1>9. PanelType' BY <1>6, <1>8 DEF Open, EditorInv, PanelType
<1>10. PageType'
  <2>1. page' \in Address /\ blocked' \subseteq Address BY DEF Open, Address
  <2>2. loading' \subseteq Def BY DEF Open, EditorInv, PageType
  <2>3. QED BY <2>1, <2>2 DEF Open, EditorInv, PageType
<1>11. conflict' = conflict BY DEF Open
<1>12. EditorInv' BY <1>3, <1>6, <1>7, <1>8, <1>9, <1>10, <1>11 DEF EditorInv, LineStep
<1>13. OneLineStep BY <1>7 DEF OneLineStep, LineStep
<1>14. KeepStep
  <2>1. SUFFICES ASSUME conflict' # "none" PROVE line'.now = line.now BY DEF KeepStep
  <2>2. s.line = line BY <1>3, <1>11, <2>1
  <2>3. QED BY <1>7, <2>2
<1>15. QED BY <1>12, <1>13, <1>14 DEF Good

LEMMA GoSteps == ASSUME EditorInv, NEW q \in Address, Go(q, FALSE) PROVE Good
<1>1. CASE q = None BY <1>1, CloseSteps DEF Go
<1>2. CASE q # None
  <2>1. q \in Def \union {New} /\ Open(q, FALSE) BY <1>2 DEF Address, Go
  <2>2. QED BY <2>1, OpenSteps
<1>3. QED BY <1>1, <1>2

LEMMA MovingOn ==
    ASSUME EditorInv,
           (\E q \in Def \union {New, None} : Navigate(q)) \/ ProceedAnyway \/ Stay \/ Reload
    PROVE  Good
<1>1. PageType BY DEF EditorInv
<1>2. ASSUME NEW q \in Def \union {New, None}, Navigate(q) PROVE Good
  <2>1. q \in Address BY DEF Address
  <2>2. CASE dirty
    <3>1. blocked' \subseteq Address BY <1>2, <2>1, <2>2 DEF Navigate
    <3>2. PageType' BY <1>1, <1>2, <2>2, <3>1 DEF Navigate, PageType
    <3>3. UNCHANGED <<canvasVars, mounted, opened, conflict>> BY <1>2, <2>2 DEF Navigate
    <3>4. QED BY <3>2, <3>3, QuietSteps
  <2>3. CASE ~dirty
    <3>1. Go(q, FALSE) BY <1>2, <2>3 DEF Navigate
    <3>2. QED BY <2>1, <3>1, GoSteps
  <2>4. QED BY <2>2, <2>3
<1>3. CASE ProceedAnyway
  <2>1. PICK q \in blocked : Go(q, FALSE) BY <1>3 DEF ProceedAnyway
  <2>2. q \in Address BY <1>1 DEF PageType
  <2>3. QED BY <2>1, <2>2, GoSteps
<1>4. CASE Stay
  <2>1. PageType' BY <1>1, <1>4 DEF Stay, PageType
  <2>2. UNCHANGED <<canvasVars, mounted, opened, conflict>> BY <1>4 DEF Stay
  <2>3. QED BY <2>1, <2>2, QuietSteps
<1>5. CASE Reload
  <2>1. saves' \subseteq Sent /\ IsFiniteSet(saves')
    BY <1>5, DrawnStays, SavesStay DEF Reload
  <2>2. page' \in Address /\ cache' \in Caches BY <1>5 DEF Reload, Address, Caches
  <2>3. PageType' BY <1>1, <1>5, <2>1, <2>2 DEF Reload, PageType
  <2>4. QED BY <1>5, <2>3, LeavingSteps DEF Reload
<1>6. QED BY <1>2, <1>3, <1>4, <1>5

LEMMA OtherSteps ==
    ASSUME EditorInv, NEW d \in Def, OtherSaves(d) \/ OtherReleases(d)
    PROVE  Good
<1>1. PageType BY DEF EditorInv
<1>2. CASE OtherSaves(d)
  <2>1. server' \in [Def -> Drawing]
    <3>1. server[d] \in Drawing BY <1>1 DEF PageType
    <3>2. [server[d] EXCEPT !.nodes = Node] \in Drawing BY <3>1 DEF Drawing
    <3>3. QED BY <1>1, <1>2, <3>2 DEF OtherSaves, PageType
  <2>2. others' \in Nat BY <1>1, <1>2 DEF OtherSaves, PageType
  <2>3. PageType' BY <1>1, <1>2, <2>1, <2>2 DEF OtherSaves, PageType
  <2>4. UNCHANGED <<canvasVars, mounted, opened, conflict>> BY <1>2 DEF OtherSaves
  <2>5. QED BY <2>3, <2>4, QuietSteps
<1>3. CASE OtherReleases(d)
  <2>1. PageType' BY <1>1, <1>3 DEF OtherReleases, PageType
  <2>2. UNCHANGED <<canvasVars, mounted, opened, conflict>> BY <1>3 DEF OtherReleases
  <2>3. QED BY <2>1, <2>2, QuietSteps
<1>4. QED BY <1>2, <1>3

LEMMA EditorInitially == Init => EditorInv
<1> SUFFICES ASSUME Init PROVE EditorInv
  OBVIOUS
<1>1. CanvasInit BY DEF Init
<1>2. Blank \in Drawing BY DEF Blank, Drawing
<1>3. line \in History /\ Bounded(line) BY <1>1, <1>2, Forgets DEF CanvasInit
<1>4. PanelType
  <2>1. asked \in Trigger BY <1>1 DEF CanvasInit, NothingAsked, Asked, Trigger
  <2>2. QED BY <1>1, <2>1 DEF CanvasInit, PanelType
<1>5. PageType
  <2>1. server \in [Def -> Drawing] BY DEF Init
  <2>2. cache \in Caches BY DEF Init, Caches
  <2>3. page \in Address BY DEF Init, Address
  <2>4. IsFiniteSet(saves) BY FS_EmptySet DEF Init
  <2>5. QED BY <2>1, <2>2, <2>3, <2>4 DEF Init, PageType
<1>6. opened \in Drawing /\ mounted \in BOOLEAN /\ (mounted => conflict = "none")
  BY <1>2 DEF Init
<1>7. QED BY <1>3, <1>4, <1>5, <1>6 DEF EditorInv

LEMMA EditorSteps == EditorInv /\ [Next]_vars => Good
<1> SUFFICES ASSUME EditorInv, [Next]_vars PROVE Good
  OBVIOUS
<1>1. CASE Work BY <1>1, WorkSteps
<1>2. CASE PressUndo BY <1>2, PressSteps
<1>3. CASE Refetch BY <1>3, FetchSteps
<1>4. CASE Answer
  <2>1. \/ \E d \in Def : Loaded(d) \/ LoadFails(d)
        \/ \E r \in saves : \/ Store(r) \/ SaveOk(r) \/ SaveFails(r) \/ MergeOk(r)
                            \/ \E stamp \in Stamps : SaveRefused(r, stamp)
    BY <1>4 DEF Answer
  <2>2. QED BY <2>1, FetchSteps, AnswerSteps
<1>5. CASE Save \/ (\E mine \in BOOLEAN : SaveMerged(mine)) BY <1>5, SendSteps
<1>6. CASE Discard \/ DiscardDraft BY <1>6, DiscardSteps
<1>7. CASE (\E q \in Def \union {New, None} : Navigate(q)) \/ ProceedAnyway \/ Stay \/ Reload
  BY <1>7, MovingOn
<1>8. CASE \E d \in Def : OtherSaves(d) \/ OtherReleases(d) BY <1>8, OtherSteps
<1>9. CASE UNCHANGED vars
  <2>1. PageType' BY <1>9 DEF EditorInv, PageType, vars, pageVars
  <2>2. UNCHANGED <<canvasVars, mounted, opened, conflict>> BY <1>9 DEF vars, pageVars
  <2>3. QED BY <2>1, <2>2, QuietSteps
<1>10. QED BY <1>1, <1>2, <1>3, <1>4, <1>5, <1>6, <1>7, <1>8, <1>9 DEF Next

LEMMA EditorInvariant == Spec => []EditorInv
<1>1. EditorInv /\ [Next]_vars => EditorInv' BY EditorSteps DEF Good
<1>2. QED BY EditorInitially, <1>1, PTL DEF Spec

(* canvasHistoryStore: past and future together hold at most maxDepth      *)
(* drawings, although only pushSnapshot caps, and whatever a canvas that   *)
(* is mounted again replays.                                               *)
THEOREM DepthHolds == Spec => []HistoryBounded
<1>1. EditorInv => HistoryBounded BY DEF EditorInv, Bounded, HistoryBounded
<1>2. QED BY EditorInvariant, <1>1, PTL

(* DefinitionEditorPage and ProcessCanvas implement UndoLine while the     *)
(* canvas stays mounted: every step is a step of the line or leaves it.    *)
THEOREM CanvasIsOneLine == Spec => OneLine
<1>1. EditorInv /\ [Next]_vars => [(mounted' => mounted) => UL!LineNext \/ UNCHANGED line]_line
  BY EditorSteps DEF Good, OneLineStep
<1>2. QED BY EditorInvariant, <1>1, PTL DEF Spec, OneLine

(* handleSave on a 409: the drawing that was refused is still what the     *)
(* page holds until the user merges, discards or leaves.                   *)
THEOREM RefusedDrawingStays == Spec => ConflictKeepsEdits
<1>1. EditorInv /\ [Next]_vars
        => [conflict' # "none" /\ visit' = visit => line'.now = line.now]_vars
  BY EditorSteps DEF Good, KeepStep
<1>2. QED BY EditorInvariant, <1>1, PTL DEF Spec, ConflictKeepsEdits
=============================================================================
