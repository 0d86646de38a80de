--------------------------- MODULE IrqLocksProofs ---------------------------
(***************************************************************************)
(* Threads and the interrupt never wait for each other in a circle, for    *)
(* every number of threads, every choice of operations and every length of *)
(* a report.  Locks are ranked; every operation takes a lock only while it *)
(* holds locks of a lower rank, and gives back whatever it takes.          *)
(***************************************************************************)
EXTENDS IrqLocks, WellFoundedInduction, TLAPS

Rank(l) ==
  IF l \in {"FAST_CHANNELS", "AFFINITY"} THEN 1
  ELSE IF l = "SHARED_BUFFERS" THEN 2 ELSE 3

StepSet == {"lock", "unlock"} \X Locks
StepSeq == Seq(StepSet)

\* The next step on a lock, from position i on, gives it back: it is held.
Pending(s, i, l) ==
  \E j \in i..Len(s) : s[j] = <<"unlock", l>> /\ \A k \in i..(j - 1) : s[k][2] # l

\* A step takes a lock that is given back later and ranks above all held, or
\* gives one back that is not given back again before it is taken.
GoodAt(s, i) ==
  /\ s[i][1] = "lock" =>
       /\ Pending(s, i + 1, s[i][2])
       /\ \A m \in Locks : Pending(s, i, m) => Rank(m) < Rank(s[i][2])
  /\ s[i][1] = "unlock" => ~Pending(s, i + 1, s[i][2])

Good(s) == s \in StepSeq /\ \A i \in 1..Len(s) : GoodAt(s, i)

\* A whole operation: it starts and ends with nothing held, above rank n.
Whole(s, n) ==
  /\ Good(s)
  /\ \A m \in Locks : ~Pending(s, 1, m)
  /\ \A i \in 1..Len(s) : Rank(s[i][2]) > n

LEMMA EmptyWhole == \A n \in Nat : Whole(<<>>, n)
  BY DEF Whole, Good, StepSeq, Pending

LEMMA RankType == \A l \in Locks : Rank(l) \in 1..3
  BY DEF Rank

\* What is still held inside s does not change when t follows.
LEMMA PendingConcat ==
  ASSUME NEW s \in StepSeq, NEW t \in StepSeq, NEW i \in 1..(Len(s) + 1), NEW m \in Locks,
         ~Pending(t, 1, m)
  PROVE  Pending(s \o t, i, m) <=> Pending(s, i, m)
<1> DEFINE st == s \o t
<1>1. /\ Len(st) = Len(s) + Len(t) /\ Len(s) \in Nat /\ Len(t) \in Nat
      /\ \A k \in 1..Len(s) : st[k] = s[k]
      /\ \A k \in 1..Len(t) : st[Len(s) + k] = t[k]
  BY DEF StepSeq
<1> HIDE DEF st
<1>2. ASSUME Pending(s, i, m) PROVE Pending(st, i, m)
  <2>1. PICK j \in i..Len(s) : s[j] = <<"unlock", m>> /\ \A k \in i..(j - 1) : s[k][2] # m
    BY <1>2 DEF Pending
  <2>2. j \in i..Len(st) /\ j \in 1..Len(s) /\ \A k \in i..(j - 1) : k \in 1..Len(s)
    BY <1>1, <2>1
  <2> QED
    BY <1>1, <2>1, <2>2 DEF Pending
<1>3. ASSUME Pending(st, i, m) PROVE Pending(s, i, m)
  <2>1. PICK j \in i..Len(st) : st[j] = <<"unlock", m>> /\ \A k \in i..(j - 1) : st[k][2] # m
    BY <1>3 DEF Pending
  <2>2. CASE j <= Len(s)
    <3>1. j \in i..Len(s) /\ j \in 1..Len(s) /\ \A k \in i..(j - 1) : k \in 1..Len(s)
      BY <1>1, <2>2
    <3> QED
      BY <1>1, <2>1, <3>1 DEF Pending
  <2>3. CASE j > Len(s)
    <3>0. j - Len(s) \in Nat
      BY <1>1, <2>3
    <3>1. PICK jj \in Nat : jj = j - Len(s)
      BY <3>0
    <3>2. jj \in 1..Len(t) /\ j = Len(s) + jj
      BY <1>1, <2>1, <2>3, <3>1
    <3>3. t[jj] = <<"unlock", m>>
      BY <1>1, <2>1, <3>2
    <3>4. \A k \in 1..(jj - 1) : t[k][2] # m
      <4> SUFFICES ASSUME NEW k \in 1..(jj - 1) PROVE t[k][2] # m
        OBVIOUS
      <4>1. Len(s) + k \in i..(j - 1) /\ k \in 1..Len(t)
        BY <1>1, <3>2
      <4> QED
        BY <1>1, <2>1, <4>1
    <3> QED
      BY <3>2, <3>3, <3>4 DEF Pending
  <2> QED
    BY <1>1, <2>2, <2>3
<1> QED
  BY <1>2, <1>3 DEF st

\* What is held inside t does not depend on what went before.
LEMMA PendingAfter ==
  ASSUME NEW s \in StepSeq, NEW t \in StepSeq, NEW i \in 1..(Len(t) + 1), NEW m \in Locks
  PROVE  Pending(s \o t, Len(s) + i, m) <=> Pending(t, i, m)
<1> DEFINE st == s \o t
<1>1. /\ Len(st) = Len(s) + Len(t) /\ Len(s) \in Nat /\ Len(t) \in Nat
      /\ \A k \in 1..Len(t) : st[Len(s) + k] = t[k]
  BY DEF StepSeq
<1> HIDE DEF st
<1>2. ASSUME Pending(t, i, m) PROVE Pending(st, Len(s) + i, m)
  <2>1. PICK j \in i..Len(t) : t[j] = <<"unlock", m>> /\ \A k \in i..(j - 1) : t[k][2] # m
    BY <1>2 DEF Pending
  <2>2. PICK jj \in Nat : jj = Len(s) + j
    BY <1>1
  <2>3. jj \in (Len(s) + i)..Len(st) /\ st[jj] = <<"unlock", m>>
    BY <1>1, <2>1, <2>2
  <2>4. \A k \in (Len(s) + i)..(jj - 1) : st[k][2] # m
    <3> SUFFICES ASSUME NEW k \in (Len(s) + i)..(jj - 1) PROVE st[k][2] # m
      OBVIOUS
    <3>1. PICK kk \in Nat : k = Len(s) + kk
      BY <1>1
    <3>2. kk \in i..(j - 1) /\ kk \in 1..Len(t)
      BY <1>1, <2>2, <3>1
    <3> QED
      BY <1>1, <2>1, <3>1, <3>2
  <2> QED
    BY <2>3, <2>4 DEF Pending
<1>3. ASSUME Pending(st, Len(s) + i, m) PROVE Pending(t, i, m)
  <2>1. PICK jj \in (Len(s) + i)..Len(st) :
          st[jj] = <<"unlock", m>> /\ \A k \in (Len(s) + i)..(jj - 1) : st[k][2] # m
    BY <1>3 DEF Pending
  <2>2. PICK j \in Nat : jj = Len(s) + j
    BY <1>1
  <2>3. j \in i..Len(t) /\ j \in 1..Len(t)
    BY <1>1, <2>1, <2>2
  <2>4. \A k \in i..(j - 1) : t[k][2] # m
    <3> SUFFICES ASSUME NEW k \in i..(j - 1) PROVE t[k][2] # m
      OBVIOUS
    <3>1. Len(s) + k \in (Len(s) + i)..(jj - 1) /\ k \in 1..Len(t)
      BY <1>1, <2>2, <2>3
    <3> QED
      BY <1>1, <2>1, <3>1
  <2> QED
    BY <1>1, <2>1, <2>2, <2>3, <2>4 DEF Pending
<1> QED
  BY <1>2, <1>3 DEF st

LEMMA StepType ==
  ASSUME NEW s \in StepSeq, NEW i \in 1..Len(s)
  PROVE  s[i] \in StepSet /\ s[i][1] \in {"lock", "unlock"} /\ s[i][2] \in Locks
<1>1. s[i] \in StepSet
  BY DEF StepSeq
<1> QED
  BY <1>1 DEF StepSet

\* One operation after the other.
LEMMA ConcatWhole ==
  ASSUME NEW s, NEW t, NEW n \in Nat, Whole(s, n), Whole(t, n)
  PROVE  Whole(s \o t, n)
<1> DEFINE st == s \o t
<1>1. s \in StepSeq /\ t \in StepSeq
  BY DEF Whole, Good
<1>2. /\ Len(st) = Len(s) + Len(t) /\ Len(s) \in Nat /\ Len(t) \in Nat /\ st \in StepSeq
      /\ \A k \in 1..Len(s) : st[k] = s[k]
      /\ \A k \in 1..Len(t) : st[Len(s) + k] = t[k]
  BY <1>1 DEF StepSeq
<1>3. \A i \in 1..(Len(s) + 1), m \in Locks : Pending(st, i, m) <=> Pending(s, i, m)
  BY <1>1, PendingConcat DEF Whole
<1>4. \A i \in 1..(Len(t) + 1), m \in Locks : Pending(st, Len(s) + i, m) <=> Pending(t, i, m)
  BY <1>1, PendingAfter
<1> HIDE DEF st
<1>5. ASSUME NEW i \in 1..Len(st)
      PROVE  GoodAt(st, i) /\ Rank(st[i][2]) > n
  <2>1. CASE i <= Len(s)
    <3>1. i \in 1..Len(s) /\ i \in 1..(Len(s) + 1) /\ i + 1 \in 1..(Len(s) + 1)
      BY <1>2, <2>1
    <3>2. GoodAt(s, i) /\ Rank(s[i][2]) > n
      BY <3>1 DEF Whole, Good
    <3>3. st[i] = s[i] /\ s[i][2] \in Locks
      BY <1>1, <1>2, <3>1, StepType
    <3> QED
      BY <1>3, <3>1, <3>2, <3>3 DEF GoodAt
  <2>2. CASE i > Len(s)
    <3>0. i - Len(s) \in Nat /\ i = Len(s) + (i - Len(s))
      BY <1>2, <2>2
    <3>1. PICK k \in Nat : i = Len(s) + k
      BY <3>0
    <3>2. k \in 1..Len(t) /\ k \in 1..(Len(t) + 1) /\ k + 1 \in 1..(Len(t) + 1)
          /\ i + 1 = Len(s) + (k + 1)
      BY <1>2, <2>2, <3>1
    <3>3. GoodAt(t, k) /\ Rank(t[k][2]) > n
      BY <3>2 DEF Whole, Good
    <3>4. st[i] = t[k] /\ t[k][2] \in Locks
      BY <1>1, <1>2, <3>1, <3>2, StepType
    <3>5. \A m \in Locks : /\ Pending(st, i, m) <=> Pending(t, k, m)
                           /\ Pending(st, i + 1, m) <=> Pending(t, k + 1, m)
      BY <1>4, <3>1, <3>2
    <3> QED
      BY <3>3, <3>4, <3>5 DEF GoodAt
  <2> QED
    BY <1>2, <2>1, <2>2
<1>6. \A m \in Locks : ~Pending(st, 1, m)
  BY <1>2, <1>3 DEF Whole
<1> QED
  BY <1>2, <1>5, <1>6 DEF Whole, Good, st

\* An operation under a lock that ranks below all it takes.
LEMMA UnderWhole ==
  ASSUME NEW b, NEW l \in Locks, NEW n \in Nat, Rank(l) > n, Whole(b, Rank(l))
  PROVE  Whole(Under(l, b), n)
<1> DEFINE u == Under(l, b)
<1>1. b \in StepSeq /\ Len(b) \in Nat
  BY DEF Whole, Good, StepSeq
<1>2. <<"lock", l>> \in StepSet /\ <<"unlock", l>> \in StepSet
  BY DEF StepSet
<1>3. /\ u \in StepSeq /\ Len(u) = Len(b) + 2
      /\ u[1] = <<"lock", l>> /\ u[Len(b) + 2] = <<"unlock", l>>
      /\ \A k \in 1..Len(b) : u[k + 1] = b[k]
  <2>0. \A x \in StepSet : <<x>> \in Seq(StepSet) /\ Len(<<x>>) = 1 /\ <<x>>[1] = x
    OBVIOUS
  <2>1. PICK a \in Seq(StepSet) : a = <<<<"lock", l>>>> /\ Len(a) = 1 /\ a[1] = <<"lock", l>>
    BY <1>2, <2>0, Zenon
  <2>2. PICK z \in Seq(StepSet) : z = <<<<"unlock", l>>>> /\ Len(z) = 1 /\ z[1] = <<"unlock", l>>
    BY <1>2, <2>0, Zenon
  <2>3. u = (a \o b) \o z
    BY <2>1, <2>2 DEF Under
  <2>4. PICK ab \in Seq(StepSet) : /\ ab = a \o b /\ Len(ab) = 1 + Len(b) /\ ab[1] = a[1]
                                  /\ \A k \in 1..Len(b) : ab[k + 1] = b[k]
    <3>1. /\ a \o b \in Seq(StepSet) /\ Len(a \o b) = Len(a) + Len(b)
          /\ \A k \in 1..Len(a) : (a \o b)[k] = a[k]
          /\ \A k \in 1..Len(b) : (a \o b)[Len(a) + k] = b[k]
      BY <1>1 DEF StepSeq
    <3>2. \A k \in 1..Len(b) : Len(a) + k = k + 1
      BY <1>1, <2>1
    <3>3. PICK ab : ab = a \o b
      OBVIOUS
    <3>4. /\ ab \in Seq(StepSet) /\ Len(ab) = 1 + Len(b) /\ ab[1] = a[1]
      BY <2>1, <3>1, <3>3
    <3>5. \A k \in 1..Len(b) : ab[k + 1] = b[k]
      <4> SUFFICES ASSUME NEW k \in 1..Len(b) PROVE ab[k + 1] = b[k]
        OBVIOUS
      <4>1. ab[Len(a) + k] = b[k] /\ Len(a) + k = k + 1
        BY <3>1, <3>2, <3>3
      <4> QED
        BY <4>1
    <3> QED
      BY <3>3, <3>4, <3>5
  <2>5. /\ u = ab \o z /\ u \in Seq(StepSet) /\ Len(u) = Len(ab) + 1
        /\ \A k \in 1..Len(ab) : u[k] = ab[k]
        /\ u[Len(ab) + 1] = z[1]
    BY <2>2, <2>3, <2>4
  <2> HIDE DEF u
  <2>6. u[1] = ab[1]
    BY <1>1, <2>4, <2>5
  <2>7. \A k \in 1..Len(b) : k + 1 \in 1..Len(ab)
    BY <1>1, <2>4
  <2>8. Len(ab) + 1 = Len(b) + 2
    BY <1>1, <2>4
  <2> QED
    BY <1>1, <2>1, <2>2, <2>4, <2>5, <2>6, <2>7, <2>8 DEF StepSeq
<1> HIDE DEF u
<1>4. \A k \in 1..Len(b) : b[k] \in StepSet /\ b[k][2] \in Locks /\ b[k][2] # l
                           /\ Rank(b[k][2]) > Rank(l)
  BY <1>1, StepType, RankType DEF Whole
<1>5. ASSUME NEW i \in 1..(Len(b) + 1)
      PROVE  /\ Pending(u, i + 1, l)
             /\ \A m \in Locks \ {l} : Pending(u, i + 1, m) <=> Pending(b, i, m)
  <2>1. Pending(u, i + 1, l)
    <3>1. Len(b) + 2 \in (i + 1)..Len(u)
      BY <1>1, <1>3
    <3>2. \A k \in (i + 1)..((Len(b) + 2) - 1) : u[k][2] # l
      <4> SUFFICES ASSUME NEW k \in (i + 1)..((Len(b) + 2) - 1) PROVE u[k][2] # l
        OBVIOUS
      <4>1. k - 1 \in 1..Len(b) /\ k = (k - 1) + 1
        BY <1>1
      <4> QED
        BY <1>3, <1>4, <4>1
    <3> QED
      BY <1>3, <3>1, <3>2 DEF Pending
  <2>2. ASSUME NEW m \in Locks \ {l}, Pending(b, i, m) PROVE Pending(u, i + 1, m)
    <3>1. PICK j \in i..Len(b) : b[j] = <<"unlock", m>> /\ \A k \in i..(j - 1) : b[k][2] # m
      BY <2>2 DEF Pending
    <3>2. j + 1 \in (i + 1)..Len(u) /\ u[j + 1] = <<"unlock", m>>
      BY <1>1, <1>3, <3>1
    <3>3. \A k \in (i + 1)..((j + 1) - 1) : u[k][2] # m
      <4> SUFFICES ASSUME NEW k \in (i + 1)..((j + 1) - 1) PROVE u[k][2] # m
        OBVIOUS
      <4>1. k - 1 \in i..(j - 1) /\ k - 1 \in 1..Len(b) /\ k = (k - 1) + 1
        BY <1>1, <3>1
      <4> QED
        BY <1>3, <3>1, <4>1
    <3> QED
      BY <3>2, <3>3 DEF Pending
  <2>3. ASSUME NEW m \in Locks \ {l}, Pending(u, i + 1, m) PROVE Pending(b, i, m)
    <3>1. PICK j \in (i + 1)..Len(u) :
            u[j] = <<"unlock", m>> /\ \A k \in (i + 1)..(j - 1) : u[k][2] # m
      BY <2>3 DEF Pending
    <3>2. j # Len(b) + 2
      BY <1>3, <2>3, <3>1
    <3>3. PICK h \in Int : h = j - 1
      BY <1>1
    <3>4. h \in i..Len(b) /\ h \in 1..Len(b) /\ j = h + 1
      BY <1>1, <1>3, <3>1, <3>2, <3>3
    <3>5. \A k \in i..(h - 1) : b[k][2] # m
      <4> SUFFICES ASSUME NEW k \in i..(h - 1) PROVE b[k][2] # m
        OBVIOUS
      <4>1. k + 1 \in (i + 1)..(j - 1) /\ k \in 1..Len(b)
        BY <1>1, <3>4
      <4> QED
        BY <1>3, <3>1, <4>1
    <3> QED
      BY <1>3, <3>1, <3>4, <3>5 DEF Pending
  <2> QED
    BY <2>1, <2>2, <2>3
<1>6. \A m \in Locks : ~Pending(u, (Len(b) + 2) + 1, m)
  BY <1>1, <1>3 DEF Pending
<1>7. \A m \in Locks : ~Pending(u, 1, m)
  <2> SUFFICES ASSUME NEW m \in Locks, Pending(u, 1, m) PROVE FALSE
    OBVIOUS
  <2>1. PICK j \in 1..Len(u) : u[j] = <<"unlock", m>> /\ \A k \in 1..(j - 1) : u[k][2] # m
    BY DEF Pending
  <2>2. j # 1
    BY <1>3, <2>1
  <2>3. 1 \in 1..(j - 1)
    BY <1>1, <1>3, <2>2
  <2>4. m # l
    BY <1>3, <2>1, <2>3
  <2>5. j \in 2..Len(u) /\ \A k \in 2..(j - 1) : k \in 1..(j - 1)
    BY <1>1, <1>3, <2>2
  <2>6. Pending(u, 1 + 1, m)
    BY <2>1, <2>5 DEF Pending
  <2>7. Pending(b, 1, m)
    BY <1>1, <1>5, <2>4, <2>6
  <2> QED
    BY <2>7 DEF Whole
<1>8. ASSUME NEW i \in 1..Len(u)
      PROVE  GoodAt(u, i) /\ Rank(u[i][2]) > n
  <2>1. CASE i = 1
    <3>1. Pending(u, i + 1, l)
      BY <1>1, <1>5, <2>1
    <3> QED
      BY <1>3, <1>7, <2>1, <3>1 DEF GoodAt
  <2>2. CASE i = Len(b) + 2
    BY <1>3, <1>6, <2>2 DEF GoodAt
  <2>3. CASE i # 1 /\ i # Len(b) + 2
    <3>0. i - 1 \in 1..Len(b)
      BY <1>1, <1>3, <2>3
    <3>1. PICK k \in 1..Len(b) : k = i - 1
      BY <3>0
    <3>2. i = k + 1 /\ i + 1 = (k + 1) + 1 /\ k \in 1..(Len(b) + 1) /\ k + 1 \in 1..(Len(b) + 1)
      BY <1>1, <3>1
    <3>3. u[i] = b[k] /\ b[k][2] \in Locks \ {l} /\ Rank(b[k][2]) > Rank(l)
      BY <1>3, <1>4, <3>2
    <3>4. GoodAt(b, k)
      BY DEF Whole, Good
    <3>5. \A m \in Locks \ {l} : /\ Pending(u, i, m) <=> Pending(b, k, m)
                                 /\ Pending(u, i + 1, m) <=> Pending(b, k + 1, m)
      BY <1>5, <3>2
    <3>6. GoodAt(u, i)
      <4>1. ASSUME u[i][1] = "lock", NEW m \in Locks, Pending(u, i, m)
            PROVE  Rank(m) < Rank(u[i][2])
        <5>1. CASE m = l
          BY <3>3, <5>1, RankType
        <5>2. CASE m # l
          BY <3>3, <3>4, <3>5, <4>1, <5>2 DEF GoodAt
        <5> QED
          BY <5>1, <5>2
      <4> QED
        BY <3>3, <3>4, <3>5, <4>1 DEF GoodAt
    <3>7. Rank(u[i][2]) > n
      BY <3>3, RankType
    <3> QED
      BY <3>6, <3>7
  <2> QED
    BY <2>1, <2>2, <2>3
<1> QED
  BY <1>3, <1>7, <1>8 DEF Whole, Good, u

LEMMA Ranks ==
  /\ \A l \in Locks : Rank(l) \in Nat
  /\ Rank("FAST_CHANNELS") = 1 /\ Rank("AFFINITY") = 1 /\ Rank("SHARED_BUFFERS") = 2
  /\ Rank("TRACER") = 3 /\ Rank("heap") = 3
  /\ {"FAST_CHANNELS", "AFFINITY", "SHARED_BUFFERS", "TRACER", "heap"} = Locks
  BY DEF Rank, Locks

LEMMA TouchWhole ==
  ASSUME NEW l \in Locks, NEW n \in Nat, Rank(l) > n
  PROVE  Whole(Touch(l), n)
  BY EmptyWhole, UnderWhole, Ranks DEF Touch

LEMMA SimpleOps ==
  /\ \A n \in {0, 1, 2} : Whole(record, n) /\ Whole(Resize, n)
  /\ Whole(Touch("FAST_CHANNELS"), 0) /\ Whole(Touch("AFFINITY"), 0)
  /\ Whole(Touch("SHARED_BUFFERS"), 0) /\ Whole(Touch("heap"), 0)
  /\ \A n \in {0, 1} : Whole(Under("SHARED_BUFFERS", Resize), n)
  /\ Whole(Under("FAST_CHANNELS", Resize), 0) /\ Whole(Under("AFFINITY", Resize), 0)
<1>1. \A n \in {0, 1, 2} : Whole(Touch("TRACER"), n) /\ Whole(Touch("heap"), n)
  BY TouchWhole, Ranks
<1>2. /\ Whole(Touch("FAST_CHANNELS"), 0) /\ Whole(Touch("AFFINITY"), 0)
      /\ Whole(Touch("SHARED_BUFFERS"), 0)
  BY TouchWhole, Ranks
<1>3. \A n \in {0, 1, 2} : Whole(Resize, n)
  BY <1>1 DEF Resize
<1>4. /\ \A n \in {0, 1} : Whole(Under("SHARED_BUFFERS", Resize), n)
      /\ Whole(Under("FAST_CHANNELS", Resize), 0) /\ Whole(Under("AFFINITY", Resize), 0)
  BY <1>3, UnderWhole, Ranks
<1> QED
  BY <1>1, <1>2, <1>3, <1>4 DEF record

LEMMA Chain == \A s, t : Whole(s, 0) /\ Whole(t, 0) => Whole(s \o t, 0)
  BY ConcatWhole

\* Every operation takes its locks in the order of their ranks and ends with
\* none of them held.
LEMMA OpsWhole == \A name \in OpNames : Whole(Steps(name), 0)
<1>1. Whole(record, 0)
  BY SimpleOps
<1>2. Whole(get_channel, 0)
  BY SimpleOps DEF get_channel
<1>3. Whole(send, 0)
  BY <1>2, SimpleOps, Chain DEF send
<1>4. Whole(recv, 0)
  BY SimpleOps, Chain DEF recv
<1>5. Whole(ensure_channel, 0)
  <2>1. Whole(Touch("FAST_CHANNELS") \o Under("SHARED_BUFFERS", Resize), 0)
    BY SimpleOps, Chain
  <2>2. Whole(Touch("FAST_CHANNELS") \o Under("SHARED_BUFFERS", Resize)
                \o Under("FAST_CHANNELS", Resize), 0)
    BY <2>1, SimpleOps, Chain
  <2>3. Whole(Touch("FAST_CHANNELS") \o Under("SHARED_BUFFERS", Resize)
                \o Under("FAST_CHANNELS", Resize) \o record, 0)
    BY <1>1, <2>2, Chain
  <2> QED
    BY <2>3, SimpleOps, Chain DEF ensure_channel
<1>6. Whole(drop_channel, 0)
  <2>1. Whole(Resize \o Under("SHARED_BUFFERS", Resize), 1)
    BY SimpleOps, ConcatWhole
  <2>2. Whole(Resize \o Under("SHARED_BUFFERS", Resize) \o record, 1)
    BY <2>1, SimpleOps, ConcatWhole
  <2> QED
    BY <2>2, UnderWhole, Ranks DEF drop_channel
<1>7. Whole(pin_pair, 0)
  <2>1. Whole(Touch("AFFINITY") \o Touch("AFFINITY"), 0)
    BY SimpleOps, Chain
  <2>2. Whole(Touch("AFFINITY") \o Touch("AFFINITY") \o Under("AFFINITY", Resize), 0)
    BY <2>1, SimpleOps, Chain
  <2>3. Whole(Touch("AFFINITY") \o Touch("AFFINITY") \o Under("AFFINITY", Resize)
                \o Under("AFFINITY", Resize), 0)
    BY <2>2, SimpleOps, Chain
  <2> QED
    BY <1>1, <2>3, Chain DEF pin_pair
<1>8. Whole(unpin, 0) /\ Whole(dump, 0) /\ Whole(heap_alloc, 0) /\ Whole(traced, 0)
  BY <1>1, SimpleOps DEF unpin, dump, heap_alloc, traced
<1>9. Whole(record \o get_channel, 0)
  BY <1>1, <1>2, Chain
<1>10. Whole(record \o get_channel \o Touch("FAST_CHANNELS"), 0)
  BY <1>9, SimpleOps, Chain
<1>11. Whole(hot_new, 0)
  <2>1. Whole(record \o get_channel \o Touch("FAST_CHANNELS") \o ensure_channel, 0)
    BY <1>5, <1>10, Chain
  <2>2. Whole(record \o get_channel \o Touch("FAST_CHANNELS") \o ensure_channel
                \o Touch("FAST_CHANNELS"), 0)
    BY <2>1, SimpleOps, Chain
  <2>3. Whole(record \o get_channel \o Touch("FAST_CHANNELS") \o ensure_channel
                \o Touch("FAST_CHANNELS") \o pin_pair, 0)
    BY <1>7, <2>2, Chain
  <2> QED
    BY <2>3, SimpleOps, Chain DEF hot_new
<1>12. Whole(hot_kept, 0)
  <2>1. Whole(record \o get_channel \o Touch("FAST_CHANNELS") \o Touch("AFFINITY"), 0)
    BY <1>10, SimpleOps, Chain
  <2>2. Whole(record \o get_channel \o Touch("FAST_CHANNELS") \o Touch("AFFINITY")
                \o Touch("AFFINITY"), 0)
    BY <2>1, SimpleOps, Chain
  <2> QED
    BY <2>2, SimpleOps, Chain DEF hot_kept
<1>13. Whole(hot_refused, 0)
  <2>1. Whole(record \o get_channel \o record, 0)
    BY <1>1, <1>9, Chain
  <2>2. Whole(record \o get_channel \o record \o pin_pair, 0)
    BY <1>7, <2>1, Chain
  <2> QED
    BY <2>2, SimpleOps, Chain DEF hot_refused
<1>14. Whole(reclaim, 0)
  <2>1. Whole(drop_channel \o unpin, 0)
    BY <1>6, <1>8, Chain
  <2> QED
    BY <1>8, <2>1, Chain DEF reclaim
<1>15. Whole(anomaly, 0)
  <2>1. Whole(get_channel \o record, 0)
    BY <1>1, <1>2, Chain
  <2> QED
    BY <1>14, <2>1, Chain DEF anomaly
<1> HIDE DEF Whole
<1>16. /\ Steps("send") = send /\ Steps("recv") = recv
       /\ Steps("ensure_channel") = ensure_channel /\ Steps("drop_channel") = drop_channel
       /\ Steps("dump") = dump /\ Steps("heap_alloc") = heap_alloc
       /\ Steps("hot_new") = hot_new /\ Steps("hot_kept") = hot_kept
       /\ Steps("hot_refused") = hot_refused /\ Steps("reclaim") = reclaim
       /\ Steps("anomaly") = anomaly /\ Steps("traced") = traced
       /\ Steps("active") = get_channel
  BY DEF Steps
<1> QED
  BY <1>2, <1>3, <1>4, <1>5, <1>6, <1>8, <1>11, <1>12, <1>13, <1>14, <1>15, <1>16 DEF OpNames

---------------------------------------------------------------------------
(* A report is the sequence of its decisions                               *)

\* The partial results of FlattenSeq exist.
LEMMA FlattenExists ==
  ASSUME NEW q, NEW n \in Nat
  PROVE  \E f : f = [i \in 1..n |-> IF i = 1 THEN q[i] ELSE f[i - 1] \o q[i]]
<1> DEFINE Ok(k) == \E f : f = [i \in 1..k |-> IF i = 1 THEN q[i] ELSE f[i - 1] \o q[i]]
           Bad == {k \in Nat : ~Ok(k)}
<1>1. SUFFICES ASSUME Bad # {} PROVE FALSE
  OBVIOUS
<1>2. IsWellFoundedOn(OpToRel(<, Nat), Nat)
  BY NatLessThanWellFounded
<1>3. PICK x \in Bad : \A y \in Bad : ~(<<y, x>> \in OpToRel(<, Nat))
  BY <1>1, <1>2, WFMin
<1>4. x \in Nat /\ ~Ok(x) /\ \A y \in Nat : y < x => Ok(y)
  BY <1>3 DEF OpToRel
<1> HIDE DEF Bad
<1>5. x # 0
  <2>1. SUFFICES Ok(0)
    BY <1>4
  <2> DEFINE f == [i \in 1..0 |-> q[i]]
  <2>2. f = [i \in 1..0 |-> IF i = 1 THEN q[i] ELSE f[i - 1] \o q[i]]
    OBVIOUS
  <2> QED
    BY <2>2
<1>6. PICK y \in Nat : x = y + 1
  <2>1. x - 1 \in Nat /\ x = (x - 1) + 1
    BY <1>4, <1>5
  <2> QED
    BY <2>1
<1>7. Ok(y)
  <2>1. y < x
    BY <1>6
  <2> HIDE DEF Ok
  <2> QED
    BY <1>4, <2>1
<1>8. PICK f : f = [i \in 1..y |-> IF i = 1 THEN q[i] ELSE f[i - 1] \o q[i]]
  BY <1>7
<1> DEFINE g == [i \in 1..(y + 1) |->
                   IF i = y + 1 THEN IF i = 1 THEN q[i] ELSE f[i - 1] \o q[i] ELSE f[i]]
<1>9. \A i \in 1..y : g[i] = f[i]
  OBVIOUS
<1>10. \A i \in 1..(y + 1) : g[i] = IF i = 1 THEN q[i] ELSE g[i - 1] \o q[i]
  <2> SUFFICES ASSUME NEW i \in 1..(y + 1)
               PROVE  g[i] = IF i = 1 THEN q[i] ELSE g[i - 1] \o q[i]
    OBVIOUS
  <2>1. CASE i = y + 1 /\ i # 1
    <3>1. i - 1 \in 1..y
      BY <2>1
    <3>2. g[i - 1] = f[i - 1]
      BY <1>9, <3>1
    <3>3. g[i] = f[i - 1] \o q[i]
      BY <2>1
    <3> QED
      BY <2>1, <3>2, <3>3
  <2>2. CASE i # y + 1 /\ i # 1
    <3>1. i \in 1..y /\ i - 1 \in 1..y
      BY <2>2
    <3>2. f[i] = f[i - 1] \o q[i]
      BY <1>8, <2>2, <3>1
    <3> HIDE DEF g
    <3> QED
      BY <1>9, <2>2, <3>1, <3>2
  <2>3. CASE i = 1
    <3>1. g[1] = q[1]
      <4>1. CASE y = 0
        BY <4>1
      <4>2. CASE y # 0
        BY <1>8, <1>9, <4>2
      <4> QED
        BY <4>1, <4>2
    <3> QED
      BY <2>3, <3>1
  <2> QED
    BY <2>1, <2>2, <2>3
<1>11. g = [i \in 1..(y + 1) |-> IF i = 1 THEN q[i] ELSE g[i - 1] \o q[i]]
  <2>1. PICK gg : gg = g /\ gg = [i \in 1..(y + 1) |-> gg[i]]
    OBVIOUS
  <2> HIDE DEF g
  <2> QED
    BY <1>10, <2>1
<1> HIDE DEF g
<1> QED
  BY <1>4, <1>6, <1>11

LEMMA FlattenWhole ==
  ASSUME NEW n \in Nat, NEW q, n # 0, Len(q) = n, \A i \in 1..n : Whole(q[i], 0)
  PROVE  Whole(FlattenSeq(q), 0)
<1> DEFINE flatten[i \in 1..Len(q)] == IF i = 1 THEN q[i] ELSE flatten[i - 1] \o q[i]
<1>1. FlattenSeq(q) = flatten[Len(q)]
  BY DEF FlattenSeq
<1>2. flatten = [i \in 1..Len(q) |-> IF i = 1 THEN q[i] ELSE flatten[i - 1] \o q[i]]
  BY FlattenExists
<1> HIDE DEF flatten
<1>3. \A i \in 1..n : flatten[i] = IF i = 1 THEN q[i] ELSE flatten[i - 1] \o q[i]
  BY <1>2
<1> DEFINE Bad == {i \in 1..n : ~Whole(flatten[i], 0)}
<1>4. SUFFICES ASSUME Bad # {} PROVE FALSE
  BY <1>1
<1>5. IsWellFoundedOn(OpToRel(<, Nat), Nat)
  BY NatLessThanWellFounded
<1>6. Bad \in SUBSET Nat
  OBVIOUS
<1>7. PICK x \in Bad : \A y \in Bad : ~(<<y, x>> \in OpToRel(<, Nat))
  BY <1>4, <1>5, <1>6, WFMin
<1>8. x \in 1..n /\ ~Whole(flatten[x], 0) /\ \A y \in 1..n : y < x => Whole(flatten[y], 0)
  <2>1. x \in 1..n /\ ~Whole(flatten[x], 0)
    OBVIOUS
  <2>2. \A y \in Bad : ~(y < x)
    BY <1>6, <1>7, <2>1 DEF OpToRel
  <2> QED
    BY <2>1, <2>2
<1>9. CASE x = 1
  BY <1>3, <1>8, <1>9
<1>10. CASE x # 1
  <2>1. x - 1 \in 1..n /\ x - 1 < x
    BY <1>8, <1>10
  <2>2. Whole(flatten[x - 1], 0) /\ Whole(q[x], 0)
    BY <1>8, <2>1
  <2>3. flatten[x] = flatten[x - 1] \o q[x]
    BY <1>3, <1>8, <1>10
  <2> QED
    BY <1>8, <2>2, <2>3, Chain
<1> QED
  BY <1>9, <1>10

LEMMA ReportWhole ==
  ASSUME NEW n \in Nat \ {0}, NEW ds \in [1..n -> IsrOps]
  PROVE  Whole(adapt_and_report(ds), 0)
<1> DEFINE q == [i \in 1..Len(ds) |-> Steps(ds[i])]
<1>1. Len(ds) = n /\ Len(q) = n
  OBVIOUS
<1>2. \A i \in 1..n : Whole(q[i], 0)
  <2> SUFFICES ASSUME NEW i \in 1..n PROVE Whole(q[i], 0)
    OBVIOUS
  <2>1. ds[i] \in OpNames
    BY LockConstants
  <2>2. q[i] = Steps(ds[i])
    BY <1>1
  <2> QED
    BY <2>1, <2>2, OpsWhole
<1>3. adapt_and_report(ds) = record \o FlattenSeq(q) \o Touch("AFFINITY")
  BY DEF adapt_and_report
<1> HIDE DEF q
<1>4. Whole(FlattenSeq(q), 0)
  BY <1>1, <1>2, FlattenWhole
<1>5. Whole(record \o FlattenSeq(q), 0)
  BY <1>4, SimpleOps, Chain
<1> QED
  BY <1>3, <1>5, SimpleOps, Chain

---------------------------------------------------------------------------
(* The invariant                                                           *)

\* What a context has still to do fits what it holds.
Fits(who, s) == Good(s) /\ \A l \in Locks : holder[l] = who <=> Pending(s, 1, l)

LockInv ==
  /\ holder \in [Locks -> Threads \cup {isr, nobody}]
  /\ running \in Threads /\ inIsr \in BOOLEAN
  /\ DOMAIN todo = Threads /\ todo = [t \in Threads |-> todo[t]]
  /\ \A t \in Threads : Fits(t, todo[t])
  /\ Fits(isr, isrTodo)
  /\ ~inIsr => isrTodo = <<>>

LEMMA EmptyFits ==
  ASSUME NEW who, \A l \in Locks : holder[l] # who
  PROVE  Fits(who, <<>>)
<1>1. Good(<<>>) /\ \A m \in Locks : ~Pending(<<>>, 1, m)
  BY EmptyWhole DEF Whole
<1> QED
  BY <1>1 DEF Fits

LEMMA InitLocks == Init => LockInv
<1> SUFFICES ASSUME Init PROVE LockInv
  OBVIOUS
<1>1. \A l \in Locks : holder[l] = nobody
  BY DEF Init
<1>2. nobody \notin Threads /\ nobody # isr
  BY LockConstants DEF nobody, isr
<1>3. Fits(isr, <<>>) /\ \A t \in Threads : Fits(t, <<>>)
  BY <1>1, <1>2, EmptyFits
<1> QED
  BY <1>3 DEF Init, LockInv

\* After a step is taken, what is left is the rest of the sequence.
LEMMA PendingTail ==
  ASSUME NEW s \in StepSeq, s # <<>>, NEW l \in Locks, NEW i \in 1..Len(s)
  PROVE  Pending(Tail(s), i, l) <=> Pending(s, i + 1, l)
<1> DEFINE t == Tail(s)
<1>1. /\ Len(s) \in Nat \ {0} /\ Len(t) = Len(s) - 1 /\ t \in StepSeq
      /\ \A k \in 1..Len(t) : t[k] = s[k + 1]
  BY DEF StepSeq
<1> HIDE DEF t
<1>2. ASSUME Pending(t, i, l) PROVE Pending(s, i + 1, l)
  <2>1. PICK j \in i..Len(t) : t[j] = <<"unlock", l>> /\ \A k \in i..(j - 1) : t[k][2] # l
    BY <1>2 DEF Pending
  <2>2. j + 1 \in (i + 1)..Len(s) /\ s[j + 1] = <<"unlock", l>>
    BY <1>1, <2>1
  <2>3. \A k \in (i + 1)..((j + 1) - 1) : s[k][2] # l
    <3> SUFFICES ASSUME NEW k \in (i + 1)..((j + 1) - 1) PROVE s[k][2] # l
      OBVIOUS
    <3>1. k - 1 \in i..(j - 1) /\ k - 1 \in 1..Len(t) /\ k = (k - 1) + 1
      BY <1>1, <2>1
    <3> QED
      BY <1>1, <2>1, <3>1
  <2> QED
    BY <2>2, <2>3 DEF Pending
<1>3. ASSUME Pending(s, i + 1, l) PROVE Pending(t, i, l)
  <2>1. PICK j \in (i + 1)..Len(s) :
          s[j] = <<"unlock", l>> /\ \A k \in (i + 1)..(j - 1) : s[k][2] # l
    BY <1>3 DEF Pending
  <2>2. PICK h \in Int : h = j - 1
    BY <1>1
  <2>3. h \in i..Len(t) /\ h \in 1..Len(t) /\ j = h + 1
    BY <1>1, <2>1, <2>2
  <2>4. \A k \in i..(h - 1) : t[k][2] # l
    <3> SUFFICES ASSUME NEW k \in i..(h - 1) PROVE t[k][2] # l
      OBVIOUS
    <3>1. k + 1 \in (i + 1)..(j - 1) /\ k \in 1..Len(t)
      BY <1>1, <2>3
    <3> QED
      BY <1>1, <2>1, <3>1
  <2> QED
    BY <1>1, <2>1, <2>3, <2>4 DEF Pending
<1> QED
  BY <1>2, <1>3 DEF t

LEMMA GoodTail ==
  ASSUME NEW s, Good(s), s # <<>>
  PROVE  Good(Tail(s))
<1> DEFINE t == Tail(s)
<1>1. /\ s \in StepSeq /\ Len(s) \in Nat \ {0} /\ Len(t) = Len(s) - 1 /\ t \in StepSeq
      /\ \A k \in 1..Len(t) : t[k] = s[k + 1]
  BY DEF Good, StepSeq
<1>2. \A i \in 1..Len(s), l \in Locks : Pending(t, i, l) <=> Pending(s, i + 1, l)
  BY <1>1, PendingTail
<1> HIDE DEF t
<1>3. ASSUME NEW i \in 1..Len(t) PROVE GoodAt(t, i)
  <2>1. i + 1 \in 1..Len(s) /\ i \in 1..Len(s) /\ t[i] = s[i + 1]
    BY <1>1
  <2>2. GoodAt(s, i + 1) /\ s[i + 1][2] \in Locks
    BY <1>1, <2>1, StepType DEF Good
  <2> QED
    BY <1>2, <2>1, <2>2 DEF GoodAt
<1> QED
  BY <1>1, <1>3 DEF Good, t

\* A lock is held before the first step on it gives it back.
LEMMA HeadHeld ==
  ASSUME NEW s, Good(s), s # <<>>, NEW l \in Locks
  PROVE  /\ Head(s) = s[1] /\ Head(s)[2] \in Locks /\ Head(s)[1] \in {"lock", "unlock"}
         /\ Head(s)[2] # l => (Pending(s, 1, l) <=> Pending(Tail(s), 1, l))
         /\ Head(s) = <<"lock", l>> => ~Pending(s, 1, l) /\ Pending(Tail(s), 1, l)
         /\ Head(s) = <<"unlock", l>> => Pending(s, 1, l) /\ ~Pending(Tail(s), 1, l)
<1>1. s \in StepSeq /\ Len(s) \in Nat \ {0} /\ Head(s) = s[1] /\ 1 \in 1..Len(s)
  BY DEF Good, StepSeq
<1>2. Pending(Tail(s), 1, l) <=> Pending(s, 1 + 1, l)
  BY <1>1, PendingTail
<1>3. s[1][2] \in Locks /\ s[1][1] \in {"lock", "unlock"} /\ GoodAt(s, 1)
  BY <1>1, StepType DEF Good
<1>4. s[1][2] # l => (Pending(s, 1, l) <=> Pending(s, 2, l))
  <2>1. ASSUME s[1][2] # l, Pending(s, 1, l) PROVE Pending(s, 2, l)
    <3>1. PICK j \in 1..Len(s) : s[j] = <<"unlock", l>> /\ \A k \in 1..(j - 1) : s[k][2] # l
      BY <2>1 DEF Pending
    <3>2. j # 1
      BY <2>1, <3>1
    <3>3. j \in 2..Len(s) /\ \A k \in 2..(j - 1) : k \in 1..(j - 1)
      BY <1>1, <3>2
    <3> QED
      BY <3>1, <3>3 DEF Pending
  <2>2. ASSUME s[1][2] # l, Pending(s, 2, l) PROVE Pending(s, 1, l)
    <3>1. PICK j \in 2..Len(s) : s[j] = <<"unlock", l>> /\ \A k \in 2..(j - 1) : s[k][2] # l
      BY <2>2 DEF Pending
    <3>2. j \in 1..Len(s) /\ \A k \in 1..(j - 1) : k = 1 \/ k \in 2..(j - 1)
      BY <1>1, <3>1
    <3> QED
      BY <2>2, <3>1, <3>2 DEF Pending
  <2> QED
    BY <2>1, <2>2
<1>5. s[1] = <<"lock", l>> => ~Pending(s, 1, l) /\ Pending(s, 2, l)
  <2> SUFFICES ASSUME s[1] = <<"lock", l>> PROVE ~Pending(s, 1, l) /\ Pending(s, 2, l)
    OBVIOUS
  <2>1. Pending(s, 2, l)
    BY <1>3 DEF GoodAt
  <2>2. ~(Rank(l) < Rank(l))
    BY RankType
  <2>3. s[1][1] = "lock" /\ s[1][2] = l
    OBVIOUS
  <2>4. Pending(s, 1, l) => Rank(l) < Rank(l)
    BY <1>3, <2>3 DEF GoodAt
  <2> QED
    BY <2>1, <2>2, <2>4
<1>6. s[1] = <<"unlock", l>> => Pending(s, 1, l) /\ ~Pending(s, 2, l)
  <2> SUFFICES ASSUME s[1] = <<"unlock", l>> PROVE Pending(s, 1, l) /\ ~Pending(s, 2, l)
    OBVIOUS
  <2>1. ~Pending(s, 2, l)
    BY <1>3 DEF GoodAt
  <2>2. \A k \in 1..(1 - 1) : s[k][2] # l
    OBVIOUS
  <2>3. Pending(s, 1, l)
    BY <1>1, <2>2 DEF Pending
  <2> QED
    BY <2>1, <2>3
<1> QED
  BY <1>1, <1>2, <1>3, <1>4, <1>5, <1>6

\* A lock step keeps the fit of the context that takes it and of the others.
LEMMA LockStepFits ==
  ASSUME LockInv, NEW who \in Threads \cup {isr}, NEW s, Fits(who, s), LockStep(who, s)
  PROVE  /\ Fits(who, Tail(s))'
         /\ \A d \in Threads \cup {isr} : \A t : d # who /\ Fits(d, t) => Fits(d, t)'
         /\ holder' \in [Locks -> Threads \cup {isr, nobody}]
<1>1. Good(s) /\ s # <<>> /\ Good(Tail(s))
  BY GoodTail DEF LockStep, Fits
<1>2. PICK op, l : op = Head(s)[1] /\ l = Head(s)[2]
  OBVIOUS
<1>3. /\ l \in Locks /\ op \in {"lock", "unlock"} /\ Head(s) = <<op, l>>
  <2>1. s[1] \in StepSet /\ Head(s) = s[1] /\ Head(s)[2] \in Locks /\ Head(s)[1] \in {"lock", "unlock"}
    <3>1. s \in StepSeq /\ 1 \in 1..Len(s) /\ Head(s) = s[1]
      BY <1>1 DEF Good, StepSeq
    <3> QED
      BY <3>1, StepType
  <2> QED
    BY <1>2, <2>1 DEF StepSet
<1>4. nobody \notin Threads /\ nobody # isr
  BY LockConstants DEF nobody, isr
<1>5. /\ holder \in [Locks -> Threads \cup {isr, nobody}]
      /\ \A m \in Locks : holder[m] = who <=> Pending(s, 1, m)
  BY DEF LockInv, Fits
<1>6. \A m \in Locks : m # l => (Pending(s, 1, m) <=> Pending(Tail(s), 1, m))
  BY <1>1, <1>2, HeadHeld
<1>7. CASE op = "lock"
  <2>1. holder' = [holder EXCEPT ![l] = who] /\ holder[l] = nobody
    BY <1>2, <1>3, <1>7 DEF LockStep
  <2>2. holder'[l] = who /\ \A m \in Locks : m # l => holder'[m] = holder[m]
    BY <1>3, <1>5, <2>1
  <2>3. Pending(Tail(s), 1, l)
    BY <1>1, <1>3, <1>7, HeadHeld
  <2>4. \A m \in Locks : holder'[m] = who <=> Pending(Tail(s), 1, m)
    BY <1>5, <1>6, <2>2, <2>3
  <2>5. \A d \in Threads \cup {isr} : d # who => \A m \in Locks : holder'[m] = d <=> holder[m] = d
    BY <1>4, <2>1, <2>2
  <2>6. holder' \in [Locks -> Threads \cup {isr, nobody}]
    BY <1>5, <2>1
  <2> QED
    BY <1>1, <2>4, <2>5, <2>6 DEF Fits
<1>8. CASE op = "unlock"
  <2>1. holder' = [holder EXCEPT ![l] = nobody]
    BY <1>2, <1>3, <1>8 DEF LockStep
  <2>2. holder'[l] = nobody /\ \A m \in Locks : m # l => holder'[m] = holder[m]
    BY <1>3, <1>5, <2>1
  <2>3. ~Pending(Tail(s), 1, l) /\ Pending(s, 1, l)
    BY <1>1, <1>3, <1>8, HeadHeld
  <2>4. \A m \in Locks : holder'[m] = who <=> Pending(Tail(s), 1, m)
    BY <1>4, <1>5, <1>6, <2>2, <2>3
  <2>5. \A d \in Threads \cup {isr} : d # who => \A m \in Locks : holder'[m] = d <=> holder[m] = d
    BY <1>3, <1>4, <1>5, <2>2, <2>3
  <2>6. holder' \in [Locks -> Threads \cup {isr, nobody}]
    BY <1>5, <2>1
  <2> QED
    BY <1>1, <2>4, <2>5, <2>6 DEF Fits
<1> QED
  BY <1>3, <1>7, <1>8

LEMMA StepLocks ==
  ASSUME LockInv, [Next]_vars
  PROVE  LockInv'
<1>0. isr \notin Threads
  BY LockConstants
<1>1. ASSUME NEW t \in Threads, NEW name \in ThreadOps, ThreadCall(t, name) PROVE LockInv'
  <2>1. /\ todo[t] = <<>> /\ todo' = [todo EXCEPT ![t] = Steps(name)]
        /\ holder' = holder /\ running' = running /\ inIsr' = inIsr /\ isrTodo' = isrTodo
    BY <1>1 DEF ThreadCall
  <2>2. Whole(Steps(name), 0)
    BY OpsWhole, LockConstants
  <2>3. PICK s : s = Steps(name) /\ Good(s) /\ \A l \in Locks : ~Pending(s, 1, l)
    BY <2>2 DEF Whole
  <2>4. \A l \in Locks : holder[l] # t
    <3>1. \A l \in Locks : holder[l] = t <=> Pending(<<>>, 1, l)
      BY <2>1 DEF LockInv, Fits
    <3>2. \A l \in Locks : ~Pending(<<>>, 1, l)
      BY EmptyWhole DEF Whole
    <3> QED
      BY <3>1, <3>2
  <2>5. Fits(t, s)'
    BY <2>1, <2>3, <2>4 DEF Fits
  <2>6. DOMAIN todo' = Threads /\ todo' = [d \in Threads |-> todo'[d]] /\ todo'[t] = s
        /\ \A d \in Threads : d # t => todo'[d] = todo[d]
    BY <2>1, <2>3 DEF LockInv
  <2>7. \A d \in Threads : Fits(d, todo[d]) /\ Fits(isr, isrTodo)
    BY DEF LockInv
  <2>8. \A d \in Threads : Fits(d, todo[d])'
    BY <2>1, <2>5, <2>6, <2>7 DEF Fits
  <2> QED
    BY <2>1, <2>6, <2>7, <2>8 DEF LockInv, Fits
<1>2. ASSUME NEW t \in Threads, ThreadStep(t) PROVE LockInv'
  <2>1. /\ LockStep(t, todo[t]) /\ todo' = [todo EXCEPT ![t] = Tail(todo[t])]
        /\ running' = running /\ inIsr' = inIsr /\ isrTodo' = isrTodo
    BY <1>2 DEF ThreadStep
  <2>2. PICK s : s = todo[t] /\ Fits(t, s) /\ LockStep(t, s)
    BY <2>1 DEF LockInv
  <2>3. /\ Fits(t, Tail(s))'
        /\ \A d \in Threads \cup {isr} : \A u : d # t /\ Fits(d, u) => Fits(d, u)'
        /\ holder' \in [Locks -> Threads \cup {isr, nobody}]
    BY <2>2, LockStepFits
  <2>4. DOMAIN todo' = Threads /\ todo' = [d \in Threads |-> todo'[d]] /\ todo'[t] = Tail(s)
        /\ \A d \in Threads : d # t => todo'[d] = todo[d]
    BY <2>1, <2>2 DEF LockInv
  <2>5. (\A d \in Threads : Fits(d, todo[d])) /\ Fits(isr, isrTodo)
    BY DEF LockInv
  <2>6. ASSUME NEW d \in Threads PROVE Fits(d, todo[d])'
    <3>1. PICK u : u = todo'[d]
      OBVIOUS
    <3>2. Fits(d, u)'
      <4>1. CASE d = t
        BY <2>3, <2>4, <3>1, <4>1
      <4>2. CASE d # t
        <5>1. Fits(d, u)
          BY <2>4, <2>5, <3>1, <4>2
        <5> QED
          BY <2>3, <4>2, <5>1
      <4> QED
        BY <4>1, <4>2
    <3> QED
      BY <3>1, <3>2 DEF Fits
  <2>7. Fits(isr, isrTodo)'
    <3>1. PICK u : u = isrTodo
      OBVIOUS
    <3>2. Fits(isr, u)'
      BY <1>0, <2>3, <2>5, <3>1
    <3> QED
      BY <2>1, <3>1, <3>2 DEF Fits
  <2> QED
    BY <2>1, <2>3, <2>4, <2>6, <2>7 DEF LockInv
<1>3. ASSUME timer_preempt PROVE LockInv'
  <2>1. /\ ~inIsr /\ inIsr' = TRUE /\ holder' = holder /\ running' = running /\ todo' = todo
        /\ \/ isrTodo' = <<>>
           \/ \E n \in 1..MaxDecisions : \E ds \in [1..n -> IsrOps] : isrTodo' = adapt_and_report(ds)
    BY <1>3 DEF timer_preempt
  <2>2. \A l \in Locks : holder[l] # isr
    <3>1. \A l \in Locks : holder[l] = isr <=> Pending(<<>>, 1, l)
      BY <2>1 DEF LockInv, Fits
    <3>2. \A l \in Locks : ~Pending(<<>>, 1, l)
      BY EmptyWhole DEF Whole
    <3> QED
      BY <3>1, <3>2
  <2>3. Whole(isrTodo', 0)
    <3>1. CASE isrTodo' = <<>>
      BY <3>1, EmptyWhole
    <3>2. CASE \E n \in 1..MaxDecisions : \E ds \in [1..n -> IsrOps] : isrTodo' = adapt_and_report(ds)
      <4>1. PICK n \in 1..MaxDecisions : \E ds \in [1..n -> IsrOps] : isrTodo' = adapt_and_report(ds)
        BY <3>2
      <4>2. n \in Nat \ {0}
        BY LockConstants
      <4>3. PICK ds \in [1..n -> IsrOps] : isrTodo' = adapt_and_report(ds)
        BY <4>1
      <4> QED
        BY <4>2, <4>3, ReportWhole
    <3> QED
      BY <2>1, <3>1, <3>2
  <2>4. Fits(isr, isrTodo)'
    BY <2>1, <2>2, <2>3 DEF Fits, Whole
  <2>5. \A d \in Threads : Fits(d, todo[d])'
    BY <2>1 DEF LockInv, Fits
  <2> QED
    BY <2>1, <2>4, <2>5 DEF LockInv
<1>4. ASSUME IsrStep PROVE LockInv'
  <2>1. /\ LockStep(isr, isrTodo) /\ isrTodo' = Tail(isrTodo) /\ inIsr
        /\ running' = running /\ inIsr' = inIsr /\ todo' = todo
    BY <1>4 DEF IsrStep
  <2>2. PICK s : s = isrTodo /\ Fits(isr, s) /\ LockStep(isr, s)
    BY <2>1 DEF LockInv
  <2>3. /\ Fits(isr, Tail(s))'
        /\ \A d \in Threads \cup {isr} : \A u : d # isr /\ Fits(d, u) => Fits(d, u)'
        /\ holder' \in [Locks -> Threads \cup {isr, nobody}]
    BY <2>2, LockStepFits
  <2>4. ASSUME NEW d \in Threads PROVE Fits(d, todo[d])'
    <3>1. PICK u : u = todo[d]
      OBVIOUS
    <3>2. Fits(d, u)
      BY <3>1 DEF LockInv
    <3>3. Fits(d, u)'
      BY <1>0, <2>3, <3>2
    <3> QED
      BY <2>1, <3>1, <3>3 DEF Fits
  <2>5. Fits(isr, isrTodo)'
    BY <2>1, <2>2, <2>3 DEF Fits
  <2> QED
    BY <2>1, <2>3, <2>4, <2>5 DEF LockInv
<1>5. ASSUME NEW t \in Threads, IsrReturn(t) PROVE LockInv'
  BY <1>5 DEF IsrReturn, LockInv, Fits
<1>6. CASE UNCHANGED vars
  BY <1>6 DEF vars, LockInv, Fits
<1> QED
  BY <1>1, <1>2, <1>3, <1>4, <1>5, <1>6 DEF Next

\* The inductive invariant of the locks.
LEMMA LocksInvariant == Spec => []LockInv
<1>1. Init => LockInv
  BY InitLocks
<1>2. LockInv /\ [Next]_vars => LockInv'
  BY StepLocks
<1> QED
  BY <1>1, <1>2, PTL DEF Spec

\* Who waits for a lock holds only locks of a lower rank.
LEMMA WaitsUpward ==
  ASSUME LockInv, NEW t \in Threads, Blocked(t), NEW m \in Locks, holder[m] = t
  PROVE  \E l \in Locks : holder[l] # nobody /\ Rank(m) < Rank(l)
<1>1. PICK s : s = todo[t]
  OBVIOUS
<1>2. /\ Good(s) /\ s # <<>> /\ Head(s)[1] = "lock" /\ holder[Head(s)[2]] # nobody
      /\ Pending(s, 1, m)
  BY <1>1 DEF LockInv, Fits, Blocked
<1>3. Head(s) = s[1] /\ Head(s)[2] \in Locks
  BY <1>2, HeadHeld
<1>4. 1 \in 1..Len(s)
  BY <1>2 DEF Good, StepSeq
<1>5. GoodAt(s, 1)
  BY <1>2, <1>4 DEF Good
<1> QED
  BY <1>2, <1>3, <1>5 DEF GoodAt

\* The operations on FAST_CHANNELS, SHARED_BUFFERS, AFFINITY, TRACER and the
\* heap never leave the threads waiting for each other in a circle, for every
\* number of threads and every length of a report in the interrupt.
THEOREM ThreadsNeverDeadlock == Spec => []NoCircularWait
<1>1. LockInv => NoCircularWait
  <2> SUFFICES ASSUME LockInv, ~inIsr, NEW t0 \in Threads, todo[t0] # <<>>,
                      \A t \in Threads : todo[t] # <<>> => Blocked(t)
               PROVE  FALSE
    BY DEF NoCircularWait
  <2>1. \A l \in Locks : holder[l] # isr
    <3>1. \A l \in Locks : holder[l] = isr <=> Pending(<<>>, 1, l)
      BY DEF LockInv, Fits
    <3>2. \A l \in Locks : ~Pending(<<>>, 1, l)
      BY EmptyWhole DEF Whole
    <3> QED
      BY <3>1, <3>2
  <2>2. ASSUME NEW m \in Locks, holder[m] # nobody
        PROVE  \E l \in Locks : holder[l] # nobody /\ Rank(m) < Rank(l)
    <3>1. PICK t \in Threads : holder[m] = t
      BY <2>1, <2>2 DEF LockInv
    <3>2. Pending(todo[t], 1, m)
      BY <3>1 DEF LockInv, Fits
    <3>3. todo[t] # <<>>
      <4>1. ~Pending(<<>>, 1, m)
        BY EmptyWhole DEF Whole
      <4> QED
        BY <3>2, <4>1
    <3> QED
      BY <3>1, <3>3, WaitsUpward
  <2>3. PICK l1 \in Locks : holder[l1] # nobody
    <3>1. Blocked(t0) /\ Good(todo[t0])
      BY DEF LockInv, Fits
    <3>2. PICK s : s = todo[t0]
      OBVIOUS
    <3>3. Head(s)[2] \in Locks /\ holder[Head(s)[2]] # nobody
      BY <3>1, <3>2, Ranks, HeadHeld DEF Blocked
    <3> QED
      BY <3>3
  <2>4. PICK l2 \in Locks : holder[l2] # nobody /\ Rank(l1) < Rank(l2)
    BY <2>2, <2>3
  <2>5. PICK l3 \in Locks : holder[l3] # nobody /\ Rank(l2) < Rank(l3)
    BY <2>2, <2>4
  <2>6. PICK l4 \in Locks : holder[l4] # nobody /\ Rank(l3) < Rank(l4)
    BY <2>2, <2>5
  <2> QED
    BY <2>4, <2>5, <2>6, RankType
<1> QED
  BY <1>1, LocksInvariant, PTL

\* A report that has interrupted no holder of a lock finds the next lock free.
ReportUnhindered ==
  inIsr /\ (\A l \in Locks : holder[l] \notin Threads) /\ isrTodo # <<>>
        /\ Head(isrTodo)[1] = "lock" => holder[Head(isrTodo)[2]] = nobody

\* adapt_and_report never spins on a lock that it holds itself: whatever it
\* decides, only a thread it has interrupted can stop it.
THEOREM ReportNeverStopsItself == Spec => []ReportUnhindered
<1>1. LockInv => ReportUnhindered
  <2> SUFFICES ASSUME LockInv, inIsr, \A l \in Locks : holder[l] \notin Threads,
                      isrTodo # <<>>, Head(isrTodo)[1] = "lock"
               PROVE  holder[Head(isrTodo)[2]] = nobody
    BY DEF ReportUnhindered
  <2>1. PICK s : s = isrTodo
    OBVIOUS
  <2>2. Good(s) /\ s # <<>> /\ Head(s)[1] = "lock"
    BY <2>1 DEF LockInv, Fits
  <2>3. PICK l \in Locks : l = Head(s)[2] /\ Head(s) = s[1]
    BY <2>2, Ranks, HeadHeld
  <2>4. 1 \in 1..Len(s) /\ s \in StepSeq
    BY <2>2 DEF Good, StepSeq
  <2>5. Head(s) = <<"lock", l>>
    BY <2>2, <2>3, <2>4, StepType DEF StepSet
  <2>6. ~Pending(s, 1, l)
    BY <2>2, <2>5, HeadHeld
  <2>7. holder[l] # isr /\ holder[l] \in Threads \cup {isr, nobody}
    BY <2>1, <2>6 DEF LockInv, Fits
  <2> QED
    BY <2>1, <2>3, <2>7
<1> QED
  BY <1>1, LocksInvariant, PTL
=============================================================================
