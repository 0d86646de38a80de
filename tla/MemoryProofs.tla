---------------------------- MODULE MemoryProofs -----------------------------
(***************************************************************************)
(* Proofs about Memory, Loader and ChannelPolicy. Memory, for every number *)
(* of frames, areas, pages, programs and calls: programs share neither a   *)
(* frame nor what was in it, and a page that was granted stays usable. The *)
(* linker, for all libraries: it loads the closure of what is needed, and  *)
(* apart from each other. The channels of the policy engine, for all pairs *)
(* that fit its tables: they are accounted for and opened sparingly.       *)
(***************************************************************************)
EXTENDS Memory, Loader, ChannelPolicy, FiniteSetTheorems, WellFoundedInduction, TLAPS

----------------------------------------------------------------------------
(* The least of a set, and the rank of a member.                            *)

LEMMA MinIsLeast ==
  ASSUME NEW S \in SUBSET Nat, S # {}
  PROVE  Min(S) \in S /\ \A x \in S : Min(S) <= x
<1>1. IsWellFoundedOn(OpToRel(<, Nat), Nat)
  BY NatLessThanWellFounded
<1>2. PICK m \in S : \A y \in S : ~(<<y, m>> \in OpToRel(<, Nat))
  BY <1>1, WFMin
<1>3. ASSUME NEW y \in S PROVE m <= y
  <2>1. ~(y < m)
    BY <1>2 DEF OpToRel
  <2>2. y \in Nat /\ m \in Nat
    OBVIOUS
  <2> QED
    BY <2>1, <2>2
<1>4. \E x \in S : \A y \in S : x <= y
  BY <1>3
<1> QED
  BY <1>4 DEF Min

Below(S, x) == {y \in S : y < x}

\* Two members of a finite set of numbers have different ranks.
LEMMA RanksDiffer ==
  ASSUME NEW S \in SUBSET Nat, IsFiniteSet(S), NEW x \in S, NEW y \in S, x < y
  PROVE  Cardinality(Below(S, x)) < Cardinality(Below(S, y))
<1>1. Below(S, y) \in SUBSET S /\ Below(S, x) \in SUBSET Below(S, y)
  <2>1. \A z \in S : z < x => z < y
    OBVIOUS
  <2> QED
    BY <2>1 DEF Below
<1>2. x \in Below(S, y) /\ x \notin Below(S, x)
  BY DEF Below
<1>3. IsFiniteSet(Below(S, y))
  BY <1>1, FS_Subset
<1>4. /\ IsFiniteSet(Below(S, x))
      /\ Cardinality(Below(S, x)) <= Cardinality(Below(S, y))
      /\ Cardinality(Below(S, x)) # Cardinality(Below(S, y))
  BY <1>1, <1>2, <1>3, FS_Subset
<1>5. Cardinality(Below(S, x)) \in Nat /\ Cardinality(Below(S, y)) \in Nat
  BY <1>3, <1>4, FS_CardinalityType
<1> QED
  BY <1>4, <1>5

LEMMA RankBound ==
  ASSUME NEW S \in SUBSET Nat, IsFiniteSet(S), NEW x \in S
  PROVE  Cardinality(Below(S, x)) \in 0 .. Cardinality(S) - 1
<1>1. Below(S, x) \in SUBSET S /\ x \notin Below(S, x)
  BY DEF Below
<1>2. /\ IsFiniteSet(Below(S, x)) /\ Cardinality(Below(S, x)) <= Cardinality(S)
      /\ Cardinality(Below(S, x)) # Cardinality(S)
  BY <1>1, FS_Subset
<1>3. Cardinality(Below(S, x)) \in Nat /\ Cardinality(S) \in Nat
  BY <1>2, FS_CardinalityType
<1> QED
  BY <1>2, <1>3

\* Every rank below the size of the set is some member's.
LEMMA RanksFill ==
  ASSUME NEW S \in SUBSET Nat, IsFiniteSet(S), NEW k \in Nat, k < Cardinality(S)
  PROVE  \E x \in S : Cardinality(Below(S, x)) = k
<1> DEFINE T == 0 .. Cardinality(S) - 1
           f == [x \in S |-> Cardinality(Below(S, x))]
<1>1. Cardinality(S) \in Nat
  BY FS_CardinalityType
<1>2. IsFiniteSet(T) /\ Cardinality(T) = Cardinality(S)
  <2>1. PICK n \in Nat : n = Cardinality(S)
    BY <1>1
  <2>2. IsFiniteSet(0 .. n - 1) /\ Cardinality(0 .. n - 1) = n
    BY FS_Interval
  <2> QED
    BY <2>1, <2>2
<1>3. f \in [S -> T]
  BY RankBound
<1>4. \A x, y \in S : f[x] = f[y] => x = y
  <2>1. SUFFICES ASSUME NEW x \in S, NEW y \in S, x < y PROVE f[x] # f[y]
    OBVIOUS
  <2>2. Cardinality(Below(S, x)) < Cardinality(Below(S, y))
    BY <2>1, RanksDiffer
  <2>3. f[x] \in Nat /\ f[y] \in Nat
    BY <1>1, <1>3
  <2> QED
    BY <2>2, <2>3
<1> HIDE DEF T
<1>5. f \in Injection(S, T)
  BY <1>3, <1>4 DEF Injection, IsInjective
<1> HIDE DEF f
<1>6. f \in Surjection(S, T)
  BY <1>2, <1>5, FS_Injection
<1>7. k \in T
  BY <1>1 DEF T
<1>8. \E x \in S : f[x] = k
  BY <1>6, <1>7 DEF Surjection
<1> QED
  BY <1>8 DEF f

\* The frames of an allocation are free and one for each page.
LEMMA FreshFrames ==
  ASSUME used \subseteq Frames, NEW ps \in SUBSET Nat, IsFiniteSet(ps),
         CanAlloc(Cardinality(ps))
  PROVE  \E f : /\ f = FrameFor(ps) /\ DOMAIN f = ps
                /\ \A v \in ps : f[v] \in Frames /\ f[v] \notin used
                /\ \A u, v \in ps : f[u] = f[v] => u = v
<1>1. Free \in SUBSET Nat /\ Free \in SUBSET Frames /\ IsFiniteSet(Free)
  BY MemAssumption, FS_Subset DEF Free
<1>2. PICK f : f = FrameFor(ps)
  OBVIOUS
<1>3. Cardinality(ps) \in Nat /\ Cardinality(Free) \in Nat /\ Cardinality(ps) <= Cardinality(Free)
  BY <1>1, FS_CardinalityType DEF CanAlloc
<1>4. ASSUME NEW v \in ps
      PROVE  f[v] \in Free /\ Cardinality(Below(Free, f[v])) = Cardinality(Below(ps, v))
  <2>1. Cardinality(Below(ps, v)) \in 0 .. Cardinality(ps) - 1
    BY RankBound
  <2>2. \E g \in Free : Cardinality(Below(Free, g)) = Cardinality(Below(ps, v))
    BY <1>1, <1>3, <2>1, RanksFill
  <2>3. f[v] = CHOOSE g \in Free : Cardinality(Below(Free, g)) = Cardinality(Below(ps, v))
    BY <1>2 DEF FrameFor, Below
  <2> QED
    BY <2>2, <2>3
<1>5. ASSUME NEW u \in ps, NEW v \in ps, f[u] = f[v] PROVE u = v
  <2>1. Cardinality(Below(ps, u)) = Cardinality(Below(ps, v))
    BY <1>4, <1>5
  <2>2. Cardinality(Below(ps, u)) \in Nat
    BY RankBound, <1>3
  <2>3. ~(u < v) /\ ~(v < u)
    BY <2>1, <2>2, RanksDiffer
  <2> QED
    BY <2>3
<1>6. DOMAIN f = ps
  BY <1>2 DEF FrameFor
<1> QED
  BY <1>1, <1>2, <1>4, <1>5, <1>6 DEF Free

----------------------------------------------------------------------------
(* The invariant.                                                           *)

Books == [mmap_next: Nat, brk_base: Nat, brk_cur: Nat, parent: Nat]
Owners == Programs \cup {Clean}
Areas ==
  {e \in [base: Nat, pages: Nat, write: BOOLEAN, lazy: BOOLEAN, valid: BOOLEAN] :
      e.base + e.pages <= Stack}
Tables == [VmaSlots -> Areas]

\* Programs are numbered in the order they start and none is its own parent; the
\* current one is alive.
Counted ==
  /\ IsFiniteSet(Started) /\ Started = 1 .. Cardinality(Started) /\ Started \subseteq Programs
  /\ progs \in [Started -> Books] /\ \A s \in Started : progs[s].parent # s
  /\ alive \subseteq Started /\ current \in alive

AreasTyped == vmas \in Tables /\ DOMAIN mmaps \subseteq Pages

\* Every frame below a page is in use, below no other page, and holds what its
\* program may see: also for programs that have ended, whose frames are kept.
Isolated(S, p, u, d, m) ==
  /\ DOMAIN p = S /\ DOMAIN m = S /\ u \subseteq Frames /\ d \in [Frames -> Owners]
  /\ \A s \in S : s \in m[s] /\ DOMAIN p[s] \subseteq Pages
  /\ \A s \in S : \A v \in DOMAIN p[s] :
        /\ "frame" \in DOMAIN p[s][v] /\ p[s][v].frame \in u
        /\ v # Stack => d[p[s][v].frame] \in {Clean} \cup m[s]
  /\ \A s, r \in S : \A v \in DOMAIN p[s], w \in DOMAIN p[r] :
        p[s][v].frame = p[r][w].frame => s = r /\ v = w

Covers(t, v)  == \E i \in VmaSlots : v \in AreaPages(t[i])
AllLazy(t, v) == \A i \in VmaSlots : v \in AreaPages(t[i]) => t[i].lazy

\* A page granted to a living program that is neither lost nor present is in an
\* area, and every area it is in is lazy: whichever `find` meets first.
Usable(A, p, g, l, t) ==
  \A s \in A, v \in Pages : v \in g[s] =>
      \/ <<s, v>> \in l
      \/ v \in DOMAIN p[s]
      \/ Covers(t, v) /\ AllLazy(t, v)

Granted ==
  /\ DOMAIN given = Started /\ \A s \in Started : given[s] \subseteq Pages
  /\ ~halted => Usable(alive, pt, given, lost, vmas)

MemInv == Counted /\ AreasTyped /\ Isolated(Started, pt, used, data, may) /\ Granted

----------------------------------------------------------------------------
(* Frames.                                                                  *)

\* Program s gets a page table that consists of pages it had and of pages over
\* frames nobody used; the other programs keep theirs with what is in them.
LEMMA Remap ==
  ASSUME NEW S, NEW p, NEW u, NEW d, NEW m, Isolated(S, p, u, d, m),
         NEW s, NEW p2, NEW u2, NEW d2, NEW m2,
         DOMAIN p2 = S \cup {s}, \A q \in S \ {s} : p2[q] = p[q],
         DOMAIN m2 = S \cup {s}, \A q \in S \ {s} : m2[q] = m[q],
         s \in m2[s], u2 \subseteq Frames, d2 \in [Frames -> Owners],
         \A q \in S \ {s} : \A v \in DOMAIN p[q] :
            p[q][v].frame \in u2 /\ d2[p[q][v].frame] = d[p[q][v].frame],
         \A v \in DOMAIN p2[s] :
            /\ v \in Pages /\ "frame" \in DOMAIN p2[s][v] /\ p2[s][v].frame \in u2
            /\ v # Stack => d2[p2[s][v].frame] \in {Clean} \cup m2[s]
            /\ \/ p2[s][v].frame \notin u
               \/ s \in S /\ v \in DOMAIN p[s] /\ p2[s][v].frame = p[s][v].frame,
         \A v, w \in DOMAIN p2[s] : p2[s][v].frame = p2[s][w].frame => v = w
  PROVE  Isolated(S \cup {s}, p2, u2, d2, m2)
<1>1. ASSUME NEW q \in S \cup {s}
      PROVE  q \in m2[q] /\ DOMAIN p2[q] \subseteq Pages
  BY DEF Isolated
<1>2. ASSUME NEW q \in S \cup {s}, NEW v \in DOMAIN p2[q]
      PROVE  /\ "frame" \in DOMAIN p2[q][v] /\ p2[q][v].frame \in u2
             /\ v # Stack => d2[p2[q][v].frame] \in {Clean} \cup m2[q]
  <2>1. CASE q = s
    BY <2>1
  <2>2. CASE q # s
    BY <2>2 DEF Isolated
  <2> QED
    BY <2>1, <2>2
<1>3. ASSUME NEW q \in S \ {s}, NEW v \in DOMAIN p2[q], NEW w \in DOMAIN p2[s]
      PROVE  p2[q][v].frame # p2[s][w].frame
  <2>1. p2[q][v].frame \in u /\ v \in DOMAIN p[q] /\ p2[q][v].frame = p[q][v].frame
    BY DEF Isolated
  <2>2. CASE p2[s][w].frame \notin u
    BY <2>1, <2>2
  <2>3. CASE s \in S /\ w \in DOMAIN p[s] /\ p2[s][w].frame = p[s][w].frame
    BY <2>1, <2>3 DEF Isolated
  <2> QED
    BY <2>2, <2>3
<1>4. ASSUME NEW q \in S \cup {s}, NEW r \in S \cup {s},
             NEW v \in DOMAIN p2[q], NEW w \in DOMAIN p2[r],
             p2[q][v].frame = p2[r][w].frame
      PROVE  q = r /\ v = w
  <2>1. CASE q = s /\ r = s
    BY <1>4, <2>1
  <2>2. CASE q # s /\ r # s
    BY <1>4, <2>2 DEF Isolated
  <2>3. CASE q = s /\ r # s
    BY <1>3, <1>4, <2>3
  <2>4. CASE q # s /\ r = s
    BY <1>3, <1>4, <2>4
  <2> QED
    BY <2>1, <2>2, <2>3, <2>4
<1> QED
  BY <1>1, <1>2, <1>4 DEF Isolated

LEMMA PagesFinite ==
  ASSUME NEW ps \in SUBSET Pages
  PROVE  IsFiniteSet(ps) /\ ps \in SUBSET Nat
<1>1. Stack \in Nat /\ Pages = 0 .. Stack
  BY MemAssumption DEF Pages
<1>2. IsFiniteSet(Pages)
  BY <1>1, FS_Interval
<1>3. IsFiniteSet(ps)
  BY <1>2, FS_Subset
<1> QED
  BY <1>1, <1>3

\* New pages for a program, cleared.
LEMMA MapNewIsolates ==
  ASSUME NEW s \in Started, NEW ps \in SUBSET Pages, NEW b, MapNew(s, ps, b),
         CanAlloc(Cardinality(ps)), Isolated(Started, pt, used, data, may)
  PROVE  /\ Isolated(Started, pt', used', data', may)
         /\ DOMAIN pt' = DOMAIN pt /\ \A q \in Started : DOMAIN pt[q] \subseteq DOMAIN pt'[q]
         /\ ps \subseteq DOMAIN pt'[s]
<1>1. used \subseteq Frames /\ IsFiniteSet(ps) /\ ps \in SUBSET Nat
  BY PagesFinite DEF Isolated
<1>2. PICK f : /\ f = FrameFor(ps) /\ DOMAIN f = ps
               /\ \A v \in ps : f[v] \in Frames /\ f[v] \notin used
               /\ \A u, v \in ps : f[u] = f[v] => u = v
  BY <1>1, FreshFrames
<1>3. PICK p2, u2, d2, m : /\ p2 = pt' /\ u2 = used' /\ d2 = data'
                           /\ m = [v \in ps \cup DOMAIN pt[s] |->
                                     IF v \in ps THEN [frame |-> f[v], writable |-> b] ELSE pt[s][v]]
  OBVIOUS
<1>4. /\ p2 = [pt EXCEPT ![s] = m] /\ u2 = used \cup {f[v] : v \in ps}
      /\ d2 = [g \in Frames |-> IF \E v \in ps : f[v] = g THEN Clean ELSE data[g]]
  BY <1>2, <1>3 DEF MapNew
<1>5. /\ DOMAIN p2 = Started /\ p2[s] = m /\ \A q \in Started \ {s} : p2[q] = pt[q]
      /\ DOMAIN m = ps \cup DOMAIN pt[s]
  BY <1>3, <1>4 DEF Isolated
<1>6. /\ \A v \in ps : m[v].frame = f[v] /\ "frame" \in DOMAIN m[v]
      /\ \A v \in DOMAIN m \ ps : v \in DOMAIN pt[s] /\ m[v] = pt[s][v]
  BY <1>3
<1>7. u2 \subseteq Frames /\ d2 \in [Frames -> Owners]
  BY <1>1, <1>2, <1>4 DEF Isolated, Owners
<1>8. \A q \in Started : \A v \in DOMAIN pt[q] :
         /\ pt[q][v].frame \in used /\ pt[q][v].frame \in u2
         /\ d2[pt[q][v].frame] = data[pt[q][v].frame]
  BY <1>1, <1>2, <1>4 DEF Isolated
<1>9. \A v \in ps : f[v] \in u2 /\ d2[f[v]] = Clean
  BY <1>2, <1>4
<1>10. ASSUME NEW v \in DOMAIN m
       PROVE  /\ v \in Pages /\ "frame" \in DOMAIN m[v] /\ m[v].frame \in u2
              /\ v # Stack => d2[m[v].frame] \in {Clean} \cup may[s]
              /\ \/ m[v].frame \notin used
                 \/ s \in Started /\ v \in DOMAIN pt[s] /\ m[v].frame = pt[s][v].frame
  <2>1. CASE v \in ps
    BY <1>2, <1>6, <1>9, <2>1
  <2>2. CASE v \notin ps
    BY <1>6, <1>8, <2>2 DEF Isolated
  <2> QED
    BY <2>1, <2>2
<1>11. ASSUME NEW v \in DOMAIN m, NEW w \in DOMAIN m, m[v].frame = m[w].frame
       PROVE  v = w
  <2>1. CASE v \in ps /\ w \in ps
    BY <1>2, <1>6, <1>11, <2>1
  <2>2. CASE v \in ps /\ w \notin ps
    BY <1>2, <1>6, <1>8, <1>11, <2>2
  <2>3. CASE v \notin ps /\ w \in ps
    BY <1>2, <1>6, <1>8, <1>11, <2>3
  <2>4. CASE v \notin ps /\ w \notin ps
    BY <1>6, <1>11, <2>4 DEF Isolated
  <2> QED
    BY <2>1, <2>2, <2>3, <2>4
<1>12. DOMAIN may = Started /\ s \in may[s] /\ Started \cup {s} = Started
  BY DEF Isolated
<1>13. Isolated(Started \cup {s}, p2, u2, d2, may)
  <2>1. /\ DOMAIN p2 = Started \cup {s} /\ DOMAIN may = Started \cup {s}
        /\ \A q \in Started \ {s} : p2[q] = pt[q]
        /\ \A q \in Started \ {s} : \A v \in DOMAIN pt[q] :
              pt[q][v].frame \in u2 /\ d2[pt[q][v].frame] = data[pt[q][v].frame]
    BY <1>5, <1>8, <1>12
  <2>2. \A v \in DOMAIN p2[s] :
            /\ v \in Pages /\ "frame" \in DOMAIN p2[s][v] /\ p2[s][v].frame \in u2
            /\ v # Stack => d2[p2[s][v].frame] \in {Clean} \cup may[s]
            /\ \/ p2[s][v].frame \notin used
               \/ s \in Started /\ v \in DOMAIN pt[s] /\ p2[s][v].frame = pt[s][v].frame
    BY <1>5, <1>10
  <2>3. \A v, w \in DOMAIN p2[s] : p2[s][v].frame = p2[s][w].frame => v = w
    BY <1>5, <1>11
  <2> QED
    BY <1>7, <1>12, <2>1, <2>2, <2>3, Remap
<1> QED
  BY <1>3, <1>5, <1>12, <1>13 DEF Isolated

\* A program, or the kernel for it, stores in its own pages.
LEMMA StoreIsolates ==
  ASSUME Isolated(Started, pt, used, data, may), NEW c \in Started,
         NEW d2 \in [Frames -> Owners],
         \A g \in Frames : \/ d2[g] = data[g]
                           \/ /\ \E v \in DOMAIN pt[c] : pt[c][v].frame = g
                              /\ d2[g] \in {Clean, c}
  PROVE  Isolated(Started, pt, used, d2, may)
<1>1. ASSUME NEW s \in Started, NEW v \in DOMAIN pt[s], v # Stack
      PROVE  d2[pt[s][v].frame] \in {Clean} \cup may[s]
  <2>1. /\ pt[s][v].frame \in Frames /\ c \in may[c]
        /\ data[pt[s][v].frame] \in {Clean} \cup may[s]
    BY <1>1 DEF Isolated
  <2>2. CASE d2[pt[s][v].frame] = data[pt[s][v].frame]
    BY <2>1, <2>2
  <2>3. CASE /\ \E w \in DOMAIN pt[c] : pt[c][w].frame = pt[s][v].frame
             /\ d2[pt[s][v].frame] \in {Clean, c}
    <3>1. s = c
      BY <2>3 DEF Isolated
    <3> QED
      BY <2>1, <2>3, <3>1
  <2> QED
    BY <2>1, <2>2, <2>3
<1> QED
  BY <1>1 DEF Isolated

\* munmap gives back the frames of the pages it takes.
LEMMA UnmapIsolates ==
  ASSUME Isolated(Started, pt, used, data, may), current \in Started, NEW ps, munmap_pages(ps)
  PROVE  /\ Isolated(Started, pt', used', data, may)
         /\ \A q \in Started \ {current} : DOMAIN pt'[q] = DOMAIN pt[q]
         /\ DOMAIN pt[current] \ ps = DOMAIN pt'[current]
<1>1. PICK c, m, p2, u2 : /\ c = current /\ p2 = pt' /\ u2 = used'
                          /\ m = [v \in DOMAIN pt[c] \ ps |-> pt[c][v]]
  OBVIOUS
<1>2. /\ p2 = [pt EXCEPT ![c] = m]
      /\ u2 = used \ {pt[c][v].frame : v \in DOMAIN pt[c] \cap ps}
  BY <1>1 DEF munmap_pages
<1>3. /\ c \in Started /\ Started \cup {c} = Started /\ DOMAIN may = Started /\ c \in may[c]
      /\ DOMAIN p2 = Started /\ p2[c] = m /\ \A q \in Started \ {c} : p2[q] = pt[q]
      /\ u2 \subseteq Frames /\ data \in [Frames -> Owners]
  BY <1>1, <1>2 DEF Isolated
<1>4. DOMAIN m = DOMAIN pt[c] \ ps /\ \A v \in DOMAIN m : m[v] = pt[c][v]
  BY <1>1
<1>5. ASSUME NEW q \in Started \ {c}, NEW v \in DOMAIN pt[q]
      PROVE  pt[q][v].frame \in u2
  BY <1>2, <1>3 DEF Isolated
<1>6. ASSUME NEW v \in DOMAIN m
      PROVE  /\ v \in Pages /\ "frame" \in DOMAIN m[v] /\ m[v].frame \in u2
             /\ v # Stack => data[m[v].frame] \in {Clean} \cup may[c]
             /\ v \in DOMAIN pt[c] /\ m[v].frame = pt[c][v].frame
  BY <1>2, <1>3, <1>4 DEF Isolated
<1>7. \A v, w \in DOMAIN m : m[v].frame = m[w].frame => v = w
  BY <1>3, <1>4 DEF Isolated
<1>8. Isolated(Started \cup {c}, p2, u2, data, may)
  <2>1. /\ DOMAIN p2 = Started \cup {c} /\ DOMAIN may = Started \cup {c}
        /\ \A q \in Started \ {c} : \A v \in DOMAIN pt[q] : pt[q][v].frame \in u2
    BY <1>3, <1>5
  <2>2. \A v \in DOMAIN p2[c] :
            /\ v \in Pages /\ "frame" \in DOMAIN p2[c][v] /\ p2[c][v].frame \in u2
            /\ v # Stack => data[p2[c][v].frame] \in {Clean} \cup may[c]
            /\ \/ p2[c][v].frame \notin used
               \/ c \in Started /\ v \in DOMAIN pt[c] /\ p2[c][v].frame = pt[c][v].frame
    BY <1>3, <1>6
  <2>3. \A v, w \in DOMAIN p2[c] : p2[c][v].frame = p2[c][w].frame => v = w
    BY <1>3, <1>7
  <2> QED
    BY <1>3, <2>1, <2>2, <2>3, Remap
<1> QED
  BY <1>1, <1>3, <1>4, <1>8

\* A page table of new pages only, for a program that starts or that had another.
\* What they hold is left to the caller: cleared, copied or, on the stack, old.
LEMMA NewTableIsolates ==
  ASSUME Isolated(Started, pt, used, data, may), NEW s, NEW ps \in SUBSET Pages, NEW f,
         DOMAIN f = ps, \A v \in ps : f[v] \in Frames /\ f[v] \notin used,
         \A u, v \in ps : f[u] = f[v] => u = v,
         NEW m, DOMAIN m = ps, \A v \in ps : "frame" \in DOMAIN m[v] /\ m[v].frame = f[v],
         NEW d2 \in [Frames -> Owners], \A g \in used : d2[g] = data[g],
         NEW m2, DOMAIN m2 = Started \cup {s}, \A q \in Started \ {s} : m2[q] = may[q],
         s \in m2[s], \A v \in ps \ {Stack} : d2[f[v]] \in {Clean} \cup m2[s]
  PROVE  Isolated(Started \cup {s}, With(pt, s, m), used \cup {f[v] : v \in ps}, d2, m2)
<1>1. PICK p2, u2 : p2 = With(pt, s, m) /\ u2 = used \cup {f[v] : v \in ps}
  OBVIOUS
<1>2. /\ DOMAIN p2 = Started \cup {s} /\ p2[s] = m
      /\ \A q \in Started \ {s} : p2[q] = pt[q]
  BY <1>1 DEF With, Isolated
<1>3. u2 \subseteq Frames /\ used \subseteq u2 /\ \A v \in ps : f[v] \in u2
  BY <1>1 DEF Isolated
<1>4. \A q \in Started \ {s} : \A v \in DOMAIN pt[q] :
          pt[q][v].frame \in u2 /\ d2[pt[q][v].frame] = data[pt[q][v].frame]
  BY <1>3 DEF Isolated
<1>5. \A v \in DOMAIN p2[s] :
          /\ v \in Pages /\ "frame" \in DOMAIN p2[s][v] /\ p2[s][v].frame \in u2
          /\ v # Stack => d2[p2[s][v].frame] \in {Clean} \cup m2[s]
          /\ \/ p2[s][v].frame \notin used
             \/ s \in Started /\ v \in DOMAIN pt[s] /\ p2[s][v].frame = pt[s][v].frame
  BY <1>2, <1>3
<1>6. \A v, w \in DOMAIN p2[s] : p2[s][v].frame = p2[s][w].frame => v = w
  BY <1>2
<1>7. Isolated(Started \cup {s}, p2, u2, d2, m2)
  BY <1>2, <1>3, <1>4, <1>5, <1>6, Remap
<1> QED
  BY <1>1, <1>7

\* fork copies every page into a frame of its own, with what it holds.
LEMMA CloneIsolates ==
  ASSUME Isolated(Started, pt, used, data, may), current \in Started, NextProgram \notin Started,
         CanAlloc(Cardinality(DOMAIN pt[current])), clone_user_space,
         may' = With(may, NextProgram, may[current] \cup {NextProgram})
  PROVE  /\ Isolated(Started \cup {NextProgram}, pt', used', data', may')
         /\ DOMAIN pt' = Started \cup {NextProgram}
         /\ DOMAIN pt'[NextProgram] = DOMAIN pt[current]
         /\ \A q \in Started : pt'[q] = pt[q]
<1>1. PICK s, src, ps : s = NextProgram /\ src = pt[current] /\ ps = DOMAIN src
  OBVIOUS
<1>2. ps \in SUBSET Pages /\ IsFiniteSet(ps) /\ ps \in SUBSET Nat /\ used \subseteq Frames
  BY <1>1, PagesFinite DEF Isolated
<1>3. PICK f : /\ f = FrameFor(ps) /\ DOMAIN f = ps
               /\ \A v \in ps : f[v] \in Frames /\ f[v] \notin used
               /\ \A u, v \in ps : f[u] = f[v] => u = v
  BY <1>1, <1>2, FreshFrames
<1>4. PICK m, d2, m2 : m = [v \in ps |-> [src[v] EXCEPT !.frame = f[v]]] /\ d2 = data' /\ m2 = may'
  OBVIOUS
<1>5. /\ pt' = With(pt, s, m) /\ used' = used \cup {f[v] : v \in ps}
      /\ d2 = [g \in Frames |-> IF \E v \in ps : f[v] = g
                 THEN data[src[CHOOSE v \in ps : f[v] = g].frame] ELSE data[g]]
      /\ m2 = With(may, s, may[current] \cup {s})
  BY <1>1, <1>3, <1>4 DEF clone_user_space
<1>6. \A v \in ps : "frame" \in DOMAIN src[v] /\ src[v].frame \in used /\ src[v].frame \in Frames
  BY <1>1 DEF Isolated
<1>7. DOMAIN m = ps /\ \A v \in ps : "frame" \in DOMAIN m[v] /\ m[v].frame = f[v]
  BY <1>4, <1>6
<1>8. /\ d2 \in [Frames -> Owners] /\ \A g \in used : d2[g] = data[g]
  <2>1. data \in [Frames -> Owners]
    BY DEF Isolated
  <2>2. ASSUME NEW g \in Frames PROVE d2[g] \in Owners
    <3>1. CASE \E v \in ps : f[v] = g
      <4>1. (CHOOSE v \in ps : f[v] = g) \in ps
        BY <3>1
      <4> QED
        BY <1>5, <1>6, <2>1, <3>1, <4>1
    <3>2. CASE ~\E v \in ps : f[v] = g
      BY <1>5, <2>1, <3>2
    <3> QED
      BY <3>1, <3>2
  <2>3. \A g \in used : d2[g] = data[g]
    BY <1>2, <1>3, <1>5
  <2> QED
    BY <1>5, <2>2, <2>3
<1>9. ASSUME NEW v \in ps PROVE d2[f[v]] = data[src[v].frame]
  <2>1. (CHOOSE w \in ps : f[w] = f[v]) = v
    BY <1>3
  <2> QED
    BY <1>3, <1>5, <2>1
<1>10. /\ DOMAIN m2 = Started \cup {s} /\ \A q \in Started \ {s} : m2[q] = may[q]
       /\ m2[s] = may[current] \cup {s}
  BY <1>5 DEF With, Isolated
<1>11. \A v \in ps \ {Stack} : d2[f[v]] \in {Clean} \cup m2[s]
  BY <1>1, <1>9, <1>10 DEF Isolated
<1>12. Isolated(Started \cup {s}, With(pt, s, m), used \cup {f[v] : v \in ps}, d2, m2)
  BY <1>2, <1>3, <1>7, <1>8, <1>10, <1>11, NewTableIsolates
<1>13. DOMAIN pt' = Started \cup {s} /\ pt'[s] = m /\ \A q \in Started \ {s} : pt'[q] = pt[q]
  BY <1>5 DEF With, Isolated
<1> QED
  BY <1>1, <1>4, <1>5, <1>7, <1>12, <1>13

\* The image and the stack of a program that is loaded.
LEMMA ImageIsolates ==
  ASSUME Isolated(Started, pt, used, data, may), NEW s, CanAlloc(2), LoadImage(s),
         NEW m2, DOMAIN m2 = Started \cup {s}, \A q \in Started \ {s} : m2[q] = may[q],
         m2[s] = {s}
  PROVE  /\ Isolated(Started \cup {s}, pt', used', data', m2)
         /\ DOMAIN pt' = Started \cup {s} /\ \A q \in Started \ {s} : pt'[q] = pt[q]
<1>1. PICK ps, d2 : ps = {0, Stack} /\ d2 = data'
  OBVIOUS
<1>2. Stack \in Nat /\ Stack # 0 /\ ps \in SUBSET Pages
  BY <1>1, MemAssumption DEF Pages
<1>3. IsFiniteSet(ps) /\ ps \in SUBSET Nat /\ used \subseteq Frames
  BY <1>2, PagesFinite DEF Isolated
<1>4. Cardinality(ps) = 2
  <2>1. IsFiniteSet({0}) /\ Cardinality({0}) = 1 /\ ps = {0} \cup {Stack}
    BY <1>1, FS_Singleton
  <2>2. Cardinality({0} \cup {Stack}) = 1 + 1
    BY <1>2, <2>1, FS_AddElement
  <2> QED
    BY <2>1, <2>2
<1>5. PICK f : /\ f = FrameFor(ps) /\ DOMAIN f = ps
               /\ \A v \in ps : f[v] \in Frames /\ f[v] \notin used
               /\ \A u, v \in ps : f[u] = f[v] => u = v
  BY <1>3, <1>4, FreshFrames
<1>6. PICK m : m = [v \in ps |-> [frame |-> f[v], writable |-> TRUE]]
  OBVIOUS
<1>7. /\ pt' = With(pt, s, m) /\ used' = used \cup {f[v] : v \in ps}
      /\ d2 = [data EXCEPT ![f[0]] = Clean]
  <2>1. {f[v] : v \in ps} = {f[0], f[Stack]}
    BY <1>1
  <2> QED
    BY <1>1, <1>5, <1>6, <2>1 DEF LoadImage
<1>8. DOMAIN m = ps /\ \A v \in ps : "frame" \in DOMAIN m[v] /\ m[v].frame = f[v]
  BY <1>6
<1>9. /\ d2 \in [Frames -> Owners] /\ \A g \in used : d2[g] = data[g]
      /\ \A v \in ps \ {Stack} : d2[f[v]] = Clean
  BY <1>1, <1>3, <1>5, <1>7 DEF Isolated, Owners
<1>10. Isolated(Started \cup {s}, With(pt, s, m), used \cup {f[v] : v \in ps}, d2, m2)
  BY <1>2, <1>5, <1>8, <1>9, NewTableIsolates
<1>11. DOMAIN pt' = Started \cup {s} /\ \A q \in Started \ {s} : pt'[q] = pt[q]
  BY <1>7 DEF With, Isolated
<1> QED
  BY <1>1, <1>7, <1>10, <1>11

----------------------------------------------------------------------------
(* Areas.                                                                   *)

LEMMA AreaFields ==
  ASSUME NEW e \in Areas
  PROVE  /\ e.base \in Nat /\ e.pages \in Nat /\ e.base + e.pages <= Stack
         /\ e.write \in BOOLEAN /\ e.lazy \in BOOLEAN /\ e.valid \in BOOLEAN
         /\ AreaPages(e) \subseteq Pages
<1>1. /\ e.base \in Nat /\ e.pages \in Nat /\ e.base + e.pages <= Stack
      /\ e.write \in BOOLEAN /\ e.lazy \in BOOLEAN /\ e.valid \in BOOLEAN
  BY DEF Areas
<1>2. Span(e.base, e.pages) \subseteq 0 .. Stack
  <2>1. PICK b \in Nat, n \in Nat : b = e.base /\ n = e.pages /\ b + n <= Stack
    BY <1>1
  <2>2. Span(b, n) \subseteq 0 .. Stack
    BY <2>1, MemAssumption DEF Span
  <2> QED
    BY <2>1, <2>2
<1> QED
  BY <1>1, <1>2 DEF AreaPages, Pages

LEMMA AreaMade ==
  ASSUME NEW b \in Nat, NEW n \in Nat, b + n <= Stack, NEW w \in BOOLEAN, NEW z \in BOOLEAN
  PROVE  /\ AreaOf(b, n, w, z) \in Areas /\ AreaPages(AreaOf(b, n, w, z)) = Span(b, n)
         /\ AreaOf(b, n, w, z).lazy = z /\ AreaOf(b, n, w, z).valid
<1>1. AreaOf(b, n, w, z) = [base |-> b, pages |-> n, write |-> w, lazy |-> z, valid |-> TRUE]
  BY DEF AreaOf
<1> QED
  BY <1>1 DEF Areas, AreaPages

LEMMA EmptyTable ==
  /\ [i \in VmaSlots |-> NoArea] \in Tables
  /\ \A v : ~Covers([i \in VmaSlots |-> NoArea], v) /\ AllLazy([i \in VmaSlots |-> NoArea], v)
<1>1. NoArea \in Areas
  BY MemAssumption DEF NoArea, Areas
<1>2. AreaPages(NoArea) = {}
  BY DEF NoArea, AreaPages
<1> QED
  BY <1>1, <1>2 DEF Tables, Covers, AllLazy

\* The slot an insertion takes is one of the table's.
LEMMA SlotTaken ==
  ASSUME NEW t \in Tables, NEW e
  PROVE  \E i \in VmaSlots : insert_slot(t, e) = [t EXCEPT ![i] = e]
<1>1. PICK free, least : /\ free = {i \in VmaSlots : ~t[i].valid}
                         /\ least = {i \in VmaSlots : \A j \in VmaSlots : t[i].pages <= t[j].pages}
  OBVIOUS
<1>2. insert_slot(t, e) = [t EXCEPT ![IF free # {} THEN Min(free) ELSE Min(least)] = e]
  BY <1>1 DEF insert_slot
<1>3. VmaSlots \in SUBSET Nat /\ 1 \in VmaSlots
  BY MemAssumption DEF VmaSlots
<1>4. \A i \in VmaSlots : t[i].pages \in Nat
  BY AreaFields DEF Tables
<1>5. least # {}
  <2>1. PICK S : S = {t[i].pages : i \in VmaSlots}
    OBVIOUS
  <2>2. S \in SUBSET Nat /\ S # {}
    BY <1>3, <1>4, <2>1
  <2>3. Min(S) \in S /\ \A x \in S : Min(S) <= x
    BY <2>2, MinIsLeast
  <2>4. PICK i \in VmaSlots : t[i].pages = Min(S)
    BY <2>1, <2>3
  <2>5. \A j \in VmaSlots : t[i].pages <= t[j].pages
    BY <2>1, <2>3, <2>4
  <2> QED
    BY <1>1, <2>5
<1>6. least \in SUBSET Nat /\ free \in SUBSET Nat
  BY <1>1, <1>3
<1>7. Min(least) \in VmaSlots
  BY <1>1, <1>5, <1>6, MinIsLeast
<1>8. free # {} => Min(free) \in VmaSlots
  BY <1>1, <1>6, MinIsLeast
<1> QED
  BY <1>2, <1>7, <1>8

\* What an insertion leaves in the table: the areas it does not replace, the new
\* one, and the part of a replaced one past it.  A replaced area is covered by the
\* last two.
Inserted(t, e, t2) ==
  /\ t2 \in Tables
  /\ \A i \in VmaSlots :
        \/ t2[i] = t[i] /\ ~Replaced(t, e, i)
        \/ t2[i] = e
        \/ /\ \E k \in VmaSlots : AreaPages(t2[i]) \subseteq AreaPages(t[k]) /\ t2[i].lazy = t[k].lazy
           /\ AreaPages(t2[i]) \cap AreaPages(e) = {}
  /\ \A i \in VmaSlots :
        \/ t2[i] = t[i] \/ ~Replaced(t, e, i)
        \/ \A v \in AreaPages(t[i]) : v \in AreaPages(e) \/ Covers(t2, v)

LEMMA InsertShape ==
  ASSUME NEW t \in Tables, NEW e \in Areas, e.valid
  PROVE  Inserted(t, e, insert(t, e))
<1>1. PICK same : same = {i \in VmaSlots : t[i].valid /\ t[i].base = e.base}
  OBVIOUS
<1>2. VmaSlots \in SUBSET Nat /\ same \in SUBSET Nat
  BY <1>1, MemAssumption DEF VmaSlots
<1>3. PICK k, old, put : k = Min(same) /\ old = t[k] /\ put = [t EXCEPT ![k] = e]
  OBVIOUS
<1>4. PICK t2 : t2 = insert(t, e)
  OBVIOUS
<1>5. CASE same = {}
  <2>1. t2 = insert_slot(t, e)
    BY <1>1, <1>4, <1>5 DEF insert
  <2>2. PICK i \in VmaSlots : t2 = [t EXCEPT ![i] = e]
    BY <2>1, SlotTaken
  <2>3. \A j \in VmaSlots : ~Replaced(t, e, j)
    BY <1>1, <1>5 DEF Replaced
  <2>4. t2 \in Tables /\ \A j \in VmaSlots : (t2[j] = t[j] /\ ~Replaced(t, e, j)) \/ t2[j] = e
    BY <2>2, <2>3 DEF Tables
  <2> QED
    BY <1>4, <2>3, <2>4 DEF Inserted
<1>6. CASE same # {}
  <2>1. k \in VmaSlots /\ old \in Areas /\ old.valid /\ old.base = e.base /\ \A j \in same : k <= j
    BY <1>1, <1>2, <1>3, <1>6, MinIsLeast DEF Tables
  <2>2. put \in Tables /\ put[k] = e /\ \A j \in VmaSlots \ {k} : put[j] = t[j]
    BY <1>3, <2>1 DEF Tables
  <2>3. \A j \in VmaSlots : Replaced(t, e, j) => j = k
    <3>1. SUFFICES ASSUME NEW j \in VmaSlots, Replaced(t, e, j) PROVE j = k
      OBVIOUS
    <3>2. j \in same /\ j <= k
      BY <1>1, <1>3, <2>1, <3>1 DEF Replaced
    <3> QED
      BY <1>2, <2>1, <3>2
  <2>4. PICK b, n, m \in Nat : b = e.base /\ n = e.pages /\ m = old.pages /\ b + n <= Stack /\ b + m <= Stack
    BY <2>1, AreaFields
  <2>5. AreaPages(e) = b .. b + n - 1 /\ AreaPages(old) = b .. b + m - 1
    BY <2>1, <2>4 DEF AreaPages, Span
  <2>6. CASE n < m
    <3>1. PICK tail : tail = [old EXCEPT !.base = e.base + e.pages, !.pages = old.pages - e.pages]
      OBVIOUS
    <3>2. t2 = insert_slot(put, tail)
      BY <1>1, <1>3, <1>4, <1>6, <2>4, <2>6, <3>1 DEF insert
    <3>3. PICK x, y \in Nat : x = b + n /\ y = m - n /\ x + y <= Stack
      BY <2>4, <2>6
    <3>4. tail = [old EXCEPT !.base = x, !.pages = y]
      BY <2>4, <3>1, <3>3
    <3>5. /\ tail \in Areas /\ tail.lazy = old.lazy /\ tail.valid
          /\ tail.base = x /\ tail.pages = y
      BY <2>1, <3>3, <3>4 DEF Areas
    <3>6. AreaPages(tail) = x .. x + y - 1
      BY <3>5 DEF AreaPages, Span
    <3>7. /\ AreaPages(tail) \subseteq AreaPages(old)
          /\ AreaPages(old) \subseteq AreaPages(e) \cup AreaPages(tail)
          /\ AreaPages(tail) \cap AreaPages(e) = {}
      <4>1. \A w \in Int : /\ w \in x .. x + y - 1 => w \in b .. b + m - 1 /\ w \notin b .. b + n - 1
                           /\ w \in b .. b + m - 1 => w \in b .. b + n - 1 \/ w \in x .. x + y - 1
        BY <2>6, <3>3
      <4>2. AreaPages(tail) \subseteq Int /\ AreaPages(old) \subseteq Int
        BY <2>5, <3>6, <3>3
      <4> QED
        BY <2>5, <3>6, <4>1, <4>2
    <3>8. PICK i \in VmaSlots : t2 = [put EXCEPT ![i] = tail]
      BY <2>2, <3>2, SlotTaken
    <3>9. /\ t2 \in Tables /\ t2[i] = tail /\ \A j \in VmaSlots \ {i} : t2[j] = put[j]
      BY <2>2, <3>5, <3>8 DEF Tables
    <3>10. \A j \in VmaSlots :
              \/ t2[j] = t[j] /\ ~Replaced(t, e, j)
              \/ t2[j] = e
              \/ /\ AreaPages(t2[j]) \subseteq AreaPages(old) /\ t2[j].lazy = old.lazy
                 /\ AreaPages(t2[j]) \cap AreaPages(e) = {}
      BY <2>2, <2>3, <3>5, <3>7, <3>9
    <3>11. \A v \in AreaPages(tail) : Covers(t2, v)
      BY <3>9 DEF Covers
    <3> QED
      BY <1>3, <1>4, <2>1, <2>3, <3>7, <3>9, <3>10, <3>11 DEF Inserted
  <2>7. CASE ~(n < m)
    <3>1. t2 = put
      BY <1>1, <1>3, <1>4, <1>6, <2>4, <2>7 DEF insert
    <3>2. AreaPages(old) \subseteq AreaPages(e)
      <4>1. b .. b + m - 1 \subseteq b .. b + n - 1
        BY <2>7
      <4> QED
        BY <2>5, <4>1
    <3> QED
      BY <1>3, <1>4, <2>1, <2>2, <2>3, <3>1, <3>2 DEF Inserted
  <2> QED
    BY <2>6, <2>7
<1> QED
  BY <1>5, <1>6

\* Unless it is pushed out a page stays in an area, and it is in no area that is
\* not lazy because of an insertion of lazy ones.
LEMMA InsertKeeps ==
  ASSUME NEW t \in Tables, NEW e \in Areas, e.valid
  PROVE  \E t2 : /\ t2 = insert(t, e) /\ t2 \in Tables
                 /\ \A v : /\ v \notin Evicted(t, t2, e)
                           /\ Covers(t, v) \/ v \in AreaPages(e)
                           => Covers(t2, v)
                 /\ \A v : AllLazy(t, v) /\ (v \in AreaPages(e) => e.lazy) => AllLazy(t2, v)
                 /\ \A v : e.lazy /\ v \in AreaPages(e) /\ v \notin Shadowed(t, e) => AllLazy(t2, v)
<1>1. PICK t2 : t2 = insert(t, e) /\ Inserted(t, e, t2)
  BY InsertShape
<1>2. ASSUME NEW v, v \notin Evicted(t, t2, e), v \in AreaPages(e)
      PROVE  Covers(t2, v)
  <2>1. \E i \in VmaSlots : t2[i] = e
    <3> DEFINE out == UNION {AreaPages(t[i]) : i \in {j \in VmaSlots : ~Replaced(t, e, j) /\ t2[j] # t[j]}}
    <3>1. Evicted(t, t2, e) = out \cup (IF \E i \in VmaSlots : t2[i] = e THEN {} ELSE AreaPages(e))
      BY DEF Evicted
    <3> HIDE DEF out
    <3> QED
      BY <1>2, <3>1
  <2> QED
    BY <1>2, <2>1 DEF Covers
<1>3. ASSUME NEW v, v \notin Evicted(t, t2, e), Covers(t, v)
      PROVE  Covers(t2, v)
  <2>1. PICK i \in VmaSlots : v \in AreaPages(t[i])
    BY <1>3 DEF Covers
  <2>2. CASE t2[i] = t[i]
    BY <2>1, <2>2 DEF Covers
  <2>3. CASE t2[i] # t[i]
    <3>1. Replaced(t, e, i)
      BY <1>3, <2>1, <2>3 DEF Evicted
    <3>2. v \in AreaPages(e) \/ Covers(t2, v)
      BY <1>1, <2>1, <2>3, <3>1 DEF Inserted
    <3> QED
      BY <1>2, <1>3, <3>2
  <2> QED
    BY <2>2, <2>3
<1>4. ASSUME NEW v, AllLazy(t, v), v \in AreaPages(e) => e.lazy
      PROVE  AllLazy(t2, v)
  <2>1. SUFFICES ASSUME NEW i \in VmaSlots, v \in AreaPages(t2[i]) PROVE t2[i].lazy
    BY DEF AllLazy
  <2>2. CASE t2[i] = t[i]
    BY <1>4, <2>1, <2>2 DEF AllLazy
  <2>3. CASE t2[i] = e
    BY <1>4, <2>1, <2>3
  <2>4. CASE \E k \in VmaSlots : AreaPages(t2[i]) \subseteq AreaPages(t[k]) /\ t2[i].lazy = t[k].lazy
    BY <1>4, <2>1, <2>4 DEF AllLazy
  <2> QED
    BY <1>1, <2>2, <2>3, <2>4 DEF Inserted
<1>5. ASSUME NEW v, e.lazy, v \in AreaPages(e), v \notin Shadowed(t, e)
      PROVE  AllLazy(t2, v)
  <2>1. SUFFICES ASSUME NEW i \in VmaSlots, v \in AreaPages(t2[i]) PROVE t2[i].lazy
    BY DEF AllLazy
  <2>2. CASE t2[i] = t[i] /\ ~Replaced(t, e, i)
    <3>1. PICK S : S = {AreaPages(t[j]) : j \in {k \in VmaSlots : ~t[k].lazy /\ ~Replaced(t, e, k)}}
      OBVIOUS
    <3>2. v \notin UNION S
      BY <1>5, <3>1 DEF Shadowed
    <3>3. ~t[i].lazy => AreaPages(t[i]) \in S
      BY <2>2, <3>1
    <3> QED
      BY <2>1, <2>2, <3>2, <3>3
  <2>3. CASE t2[i] = e
    BY <1>5, <2>3
  <2> QED
    BY <1>1, <1>5, <2>1, <2>2, <2>3 DEF Inserted
<1>6. t2 \in Tables
  BY <1>1 DEF Inserted
<1> QED
  BY <1>1, <1>2, <1>3, <1>4, <1>5, <1>6

----------------------------------------------------------------------------
(* Granted pages.                                                           *)

\* Program c of A inserts area e in table t and gets t2, with page tables p2,
\* grants g2 and losses l2.  The others lose the pages of an area that is not lazy;
\* what c has of its pages is present, lost, or lazy in every area.
Inserts(A, c, t, e, t2, p, p2, g, g2, l, l2) ==
  /\ c \in A /\ t \in Tables /\ e \in Areas /\ e.valid /\ t2 = insert(t, e)
  /\ \A s \in A : DOMAIN p[s] \subseteq DOMAIN p2[s]
  /\ \A s \in A \ {c} : g2[s] = g[s]
  /\ g2[c] \subseteq g[c] \cup AreaPages(e)
  /\ \A s \in A, v \in Pages : <<s, v>> \in l => <<s, v>> \in l2 \/ (s = c /\ v \in AreaPages(e))
  /\ \A s \in A \ {c}, v \in AreaPages(e) : e.lazy \/ <<s, v>> \in l2
  /\ \A s \in A, v \in Pages : v \in Evicted(t, t2, e) => <<s, v>> \in l2
  /\ \A v \in AreaPages(e) : v \in g2[c] =>
        v \in DOMAIN p2[c] \/ <<c, v>> \in l2 \/ (e.lazy /\ v \notin Shadowed(t, e))

LEMMA UsableAfterInsert ==
  ASSUME NEW A, NEW c, NEW t, NEW e, NEW t2, NEW p, NEW p2, NEW g, NEW g2, NEW l, NEW l2,
         Usable(A, p, g, l, t), Inserts(A, c, t, e, t2, p, p2, g, g2, l, l2)
  PROVE  t2 \in Tables /\ Usable(A, p2, g2, l2, t2)
<1>1. /\ t2 \in Tables
      /\ \A v : /\ v \notin Evicted(t, t2, e)
                /\ Covers(t, v) \/ v \in AreaPages(e)
                => Covers(t2, v)
      /\ \A v : AllLazy(t, v) /\ (v \in AreaPages(e) => e.lazy) => AllLazy(t2, v)
      /\ \A v : e.lazy /\ v \in AreaPages(e) /\ v \notin Shadowed(t, e) => AllLazy(t2, v)
  BY InsertKeeps DEF Inserts
<1>2. ASSUME NEW s \in A, NEW v \in Pages, v \in g2[s], <<s, v>> \notin l2, v \notin DOMAIN p2[s]
      PROVE  Covers(t2, v) /\ AllLazy(t2, v)
  <2>1. v \notin DOMAIN p[s] /\ v \notin Evicted(t, t2, e)
    BY <1>2 DEF Inserts
  <2>2. CASE s = c /\ v \in AreaPages(e)
    <3>1. e.lazy /\ v \notin Shadowed(t, e)
      BY <1>2, <2>2 DEF Inserts
    <3> QED
      BY <1>1, <2>1, <2>2, <3>1
  <2>3. CASE ~(s = c /\ v \in AreaPages(e))
    <3>1. <<s, v>> \notin l /\ v \in g[s]
      BY <1>2, <2>3 DEF Inserts
    <3>2. Covers(t, v) /\ AllLazy(t, v)
      BY <2>1, <3>1 DEF Usable
    <3>3. v \in AreaPages(e) => e.lazy
      BY <1>2, <2>3 DEF Inserts
    <3> QED
      BY <1>1, <2>1, <3>2, <3>3
  <2> QED
    BY <2>2, <2>3
<1> QED
  BY <1>1, <1>2 DEF Usable

\* No area changes and no granted page is taken that is not lost.
LEMMA UsableStill ==
  ASSUME NEW A, NEW p, NEW g, NEW l, NEW t, Usable(A, p, g, l, t),
         NEW A2 \in SUBSET A, NEW p2, NEW g2, NEW l2, NEW t2, l \subseteq l2,
         \A s \in A2, v \in Pages : v \in DOMAIN p[s] /\ v \in g2[s] => v \in DOMAIN p2[s] \/ <<s, v>> \in l2,
         \A s \in A2 : g2[s] \subseteq g[s],
         \A v : (Covers(t, v) => Covers(t2, v)) /\ (AllLazy(t, v) => AllLazy(t2, v))
  PROVE  Usable(A2, p2, g2, l2, t2)
BY DEF Usable

----------------------------------------------------------------------------
(* The steps that start no program.                                         *)

\* The steps that leave the programs alone.
Idle == UNCHANGED <<progs, alive, current>>

LEMMA IdleCounted ==
  ASSUME Counted, Idle
  PROVE  Counted' /\ Started' = Started
BY DEF Counted, Idle, Started

LEMMA CountedFacts ==
  ASSUME Counted
  PROVE  /\ current \in Started /\ current \in alive /\ current \in Programs /\ alive \subseteq Started
         /\ progs[current].mmap_next \in Nat /\ progs[current].brk_cur \in Nat
         /\ progs[current].brk_base \in Nat /\ progs[current].parent \in Nat
<1>1. current \in Started /\ progs[current] \in Books
  BY DEF Counted
<1> QED
  BY <1>1 DEF Counted, Books

LEMMA PanicKeeps ==
  ASSUME MemInv, Panic
  PROVE  MemInv'
<1>1. /\ Counted' /\ Started' = Started
  BY IdleCounted DEF MemInv, Panic, Idle
<1>2. AreasTyped'
  BY DEF MemInv, Panic, AreasTyped
<1>3. Isolated(Started', pt', used', data', may')
  BY <1>1 DEF MemInv, Panic
<1>4. Granted'
  BY <1>1 DEF MemInv, Panic, Granted
<1> QED
  BY <1>1, <1>2, <1>3, <1>4 DEF MemInv

LEMMA StoreKeeps ==
  ASSUME MemInv, NEW v, UserWrite(v)
  PROVE  MemInv'
<1>1. /\ Counted' /\ Started' = Started /\ current \in Started /\ current \in Programs
  BY IdleCounted, CountedFacts DEF MemInv, UserWrite, Idle
<1>2. AreasTyped'
  BY DEF MemInv, UserWrite, AreasTyped
<1>3. PICK c, d2, f : c = current /\ d2 = data' /\ f = pt[c][v].frame
  OBVIOUS
<1>4. v \in DOMAIN pt[c] /\ d2 = [data EXCEPT ![f] = c]
  BY <1>3 DEF UserWrite, Writable, Present
<1>5. data \in [Frames -> Owners] /\ c \in Owners
  BY <1>1, <1>3 DEF MemInv, Isolated, Owners
<1>6. /\ d2 \in [Frames -> Owners]
      /\ \A g \in Frames : d2[g] = data[g] \/ (pt[c][v].frame = g /\ d2[g] = c)
  BY <1>3, <1>4, <1>5
<1>7. Isolated(Started, pt, used, d2, may)
  BY <1>1, <1>3, <1>4, <1>6, StoreIsolates DEF MemInv
<1>8. Isolated(Started', pt', used', data', may')
  BY <1>1, <1>3, <1>7 DEF UserWrite
<1>9. Granted'
  BY <1>1 DEF MemInv, UserWrite, Granted
<1> QED
  BY <1>1, <1>2, <1>8, <1>9 DEF MemInv

LEMMA DemandKeeps ==
  ASSUME MemInv, NEW v \in Pages, NEW b, demand_alloc_page(v, b)
  PROVE  MemInv'
<1>1. /\ Counted' /\ Started' = Started /\ current \in Started /\ alive \subseteq Started
  BY IdleCounted, CountedFacts DEF MemInv, demand_alloc_page, Idle
<1>2. AreasTyped'
  BY DEF MemInv, demand_alloc_page, AreasTyped
<1>3. CanAlloc(Cardinality({v})) /\ MapNew(current, {v}, b) /\ {v} \in SUBSET Pages
  BY FS_Singleton DEF demand_alloc_page
<1>4. /\ Isolated(Started, pt', used', data', may)
      /\ \A q \in Started : DOMAIN pt[q] \subseteq DOMAIN pt'[q]
  BY <1>1, <1>3, MapNewIsolates DEF MemInv
<1>5. Isolated(Started', pt', used', data', may')
  BY <1>1, <1>4 DEF demand_alloc_page
<1>6. ~halted => Usable(alive, pt', given, lost, vmas)
  BY <1>1, <1>4, UsableStill DEF MemInv, Granted
<1>7. Granted'
  BY <1>1, <1>6 DEF MemInv, demand_alloc_page, Granted
<1> QED
  BY <1>1, <1>2, <1>5, <1>7 DEF MemInv

LEMMA TouchKeeps ==
  ASSUME MemInv, Touches
  PROVE  MemInv'
<1>1. ASSUME NEW v \in Pages, try_demand_page(v) PROVE MemInv'
  BY <1>1, DemandKeeps, PanicKeeps DEF try_demand_page
<1>2. ASSUME NEW v, UserWrite(v) \/ KernelStore(v) PROVE MemInv'
  <2>1. UserWrite(v) \/ Panic
    BY <1>2 DEF KernelStore, UserWrite
  <2> QED
    BY <2>1, StoreKeeps, PanicKeeps
<1> QED
  BY <1>1, <1>2 DEF Touches

LEMMA ResumeKeeps ==
  ASSUME MemInv, NEW s, Resume(s)
  PROVE  MemInv'
<1>1. Counted' /\ Started' = Started
  BY DEF MemInv, Counted, Resume, Started
<1>2. AreasTyped'
  BY DEF MemInv, Resume, AreasTyped
<1>3. Isolated(Started', pt', used', data', may')
  BY <1>1 DEF MemInv, Resume
<1>4. Granted'
  BY <1>1 DEF MemInv, Resume, Granted
<1> QED
  BY <1>1, <1>2, <1>3, <1>4 DEF MemInv

----------------------------------------------------------------------------
(* mmap, munmap and brk.                                                    *)

LEMMA BumpCounted ==
  ASSUME Counted, NEW n \in Nat, Bump(n), UNCHANGED <<alive, current>>
  PROVE  Counted' /\ Started' = Started
<1>1. PICK c, r, x : c = current /\ r = progs[c] /\ x = r.mmap_next + n
  OBVIOUS
<1>2. c \in Started /\ r \in Books /\ x \in Nat
  BY <1>1, CountedFacts DEF Counted
<1>3. progs' = [progs EXCEPT ![c] = [r EXCEPT !.mmap_next = x]]
  BY <1>1 DEF Bump
<1>4. PICK y : y = [r EXCEPT !.mmap_next = x]
  OBVIOUS
<1>5. y \in Books /\ y.parent = r.parent
  BY <1>2, <1>4 DEF Books
<1>6. /\ progs' \in [Started -> Books] /\ Started' = Started
      /\ \A s \in Started : progs'[s].parent = progs[s].parent
  BY <1>1, <1>2, <1>3, <1>4, <1>5 DEF Counted, Started
<1> QED
  BY <1>6 DEF Counted

LEMMA SpanTyped ==
  ASSUME NEW b \in Nat, NEW n \in Nat, b + n <= Stack
  PROVE  Span(b, n) \subseteq Pages /\ \A k \in 0 .. n : Span(b, k) \subseteq Span(b, n)
BY MemAssumption DEF Span, Pages

LEMMA InsertAreaUsable ==
  ASSUME MemInv, ~halted, NEW e \in Areas, e.valid, InsertArea(e),
         NEW p2, \A s \in alive : DOMAIN pt[s] \subseteq DOMAIN p2[s],
         NEW g2, \A s \in alive \ {current} : g2[s] = given[s],
         g2[current] \subseteq given[current] \cup AreaPages(e),
         \A v \in AreaPages(e) : v \in g2[current] => e.lazy \/ v \in DOMAIN p2[current]
  PROVE  vmas' \in Tables /\ Usable(alive, p2, g2, lost', vmas')
<1>1. PICK c, t2, l2 : c = current /\ t2 = insert(vmas, e) /\ l2 = lost'
  OBVIOUS
<1>2. /\ vmas' = t2
      /\ l2 = (lost \ ({c} \X AreaPages(e)))
               \cup (IF e.lazy THEN {c} \X Shadowed(vmas, e) ELSE (alive \ {c}) \X AreaPages(e))
               \cup (alive \X (Evicted(vmas, t2, e) \cap Pages))
  BY <1>1 DEF InsertArea
<1>3. c \in alive /\ vmas \in Tables /\ Usable(alive, pt, given, lost, vmas)
  BY <1>1 DEF MemInv, Counted, AreasTyped, Granted
<1>4. /\ \A s \in alive, v \in Pages : <<s, v>> \in lost => <<s, v>> \in l2 \/ (s = c /\ v \in AreaPages(e))
      /\ \A s \in alive \ {c}, v \in AreaPages(e) : e.lazy \/ <<s, v>> \in l2
      /\ \A s \in alive, v \in Pages : v \in Evicted(vmas, t2, e) => <<s, v>> \in l2
      /\ e.lazy => \A v \in Shadowed(vmas, e) : <<c, v>> \in l2
  BY <1>2
<1>5. \A v \in AreaPages(e) : v \in g2[c] =>
        v \in DOMAIN p2[c] \/ <<c, v>> \in l2 \/ (e.lazy /\ v \notin Shadowed(vmas, e))
  BY <1>1, <1>4
<1>6. t2 \in Tables /\ Usable(alive, p2, g2, l2, t2)
  <2>1. \A s \in alive \ {c} : g2[s] = given[s]
    BY <1>1
  <2>2. g2[c] \subseteq given[c] \cup AreaPages(e)
    BY <1>1
  <2>3. Inserts(alive, c, vmas, e, t2, pt, p2, given, g2, lost, l2)
    BY <1>1, <1>3, <1>4, <1>5, <2>1, <2>2 DEF Inserts
  <2> QED
    BY <1>3, <2>3, UsableAfterInsert
<1> QED
  BY <1>1, <1>2, <1>6

\* Grants to the current program stay inside the address space.
LEMMA GrantTyped ==
  ASSUME MemInv, NEW ps \in SUBSET Pages, Grant(ps)
  PROVE  /\ DOMAIN given' = Started /\ \A s \in Started : given'[s] \subseteq Pages
         /\ \A s \in Started \ {current} : given'[s] = given[s]
         /\ given'[current] = given[current] \cup ps
<1>1. DOMAIN given = Started /\ current \in Started /\ \A s \in Started : given[s] \subseteq Pages
  BY CountedFacts DEF MemInv, Granted
<1>2. PICK c : c = current
  OBVIOUS
<1>3. given' = [given EXCEPT ![c] = given[c] \cup ps]
  BY <1>2 DEF Grant
<1> QED
  BY <1>1, <1>2, <1>3

LEMMA AnonymousKeeps ==
  ASSUME MemInv, ~halted, NEW n \in 1 .. MaxPages, NEW w \in BOOLEAN, mmap_anonymous(n, w)
  PROVE  MemInv'
<1>1. PICK b, e : b = progs[current].mmap_next /\ e = AreaOf(b, n, w, TRUE)
  OBVIOUS
<1>2. /\ n \in Nat /\ b \in Nat /\ b + n <= Stack /\ b \in Pages
  BY <1>1, CountedFacts, MemAssumption DEF MemInv, mmap_anonymous, FitsAbove, Pages
<1>3. /\ Bump(n) /\ InsertArea(e) /\ SetMmap(b, n) /\ Grant(Span(b, n))
      /\ UNCHANGED <<pt, used, data, alive, current, halted, may>>
  BY <1>1 DEF mmap_anonymous
<1>4. e \in Areas /\ e.valid /\ e.lazy /\ AreaPages(e) = Span(b, n) /\ Span(b, n) \in SUBSET Pages
  BY <1>1, <1>2, AreaMade, SpanTyped
<1>5. Counted' /\ Started' = Started /\ alive \subseteq Started
  BY <1>2, <1>3, BumpCounted, CountedFacts DEF MemInv
<1>6. /\ DOMAIN given' = Started /\ \A s \in Started : given'[s] \subseteq Pages
      /\ \A s \in Started \ {current} : given'[s] = given[s]
      /\ given'[current] = given[current] \cup Span(b, n)
  BY <1>3, <1>4, GrantTyped
<1>7. PICK g2 : g2 = given'
  OBVIOUS
<1>8. vmas' \in Tables /\ Usable(alive, pt, g2, lost', vmas')
  BY <1>3, <1>4, <1>5, <1>6, <1>7, InsertAreaUsable
<1>9. AreasTyped'
  BY <1>2, <1>3, <1>8 DEF MemInv, AreasTyped, SetMmap
<1>10. Isolated(Started', pt', used', data', may')
  BY <1>3, <1>5 DEF MemInv
<1>11. Granted'
  BY <1>3, <1>5, <1>6, <1>7, <1>8 DEF Granted
<1> QED
  BY <1>5, <1>9, <1>10, <1>11 DEF MemInv

\* The part of a file mapping that two calls share.
LEMMA MapFileKeeps ==
  ASSUME MemInv, ~halted, NEW b \in Nat, NEW n \in Nat \ {0}, b + n <= Stack, NEW w \in BOOLEAN,
         NEW filled \in 0 .. n, MapFile(b, n, w, filled), Counted', Started' = Started,
         UNCHANGED <<alive, current, halted, may>>
  PROVE  MemInv'
<1>1. PICK ps, e, c, p2, g2 :
         /\ ps = FilePages(b, filled) /\ e = AreaOf(b, n, w, FALSE) /\ c = current
         /\ p2 = pt' /\ g2 = given'
  OBVIOUS
<1>2. /\ e \in Areas /\ e.valid /\ AreaPages(e) = Span(b, n)
      /\ Span(b, n) \in SUBSET Pages /\ b \in Pages
  <2>1. b \in Pages
    BY MemAssumption DEF Pages
  <2> QED
    BY <1>1, <2>1, AreaMade, SpanTyped
<1>3. ps \in SUBSET Pages /\ ps \subseteq AreaPages(e)
  <2>1. filled \in 0 .. n /\ 1 \in 0 .. n
    OBVIOUS
  <2>2. \A k \in 0 .. n : Span(b, k) \subseteq Span(b, n)
    BY SpanTyped
  <2> QED
    BY <1>1, <1>2, <2>1, <2>2 DEF FilePages
<1>4. /\ CanAlloc(Cardinality(ps)) /\ MapNew(c, ps, TRUE) /\ InsertArea(e)
      /\ SetMmap(b, n)
      /\ g2 = [given EXCEPT ![c] = (given[c] \ Span(b, n)) \cup ps]
  BY <1>1 DEF MapFile
<1>5. c \in Started /\ c \in alive /\ alive \subseteq Started
  BY <1>1, CountedFacts DEF MemInv
<1>6. /\ Isolated(Started, p2, used', data', may)
      /\ \A q \in Started : DOMAIN pt[q] \subseteq DOMAIN p2[q]
      /\ ps \subseteq DOMAIN p2[c]
  BY <1>1, <1>3, <1>4, <1>5, MapNewIsolates DEF MemInv
<1>7. /\ DOMAIN g2 = Started /\ \A s \in Started : g2[s] \subseteq Pages
      /\ \A s \in Started \ {c} : g2[s] = given[s] /\ g2[c] \subseteq given[c] \cup AreaPages(e)
  BY <1>3, <1>4, <1>5 DEF MemInv, Granted
<1>8. vmas' \in Tables /\ Usable(alive, p2, g2, lost', vmas')
  <2>1. /\ \A s \in alive : DOMAIN pt[s] \subseteq DOMAIN p2[s]
        /\ \A s \in alive \ {c} : g2[s] = given[s]
    BY <1>5, <1>6, <1>7
  <2>2. g2[c] \subseteq given[c] \cup AreaPages(e)
    BY <1>3, <1>4, <1>5 DEF MemInv, Granted
  <2>3. \A v \in AreaPages(e) : v \in g2[c] => v \in ps
    BY <1>2, <1>4, <1>5 DEF MemInv, Granted
  <2>4. \A v \in AreaPages(e) : v \in g2[c] => e.lazy \/ v \in DOMAIN p2[c]
    BY <1>6, <2>3
  <2> QED
    BY <1>1, <1>2, <1>4, <2>1, <2>2, <2>4, InsertAreaUsable
<1>9. AreasTyped'
  BY <1>2, <1>4, <1>8 DEF MemInv, AreasTyped, SetMmap
<1>10. Isolated(Started', pt', used', data', may')
  BY <1>1, <1>6
<1>11. Granted'
  BY <1>1, <1>4, <1>7, <1>8 DEF Granted
<1> QED
  BY <1>9, <1>10, <1>11 DEF MemInv

LEMMA FileKeeps ==
  ASSUME MemInv, ~halted, NEW n \in 1 .. MaxPages, NEW w \in BOOLEAN, NEW filled \in 0 .. n,
         mmap_file(n, w, filled)
  PROVE  MemInv'
<1>1. PICK b : b = progs[current].mmap_next
  OBVIOUS
<1>2. /\ n \in Nat \ {0} /\ b \in Nat /\ b + n <= Stack
  BY <1>1, CountedFacts, MemAssumption DEF MemInv, mmap_file, FitsAbove
<1>3. CASE Panic
  BY <1>3, PanicKeeps
<1>4. CASE /\ MapFile(b, n, w, filled) /\ Bump(n)
           /\ UNCHANGED <<alive, current, halted, may>>
  <2>1. Counted' /\ Started' = Started
    BY <1>2, <1>4, BumpCounted DEF MemInv
  <2> QED
    BY <1>2, <1>4, <2>1, MapFileKeeps
<1> QED
  BY <1>1, <1>3, <1>4 DEF mmap_file

LEMMA FixedAnonKeeps ==
  ASSUME MemInv, ~halted, NEW n \in 1 .. MaxPages, NEW w \in BOOLEAN, NEW a \in 1 .. Stack - n,
         mmap_fixed_anon(a, n, w)
  PROVE  MemInv'
<1>1. n \in Nat /\ a \in Nat /\ a + n <= Stack
  BY MemAssumption
<1>2. a \in Pages /\ Span(a, n) \in SUBSET Pages /\ IsFiniteSet(Span(a, n)) /\ Cardinality(Span(a, n)) = n
  <2>1. a \in Pages
    BY <1>1, MemAssumption DEF Pages
  <2>2. IsFiniteSet(a .. a + n - 1) /\ Cardinality(a .. a + n - 1) = n
    <3>1. PICK z \in Nat : z = a + n - 1 /\ a <= z /\ z - a + 1 = n
      BY <1>1
    <3>2. IsFiniteSet(a .. z) /\ Cardinality(a .. z) = z - a + 1
      BY <1>1, <3>1, FS_Interval
    <3> QED
      BY <3>1, <3>2
  <2> QED
    BY <1>1, <2>1, <2>2, SpanTyped DEF Span
<1>3. CASE Panic
  BY <1>3, PanicKeeps
<1>4. current \in Started /\ current \in alive /\ alive \subseteq Started
  BY CountedFacts DEF MemInv
<1>5. CASE /\ InsertArea(AreaOf(a, n, w, TRUE)) /\ Grant(Span(a, n))
           /\ UNCHANGED <<mmaps, pt, used, data, progs, alive, current, halted, may>>
  <2>1. PICK e, g2 : e = AreaOf(a, n, w, TRUE) /\ g2 = given'
    OBVIOUS
  <2>2. e \in Areas /\ e.valid /\ e.lazy /\ AreaPages(e) = Span(a, n)
    BY <1>1, <2>1, AreaMade
  <2>8. /\ DOMAIN g2 = Started /\ \A s \in Started : g2[s] \subseteq Pages
        /\ \A s \in Started \ {current} : g2[s] = given[s]
        /\ g2[current] = given[current] \cup Span(a, n)
    BY <1>2, <1>5, <2>1, GrantTyped
  <2>3. vmas' \in Tables /\ Usable(alive, pt, g2, lost', vmas')
    BY <1>4, <1>5, <2>1, <2>2, <2>8, InsertAreaUsable
  <2>4. Counted' /\ Started' = Started
    BY <1>5, IdleCounted DEF MemInv, Idle
  <2>5. AreasTyped'
    BY <1>5, <2>3 DEF MemInv, AreasTyped
  <2>6. Isolated(Started', pt', used', data', may')
    BY <1>5, <2>4 DEF MemInv
  <2>7. Granted'
    BY <1>5, <2>1, <2>3, <2>4, <2>8 DEF Granted
  <2> QED
    BY <2>4, <2>5, <2>6, <2>7 DEF MemInv
<1>6. CASE /\ CanAlloc(n) /\ MapNew(current, Span(a, n), TRUE)
           /\ InsertArea(AreaOf(a, n, w, FALSE)) /\ SetMmap(a, n) /\ Grant(Span(a, n))
           /\ UNCHANGED <<progs, alive, current, halted, may>>
  <2>1. PICK e, p2, g2 : e = AreaOf(a, n, w, FALSE) /\ p2 = pt' /\ g2 = given'
    OBVIOUS
  <2>2. e \in Areas /\ e.valid /\ AreaPages(e) = Span(a, n)
    BY <1>1, <2>1, AreaMade
  <2>3. Counted' /\ Started' = Started
    BY <1>6, IdleCounted DEF MemInv, Idle
  <2>4. /\ Isolated(Started, p2, used', data', may)
        /\ \A q \in Started : DOMAIN pt[q] \subseteq DOMAIN p2[q]
        /\ Span(a, n) \subseteq DOMAIN p2[current]
    BY <1>2, <1>4, <1>6, <2>1, MapNewIsolates DEF MemInv
  <2>5. /\ DOMAIN g2 = Started /\ \A s \in Started : g2[s] \subseteq Pages
        /\ \A s \in Started \ {current} : g2[s] = given[s]
        /\ g2[current] = given[current] \cup Span(a, n)
    BY <1>2, <1>6, <2>1, GrantTyped
  <2>6. vmas' \in Tables /\ Usable(alive, p2, g2, lost', vmas')
    <3>1. /\ \A s \in alive : DOMAIN pt[s] \subseteq DOMAIN p2[s]
          /\ \A s \in alive \ {current} : g2[s] = given[s]
          /\ g2[current] \subseteq given[current] \cup AreaPages(e)
          /\ \A v \in AreaPages(e) : e.lazy \/ v \in DOMAIN p2[current]
      BY <1>4, <2>2, <2>4, <2>5
    <3> QED
      BY <1>6, <2>1, <2>2, <3>1, InsertAreaUsable
  <2>7. AreasTyped'
    BY <1>2, <1>6, <2>6 DEF MemInv, AreasTyped, SetMmap
  <2>8. Isolated(Started', pt', used', data', may')
    BY <1>6, <2>1, <2>3, <2>4
  <2>9. Granted'
    BY <1>6, <2>1, <2>3, <2>5, <2>6 DEF Granted
  <2> QED
    BY <2>3, <2>7, <2>8, <2>9 DEF MemInv
<1> QED
  BY <1>3, <1>5, <1>6 DEF mmap_fixed_anon

LEMMA UpdateProtKeeps ==
  ASSUME NEW t \in Tables, NEW a, NEW n, NEW w \in BOOLEAN
  PROVE  /\ update_prot(t, a, n, w) \in Tables
         /\ \A v : /\ Covers(t, v) => Covers(update_prot(t, a, n, w), v)
                   /\ AllLazy(t, v) => AllLazy(update_prot(t, a, n, w), v)
<1>1. PICK t2 : t2 = update_prot(t, a, n, w)
  OBVIOUS
<1>2. ASSUME NEW i \in VmaSlots
      PROVE  t2[i] \in Areas /\ AreaPages(t2[i]) = AreaPages(t[i]) /\ t2[i].lazy = t[i].lazy
  <2>1. t[i] \in Areas
    BY DEF Tables
  <2>2. t2[i] = t[i] \/ t2[i] = [t[i] EXCEPT !.write = w]
    BY <1>1 DEF update_prot
  <2>3. PICK r, x : r = t[i] /\ x = [r EXCEPT !.write = w]
    OBVIOUS
  <2>4. x \in Areas /\ x.base = r.base /\ x.pages = r.pages /\ x.valid = r.valid /\ x.lazy = r.lazy
    BY <2>1, <2>3 DEF Areas
  <2> QED
    BY <2>1, <2>2, <2>3, <2>4 DEF AreaPages
<1>3. t2 \in Tables
  BY <1>1, <1>2 DEF Tables, update_prot
<1>4. \A v : (Covers(t, v) => Covers(t2, v)) /\ (AllLazy(t, v) => AllLazy(t2, v))
  BY <1>2 DEF Covers, AllLazy
<1> QED
  BY <1>1, <1>3, <1>4

LEMMA FixedFileKeeps ==
  ASSUME MemInv, ~halted, NEW n \in 1 .. MaxPages, NEW w \in BOOLEAN, NEW a \in 1 .. Stack - n,
         NEW filled \in 0 .. n, mmap_fixed_file(a, n, w, filled)
  PROVE  MemInv'
<1>1. n \in Nat \ {0} /\ a \in Nat /\ a + n <= Stack
  BY MemAssumption
<1>2. CASE Panic
  BY <1>2, PanicKeeps
<1>3. CASE MapFile(a, n, w, filled) /\ UNCHANGED <<progs, alive, current, halted, may>>
  <2>1. Counted' /\ Started' = Started
    BY <1>3, IdleCounted DEF MemInv, Idle
  <2> QED
    BY <1>1, <1>3, <2>1, MapFileKeeps
<1>4. CASE /\ \A v \in Span(a, filled) : Writable(current, v)
           /\ data' = [g \in Frames |-> IF \E v \in Span(a, filled) : pt[current][v].frame = g
                                        THEN Clean ELSE data[g]]
           /\ vmas' = update_prot(vmas, a, n, w)
           /\ Grant(Span(a, filled)) /\ lost' = lost \ ({current} \X Span(a, filled))
           /\ UNCHANGED <<mmaps, pt, used, progs, alive, current, halted, may>>
  <2>1. /\ Counted' /\ Started' = Started /\ current \in Started /\ alive \subseteq Started
    BY <1>4, IdleCounted, CountedFacts DEF MemInv, Idle
  <2>2. PICK d2, ps, t2, g2, l2, c :
          /\ d2 = data' /\ ps = Span(a, filled) /\ t2 = update_prot(vmas, a, n, w)
          /\ g2 = given' /\ l2 = lost' /\ c = current
    OBVIOUS
  <2>3. \A v \in ps : v \in DOMAIN pt[current]
    BY <1>4, <2>2 DEF Writable, Present
  <2>4. data \in [Frames -> Owners] /\ Clean \in Owners
    BY DEF MemInv, Isolated, Owners
  <2>5. /\ d2 \in [Frames -> Owners]
        /\ \A g \in Frames : \/ d2[g] = data[g]
                             \/ /\ \E v \in DOMAIN pt[current] : pt[current][v].frame = g
                                /\ d2[g] \in {Clean, current}
    BY <1>4, <2>2, <2>3, <2>4
  <2>6. Isolated(Started, pt, used, d2, may)
    BY <2>1, <2>5, StoreIsolates DEF MemInv
  <2>7. /\ t2 \in Tables
        /\ \A v : (Covers(vmas, v) => Covers(t2, v)) /\ (AllLazy(vmas, v) => AllLazy(t2, v))
    BY <2>2, UpdateProtKeeps DEF MemInv, AreasTyped
  <2>12. /\ DOMAIN g2 = Started /\ \A s \in Started : g2[s] \subseteq Pages
         /\ \A s \in Started \ {c} : g2[s] = given[s]
         /\ g2[c] = given[c] \cup ps
    <3>1. ps \in SUBSET Pages
      <4>1. Span(a, filled) \subseteq Span(a, n) /\ Span(a, n) \subseteq Pages
        BY <1>1, SpanTyped
      <4> QED
        BY <2>2, <4>1
    <3> QED
      BY <1>4, <2>2, <3>1, GrantTyped
  <2>8. Usable(alive, pt, g2, l2, t2)
    <3>1. ASSUME NEW s \in alive, NEW v \in Pages, v \in g2[s], v \notin DOMAIN pt[s],
                 <<s, v>> \notin l2
          PROVE  Covers(t2, v) /\ AllLazy(t2, v)
      <4>1. ~(s = c /\ v \in ps)
        BY <2>2, <2>3, <3>1
      <4>2. v \in given[s] /\ <<s, v>> \notin lost
        BY <1>4, <2>1, <2>2, <2>12, <3>1, <4>1
      <4>3. Usable(alive, pt, given, lost, vmas)
        BY DEF MemInv, Granted
      <4>4. Covers(vmas, v) /\ AllLazy(vmas, v)
        BY <3>1, <4>2, <4>3 DEF Usable
      <4> QED
        BY <2>7, <4>4
    <3> QED
      BY <3>1 DEF Usable
  <2>9. AreasTyped'
    BY <1>4, <2>2, <2>7 DEF MemInv, AreasTyped
  <2>10. Isolated(Started', pt', used', data', may')
    BY <1>4, <2>1, <2>2, <2>6
  <2>11. Granted'
    BY <1>4, <2>1, <2>2, <2>8, <2>12 DEF Granted
  <2> QED
    BY <2>1, <2>9, <2>10, <2>11 DEF MemInv
<1> QED
  BY <1>2, <1>3, <1>4 DEF mmap_fixed_file

LEMMA MunmapKeeps ==
  ASSUME MemInv, ~halted, NEW a, NEW n, sys_munmap(a, n)
  PROVE  MemInv'
<1>1. PICK ps, g2 : /\ ps = Span(a, IF a \in DOMAIN mmaps THEN mmaps[a] ELSE n)
                    /\ g2 = given'
  OBVIOUS
<1>2. /\ mmaps' = [b \in DOMAIN mmaps \ {a} |-> mmaps[b]] /\ munmap_pages(ps)
      /\ g2 = [given EXCEPT ![current] = given[current] \ ps]
      /\ UNCHANGED <<vmas, data, progs, alive, current, halted, lost, may>>
  BY <1>1 DEF sys_munmap
<1>3. /\ Counted' /\ Started' = Started /\ current \in Started /\ alive \subseteq Started
  BY <1>2, IdleCounted, CountedFacts DEF MemInv, Idle
<1>4. /\ Isolated(Started, pt', used', data, may)
      /\ \A q \in Started \ {current} : DOMAIN pt'[q] = DOMAIN pt[q]
      /\ DOMAIN pt[current] \ ps = DOMAIN pt'[current]
  BY <1>2, <1>3, UnmapIsolates DEF MemInv
<1>5. PICK p2 : p2 = pt'
  OBVIOUS
<1>6. /\ DOMAIN g2 = Started /\ \A s \in Started : g2[s] \subseteq given[s]
      /\ \A s \in Started : given[s] \subseteq Pages
  BY <1>2, <1>3 DEF MemInv, Granted
<1>7. \A s \in alive, v \in Pages : v \in DOMAIN pt[s] /\ v \in g2[s] => v \in DOMAIN p2[s]
  <2>1. g2[current] \cap ps = {}
    BY <1>2, <1>3 DEF MemInv, Granted
  <2> QED
    BY <1>3, <1>4, <1>5, <2>1
<1>8. Usable(alive, p2, g2, lost, vmas)
  <2>1. \A s \in alive : g2[s] \subseteq given[s]
    BY <1>3, <1>6
  <2> QED
    BY <1>7, <2>1, UsableStill DEF MemInv, Granted
<1>9. AreasTyped'
  BY <1>2 DEF MemInv, AreasTyped
<1>10. Isolated(Started', pt', used', data', may')
  BY <1>2, <1>3, <1>4
<1>11. Granted'
  BY <1>1, <1>2, <1>3, <1>5, <1>6, <1>8 DEF Granted
<1> QED
  BY <1>3, <1>9, <1>10, <1>11 DEF MemInv

LEMMA BrkKeeps ==
  ASSUME MemInv, ~halted, NEW new \in 1 .. MmapBase, sys_brk(new)
  PROVE  MemInv'
<1>1. PICK c, r, k, b : c = current /\ r = progs[c] /\ k = r.brk_cur /\ b = [r EXCEPT !.brk_cur = new]
  OBVIOUS
<1>2. /\ new \in Nat /\ new <= Stack /\ Stack \in Nat /\ k \in Nat
      /\ c \in Started /\ c \in alive /\ alive \subseteq Started
  <2>1. new \in Nat
    BY MemAssumption
  <2> QED
    BY <1>1, <2>1, CountedFacts, MemAssumption DEF MemInv, sys_brk
<1>3. /\ progs' = [progs EXCEPT ![c] = b]
      /\ UNCHANGED <<mmaps, pt, used, data, alive, current, halted, may>>
  BY <1>1 DEF sys_brk
<1>4. Counted' /\ Started' = Started
  <2>1. r \in Books /\ b \in Books /\ b.parent = r.parent
    BY <1>1, <1>2 DEF MemInv, Counted, Books
  <2>2. /\ progs' \in [Started -> Books] /\ Started' = Started
        /\ \A s \in Started : progs'[s].parent = progs[s].parent
    BY <1>1, <1>2, <1>3, <2>1 DEF MemInv, Counted, Started
  <2> QED
    BY <1>3, <2>2 DEF MemInv, Counted
<1>5. Isolated(Started', pt', used', data', may')
  BY <1>3, <1>4 DEF MemInv
<1>6. CASE new > k
  <2>1. PICK n \in Nat : n = new - k /\ k + n <= Stack
    BY <1>2, <1>6
  <2>2. PICK e, g2 : e = AreaOf(k, n, TRUE, TRUE) /\ g2 = given'
    OBVIOUS
  <2>3. InsertArea(e) /\ Grant(Span(k, n))
    <3>1. /\ \/ InsertArea(AreaOf(r.brk_cur, new - r.brk_cur, TRUE, TRUE)) /\ Grant(Span(r.brk_cur, new - r.brk_cur))
             \/ new <= r.brk_cur
      BY <1>1 DEF sys_brk
    <3>2. ~(new <= k)
      BY <1>2, <1>6
    <3> QED
      BY <1>1, <2>1, <2>2, <3>1, <3>2
  <2>4. /\ e \in Areas /\ e.valid /\ e.lazy /\ AreaPages(e) = Span(k, n)
        /\ Span(k, n) \in SUBSET Pages
    BY <1>2, <2>1, <2>2, AreaMade, SpanTyped
  <2>5. /\ DOMAIN g2 = Started /\ \A s \in Started : g2[s] \subseteq Pages
        /\ \A s \in Started \ {current} : g2[s] = given[s]
        /\ g2[current] = given[current] \cup Span(k, n)
    BY <2>2, <2>3, <2>4, GrantTyped
  <2>6. vmas' \in Tables /\ Usable(alive, pt, g2, lost', vmas')
    BY <1>2, <2>3, <2>4, <2>5, InsertAreaUsable
  <2>7. AreasTyped'
    BY <1>3, <2>6 DEF MemInv, AreasTyped
  <2>8. Granted'
    BY <1>3, <1>4, <2>2, <2>5, <2>6 DEF Granted
  <2> QED
    BY <1>4, <1>5, <2>7, <2>8 DEF MemInv
<1>7. CASE ~(new > k)
  <2>1. PICK g2 : g2 = given'
    OBVIOUS
  <2>2. g2 = [given EXCEPT ![c] = given[c] \ (new .. k - 1)] /\ UNCHANGED <<vmas, lost>>
    BY <1>1, <1>2, <1>7, <2>1 DEF sys_brk
  <2>3. /\ DOMAIN g2 = Started /\ \A s \in Started : g2[s] \subseteq given[s]
        /\ \A s \in Started : given[s] \subseteq Pages
    BY <1>2, <2>2 DEF MemInv, Granted
  <2>4. Usable(alive, pt, g2, lost, vmas)
    <3>1. \A s \in alive : g2[s] \subseteq given[s]
      BY <1>2, <2>3
    <3> QED
      BY <3>1, UsableStill DEF MemInv, Granted
  <2>5. AreasTyped'
    BY <1>3, <2>2 DEF MemInv, AreasTyped
  <2>6. Granted'
    BY <1>3, <1>4, <2>1, <2>2, <2>3, <2>4 DEF Granted
  <2> QED
    BY <1>4, <1>5, <2>5, <2>6 DEF MemInv
<1> QED
  BY <1>6, <1>7

----------------------------------------------------------------------------
(* Programs come and go.                                                    *)

\* The number of the next program is new and takes its place in the count.
LEMMA NextIsNew ==
  ASSUME Counted, CanStart
  PROVE  /\ NextProgram \notin Started /\ NextProgram \in Nat \ {0}
         /\ IsFiniteSet(Started \cup {NextProgram})
         /\ Started \cup {NextProgram} = 1 .. Cardinality(Started \cup {NextProgram})
         /\ Started \cup {NextProgram} \subseteq Programs
<1>1. PICK n : n = Cardinality(Started)
  OBVIOUS
<1>2. n \in Nat /\ IsFiniteSet(Started) /\ Started = 1 .. n /\ NextProgram = n + 1
  BY <1>1, FS_CardinalityType DEF Counted, NextProgram
<1>3. n + 1 \notin Started /\ 1 .. n + 1 = Started \cup {n + 1}
  BY <1>2
<1>4. IsFiniteSet(Started \cup {n + 1}) /\ Cardinality(Started \cup {n + 1}) = n + 1
  BY <1>1, <1>2, <1>3, FS_AddElement
<1>5. Started \cup {n + 1} \subseteq Programs
  BY <1>2 DEF Counted, CanStart
<1>6. n + 1 \in Nat \ {0} /\ Started \cup {n + 1} = 1 .. Cardinality(Started \cup {n + 1})
  BY <1>2, <1>3, <1>4
<1> QED
  BY <1>2, <1>3, <1>4, <1>5, <1>6

LEMMA ForkKeeps ==
  ASSUME MemInv, ~halted, fork_current
  PROVE  MemInv'
<1>1. CASE Panic
  BY <1>1, PanicKeeps
<1>2. CASE ~Panic
  <2>1. PICK s, c, g2, l2, p2 : s = NextProgram /\ c = current /\ g2 = given' /\ l2 = lost' /\ p2 = pt'
    OBVIOUS
  <2>2. /\ CanStart /\ CanAlloc(Cardinality(DOMAIN pt[c])) /\ clone_user_space
        /\ progs' = With(progs, s, [progs[c] EXCEPT !.parent = c])
        /\ alive' = alive \cup {s}
        /\ g2 = With(given, s, given[c])
        /\ l2 = lost \cup {<<s, v>> : v \in {u \in Pages : <<c, u>> \in lost}}
        /\ may' = With(may, s, may[c] \cup {s})
        /\ UNCHANGED <<vmas, mmaps, current, halted>>
    BY <1>2, <2>1 DEF fork_current
  <2>3. /\ s \notin Started /\ IsFiniteSet(Started \cup {s})
        /\ Started \cup {s} = 1 .. Cardinality(Started \cup {s}) /\ Started \cup {s} \subseteq Programs
    BY <2>1, <2>2, NextIsNew DEF MemInv
  <2>4. c \in Started /\ c \in alive /\ c \in Nat /\ alive \subseteq Started /\ progs[c] \in Books
    BY <2>1, CountedFacts DEF MemInv, Counted, Programs
  <2>5. Started' = Started \cup {s}
    BY <2>2 DEF Started, With
  <2>6. Counted'
    <3>1. PICK b : b = [progs[c] EXCEPT !.parent = c]
      OBVIOUS
    <3>2. b \in Books /\ b.parent = c /\ c # s
      BY <2>3, <2>4, <3>1 DEF Books
    <3>3. /\ progs' \in [Started \cup {s} -> Books]
          /\ \A q \in Started \cup {s} : progs'[q].parent # q
      BY <2>2, <3>1, <3>2 DEF MemInv, Counted, With, Started
    <3>4. alive' \subseteq Started \cup {s} /\ current' \in alive'
      BY <2>1, <2>2, <2>4
    <3> QED
      BY <2>3, <2>5, <3>3, <3>4 DEF Counted
  <2>7. AreasTyped'
    BY <2>2 DEF MemInv, AreasTyped
  <2>8. /\ Isolated(Started \cup {s}, pt', used', data', may')
        /\ DOMAIN p2[s] = DOMAIN pt[c] /\ \A q \in Started : p2[q] = pt[q]
    BY <2>1, <2>2, <2>3, <2>4, CloneIsolates DEF MemInv
  <2>9. /\ DOMAIN g2 = Started \cup {s} /\ g2[s] = given[c]
        /\ \A q \in Started : g2[q] = given[q] /\ given[q] \subseteq Pages
    BY <2>2, <2>3 DEF MemInv, Granted, With
  <2>10. ASSUME NEW q \in alive \cup {s}, NEW v \in Pages, v \in g2[q],
                <<q, v>> \notin l2, v \notin DOMAIN p2[q]
         PROVE  Covers(vmas, v) /\ AllLazy(vmas, v)
    <3>1. Usable(alive, pt, given, lost, vmas)
      BY DEF MemInv, Granted
    <3>2. CASE q = s
      <4>1. <<c, v>> \notin lost /\ v \notin DOMAIN pt[c]
        BY <2>2, <2>8, <2>10, <3>2
      <4> QED
        BY <2>4, <2>9, <2>10, <3>1, <3>2, <4>1 DEF Usable
    <3>3. CASE q # s
      <4>1. q \in alive /\ q \in Started /\ <<q, v>> \notin lost /\ v \notin DOMAIN pt[q]
        BY <2>2, <2>4, <2>8, <2>10, <3>3
      <4> QED
        BY <2>9, <2>10, <3>1, <4>1 DEF Usable
    <3> QED
      BY <3>2, <3>3
  <2>11. Usable(alive \cup {s}, p2, g2, l2, vmas)
    BY <2>10 DEF Usable
  <2>12. Granted'
    BY <2>1, <2>2, <2>4, <2>5, <2>9, <2>11 DEF Granted
  <2> QED
    BY <2>5, <2>6, <2>7, <2>8, <2>12 DEF MemInv
<1> QED
  BY <1>1, <1>2

\* Once both tables are empty what was granted is lost.
LEMMA UsableAfresh ==
  ASSUME NEW A, NEW p, NEW g, NEW l, \A s \in A, v \in Pages : v \in g[s] => <<s, v>> \in l,
         NEW t, t = [i \in VmaSlots |-> NoArea]
  PROVE  t \in Tables /\ Usable(A, p, g, l, t)
BY EmptyTable DEF Usable

LEMMA ExecKeeps ==
  ASSUME MemInv, ~halted, NEW dynamic \in BOOLEAN, exec_replace(dynamic)
  PROVE  MemInv'
<1>1. CASE Panic
  BY <1>1, PanicKeeps
<1>2. CASE ~Panic
  <2>1. PICK c, g2, l2, m2, t2 :
           c = current /\ g2 = given' /\ l2 = lost' /\ m2 = may' /\ t2 = [i \in VmaSlots |-> NoArea]
    OBVIOUS
  <2>2. /\ CanAlloc(2) /\ LoadImage(c) /\ vmas' = t2 /\ mmaps' = << >>
        /\ progs' = IF dynamic
                    THEN [progs EXCEPT ![c].brk_base = BrkStart, ![c].brk_cur = BrkStart]
                    ELSE progs
        /\ g2 = [given EXCEPT ![c] = {}]
        /\ l2 = {l \in lost : l[1] # c} \cup {l \in (alive \ {c}) \X Pages : l[2] \in given[l[1]]}
        /\ m2 = [may EXCEPT ![c] = {c}]
        /\ UNCHANGED <<alive, current, halted>>
    BY <1>2, <2>1 DEF exec_replace
  <2>3. c \in Started /\ c \in alive /\ alive \subseteq Started /\ progs \in [Started -> Books]
        /\ Started \cup {c} = Started
    BY <2>1, CountedFacts DEF MemInv, Counted
  <2>4. /\ progs' \in [Started -> Books]
        /\ \A q \in Started : progs'[q].parent = progs[q].parent
    <3>1. CASE dynamic
      <4>1. BrkStart \in Nat
        BY MemAssumption
      <4>2. PICK r : r = [[progs[c] EXCEPT !.brk_base = BrkStart] EXCEPT !.brk_cur = BrkStart]
        OBVIOUS
      <4>3. progs[c] \in Books
        BY <2>3
      <4>4. r \in Books /\ r.parent = progs[c].parent
        BY <4>1, <4>2, <4>3 DEF Books
      <4>5. progs' = [progs EXCEPT ![c] = r]
        BY <2>2, <2>3, <3>1, <4>2
      <4> QED
        BY <2>3, <4>4, <4>5
    <3>2. CASE ~dynamic
      BY <2>2, <2>3, <3>2
    <3> QED
      BY <3>1, <3>2
  <2>5. Counted' /\ Started' = Started
    <3>1. Started' = Started
      BY <2>4 DEF Started
    <3> QED
      BY <2>2, <2>4, <3>1 DEF MemInv, Counted
  <2>6. /\ DOMAIN m2 = Started \cup {c} /\ \A q \in Started \ {c} : m2[q] = may[q]
        /\ m2[c] = {c}
    BY <2>2, <2>3 DEF MemInv, Isolated
  <2>7. Isolated(Started \cup {c}, pt', used', data', m2)
    BY <2>2, <2>6, ImageIsolates DEF MemInv
  <2>8. /\ DOMAIN g2 = Started /\ g2[c] = {} /\ \A q \in Started \ {c} : g2[q] = given[q]
        /\ \A q \in Started : given[q] \subseteq Pages
    BY <2>2, <2>3 DEF MemInv, Granted
  <2>9. \A q \in alive, v \in Pages : v \in g2[q] => <<q, v>> \in l2
    <3>1. ASSUME NEW q \in alive, NEW v \in Pages, v \in g2[q] PROVE <<q, v>> \in l2
      <4>1. q # c /\ q \in alive \ {c} /\ v \in given[q]
        BY <2>3, <2>8, <3>1
      <4> QED
        BY <2>2, <4>1
    <3> QED
      BY <3>1
  <2>10. PICK p2 : p2 = pt'
    OBVIOUS
  <2>11. t2 \in Tables /\ Usable(alive, p2, g2, l2, t2)
    BY <2>1, <2>9, UsableAfresh
  <2>12. AreasTyped'
    BY <2>2, <2>11 DEF AreasTyped
  <2>13. Granted'
    BY <2>1, <2>2, <2>5, <2>8, <2>10, <2>11 DEF Granted
  <2> QED
    BY <2>1, <2>3, <2>5, <2>7, <2>12, <2>13 DEF MemInv
<1> QED
  BY <1>1, <1>2

LEMMA EnterKeeps ==
  ASSUME MemInv, ~halted, NEW dynamic \in BOOLEAN, enter_elf(dynamic)
  PROVE  MemInv'
<1>1. PICK s, c, g2, l2, m2, p2, A2, b :
         /\ s = NextProgram /\ c = current /\ g2 = given' /\ l2 = lost' /\ m2 = may' /\ p2 = pt'
         /\ A2 = (alive \ {c}) \cup {s}
         /\ b = [mmap_next |-> MmapBase, parent |-> 0,
                 brk_base |-> IF dynamic THEN BrkStart ELSE 0,
                 brk_cur  |-> IF dynamic THEN BrkStart ELSE 0]
  OBVIOUS
<1>2. /\ CanStart /\ CanAlloc(2) /\ current' = s /\ alive' = A2 /\ LoadImage(s)
      /\ progs' = With(progs, s, b) /\ g2 = With(given, s, {}) /\ m2 = With(may, s, {s})
      /\ halted' = halted
  BY <1>1 DEF enter_elf
<1>3. /\ s \notin Started /\ IsFiniteSet(Started \cup {s})
      /\ Started \cup {s} = 1 .. Cardinality(Started \cup {s}) /\ Started \cup {s} \subseteq Programs
  BY <1>1, <1>2, NextIsNew DEF MemInv
<1>4. alive \subseteq Started /\ progs \in [Started -> Books]
  BY DEF MemInv, Counted
<1>5. Started' = Started \cup {s}
  BY <1>2 DEF Started, With
<1>6. Counted'
  <2>1. MmapBase \in Nat /\ BrkStart \in Nat
    BY MemAssumption
  <2>2. b \in Books /\ b.parent = 0 /\ s # 0
    <3>1. b \in Books /\ b.parent = 0
      BY <1>1, <2>1 DEF Books
    <3> QED
      BY <1>1, <1>2, <3>1, NextIsNew DEF MemInv
  <2>3. /\ progs' \in [Started \cup {s} -> Books]
        /\ \A q \in Started \cup {s} : progs'[q].parent # q
    BY <1>2, <1>4, <2>2 DEF With, Started, MemInv, Counted
  <2>4. alive' \subseteq Started \cup {s} /\ current' \in alive'
    BY <1>1, <1>2, <1>4
  <2> QED
    BY <1>3, <1>5, <2>3, <2>4 DEF Counted
<1>7. /\ DOMAIN m2 = Started \cup {s} /\ \A q \in Started \ {s} : m2[q] = may[q]
      /\ m2[s] = {s}
  BY <1>2 DEF MemInv, Isolated, With
<1>8. /\ Isolated(Started \cup {s}, p2, used', data', m2)
      /\ \A q \in Started \ {s} : p2[q] = pt[q]
  BY <1>1, <1>2, <1>7, ImageIsolates DEF MemInv
<1>9. /\ DOMAIN g2 = Started \cup {s} /\ g2[s] = {}
      /\ \A q \in Started : g2[q] = given[q] /\ given[q] \subseteq Pages
  BY <1>2, <1>3 DEF MemInv, Granted, With
<1>10. AreasTyped' /\ Usable(A2, p2, g2, l2, vmas')
  <2>1. CASE dynamic
    <3>1. PICK t2 : t2 = [i \in VmaSlots |-> NoArea]
      OBVIOUS
    <3>2. /\ vmas' = t2 /\ mmaps' = << >>
          /\ l2 = lost \cup {l \in alive \X Pages : l[2] \in given[l[1]]}
      BY <1>1, <2>1, <3>1 DEF enter_elf
    <3>3. ASSUME NEW q \in A2, NEW v \in Pages, v \in g2[q] PROVE <<q, v>> \in l2
      <4>1. q \in alive /\ v \in given[q]
        BY <1>1, <1>4, <1>9, <3>3
      <4> QED
        BY <3>2, <4>1
    <3>4. t2 \in Tables /\ Usable(A2, p2, g2, l2, t2)
      BY <3>1, <3>3, UsableAfresh
    <3> QED
      BY <3>2, <3>4 DEF AreasTyped
  <2>2. CASE ~dynamic
    <3>1. UNCHANGED <<vmas, mmaps>> /\ l2 = lost
      BY <1>1, <2>2 DEF enter_elf
    <3>2. ASSUME NEW q \in A2, NEW v \in Pages, v \in g2[q], <<q, v>> \notin l2, v \notin DOMAIN p2[q]
          PROVE  Covers(vmas, v) /\ AllLazy(vmas, v)
      <4>1. CASE q = s
        BY <1>9, <3>2, <4>1
      <4>2. CASE q # s
        <5>1. q \in alive /\ q \in Started \ {s}
          BY <1>1, <1>4, <4>2
        <5>2. <<q, v>> \notin lost /\ v \notin DOMAIN pt[q] /\ g2[q] = given[q]
          BY <1>8, <1>9, <3>1, <3>2, <5>1
        <5>3. Usable(alive, pt, given, lost, vmas)
          BY DEF MemInv, Granted
        <5> QED
          BY <3>2, <5>1, <5>2, <5>3 DEF Usable
      <4> QED
        BY <4>1, <4>2
    <3>3. Usable(A2, p2, g2, l2, vmas)
      BY <3>2 DEF Usable
    <3> QED
      BY <3>1, <3>3 DEF MemInv, AreasTyped
  <2> QED
    BY <2>1, <2>2
<1>11. Granted'
  BY <1>1, <1>2, <1>5, <1>9, <1>10 DEF Granted
<1> QED
  BY <1>1, <1>5, <1>6, <1>8, <1>10, <1>11 DEF MemInv

LEMMA ExitKeeps ==
  ASSUME MemInv, ~halted, NEW dynamic \in BOOLEAN, sys_exit_impl(dynamic)
  PROVE  MemInv'
<1>1. CASE enter_elf(dynamic)
  BY <1>1, EnterKeeps
<1>2. CASE ~enter_elf(dynamic)
  <2>1. PICK c, p2, A2 : c = current /\ p2 = pt' /\ A2 = alive \ {c}
    OBVIOUS
  <2>2. /\ progs[c].parent \in alive /\ current' = progs[c].parent /\ alive' = A2
        /\ p2 = [pt EXCEPT ![c] = << >>]
        /\ UNCHANGED <<vmas, mmaps, used, data, progs, halted, given, lost, may>>
    BY <1>2, <2>1 DEF sys_exit_impl
  <2>3. /\ c \in Started /\ alive \subseteq Started /\ progs[c].parent # c
        /\ Started \cup {c} = Started
    BY <2>1, CountedFacts DEF MemInv, Counted
  <2>4. Counted' /\ Started' = Started
    <3>1. alive' \subseteq Started /\ current' \in alive'
      BY <2>1, <2>2, <2>3
    <3> QED
      BY <2>2, <3>1 DEF MemInv, Counted, Started
  <2>5. AreasTyped'
    BY <2>2 DEF MemInv, AreasTyped
  <2>6. /\ DOMAIN p2 = Started /\ DOMAIN p2[c] = {} /\ \A q \in Started \ {c} : p2[q] = pt[q]
    BY <2>2, <2>3 DEF MemInv, Isolated
  <2>7. Isolated(Started, p2, used, data, may)
    BY <2>3, <2>6 DEF MemInv, Isolated
  <2>8. Usable(A2, p2, given, lost, vmas)
    <3>1. A2 \in SUBSET alive /\ \A q \in A2 : DOMAIN pt[q] \subseteq DOMAIN p2[q]
      BY <2>1, <2>3, <2>6
    <3> QED
      BY <3>1, UsableStill DEF MemInv, Granted
  <2>9. Granted'
    BY <2>1, <2>2, <2>4, <2>8 DEF MemInv, Granted
  <2> QED
    BY <2>1, <2>2, <2>4, <2>5, <2>7, <2>9 DEF MemInv
<1> QED
  BY <1>1, <1>2

----------------------------------------------------------------------------
(* The theorems.                                                            *)

LEMMA StartsSound ==
  ASSUME MemInit
  PROVE  MemInv
<1>1. PICK f \in Frames, g \in Frames :
        /\ f = Min(Frames) /\ g = Min(Frames \ {f})
        /\ pt = [s \in {1} |-> [v \in {0, Stack} |->
                    [frame |-> IF v = 0 THEN f ELSE g, writable |-> TRUE]]]
        /\ used = {f, g} /\ data = [h \in Frames |-> Clean]
  BY DEF MemInit
<1>2. g # f
  <2>1. IsFiniteSet(Frames \ {f}) /\ Cardinality(Frames \ {f}) = Cardinality(Frames) - 1
    BY <1>1, MemAssumption, FS_RemoveElement
  <2>2. Cardinality(Frames) \in Nat /\ Cardinality(Frames) >= 2
    BY MemAssumption, FS_CardinalityType
  <2>3. Frames \ {f} # {}
    <3>1. Cardinality(Frames \ {f}) # 0
      BY <2>1, <2>2
    <3> QED
      BY <3>1, FS_EmptySet
  <2>4. Frames \ {f} \in SUBSET Nat
    BY MemAssumption
  <2> QED
    BY <1>1, <2>3, <2>4, MinIsLeast
<1>3. Started = {1} /\ 1 \in Programs /\ Stack \in Nat \ {0} /\ MmapBase \in Nat
  BY MemAssumption DEF MemInit, Started, Programs
<1>4. Counted
  <2>1. IsFiniteSet({1}) /\ Cardinality({1}) = 1 /\ {1} = 1 .. 1
    <3>1. IsFiniteSet({1}) /\ Cardinality({1}) = 1
      BY FS_Singleton
    <3>2. {1} = 1 .. 1
      OBVIOUS
    <3> QED
      BY <3>1, <3>2
  <2>2. progs \in [{1} -> Books] /\ progs[1].parent = 0
    BY <1>3 DEF MemInit, Books
  <2> QED
    BY <1>3, <2>1, <2>2 DEF MemInit, Counted
<1>5. AreasTyped
  BY EmptyTable DEF MemInit, AreasTyped
<1>6. Isolated(Started, pt, used, data, may)
  <2>1. PICK m : m = [v \in {0, Stack} |-> [frame |-> IF v = 0 THEN f ELSE g, writable |-> TRUE]]
    OBVIOUS
  <2>2. pt = [s \in {1} |-> m] /\ may = [s \in {1} |-> {1}]
    BY <1>1, <2>1 DEF MemInit
  <2>3. /\ DOMAIN m = {0, Stack} /\ m[0].frame = f /\ m[Stack].frame = g
        /\ "frame" \in DOMAIN m[0] /\ "frame" \in DOMAIN m[Stack]
    BY <1>3, <2>1
  <2>4. {0, Stack} \subseteq Pages /\ Clean \in Owners
    BY <1>3 DEF Pages, Owners
  <2> QED
    BY <1>1, <1>2, <1>3, <2>2, <2>3, <2>4 DEF Isolated
<1>7. Granted
  <2>1. given = [s \in {1} |-> {}] /\ alive = {1} /\ vmas = [i \in VmaSlots |-> NoArea]
    BY DEF MemInit
  <2>2. Usable(alive, pt, given, lost, vmas)
    BY <2>1, UsableAfresh
  <2> QED
    BY <1>3, <2>1, <2>2 DEF Granted
<1> QED
  BY <1>4, <1>5, <1>6, <1>7 DEF MemInv

LEMMA StepSound ==
  ASSUME MemInv, [MemNext]_memVars
  PROVE  MemInv'
<1>1. CASE UNCHANGED memVars
  <2>1. Counted' /\ Started' = Started
    BY <1>1, IdleCounted DEF MemInv, Idle, memVars
  <2>2. AreasTyped' /\ Granted' /\ Isolated(Started', pt', used', data', may')
    BY <1>1, <2>1 DEF MemInv, memVars, AreasTyped, Granted
  <2> QED
    BY <2>1, <2>2 DEF MemInv
<1>2. CASE ~halted /\ Touches
  BY <1>2, TouchKeeps
<1>3. ASSUME NEW s \in alive, Resume(s) PROVE MemInv'
  BY <1>3, ResumeKeeps
<1>4. CASE ~halted /\ MemoryCalls
  <2>1. ASSUME NEW n \in 1 .. MaxPages, NEW w \in BOOLEAN,
               mmap_anonymous(n, w) \/ \E filled \in 0 .. n : mmap_file(n, w, filled)
        PROVE  MemInv'
    BY <1>4, <2>1, AnonymousKeeps, FileKeeps
  <2>2. ASSUME NEW n \in 1 .. MaxPages, NEW w \in BOOLEAN, NEW addr \in 1 .. Stack - n,
               \/ mmap_fixed_anon(addr, n, w)
               \/ \E filled \in 0 .. n : mmap_fixed_file(addr, n, w, filled)
        PROVE  MemInv'
    BY <1>4, <2>2, FixedAnonKeeps, FixedFileKeeps
  <2>3. ASSUME NEW addr, NEW n, sys_munmap(addr, n) PROVE MemInv'
    BY <1>4, <2>3, MunmapKeeps
  <2>4. ASSUME NEW new \in 1 .. MmapBase, sys_brk(new) PROVE MemInv'
    BY <1>4, <2>4, BrkKeeps
  <2>5. ASSUME NEW dynamic \in BOOLEAN, exec_replace(dynamic) \/ sys_exit_impl(dynamic)
        PROVE  MemInv'
    BY <1>4, <2>5, ExecKeeps, ExitKeeps
  <2> QED
    BY <1>4, <2>1, <2>2, <2>3, <2>4, <2>5, ForkKeeps DEF MemoryCalls
<1> QED
  BY <1>1, <1>2, <1>3, <1>4 DEF MemNext

LEMMA MemSound == MemSpec => []MemInv
<1>1. MemInit => MemInv
  BY StartsSound
<1>2. MemInv /\ [MemNext]_memVars => MemInv'
  BY StepSound
<1> QED
  BY <1>1, <1>2, PTL DEF MemSpec

(* The areas, page tables, frames and grants keep their shape, every program  *)
(* has a number of its own and the one that runs is alive.                    *)
THEOREM MemoryTyped == MemSpec => []MemTypeOK
<1>1. MemInv => MemTypeOK
  <2>1. SUFFICES ASSUME MemInv PROVE MemTypeOK
    OBVIOUS
  <2>2. ASSUME NEW i \in VmaSlots PROVE vmas[i].pages <= Stack + 1
    <3>1. PICK b \in Nat, n \in Nat : n = vmas[i].pages /\ b + n <= Stack
      BY <2>1, AreaFields DEF MemInv, AreasTyped, Tables
    <3> QED
      BY <3>1, MemAssumption
  <2>3. Started = 1 .. Cardinality(Started) /\ alive \subseteq Started /\ current \in alive
    BY <2>1 DEF MemInv, Counted
  <2> QED
    BY <2>1, <2>2, <2>3 DEF MemTypeOK, MemInv, AreasTyped, Isolated, Granted, Owners
<1> QED
  BY <1>1, MemSound, PTL

(* Neither a frame nor what was in it is shared between programs: mmap, demand *)
(* paging, fork, exec and the next program take frames that no page table      *)
(* names, munmap takes the page with the frame, and except for the stack a new *)
(* page is cleared or the copy of one that fork may hand on.                   *)
THEOREM MemoryIsolates == MemSpec => []ProgramsIsolated
<1>1. MemInv => ProgramsIsolated
  <2>1. SUFFICES ASSUME MemInv PROVE ProgramsIsolated
    OBVIOUS
  <2>2. FramesArePrivate
    BY <2>1 DEF MemInv, Isolated, FramesArePrivate
  <2>3. NoForeignData
    BY <2>1 DEF MemInv, Counted, Isolated, NoForeignData
  <2> QED
    BY <2>2, <2>3 DEF ProgramsIsolated
<1> QED
  BY <1>1, MemSound, PTL

(* While the kernel runs, a page that mmap or brk granted and that nobody took *)
(* is present or in a lazy area, whatever the other areas over it are: the     *)
(* shared table of areas and the tail that insert keeps lose none.             *)
THEOREM GrantsAreKept == MemSpec => []GrantedPagesUsable
<1>1. MemInv => GrantedPagesUsable
  <2>1. SUFFICES ASSUME MemInv, ~halted, NEW s \in alive, NEW v \in given[s],
                        ~Present(s, v), <<s, v>> \notin lost
                 PROVE  find(vmas, v).lazy
    BY DEF GrantedPagesUsable
  <2>2. v \in Pages /\ Usable(alive, pt, given, lost, vmas)
    BY <2>1 DEF MemInv, Counted, Granted
  <2>3. Covers(vmas, v) /\ AllLazy(vmas, v)
    BY <2>1, <2>2 DEF Usable, Present
  <2>4. PICK hits : hits = {i \in VmaSlots : v \in AreaPages(vmas[i])}
    OBVIOUS
  <2>5. hits # {} /\ hits \in SUBSET Nat
    BY <2>3, <2>4, MemAssumption DEF Covers, VmaSlots
  <2>6. Min(hits) \in hits
    BY <2>5, MinIsLeast
  <2>7. find(vmas, v) = vmas[Min(hits)]
    BY <2>4, <2>5 DEF find
  <2> QED
    BY <2>3, <2>4, <2>6, <2>7 DEF AllLazy
<1> QED
  BY <1>1, MemSound, PTL

----------------------------------------------------------------------------
(* The dynamic linker loads the closure of the needed lists.                *)
(*                                                                          *)
(* ls is a sequence of modules and pd a stack of lists, as libs and pending *)
(* are before or after a step.                                              *)

ModuleRecords == [name: LibNames \cup {"(exec)"}, load_base: Nat,
                  file: Executables \cup UNION {{d[n] : n \in LibNames} : d \in LibDirs}]

\* The modules from this index on were loaded by load_deps.
FirstDep == IF SharedObject(exe.interp) THEN 3 ELSE 2

\* An entry is done with: no such library, or a module of that name is there
\* (for a name with a directory, one that load_deps loaded).
Settled(ls, d) ==
    SharedObject(d.base) =>
        \E i \in DOMAIN ls : ls[i].name = d.base /\ (d.dir => i >= FirstDep)

\* The calls of load_deps in progress still have to visit the entry.
InLists(pd, d) == \E i \in DOMAIN pd : \E k \in DOMAIN pd[i] : pd[i][k] = d

\* The modules once the interpreter has been seen to: the program, the
\* interpreter if /lib has it, and libraries the lists reach, twice only for a
\* name with a directory.
ModulesOk(ls) ==
    /\ Len(ls) >= FirstDep - 1 /\ ls[1].name = "(exec)"
    /\ SharedObject(exe.interp) => ls[2].name = exe.interp
    /\ \A i \in DOMAIN ls : i >= FirstDep =>
          /\ ls[i].name \in LibNames /\ SharedObject(ls[i].name)
          /\ \E d \in Reached : d.base = ls[i].name
    /\ \A i, j \in DOMAIN ls : i < j /\ ls[i].name = ls[j].name =>
          [dir |-> TRUE, base |-> ls[i].name] \in Reached

\* No name is lost: each one of the lists followed so far is done with or
\* still to be visited.
ListsOk(ls, pd) ==
    /\ pd \in Seq(Seq(Entries))
    /\ \A d \in Entries : InLists(pd, d) => d \in Reached
    /\ \A d \in Range(exe.needed) : Settled(ls, d) \/ InLists(pd, d)
    /\ \A i \in DOMAIN ls : i >= FirstDep =>
          \A d \in Range(lib[ls[i].name].needed) : Settled(ls, d) \/ InLists(pd, d)

Linking == needs_dynlink(exe) /\ (lib[exe.interp].here => lib[exe.interp].elf)

\* What is in /lib and in the program is well formed.
FilesOk ==
    /\ exe.interp \in LibNames /\ exe.needed \in Seq(Entries)
    /\ \A n \in LibNames : SharedObject(n) => lib[n].needed \in Seq(Entries)

LEMMA FilesAreOk ==
  ASSUME exe \in Executables, lib \in LibDirs, needs_dynlink(exe)
  PROVE  FilesOk
<1>1. exe.interp \in LibNames /\ exe.needed \in Seq(Entries)
  BY FilesAssumption DEF needs_dynlink
<1>2. \A n \in LibNames : lib[n].here /\ lib[n].elf => lib[n].needed \in Seq(Entries)
  BY FilesAssumption
<1> QED
  BY <1>1, <1>2 DEF FilesOk, SharedObject

LEMMA RangeIn ==
  ASSUME NEW S, NEW s \in Seq(S)
  PROVE  Range(s) \subseteq S
BY DEF Range

\* Reached holds the program's list, is closed, and is the least such set.
LEMMA ReachedRoots ==
  ASSUME FilesOk
  PROVE  Range(exe.needed) \subseteq Reached
<1>1. Range(exe.needed) \subseteq Entries
  BY RangeIn DEF FilesOk
<1> QED
  BY <1>1 DEF Reached

LEMMA ReachedClosed ==
  ASSUME FilesOk, NEW d \in Reached, Followed(d)
  PROVE  Range(lib[d.base].needed) \subseteq Reached
<1>1. d \in Entries /\ d.base \in LibNames
  BY DEF Reached, Entries
<1>2. Range(lib[d.base].needed) \subseteq Entries
  BY <1>1, RangeIn DEF FilesOk, Followed
<1>3. ASSUME NEW e \in Range(lib[d.base].needed), NEW S \in SUBSET Entries,
             Range(exe.needed) \subseteq S, Closed(S)
      PROVE  e \in S
  <2>1. d \in S
    BY <1>3 DEF Reached
  <2> QED
    BY <1>3, <2>1 DEF Closed
<1> QED
  BY <1>2, <1>3 DEF Reached

LEMMA ReachedLeast ==
  ASSUME NEW S \in SUBSET Entries, Range(exe.needed) \subseteq S, Closed(S)
  PROVE  Reached \subseteq S
BY DEF Reached

LEMMA ReachedIn == Reached \subseteq Entries
BY DEF Reached

\* What the stack of lists holds after each of the moves of load_deps.
LEMMA ListsEmpty == \A d : ~InLists(<< >>, d)
BY DEF InLists

LEMMA ListsPush ==
  ASSUME NEW E, NEW l \in Seq(E), NEW q \in Seq(Seq(E)), NEW d
  PROVE  /\ <<l>> \o q \in Seq(Seq(E))
         /\ InLists(<<l>> \o q, d) <=> d \in Range(l) \/ InLists(q, d)
<1> DEFINE p == <<l>> \o q
<1>1. /\ p \in Seq(Seq(E)) /\ Len(p) = Len(q) + 1 /\ p[1] = l
      /\ \A i \in 1..Len(q) : p[i + 1] = q[i]
  OBVIOUS
<1>2. DOMAIN p = 1..Len(p) /\ DOMAIN q = 1..Len(q) /\ Len(q) \in Nat
  BY <1>1
<1> HIDE DEF p
<1>3. ASSUME InLists(p, d), d \notin Range(l) PROVE InLists(q, d)
  <2>1. PICK i \in DOMAIN p : \E k \in DOMAIN p[i] : p[i][k] = d
    BY <1>3 DEF InLists
  <2>2. i # 1
    BY <1>1, <1>3, <2>1 DEF Range
  <2>3. PICK j \in 1..Len(q) : i = j + 1
    <3>1. i - 1 \in 1..Len(q) /\ i = (i - 1) + 1
      BY <1>1, <1>2, <2>2
    <3> QED
      BY <3>1
  <2> QED
    BY <1>1, <1>2, <2>1, <2>3 DEF InLists
<1>4. ASSUME d \in Range(l) PROVE InLists(p, d)
  <2>1. 1 \in DOMAIN p
    BY <1>1, <1>2
  <2> QED
    BY <1>1, <1>4, <2>1 DEF InLists, Range
<1>5. ASSUME InLists(q, d) PROVE InLists(p, d)
  <2>1. PICK j \in 1..Len(q) : \E k \in DOMAIN q[j] : q[j][k] = d
    BY <1>2, <1>5 DEF InLists
  <2>2. PICK i \in DOMAIN p : i = j + 1
    BY <1>1, <1>2
  <2> QED
    BY <1>1, <2>1, <2>2 DEF InLists
<1> QED
  BY <1>1, <1>3, <1>4, <1>5 DEF p

LEMMA TailOfOne ==
  ASSUME NEW S, NEW s \in Seq(S), Len(s) = 1
  PROVE  Tail(s) = << >>
<1>1. Tail(s) \in Seq(S) /\ Len(Tail(s)) = 0
  OBVIOUS
<1>2. PICK t \in Seq(S) : t = Tail(s) /\ Len(t) = 0
  BY <1>1
<1>3. t = << >>
  BY <1>2
<1> QED
  BY <1>2, <1>3

LEMMA ListsPop ==
  ASSUME NEW E, NEW p \in Seq(Seq(E)), p # << >>, NEW d
  PROVE  /\ Head(p) \in Seq(E) /\ Tail(p) \in Seq(Seq(E)) /\ p = <<Head(p)>> \o Tail(p)
         /\ InLists(p, d) <=> d \in Range(Head(p)) \/ InLists(Tail(p), d)
<1>1. Head(p) \in Seq(E) /\ Tail(p) \in Seq(Seq(E)) /\ p = <<Head(p)>> \o Tail(p)
  OBVIOUS
<1>2. PICK l \in Seq(E), q \in Seq(Seq(E)) : l = Head(p) /\ q = Tail(p)
  BY <1>1
<1>3. p = <<l>> \o q
  BY <1>1, <1>2
<1>4. InLists(<<l>> \o q, d) <=> d \in Range(l) \/ InLists(q, d)
  BY ListsPush
<1> QED
  BY <1>1, <1>2, <1>3, <1>4

LEMMA RangeHeadTail ==
  ASSUME NEW E, NEW l \in Seq(E), l # << >>
  PROVE  /\ Head(l) \in E /\ Tail(l) \in Seq(E)
         /\ Range(l) = {Head(l)} \cup Range(Tail(l))
<1>1. /\ Head(l) \in E /\ Tail(l) \in Seq(E) /\ Len(l) \in Nat \ {0}
      /\ Head(l) = l[1] /\ Len(Tail(l)) = Len(l) - 1
      /\ \A i \in 1..(Len(l) - 1) : Tail(l)[i] = l[i + 1]
  OBVIOUS
<1>2. PICK t \in Seq(E) : t = Tail(l)
  BY <1>1
<1>3. DOMAIN l = 1..Len(l) /\ DOMAIN t = 1..(Len(l) - 1)
  BY <1>1, <1>2
<1>4. ASSUME NEW x \in Range(l), x # l[1] PROVE x \in Range(t)
  <2>1. PICK i \in 1..Len(l) : l[i] = x
    BY <1>3 DEF Range
  <2>2. PICK j \in 1..(Len(l) - 1) : i = j + 1
    <3>1. i # 1
      BY <1>4, <2>1
    <3>2. i - 1 \in 1..(Len(l) - 1) /\ i = (i - 1) + 1
      BY <1>1, <3>1
    <3> QED
      BY <3>2
  <2> QED
    BY <1>1, <1>2, <1>3, <2>1, <2>2 DEF Range
<1>5. ASSUME NEW x \in Range(t) PROVE x \in Range(l)
  <2>1. PICK j \in 1..(Len(l) - 1) : t[j] = x
    BY <1>3 DEF Range
  <2>2. j + 1 \in 1..Len(l) /\ l[j + 1] = x
    BY <1>1, <1>2, <2>1
  <2> QED
    BY <1>3, <2>2 DEF Range
<1>6. l[1] \in Range(l)
  BY <1>1, <1>3 DEF Range
<1> QED
  BY <1>1, <1>2, <1>4, <1>5, <1>6

\* load_deps passes over a name that is done with.
LEMMA VisitPasses ==
  ASSUME FilesOk, NEW ls, NEW pd, ListsOk(ls, pd), pd # << >>, Head(pd) # << >>,
         Settled(ls, Head(Head(pd)))
  PROVE  ListsOk(ls, <<Tail(Head(pd))>> \o Tail(pd))
<1>0. pd \in Seq(Seq(Entries))
  BY DEF ListsOk
<1>1. PICK l \in Seq(Entries), q \in Seq(Seq(Entries)) : l = Head(pd) /\ q = Tail(pd)
  BY <1>0, ListsPop
<1>2. PICK h \in Entries, t \in Seq(Entries) :
        h = Head(l) /\ t = Tail(l) /\ Range(l) = {h} \cup Range(t)
  <2>1. l # << >>
    BY <1>1
  <2>2. /\ Head(l) \in Entries /\ Tail(l) \in Seq(Entries)
        /\ Range(l) = {Head(l)} \cup Range(Tail(l))
    BY <2>1, RangeHeadTail
  <2> QED
    BY <2>2
<1>3. \A d : InLists(pd, d) <=> d \in Range(l) \/ InLists(q, d)
  BY <1>0, <1>1, ListsPop
<1>4. PICK np \in Seq(Seq(Entries)) :
        np = <<t>> \o q /\ \A d : InLists(np, d) <=> d \in Range(t) \/ InLists(q, d)
  BY ListsPush
<1>5. \A d : InLists(pd, d) <=> d = h \/ InLists(np, d)
  BY <1>2, <1>3, <1>4
<1>6. Settled(ls, h)
  BY <1>1, <1>2
<1>7. ListsOk(ls, np)
  BY <1>5, <1>6 DEF ListsOk
<1> QED
  BY <1>1, <1>2, <1>4, <1>7

\* load_deps returns from a list it has gone through.
LEMMA ListReturns ==
  ASSUME NEW ls, NEW pd, ListsOk(ls, pd), pd # << >>, Head(pd) = << >>
  PROVE  ListsOk(ls, Tail(pd))
<1>0. pd \in Seq(Seq(Entries))
  BY DEF ListsOk
<1>1. PICK l \in Seq(Entries), q \in Seq(Seq(Entries)) : l = Head(pd) /\ q = Tail(pd)
  BY <1>0, ListsPop
<1>2. \A d : InLists(pd, d) <=> d \in Range(l) \/ InLists(q, d)
  BY <1>0, <1>1, ListsPop
<1>3. \A d : d \notin Range(l)
  BY <1>1 DEF Range
<1>4. ListsOk(ls, q)
  BY <1>2, <1>3 DEF ListsOk
<1> QED
  BY <1>1, <1>4

\* A module more at the end settles what was settled before.
LEMMA AppendFacts ==
  ASSUME NEW ls \in Seq(ModuleRecords), NEW m \in ModuleRecords
  PROVE  /\ Append(ls, m) \in Seq(ModuleRecords)
         /\ DOMAIN Append(ls, m) = 1..(Len(ls) + 1) /\ DOMAIN ls = 1..Len(ls) /\ Len(ls) \in Nat
         /\ Len(Append(ls, m)) = Len(ls) + 1
         /\ \A i \in 1..Len(ls) : Append(ls, m)[i] = ls[i]
         /\ Append(ls, m)[Len(ls) + 1] = m
         /\ \A d : Settled(ls, d) => Settled(Append(ls, m), d)
<1> HIDE DEF ModuleRecords
<1>1. /\ Append(ls, m) \in Seq(ModuleRecords)
      /\ DOMAIN Append(ls, m) = 1..(Len(ls) + 1) /\ DOMAIN ls = 1..Len(ls) /\ Len(ls) \in Nat
      /\ Len(Append(ls, m)) = Len(ls) + 1
      /\ \A i \in 1..Len(ls) : Append(ls, m)[i] = ls[i]
      /\ Append(ls, m)[Len(ls) + 1] = m
  OBVIOUS
<1>2. PICK a : a = Append(ls, m)
  OBVIOUS
<1>3. ASSUME NEW d, Settled(ls, d), SharedObject(d.base)
      PROVE  \E i \in DOMAIN a : a[i].name = d.base /\ (d.dir => i >= FirstDep)
  <2>1. PICK i \in DOMAIN ls : ls[i].name = d.base /\ (d.dir => i >= FirstDep)
    BY <1>3 DEF Settled
  <2>2. i \in DOMAIN a /\ a[i] = ls[i]
    BY <1>1, <1>2
  <2> QED
    BY <2>1, <2>2
<1>4. \A d : Settled(ls, d) => Settled(a, d)
  BY <1>3 DEF Settled
<1> QED
  BY <1>1, <1>2, <1>4

\* load_deps loads a library: the name it visits is done with, and its list
\* is the next to go through.
LEMMA VisitLoads ==
  ASSUME FilesOk, NEW ls \in Seq(ModuleRecords), NEW pd, ModulesOk(ls), ListsOk(ls, pd),
         pd # << >>, Head(pd) # << >>, NEW d, d = Head(Head(pd)), SharedObject(d.base),
         ~(~d.dir /\ \E i \in DOMAIN ls : ls[i].name = d.base),
         NEW m \in ModuleRecords, m.name = d.base
  PROVE  /\ ModulesOk(Append(ls, m))
         /\ ListsOk(Append(ls, m), <<lib[d.base].needed>> \o (<<Tail(Head(pd))>> \o Tail(pd)))
<1>0. pd \in Seq(Seq(Entries))
  BY DEF ListsOk
<1>1. PICK l \in Seq(Entries), q \in Seq(Seq(Entries)) : l = Head(pd) /\ q = Tail(pd)
  BY <1>0, ListsPop
<1>2. PICK h \in Entries, t \in Seq(Entries) :
        h = Head(l) /\ t = Tail(l) /\ Range(l) = {h} \cup Range(t)
  <2>1. l # << >>
    BY <1>1
  <2>2. /\ Head(l) \in Entries /\ Tail(l) \in Seq(Entries)
        /\ Range(l) = {Head(l)} \cup Range(Tail(l))
    BY <2>1, RangeHeadTail
  <2> QED
    BY <2>2
<1>3. h = d
  BY <1>1, <1>2
<1>4. \A x : InLists(pd, x) <=> x \in Range(l) \/ InLists(q, x)
  BY <1>0, <1>1, ListsPop
<1>5. PICK np \in Seq(Seq(Entries)) :
        np = <<t>> \o q /\ \A x : InLists(np, x) <=> x \in Range(t) \/ InLists(q, x)
  BY ListsPush
<1>6. d.base \in LibNames /\ d.dir \in BOOLEAN /\ d = [dir |-> d.dir, base |-> d.base]
  BY <1>2, <1>3 DEF Entries
<1>7. PICK nd \in Seq(Entries) : nd = lib[d.base].needed
  BY <1>6 DEF FilesOk
<1>8. PICK pn \in Seq(Seq(Entries)) :
        pn = <<nd>> \o np /\ \A x : InLists(pn, x) <=> x \in Range(nd) \/ InLists(np, x)
  BY ListsPush
<1>9. \A x : InLists(pd, x) => x = d \/ InLists(pn, x)
  BY <1>2, <1>3, <1>4, <1>5, <1>8
<1>10. d \in Reached
  BY <1>2, <1>3, <1>4 DEF ListsOk
<1>11. PICK a \in Seq(ModuleRecords) :
         /\ a = Append(ls, m)
         /\ DOMAIN a = 1..(Len(ls) + 1) /\ DOMAIN ls = 1..Len(ls) /\ Len(ls) \in Nat
         /\ Len(a) = Len(ls) + 1
         /\ \A i \in 1..Len(ls) : a[i] = ls[i]
         /\ a[Len(ls) + 1] = m
         /\ \A x : Settled(ls, x) => Settled(a, x)
  BY AppendFacts
<1>12. Len(ls) >= FirstDep - 1 /\ FirstDep \in {2, 3} /\ ls[1].name = "(exec)"
       /\ (SharedObject(exe.interp) => FirstDep = 3 /\ ls[2].name = exe.interp)
  BY DEF ModulesOk, FirstDep
<1>13. PICK n \in Nat : n = Len(ls) /\ n + 1 >= FirstDep
  <2>1. PICK n \in Nat, f \in {2, 3} : n = Len(ls) /\ f = FirstDep
    BY <1>11, <1>12
  <2>2. n >= f - 1
    BY <1>12, <2>1
  <2>3. n + 1 >= f
    BY <2>2
  <2> QED
    BY <2>1, <2>3
<1>14. \A i \in 1..(n + 1) : i = n + 1 \/ i \in 1..n
  OBVIOUS
<1>15. Settled(a, d)
  <2>1. n + 1 \in DOMAIN a /\ a[n + 1].name = d.base
    BY <1>11, <1>13
  <2> QED
    BY <1>13, <2>1 DEF Settled
\* The interpreter's list is followed only when a directory is in front.
<1>16. Followed(d)
  <2>1. ASSUME ~d.dir, d.base = exe.interp PROVE FALSE
    <3>1. FirstDep = 3 /\ ls[2].name = exe.interp
      BY <1>12, <2>1
    <3>2. 2 \in DOMAIN ls
      BY <1>11, <1>12, <3>1
    <3> QED
      BY <2>1, <3>1, <3>2
  <2> QED
    BY <1>6, <2>1 DEF Followed
<1>17. Range(nd) \subseteq Reached
  BY <1>7, <1>10, <1>16, ReachedClosed
<1>18. ListsOk(a, pn)
  <2>1. ASSUME NEW x \in Entries, InLists(pn, x) PROVE x \in Reached
    <3>1. x \in Range(nd) \/ InLists(pd, x)
      BY <1>2, <1>4, <1>5, <1>8, <2>1
    <3> QED
      BY <1>17, <3>1 DEF ListsOk
  <2>2. \A x : Settled(ls, x) \/ InLists(pd, x) => Settled(a, x) \/ InLists(pn, x)
    BY <1>9, <1>11, <1>15
  <2>3. \A x \in Range(exe.needed) : Settled(a, x) \/ InLists(pn, x)
    BY <2>2 DEF ListsOk
  <2>4. ASSUME NEW i \in DOMAIN a, i >= FirstDep, NEW x \in Range(lib[a[i].name].needed)
        PROVE  Settled(a, x) \/ InLists(pn, x)
    <3>1. CASE i = n + 1
      <4>1. x \in Range(nd)
        BY <1>7, <1>11, <1>13, <2>4, <3>1
      <4> QED
        BY <1>8, <4>1
    <3>2. CASE i # n + 1
      <4>1. i \in DOMAIN ls /\ a[i] = ls[i]
        BY <1>11, <1>13, <1>14, <3>2
      <4>2. Settled(ls, x) \/ InLists(pd, x)
        BY <2>4, <4>1 DEF ListsOk
      <4> QED
        BY <2>2, <4>2
    <3> QED
      BY <3>1, <3>2
  <2> QED
    BY <2>1, <2>3, <2>4 DEF ListsOk
<1>19. ModulesOk(a)
  <2>1. Len(a) >= FirstDep - 1 /\ a[1].name = "(exec)"
    BY <1>11, <1>12, <1>13
  <2>2. SharedObject(exe.interp) => a[2].name = exe.interp
    BY <1>11, <1>12, <1>13
  <2>3. ASSUME NEW i \in DOMAIN a, i >= FirstDep
        PROVE  a[i].name \in LibNames /\ SharedObject(a[i].name) /\ \E e \in Reached : e.base = a[i].name
    <3>1. CASE i = n + 1
      BY <1>6, <1>10, <1>11, <1>13, <3>1
    <3>2. CASE i # n + 1
      <4>1. i \in DOMAIN ls /\ a[i] = ls[i]
        BY <1>11, <1>13, <1>14, <3>2
      <4> QED
        BY <2>3, <4>1 DEF ModulesOk
    <3> QED
      BY <3>1, <3>2
  <2>4. ASSUME NEW i \in DOMAIN a, NEW j \in DOMAIN a, i < j, a[i].name = a[j].name
        PROVE  [dir |-> TRUE, base |-> a[i].name] \in Reached
    <3>1. i \in 1..n /\ i \in DOMAIN ls /\ a[i] = ls[i]
      BY <1>11, <1>13, <1>14, <2>4
    <3>2. CASE j = n + 1
      <4>1. ls[i].name = d.base
        BY <1>11, <1>13, <2>4, <3>1, <3>2
      <4>2. d.dir = TRUE
        BY <1>6, <3>1, <4>1
      <4> QED
        BY <1>6, <1>10, <3>1, <4>1, <4>2
    <3>3. CASE j # n + 1
      <4>1. j \in DOMAIN ls /\ a[j] = ls[j]
        BY <1>11, <1>13, <1>14, <3>3
      <4> QED
        BY <2>4, <3>1, <4>1 DEF ModulesOk
    <3> QED
      BY <3>2, <3>3
  <2> QED
    BY <2>1, <2>2, <2>3, <2>4 DEF ModulesOk
<1> QED
  BY <1>1, <1>2, <1>5, <1>7, <1>8, <1>11, <1>18, <1>19

\* load_exec starts on the program's list with no library loaded.
LEMMA ListsStart ==
  ASSUME FilesOk, NEW ls \in Seq(ModuleRecords), Len(ls) = FirstDep - 1, ls[1].name = "(exec)",
         SharedObject(exe.interp) => ls[2].name = exe.interp
  PROVE  ModulesOk(ls) /\ ListsOk(ls, <<exe.needed>>)
<1>1. DOMAIN ls = 1..Len(ls) /\ Len(ls) \in Nat /\ FirstDep \in {2, 3}
  BY DEF FirstDep
<1>2. \A i \in DOMAIN ls : ~(i >= FirstDep)
  BY <1>1
<1>3. PICK l \in Seq(Entries) : l = exe.needed
  BY DEF FilesOk
<1>5. /\ <<l>> \in Seq(Seq(Entries))
      /\ \A d : InLists(<<l>>, d) <=> d \in Range(l)
  <2>1. DOMAIN <<l>> = {1} /\ <<l>>[1] = l /\ <<l>> \in Seq(Seq(Entries))
    OBVIOUS
  <2> QED
    BY <2>1 DEF InLists, Range
<1>6. Range(l) \subseteq Reached
  BY <1>3, ReachedRoots
<1>7. ListsOk(ls, <<l>>)
  BY <1>2, <1>3, <1>5, <1>6 DEF ListsOk
<1>8. ASSUME NEW i \in DOMAIN ls, NEW j \in DOMAIN ls, i < j, ls[i].name = ls[j].name
      PROVE  FALSE
  <2>1. i = 1 /\ j = 2 /\ FirstDep = 3
    BY <1>1, <1>8
  <2>2. SharedObject(exe.interp)
    BY <2>1 DEF FirstDep
  <2> QED
    BY <1>8, <2>1, <2>2, FilesAssumption DEF FilesOk
<1>9. ModulesOk(ls)
  BY <1>1, <1>2, <1>8 DEF ModulesOk
<1> QED
  BY <1>3, <1>7, <1>9

\* With nothing left to visit the loaded libraries are the closure.
LEMMA ListsDone ==
  ASSUME FilesOk, NEW ls \in Seq(ModuleRecords), ModulesOk(ls), ListsOk(ls, << >>)
  PROVE  \A d \in Reached : Settled(ls, d)
<1> DEFINE S == {d \in Entries : Settled(ls, d)}
<1>1. Range(exe.needed) \subseteq S
  <2>1. Range(exe.needed) \subseteq Entries
    BY RangeIn DEF FilesOk
  <2> QED
    BY <2>1, ListsEmpty DEF ListsOk
<1>2. Closed(S)
  <2> SUFFICES ASSUME NEW d \in S, Followed(d), NEW x \in Range(lib[d.base].needed)
               PROVE  x \in S
    BY DEF Closed
  <2>1. d.base \in LibNames /\ SharedObject(d.base) /\ (d.dir \/ d.base # exe.interp)
    BY DEF Followed, Entries
  <2>2. x \in Entries
    BY <2>1, RangeIn DEF FilesOk
  <2>3. PICK i \in DOMAIN ls : ls[i].name = d.base /\ (d.dir => i >= FirstDep)
    BY <2>1 DEF Settled
  <2>4. i >= FirstDep
    <3>1. DOMAIN ls = 1..Len(ls) /\ Len(ls) \in Nat
      OBVIOUS
    <3>2. i # 1
      BY <2>1, <2>3, FilesAssumption DEF ModulesOk
    <3>3. ASSUME ~d.dir, SharedObject(exe.interp) PROVE i # 2
      BY <2>1, <2>3, <3>3 DEF ModulesOk
    <3> QED
      BY <2>3, <3>1, <3>2, <3>3 DEF FirstDep
  <2>5. Settled(ls, x)
    BY <2>3, <2>4, ListsEmpty DEF ListsOk
  <2> QED
    BY <2>2, <2>5
<1>3. Reached \subseteq S
  <2>1. S \in SUBSET Entries
    OBVIOUS
  <2> HIDE DEF S
  <2> QED
    BY <1>1, <1>2, <2>1, ReachedLeast
<1> QED
  BY <1>3

ClosureInv ==
    /\ exe \in Executables /\ lib \in LibDirs /\ next_slot \in Nat
    /\ libs \in Seq(ModuleRecords)
    /\ step = "interp" => needs_dynlink(exe)
    /\ step = "deps" => Linking
    /\ Linking =>
         /\ step = "interp" => Len(libs) = 1 /\ libs[1].name = "(exec)"
         /\ step \in {"deps", "resolve", "ready"} => ModulesOk(libs) /\ ListsOk(libs, pending)
         /\ step \in {"resolve", "ready"} => pending = << >>

\* The files do not change while a program is loaded.
LEMMA FilesStay ==
  ASSUME exe' = exe, lib' = lib
  PROVE  /\ Linking' <=> Linking
         /\ needs_dynlink(exe)' <=> needs_dynlink(exe)
         /\ ModulesOk(libs)' <=> ModulesOk(libs')
         /\ ListsOk(libs, pending)' <=> ListsOk(libs', pending')
<1>1. \A n : SharedObject(n)' <=> SharedObject(n)
  BY DEF SharedObject
<1>2. FirstDep' = FirstDep
  BY <1>1 DEF FirstDep, SharedObject
<1>3. Reached' = Reached
  BY DEF Reached, Closed, Followed, SharedObject
<1>4. (Linking' <=> Linking) /\ (needs_dynlink(exe)' <=> needs_dynlink(exe))
  BY DEF Linking, needs_dynlink
<1>5. ModulesOk(libs)' <=> ModulesOk(libs')
  BY <1>1, <1>2, <1>3 DEF ModulesOk
<1>6. ListsOk(libs, pending)' <=> ListsOk(libs', pending')
  BY <1>1, <1>2, <1>3 DEF ListsOk, Settled, InLists
<1> QED
  BY <1>4, <1>5, <1>6

LEMMA NoFramesStops ==
  ASSUME NEW file, NEW base, NoFrames(file, base)
  PROVE  step' = "panicked" /\ UNCHANGED <<exe, lib, libs, pending, next_slot>>
BY DEF NoFrames

LEMMA ModuleTyped ==
  ASSUME exe \in Executables, lib \in LibDirs
  PROVE  /\ \A b \in Nat : Module("(exec)", b, exe) \in ModuleRecords
         /\ \A n \in LibNames, b \in Nat : Module(n, b, lib[n]) \in ModuleRecords
         /\ \A n, b, f : Module(n, b, f).name = n
<1>1. \A n \in LibNames : lib[n] \in UNION {{d[x] : x \in LibNames} : d \in LibDirs}
  OBVIOUS
<1> QED
  BY <1>1 DEF Module, ModuleRecords

\* A step in which only what the closure does not depend on changes.
LEMMA ClosureSame ==
  ASSUME ClosureInv, UNCHANGED <<exe, lib, libs, pending, next_slot>>,
         \/ step' = step
         \/ step' = "panicked"
         \/ ~Linking /\ step' \in {"resolve", "ready"}
         \/ step = "resolve" /\ step' = "ready"
  PROVE  ClosureInv'
<1>1. /\ Linking' <=> Linking
      /\ needs_dynlink(exe)' <=> needs_dynlink(exe)
      /\ ModulesOk(libs)' <=> ModulesOk(libs')
      /\ ListsOk(libs, pending)' <=> ListsOk(libs', pending')
  BY FilesStay
<1> QED
  BY <1>1 DEF ClosureInv

LEMMA ClosureStep ==
  ASSUME ClosureInv, LoaderNext
  PROVE  ClosureInv'
<1>0. /\ exe \in Executables /\ lib \in LibDirs /\ next_slot \in Nat
      /\ libs \in Seq(ModuleRecords)
  BY DEF ClosureInv
<1>1. CASE load_elf_into_space
  <2>1. /\ ~Linking /\ UNCHANGED <<exe, lib, libs, pending, next_slot>>
        /\ step' \in {"ready", "panicked"}
    BY <1>1, NoFramesStops DEF load_elf_into_space, Linking
  <2> QED
    BY <2>1, ClosureSame
<1>2. CASE load_exec
  <2>1. CASE NoFrames(exe, ExecBase)
    BY <2>1, NoFramesStops, ClosureSame
  <2>2. CASE /\ libs' = <<Module("(exec)", ExecBase, exe)>> /\ step' = "interp"
             /\ UNCHANGED <<exe, lib, pending, next_slot>> /\ needs_dynlink(exe)
    <3>1. ExecBase \in Nat
      BY LoaderAssumption DEF ExecBase
    <3>2. PICK m \in ModuleRecords : m = Module("(exec)", ExecBase, exe) /\ m.name = "(exec)"
      BY <1>0, <3>1, ModuleTyped
    <3>3. libs' = <<m>>
      BY <2>2, <3>2
    <3>4. libs' \in Seq(ModuleRecords) /\ Len(libs') = 1 /\ libs'[1].name = "(exec)"
      BY <3>2, <3>3
    <3> QED
      BY <1>0, <2>2, <3>4, FilesStay DEF ClosureInv
  <2> QED
    BY <1>2, <2>1, <2>2 DEF load_exec
<1>3. CASE load_interp
  <2> DEFINE n == exe.interp
  <2>1. CASE NoFrames(lib[n], INTERP_LOAD_BASE)
    BY <2>1, NoFramesStops, ClosureSame
  <2>2. CASE /\ lib[n].here /\ ~lib[n].elf /\ UNCHANGED <<exe, lib, libs, pending, next_slot>>
             /\ step' = "resolve"
    <3>1. ~Linking
      BY <2>2 DEF Linking
    <3> QED
      BY <2>2, <3>1, ClosureSame
  <2>5. needs_dynlink(exe) /\ FilesOk
    BY <1>0, <1>3, FilesAreOk DEF ClosureInv, load_interp
  <2>0. ASSUME Linking PROVE FilesOk /\ Len(libs) = 1 /\ libs[1].name = "(exec)"
    BY <1>3, <2>0, <2>5 DEF ClosureInv, load_interp
  <2>3. ASSUME ~lib[n].here, libs' = libs, pending' = <<exe.needed>>, step' = "deps",
               UNCHANGED <<exe, lib, next_slot>>
        PROVE  ClosureInv'
    <3>1. ASSUME Linking PROVE ModulesOk(libs) /\ ListsOk(libs, <<exe.needed>>)
      <4>0. FirstDep = 2
        BY <2>3 DEF FirstDep, SharedObject
      <4>1. Len(libs) = FirstDep - 1
        BY <2>0, <3>1, <4>0
      <4> QED
        BY <1>0, <2>0, <2>3, <3>1, <4>1, ListsStart DEF SharedObject
    <3> QED
      <4>1. Linking
        BY <2>3, <2>5 DEF Linking, SharedObject
      <4> QED
        BY <1>0, <2>3, <3>1, <4>1, FilesStay DEF ClosureInv
  <2>4. ASSUME SharedObject(n), libs' = Append(libs, Module(n, INTERP_LOAD_BASE, lib[n])),
               pending' = <<exe.needed>>, step' = "deps", UNCHANGED <<exe, lib, next_slot>>
        PROVE  ClosureInv'
    <3>0. n \in LibNames
      BY <2>5 DEF FilesOk
    <3>1. PICK m \in ModuleRecords : m = Module(n, INTERP_LOAD_BASE, lib[n]) /\ m.name = n
      BY <1>0, <3>0, LoaderAssumption, ModuleTyped
    <3>2. PICK ls \in Seq(ModuleRecords) :
            /\ ls = libs' /\ Len(ls) = Len(libs) + 1 /\ ls[Len(libs) + 1] = m
            /\ \A i \in 1..Len(libs) : ls[i] = libs[i]
      BY <1>0, <2>4, <3>1, AppendFacts
    <3>3. ASSUME Linking PROVE ModulesOk(ls) /\ ListsOk(ls, <<exe.needed>>)
      <4>1. Len(ls) = FirstDep - 1 /\ ls[1].name = "(exec)" /\ ls[2].name = exe.interp
        <5>1. FirstDep = 3
          BY <2>4 DEF FirstDep
        <5>2. Len(libs) = 1 /\ libs[1].name = "(exec)"
          BY <2>0, <3>3
        <5> QED
          BY <3>1, <3>2, <5>1, <5>2
      <4> QED
        BY <2>0, <3>3, <4>1, ListsStart
    <3> QED
      <4>1. Linking
        BY <2>4, <2>5 DEF Linking, SharedObject
      <4> QED
        BY <1>0, <2>4, <3>2, <3>3, <4>1, FilesStay DEF ClosureInv
  <2> QED
    BY <1>3, <2>1, <2>2, <2>3, <2>4 DEF load_interp, SharedObject
<1>4. CASE load_deps
  <2> DEFINE d == Head(Head(pending))
             rest == <<Tail(Head(pending))>> \o Tail(pending)
             skip == AlreadyLoaded(d) \/ ~lib[d.base].here
  <2>0. step = "deps" /\ pending # << >> /\ Head(pending) # << >>
    BY <1>4 DEF load_deps
  <2>1. Linking /\ FilesOk /\ ModulesOk(libs) /\ ListsOk(libs, pending)
    BY <1>0, <2>0, FilesAreOk DEF ClosureInv, Linking
  <2>2. SlotAfter(next_slot) \in Nat
    BY <1>0, LoaderAssumption DEF SlotAfter
  <2>3. CASE NoFrames(lib[d.base], next_slot)
    BY <2>3, NoFramesStops, ClosureSame
  <2>4. ASSUME skip \/ ~lib[d.base].elf, next_slot' = next_slot \/ next_slot' = SlotAfter(next_slot),
               pending' = rest, UNCHANGED <<exe, lib, step, libs>>
        PROVE  ClosureInv'
    <3>1. Settled(libs, d)
      BY <2>4 DEF Settled, AlreadyLoaded, SharedObject
    <3>2. ListsOk(libs, rest)
      BY <2>0, <2>1, <3>1, VisitPasses
    <3> HIDE DEF d, rest, skip
    <3> QED
      BY <1>0, <2>0, <2>1, <2>2, <2>4, <3>2, FilesStay DEF ClosureInv
  <2>5. ASSUME ~skip, SharedObject(d.base), next_slot' = SlotAfter(next_slot),
               libs' = Append(libs, Module(d.base, next_slot, lib[d.base])),
               pending' = <<lib[d.base].needed>> \o rest, UNCHANGED <<exe, lib, step>>
        PROVE  ClosureInv'
    <3>1. d \in Entries /\ d.base \in LibNames
      <4>1. Head(pending) \in Seq(Entries)
        BY <2>0, <2>1 DEF ListsOk
      <4>2. d \in Entries
        BY <2>0, <4>1
      <4> QED
        BY <4>2 DEF Entries
    <3>2. PICK m \in ModuleRecords : m = Module(d.base, next_slot, lib[d.base]) /\ m.name = d.base
      BY <1>0, <3>1, ModuleTyped
    <3>3. PICK ls \in Seq(ModuleRecords) : ls = libs' /\ ls = Append(libs, m)
      BY <1>0, <2>5, <3>2, AppendFacts
    <3>4. ~(~d.dir /\ \E i \in DOMAIN libs : libs[i].name = d.base)
      BY <2>5 DEF AlreadyLoaded
    <3>5. ModulesOk(ls) /\ ListsOk(ls, <<lib[d.base].needed>> \o rest)
      BY <1>0, <2>0, <2>1, <2>5, <3>2, <3>3, <3>4, VisitLoads
    <3> HIDE DEF d, rest, skip
    <3> QED
      BY <1>0, <2>0, <2>1, <2>2, <2>5, <3>3, <3>5, FilesStay DEF ClosureInv
  <2> QED
    <3> HIDE DEF d, rest, skip
    <3> QED
      BY <1>4, <2>3, <2>4, <2>5 DEF load_deps, d, rest, skip
<1>5. CASE load_deps_return
  <2>0. /\ step = "deps" /\ pending # << >> /\ Head(pending) = << >>
        /\ pending' = Tail(pending)
        /\ step' = IF Len(pending) = 1 THEN "resolve" ELSE "deps"
        /\ UNCHANGED <<exe, lib, libs, next_slot>>
    BY <1>5 DEF load_deps_return
  <2>1. Linking /\ ModulesOk(libs) /\ ListsOk(libs, pending)
    BY <2>0 DEF ClosureInv
  <2>2. ListsOk(libs, Tail(pending))
    BY <2>0, <2>1, ListReturns
  <2>3. ASSUME Len(pending) = 1 PROVE Tail(pending) = << >>
    <3>1. pending \in Seq(Seq(Entries))
      BY <2>1 DEF ListsOk
    <3> QED
      BY <2>3, <3>1, TailOfOne
  <2> QED
    BY <1>0, <2>0, <2>1, <2>2, <2>3, FilesStay DEF ClosureInv
<1>6. CASE resolve_all
  <2>1. UNCHANGED <<exe, lib, libs, pending, next_slot>> /\ step = "resolve" /\ step' = "ready"
    BY <1>6 DEF resolve_all
  <2> QED
    BY <2>1, ClosureSame
<1>7. ASSUME NEW n \in LibNames, sys_dlopen(n) PROVE ClosureInv'
  <2>1. UNCHANGED <<exe, lib, libs, pending, next_slot>> /\ (step' = step \/ step' = "panicked")
    BY <1>7, NoFramesStops DEF sys_dlopen
  <2> QED
    BY <2>1, ClosureSame
<1> QED
  BY <1>1, <1>2, <1>3, <1>4, <1>5, <1>6, <1>7 DEF LoaderNext, ExecSteps

\* What the invariant says when the lists are done.
LEMMA ClosureIsLoaded == ClosureInv => LoadsTheClosure
<1> DEFINE At(n) == {i \in DOMAIN libs : libs[i].name = n}
           copies(n) == Cardinality(At(n))
           whole == step \in {"resolve", "ready"} /\ needs_dynlink(exe)
                      /\ (lib[exe.interp].here => lib[exe.interp].elf)
<1>1. SUFFICES ASSUME ClosureInv, whole, NEW n \in LibNames
               PROVE  /\ SharedObject(n) /\ (\E d \in Reached : d.base = n) => copies(n) >= 1
                      /\ copies(n) >= 1 => n = exe.interp \/ \E d \in Reached : d.base = n
                      /\ copies(n) > 1 => [dir |-> TRUE, base |-> n] \in Reached
  BY DEF LoadsTheClosure
<1>2. /\ libs \in Seq(ModuleRecords) /\ FilesOk /\ ModulesOk(libs) /\ ListsOk(libs, << >>)
      /\ DOMAIN libs = 1..Len(libs) /\ Len(libs) \in Nat
  <2>1. /\ exe \in Executables /\ lib \in LibDirs /\ Linking /\ libs \in Seq(ModuleRecords)
        /\ ModulesOk(libs) /\ ListsOk(libs, << >>)
    BY <1>1 DEF ClosureInv, Linking
  <2>2. FilesOk
    BY <2>1, FilesAreOk DEF Linking
  <2> HIDE DEF ModuleRecords
  <2> QED
    BY <2>1, <2>2
<1>3. IsFiniteSet(At(n)) /\ Cardinality(At(n)) \in Nat /\ (Cardinality(At(n)) = 0 <=> At(n) = {})
  <2>1. IsFiniteSet(1..Len(libs))
    BY <1>2, FS_Interval
  <2>2. At(n) \subseteq 1..Len(libs)
    BY <1>2
  <2>3. IsFiniteSet(At(n))
    BY <2>1, <2>2, FS_Subset
  <2> HIDE DEF At
  <2> QED
    BY <2>3, FS_CardinalityType, FS_EmptySet
<1>4. ASSUME SharedObject(n), NEW d \in Reached, d.base = n PROVE At(n) # {}
  <2>1. Settled(libs, d)
    BY <1>2, ListsDone
  <2> QED
    BY <1>4, <2>1 DEF Settled
<1>5. ASSUME NEW i \in At(n) PROVE n = exe.interp \/ \E d \in Reached : d.base = n
  <2>1. i # 1
    BY <1>2, FilesAssumption DEF ModulesOk
  <2>2. CASE i >= FirstDep
    BY <1>2, <2>2 DEF ModulesOk
  <2>3. CASE ~(i >= FirstDep)
    <3>1. SharedObject(exe.interp) /\ i = 2
      BY <1>2, <2>1, <2>3 DEF FirstDep
    <3> QED
      BY <1>2, <3>1 DEF ModulesOk
  <2> QED
    BY <2>2, <2>3
<1>6. ASSUME Cardinality(At(n)) > 1 PROVE [dir |-> TRUE, base |-> n] \in Reached
  <2>1. PICK i \in At(n) : TRUE
    BY <1>3, <1>6
  <2>2. At(n) # {i}
    <3> SUFFICES ASSUME At(n) = {i} PROVE FALSE
      OBVIOUS
    <3> HIDE DEF At
    <3>1. Cardinality({i}) = 1
      BY FS_Singleton
    <3> QED
      BY <1>6, <3>1
  <2>3. PICK j \in At(n) : j # i
    BY <2>1, <2>2
  <2>4. i < j \/ j < i
    BY <1>2, <2>3
  <2> QED
    BY <1>2, <2>4 DEF ModulesOk
<1> HIDE DEF At
<1> QED
  BY <1>3, <1>4, <1>5, <1>6

\* Before the first step nothing is loaded.
LEMMA ClosureStarts ==
  ASSUME LoaderInit
  PROVE  ClosureInv
<1>1. /\ exe \in Executables /\ lib \in LibDirs /\ next_slot \in Nat /\ step = "exec"
      /\ libs = << >>
  BY LoaderAssumption DEF LoaderInit
<1>2. << >> \in Seq(ModuleRecords)
  OBVIOUS
<1> QED
  BY <1>1, <1>2 DEF ClosureInv

\* Whatever the files in /lib and the lists in them, when the dynamic linker
\* has gone through the lists every library that they reach and /lib has is
\* loaded, no other is but the interpreter, and a second copy of one comes
\* only from a name with a directory in front.
THEOREM LinkerLoadsTheClosure == LoaderSpec => []LoadsTheClosure
<1>1. LoaderInit => ClosureInv
  BY ClosureStarts
<1>2. ClosureInv /\ [LoaderNext]_loaderVars => ClosureInv'
  <2>1. ASSUME ClosureInv, UNCHANGED loaderVars PROVE ClosureInv'
    BY <2>1, ClosureSame DEF loaderVars
  <2> QED
    BY <2>1, ClosureStep
<1> QED
  BY <1>1, <1>2, ClosureIsLoaded, PTL DEF LoaderSpec

----------------------------------------------------------------------------
(* The linker: modules lie apart.                                           *)

\* The segments of a file end below `room`.
FileFits(f, room) ==
    \A i \in DOMAIN f.segs : /\ f.segs[i].vaddr \in Nat /\ f.segs[i].memsz \in Nat
                             /\ f.segs[i].vaddr + f.segs[i].memsz <= room

\* What the layout of dynlink.rs takes for granted: slots start on pages, a
\* library fits its slot, the program ends below the area of mmap, and what
\* dlopen takes of that area ends below the libraries.
ImagesFit ==
    /\ SO_LOAD_BASE % PageWords = 0 /\ INTERP_LOAD_BASE % PageWords = 0
    /\ DlBase % PageWords = 0 /\ SO_SLOT_SIZE % PageWords = 0
    /\ \A d \in LibDirs, n \in LibNames : d[n].here /\ d[n].elf => FileFits(d[n], SO_SLOT_SIZE)
    /\ \A x \in Executables : FileFits(x, DlBase - (IF x.dyn THEN EXEC_LOAD_BASE ELSE 0))
    /\ DlBase + MaxOpened * SO_SLOT_SIZE <= SO_LOAD_BASE

\* The slots that were given out end below the interpreter.
SlotsLeft == next_slot <= INTERP_LOAD_BASE

\* ModulesApart and a free range of addresses, of a sequence of modules.
ApartIn(s) == \A i, j \in DOMAIN s : i < j => Extent(s[i]) \cap Extent(s[j]) = {}
ClearIn(s, lo, hi) == \A i \in DOMAIN s : Extent(s[i]) \cap (lo .. (hi - 1)) = {}

\* The slots that exec and dlopen still have to give, and that of the
\* interpreter until it is loaded, are free.
LaidOut(s) ==
    /\ ApartIn(s) /\ ClearIn(s, next_slot, INTERP_LOAD_BASE)
    /\ ClearIn(s, DlNext(dl_slots), SO_LOAD_BASE)
    /\ step = "interp" => ClearIn(s, INTERP_LOAD_BASE, INTERP_LOAD_BASE + SO_SLOT_SIZE)

\* The inductive invariant of the layout.
LayoutInv ==
    /\ exe \in Executables /\ lib \in LibDirs
    /\ libs \in Seq(ModuleRecords) /\ opened \in Seq(ModuleRecords)
    /\ dl_slots \in Nat /\ dl_slots <= MaxOpened
    /\ next_slot \in Nat /\ next_slot >= SO_LOAD_BASE /\ next_slot % PageWords = 0
    /\ step \in {"exec", "interp", "deps", "resolve"} => opened = << >> /\ dl_slots = 0
    /\ step = "exec" => libs = << >>
    /\ SlotsLeft => LaidOut(Modules)

\* Division with remainder.
LEMMA Quotient ==
  ASSUME NEW m \in Nat \ {0}, NEW a \in Nat
  PROVE  \E q \in Nat, r \in 0 .. m - 1 : a = m * q + r /\ a % m = r
OBVIOUS

\* An address on a page boundary is not above the page of a later one.
LEMMA PageFloor ==
  ASSUME NEW a \in Nat, a % PageWords = 0, NEW x \in Nat, a <= x
  PROVE  PageOf(x) \in Nat /\ a <= PageOf(x)
<1>1. PageWords \in Nat \ {0}
  BY LoaderAssumption
<1>2. PICK q \in Nat, r \in 0 .. PageWords - 1 : a = PageWords * q + r /\ a % PageWords = r
  BY <1>1, Quotient
<1>3. PICK k \in Nat, s \in 0 .. PageWords - 1 : x = PageWords * k + s /\ x % PageWords = s
  BY <1>1, Quotient
<1>4. a = PageWords * q
  BY <1>1, <1>2
<1>5. PageOf(x) = PageWords * k
  BY <1>1, <1>3 DEF PageOf
<1>6. PageWords * k \in Nat /\ PageWords * q \in Nat
  BY <1>1
<1>7. CASE q <= k
  <2>1. PICK d \in Nat : k = q + d
    BY <1>7
  <2>2. PageWords * k = PageWords * q + PageWords * d /\ PageWords * d \in Nat
    BY <1>1, <2>1
  <2> QED
    BY <1>4, <1>5, <1>6, <2>2
<1>8. CASE q > k
  <2>1. PICK d \in Nat : q = k + 1 + d
    BY <1>8
  <2>2. PageWords * q = PageWords * k + PageWords + PageWords * d /\ PageWords * d \in Nat
    BY <1>1, <2>1
  <2> QED
    BY <1>1, <1>3, <1>4, <1>6, <2>2
<1> QED
  BY <1>7, <1>8

\* A multiple of the page size is a page boundary.
LEMMA Boundary ==
  ASSUME NEW k \in Nat, NEW x \in Nat, x = PageWords * k
  PROVE  x % PageWords = 0
<1>1. PageWords \in Nat \ {0}
  BY LoaderAssumption
<1>2. PICK n \in Nat, t \in 0 .. PageWords - 1 : x = PageWords * n + t /\ x % PageWords = t
  BY <1>1, Quotient
<1>3. PageWords * k = PageWords * n + t /\ PageWords * n \in Nat /\ PageWords * k \in Nat
  BY <1>1, <1>2
<1>4. CASE k = n
  BY <1>1, <1>2, <1>3, <1>4
<1>5. CASE k > n
  <2>1. PICK d \in Nat : k = n + 1 + d
    BY <1>5
  <2>2. PageWords * k = PageWords * n + PageWords + PageWords * d /\ PageWords * d \in Nat
    BY <1>1, <2>1
  <2> QED
    BY <1>1, <1>2, <1>3, <2>2
<1>6. CASE k < n
  <2>1. PICK d \in Nat : n = k + 1 + d
    BY <1>6
  <2>2. PageWords * n = PageWords * k + PageWords + PageWords * d /\ PageWords * d \in Nat
    BY <1>1, <2>1
  <2> QED
    BY <1>1, <1>2, <1>3, <2>2
<1> QED
  BY <1>4, <1>5, <1>6

\* So are a boundary and a number of slots.
LEMMA SlotBoundary ==
  ASSUME NEW a \in Nat, a % PageWords = 0, SO_SLOT_SIZE % PageWords = 0, NEW n \in Nat
  PROVE  (a + n * SO_SLOT_SIZE) % PageWords = 0 /\ a + n * SO_SLOT_SIZE \in Nat
<1>1. PageWords \in Nat \ {0} /\ SO_SLOT_SIZE \in Nat
  BY LoaderAssumption
<1>2. PICK q \in Nat, r \in 0 .. PageWords - 1 : a = PageWords * q + r /\ a % PageWords = r
  BY <1>1, Quotient
<1>3. PICK k \in Nat, s \in 0 .. PageWords - 1 :
        SO_SLOT_SIZE = PageWords * k + s /\ SO_SLOT_SIZE % PageWords = s
  BY <1>1, Quotient
<1>4. a = PageWords * q /\ SO_SLOT_SIZE = PageWords * k
  BY <1>1, <1>2, <1>3
<1>5. n * (PageWords * k) = PageWords * (n * k) /\ n * k \in Nat
  BY <1>1
<1>6. PICK j \in Nat : j = q + n * k
  BY <1>5
<1>7. PageWords * j = PageWords * q + PageWords * (n * k)
  BY <1>1, <1>5, <1>6
<1>8. a + n * SO_SLOT_SIZE = PageWords * j /\ PageWords * j \in Nat
  BY <1>1, <1>4, <1>5, <1>7
<1> QED
  BY <1>8, Boundary

\* A file that fits its room keeps to it, loaded on a page boundary.
LEMMA ExtentFits ==
  ASSUME NEW m \in ModuleRecords, m.load_base % PageWords = 0, NEW room \in Int,
         FileFits(m.file, room)
  PROVE  Extent(m) \subseteq m.load_base .. (m.load_base + room - 1)
<1>1. PICK base \in Nat : base = m.load_base
  BY DEF ModuleRecords
<1>2. ASSUME NEW i \in DOMAIN m.file.segs, NEW p \in SegPages(base, m.file.segs[i])
      PROVE  p \in base .. (base + room - 1)
  <2>1. PICK v \in Nat, z \in Nat : /\ v = m.file.segs[i].vaddr /\ z = m.file.segs[i].memsz
                                    /\ v + z <= room
    BY DEF FileFits
  <2>2. PageOf(base + v) \in Nat /\ base <= PageOf(base + v)
    BY <1>1, PageFloor
  <2>3. p \in PageOf(base + v) .. (base + v + z) /\ p < base + v + z
    BY <2>1 DEF SegPages, PageStarts
  <2> QED
    BY <2>1, <2>2, <2>3
<1> QED
  BY <1>1, <1>2 DEF Extent

\* A module is added where nothing was.
LEMMA AddApart ==
  ASSUME NEW s \in Seq(ModuleRecords), ApartIn(s), NEW m \in ModuleRecords,
         NEW lo \in Int, NEW hi \in Int, Extent(m) \subseteq lo .. (hi - 1), ClearIn(s, lo, hi)
  PROVE  ApartIn(Append(s, m))
<1>0. Append(s, m) \in Seq(ModuleRecords)
  OBVIOUS
<1>1. PICK t \in Seq(ModuleRecords) : t = Append(s, m)
  BY <1>0
<1>2. /\ Len(s) \in Nat /\ DOMAIN s = 1 .. Len(s) /\ DOMAIN t = 1 .. (Len(s) + 1)
      /\ t[Len(s) + 1] = m /\ \A i \in DOMAIN s : t[i] = s[i]
  BY <1>1
<1>3. ASSUME NEW i \in DOMAIN t, NEW j \in DOMAIN t, i < j
      PROVE  Extent(t[i]) \cap Extent(t[j]) = {}
  <2>1. i \in DOMAIN s /\ t[i] = s[i]
    BY <1>2, <1>3
  <2>2. CASE j \in DOMAIN s
    BY <1>2, <1>3, <2>1, <2>2 DEF ApartIn
  <2>3. CASE j = Len(s) + 1
    <3>1. Extent(s[i]) \cap (lo .. (hi - 1)) = {} /\ t[j] = m
      BY <1>2, <2>1, <2>3 DEF ClearIn
    <3> QED
      BY <2>1, <3>1
  <2> QED
    BY <1>2, <1>3, <2>2, <2>3
<1> QED
  BY <1>1, <1>3 DEF ApartIn

\* A free range beside the one that the module takes stays free.
LEMMA AddClear ==
  ASSUME NEW s \in Seq(ModuleRecords), NEW m \in ModuleRecords,
         NEW lo \in Int, NEW hi \in Int, Extent(m) \subseteq lo .. (hi - 1),
         NEW a \in Int, NEW b \in Int, ClearIn(s, a, b), b <= lo \/ hi <= a
  PROVE  ClearIn(Append(s, m), a, b)
<1>0. Append(s, m) \in Seq(ModuleRecords)
  OBVIOUS
<1>1. PICK t \in Seq(ModuleRecords) : t = Append(s, m)
  BY <1>0
<1>2. /\ Len(s) \in Nat /\ DOMAIN s = 1 .. Len(s) /\ DOMAIN t = 1 .. (Len(s) + 1)
      /\ t[Len(s) + 1] = m /\ \A i \in DOMAIN s : t[i] = s[i]
  BY <1>1
<1>3. (lo .. (hi - 1)) \cap (a .. (b - 1)) = {}
  OBVIOUS
<1>4. Extent(m) \cap (a .. (b - 1)) = {}
  BY <1>3
<1>5. ASSUME NEW i \in DOMAIN t PROVE Extent(t[i]) \cap (a .. (b - 1)) = {}
  <2>1. CASE i \in DOMAIN s
    BY <1>2, <2>1 DEF ClearIn
  <2>2. CASE i = Len(s) + 1
    BY <1>2, <1>4, <2>2
  <2> QED
    BY <1>2, <2>1, <2>2
<1> QED
  BY <1>1, <1>5 DEF ClearIn

\* A part of a free range is free.
LEMMA ClearPart ==
  ASSUME NEW s, NEW a \in Int, NEW b \in Int, NEW c \in Int, NEW d \in Int,
         ClearIn(s, a, b), a <= c, d <= b
  PROVE  ClearIn(s, c, d)
<1>1. c .. (d - 1) \subseteq a .. (b - 1)
  OBVIOUS
<1> QED
  BY <1>1 DEF ClearIn
\* A library keeps to its slot.
LEMMA LibFits ==
  ASSUME ImagesFit, lib \in LibDirs, NEW n \in LibNames, SharedObject(n),
         NEW b \in Nat, b % PageWords = 0, NEW m, m = Module(n, b, lib[n])
  PROVE  m \in ModuleRecords /\ Extent(m) \subseteq b .. (b + SO_SLOT_SIZE - 1)
<1>1. lib[n] \in UNION {{d[x] : x \in LibNames} : d \in LibDirs}
  OBVIOUS
<1>2. m \in ModuleRecords /\ m.load_base = b /\ m.file = lib[n]
  BY <1>1 DEF Module, ModuleRecords
<1>3. FileFits(m.file, SO_SLOT_SIZE) /\ SO_SLOT_SIZE \in Int
  BY <1>2, LoaderAssumption DEF ImagesFit, SharedObject
<1> QED
  BY <1>2, <1>3, ExtentFits

\* The program ends below the area of mmap.
LEMMA ExecFits ==
  ASSUME ImagesFit, exe \in Executables, NEW m, m = Module("(exec)", ExecBase, exe)
  PROVE  m \in ModuleRecords /\ Extent(m) \subseteq 0 .. (DlBase - 1)
<1>1. PICK base \in Nat : base = ExecBase
  BY LoaderAssumption DEF ExecBase
<1>2. m \in ModuleRecords /\ m.load_base = base /\ m.file = exe
  BY <1>1 DEF Module, ModuleRecords
<1>3. FileFits(exe, DlBase - base) /\ DlBase \in Nat
  BY <1>1, LoaderAssumption DEF ImagesFit, ExecBase
<1>4. ASSUME NEW i \in DOMAIN exe.segs, NEW p \in SegPages(base, exe.segs[i])
      PROVE  p \in 0 .. (DlBase - 1)
  <2>1. PICK v \in Nat, z \in Nat : /\ v = exe.segs[i].vaddr /\ z = exe.segs[i].memsz
                                    /\ v + z <= DlBase - base
    BY <1>3 DEF FileFits
  <2>2. 0 % PageWords = 0
    BY LoaderAssumption
  <2>3. PageOf(base + v) \in Nat
    BY <2>2, PageFloor
  <2>4. p \in PageOf(base + v) .. (base + v + z) /\ p < base + v + z
    BY <2>1 DEF SegPages, PageStarts
  <2> QED
    BY <1>3, <2>1, <2>3, <2>4
<1> QED
  BY <1>2, <1>4 DEF Extent

\* The areas in order, and the slots of dlopen in theirs.
LEMMA LayoutConstants ==
  ASSUME ImagesFit
  PROVE  /\ SO_LOAD_BASE \in Nat /\ INTERP_LOAD_BASE \in Nat /\ DlBase \in Nat
         /\ SO_SLOT_SIZE \in Nat /\ SO_SLOT_SIZE > 0 /\ MaxOpened \in Nat
         /\ DlBase <= SO_LOAD_BASE
         /\ \A n \in Nat : n < MaxOpened =>
               DlBase + n * SO_SLOT_SIZE + SO_SLOT_SIZE <= SO_LOAD_BASE
<1>1. /\ SO_LOAD_BASE \in Nat /\ INTERP_LOAD_BASE \in Nat /\ DlBase \in Nat
      /\ SO_SLOT_SIZE \in Nat /\ SO_SLOT_SIZE > 0 /\ MaxOpened \in Nat
  BY LoaderAssumption
<1>2. DlBase + MaxOpened * SO_SLOT_SIZE <= SO_LOAD_BASE
  BY DEF ImagesFit
<1>3. MaxOpened * SO_SLOT_SIZE \in Nat
  BY <1>1
<1>4. ASSUME NEW n \in Nat, n < MaxOpened
      PROVE  DlBase + n * SO_SLOT_SIZE + SO_SLOT_SIZE <= SO_LOAD_BASE
  <2>1. PICK d \in Nat : MaxOpened = n + 1 + d
    BY <1>1, <1>4
  <2>2. /\ MaxOpened * SO_SLOT_SIZE = n * SO_SLOT_SIZE + SO_SLOT_SIZE + d * SO_SLOT_SIZE
        /\ d * SO_SLOT_SIZE \in Nat /\ n * SO_SLOT_SIZE \in Nat
    BY <1>1, <2>1
  <2> QED
    BY <1>1, <1>2, <1>3, <2>2
<1> QED
  BY <1>1, <1>2, <1>3, <1>4

\* A step that loads nothing, and takes a slot at most.
LEMMA LayoutSame ==
  ASSUME ImagesFit, LayoutInv, UNCHANGED <<exe, lib, libs, opened, dl_slots>>,
         next_slot' = next_slot \/ next_slot' = next_slot + SO_SLOT_SIZE,
         \/ step' = step
         \/ step' \in {"ready", "panicked"}
         \/ opened = << >> /\ dl_slots = 0 /\ step' \in {"deps", "resolve"}
  PROVE  LayoutInv'
<1>0. /\ SO_LOAD_BASE \in Nat /\ INTERP_LOAD_BASE \in Nat /\ DlBase \in Nat
      /\ SO_SLOT_SIZE \in Nat /\ SO_SLOT_SIZE % PageWords = 0
  BY LayoutConstants DEF ImagesFit
<1>1. PICK a \in Nat, b \in Nat : /\ a = next_slot /\ b = next_slot' /\ a <= b
                                  /\ a >= SO_LOAD_BASE /\ b % PageWords = 0
  <2>1. PICK a \in Nat : a = next_slot /\ a >= SO_LOAD_BASE /\ a % PageWords = 0
    BY DEF LayoutInv
  <2>2. (a + 1 * SO_SLOT_SIZE) % PageWords = 0
    BY <1>0, <2>1, SlotBoundary
  <2>3. 1 * SO_SLOT_SIZE = SO_SLOT_SIZE
    BY <1>0
  <2>4. (a + SO_SLOT_SIZE) % PageWords = 0
    BY <2>2, <2>3
  <2>5. \/ next_slot' = a
        \/ next_slot' = a + SO_SLOT_SIZE
    BY <2>1
  <2>6. a + SO_SLOT_SIZE \in Nat /\ a <= a + SO_SLOT_SIZE
    BY <1>0
  <2> QED
    BY <2>1, <2>4, <2>5, <2>6
<1>2. PICK s : s = Modules /\ s = Modules'
  BY DEF Modules
<1>3. DlNext(dl_slots)' = DlNext(dl_slots)
  BY DEF DlNext
<1>4. ASSUME SlotsLeft' PROVE LaidOut(Modules)'
  <2>1. SlotsLeft
    BY <1>0, <1>1, <1>4 DEF SlotsLeft
  <2>2. LaidOut(s)
    BY <1>2, <2>1 DEF LayoutInv
  <2>3. ClearIn(s, b, INTERP_LOAD_BASE)
    BY <1>0, <1>1, <2>2, ClearPart DEF LaidOut
  <2>4. step' = "interp" => step = "interp"
    OBVIOUS
  <2> QED
    BY <1>1, <1>2, <1>3, <2>2, <2>3, <2>4 DEF LaidOut
<1> QED
  BY <1>0, <1>1, <1>4 DEF LayoutInv

\* A module in a free range that lies beside the other free ranges.
LEMMA LayoutAdd ==
  ASSUME ImagesFit, NEW s \in Seq(ModuleRecords), NEW m \in ModuleRecords,
         NEW lo \in Int, NEW hi \in Int, Extent(m) \subseteq lo .. (hi - 1),
         ApartIn(s), ClearIn(s, lo, hi), Modules' = Append(s, m),
         NEW a \in Int, NEW b \in Int, a = next_slot', b = DlNext(dl_slots)',
         ClearIn(s, a, INTERP_LOAD_BASE), INTERP_LOAD_BASE <= lo \/ hi <= a,
         ClearIn(s, b, SO_LOAD_BASE), SO_LOAD_BASE <= lo \/ hi <= b,
         step' = "interp" =>
            /\ ClearIn(s, INTERP_LOAD_BASE, INTERP_LOAD_BASE + SO_SLOT_SIZE)
            /\ hi <= INTERP_LOAD_BASE
  PROVE  LaidOut(Modules)'
<1>0. SO_LOAD_BASE \in Int /\ INTERP_LOAD_BASE \in Int /\ INTERP_LOAD_BASE + SO_SLOT_SIZE \in Int
  BY LayoutConstants
<1>1. PICK t : t = Append(s, m)
  OBVIOUS
<1>2. ApartIn(t)
  BY <1>1, AddApart
<1>3. ClearIn(t, a, INTERP_LOAD_BASE)
  BY <1>0, <1>1, AddClear
<1>4. ClearIn(t, b, SO_LOAD_BASE)
  BY <1>0, <1>1, AddClear
<1>5. step' = "interp" => ClearIn(t, INTERP_LOAD_BASE, INTERP_LOAD_BASE + SO_SLOT_SIZE)
  BY <1>0, <1>1, AddClear
<1> QED
  BY <1>1, <1>2, <1>3, <1>4, <1>5 DEF LaidOut

\* load_exec puts the program into the empty space.
LEMMA LayoutExec ==
  ASSUME ImagesFit, LayoutInv, load_exec
  PROVE  LayoutInv'
<1>1. CASE NoFrames(exe, ExecBase)
  BY <1>1, LayoutSame DEF NoFrames
<1>2. CASE /\ libs' = <<Module("(exec)", ExecBase, exe)>> /\ step' = "interp"
           /\ UNCHANGED <<exe, lib, next_slot, opened, dl_slots>>
  <2>1. PICK m \in ModuleRecords : /\ m = Module("(exec)", ExecBase, exe)
                                   /\ Extent(m) \subseteq 0 .. (DlBase - 1)
    BY ExecFits DEF LayoutInv
  <2>2. opened = << >> /\ dl_slots = 0 /\ exe \in Executables /\ lib \in LibDirs
        /\ next_slot \in Nat /\ next_slot >= SO_LOAD_BASE /\ next_slot % PageWords = 0
    BY DEF LayoutInv, load_exec
  <2>3. PICK s \in Seq(ModuleRecords) : s = << >>
    <3>1. << >> \in Seq(ModuleRecords)
      OBVIOUS
    <3> QED
      BY <3>1
  <2>4. libs' = Append(s, m) /\ Modules' = Append(s, m) /\ libs' \in Seq(ModuleRecords)
    BY <1>2, <2>1, <2>2, <2>3 DEF Modules
  <2>5. ApartIn(s) /\ \A a, b \in Int : ClearIn(s, a, b)
    BY <2>3 DEF ApartIn, ClearIn
  <2>6. /\ SO_LOAD_BASE \in Nat /\ INTERP_LOAD_BASE \in Nat /\ DlBase \in Nat
        /\ SO_SLOT_SIZE \in Nat /\ DlBase <= SO_LOAD_BASE /\ MaxOpened \in Nat
    BY LayoutConstants
  <2>7. PICK a \in Nat, b \in Nat : /\ a = next_slot' /\ b = DlNext(dl_slots)' /\ DlBase <= a
                                    /\ DlBase = b /\ a >= SO_LOAD_BASE
    BY <1>2, <2>2, <2>6 DEF DlNext
  <2>8. ASSUME SlotsLeft' PROVE LaidOut(Modules)'
    <3>1. DlBase <= INTERP_LOAD_BASE
      BY <2>6, <2>7, <2>8 DEF SlotsLeft
    <3>2. /\ ClearIn(s, 0, DlBase) /\ ClearIn(s, a, INTERP_LOAD_BASE)
          /\ ClearIn(s, b, SO_LOAD_BASE)
          /\ ClearIn(s, INTERP_LOAD_BASE, INTERP_LOAD_BASE + SO_SLOT_SIZE)
      BY <2>5, <2>6
    <3>3. 0 \in Int /\ DlBase \in Int /\ a \in Int /\ b \in Int /\ DlBase <= a /\ DlBase <= b
      BY <2>6, <2>7
    <3> QED
      BY <2>1, <2>4, <2>5, <2>7, <3>1, <3>2, <3>3, LayoutAdd
  <2> QED
    BY <1>2, <2>2, <2>4, <2>6, <2>8 DEF LayoutInv
<1> QED
  BY <1>1, <1>2 DEF load_exec

\* A library is loaded into a free slot, between the other modules.
LEMMA LayoutLib ==
  ASSUME ImagesFit, LayoutInv, UNCHANGED <<exe, lib>>, NEW n \in LibNames, SharedObject(n),
         NEW base \in Nat, base % PageWords = 0,
         Modules' = Append(Modules, Module(n, base, lib[n])),
         next_slot' \in Nat, next_slot' >= next_slot, DlNext(dl_slots)' \in Nat,
         DlNext(dl_slots)' >= DlNext(dl_slots), DlNext(dl_slots) \in Nat, step' # "interp",
         SlotsLeft' => /\ ClearIn(Modules, base, base + SO_SLOT_SIZE)
                       /\ INTERP_LOAD_BASE <= base \/ base + SO_SLOT_SIZE <= next_slot'
                       /\ SO_LOAD_BASE <= base \/ base + SO_SLOT_SIZE <= DlNext(dl_slots)',
         SlotsLeft'
  PROVE  LaidOut(Modules)'
<1>1. PICK m \in ModuleRecords : /\ m = Module(n, base, lib[n])
                                 /\ Extent(m) \subseteq base .. (base + SO_SLOT_SIZE - 1)
  BY LibFits DEF LayoutInv
<1>2. /\ SO_LOAD_BASE \in Nat /\ INTERP_LOAD_BASE \in Nat /\ SO_SLOT_SIZE \in Nat
  BY LayoutConstants
<1>3. PICK s \in Seq(ModuleRecords) : s = Modules
  <2>1. libs \in Seq(ModuleRecords) /\ opened \in Seq(ModuleRecords)
    BY DEF LayoutInv
  <2>2. libs \o opened \in Seq(ModuleRecords)
    BY <2>1
  <2> QED
    BY <2>2 DEF Modules
<1>4. PICK a \in Nat, b \in Nat, c \in Nat, d \in Nat :
        /\ a = next_slot' /\ b = DlNext(dl_slots)' /\ c = next_slot /\ d = DlNext(dl_slots)
        /\ c <= a /\ d <= b
  BY DEF LayoutInv
<1>5. SlotsLeft
  BY <1>2, <1>4 DEF SlotsLeft
<1>6. /\ ApartIn(s) /\ ClearIn(s, c, INTERP_LOAD_BASE) /\ ClearIn(s, d, SO_LOAD_BASE)
  BY <1>3, <1>4, <1>5 DEF LayoutInv, LaidOut
<1>7. ClearIn(s, a, INTERP_LOAD_BASE)
  BY <1>2, <1>4, <1>6, ClearPart
<1>8. ClearIn(s, b, SO_LOAD_BASE)
  BY <1>2, <1>4, <1>6, ClearPart
<1>9. PICK hi \in Nat : hi = base + SO_SLOT_SIZE
  BY <1>2
<1>10. ClearIn(s, base, hi) /\ Extent(m) \subseteq base .. (hi - 1)
  <2>1. ClearIn(Modules, base, base + SO_SLOT_SIZE)
    OBVIOUS
  <2>2. ClearIn(s, base, hi)
    BY <1>3, <1>9, <2>1, Zenon
  <2>3. hi - 1 = base + SO_SLOT_SIZE - 1
    BY <1>2, <1>9
  <2> QED
    BY <1>1, <2>2, <2>3
<1>11. /\ INTERP_LOAD_BASE <= base \/ hi <= a
       /\ SO_LOAD_BASE <= base \/ hi <= b
  BY <1>4, <1>9
<1>12. Modules' = Append(s, m)
  BY <1>1, <1>3
<1>13. base \in Int /\ hi \in Int /\ a \in Int /\ b \in Int
  OBVIOUS
<1> QED
  BY <1>4, <1>6, <1>7, <1>8, <1>10, <1>11, <1>12, <1>13, LayoutAdd

\* The interpreter goes where its slot was kept free.
LEMMA LayoutInterp ==
  ASSUME ImagesFit, ClosureInv, LayoutInv, load_interp
  PROVE  LayoutInv'
<1>1. opened = << >> /\ dl_slots = 0 /\ step = "interp"
  BY DEF LayoutInv, load_interp
<1>2. CASE \/ NoFrames(lib[exe.interp], INTERP_LOAD_BASE)
           \/ UNCHANGED <<exe, lib, libs, opened, dl_slots, next_slot>> /\ step' \in {"deps", "resolve"}
  BY <1>1, <1>2, LayoutSame DEF NoFrames
<1>3. CASE /\ SharedObject(exe.interp) /\ step' = "deps"
           /\ libs' = Append(libs, Module(exe.interp, INTERP_LOAD_BASE, lib[exe.interp]))
           /\ UNCHANGED <<exe, lib, next_slot, opened, dl_slots>>
  <2>1. PICK n \in LibNames : n = exe.interp
    BY <1>1, FilesAreOk DEF ClosureInv, FilesOk
  <2>2. /\ SO_LOAD_BASE \in Nat /\ INTERP_LOAD_BASE \in Nat /\ SO_SLOT_SIZE \in Nat
        /\ DlBase \in Nat /\ INTERP_LOAD_BASE % PageWords = 0
    BY LayoutConstants DEF ImagesFit
  <2>3. PICK m : m = Module(n, INTERP_LOAD_BASE, lib[n])
    OBVIOUS
  <2>4. m \in ModuleRecords /\ libs \in Seq(ModuleRecords)
    BY <1>3, <2>1, <2>2, <2>3, LibFits DEF LayoutInv
  <2>5. libs' = Append(libs, m) /\ libs' \in Seq(ModuleRecords)
    BY <1>3, <2>1, <2>3, <2>4
  <2>6. Modules = libs /\ Modules' = libs'
    BY <1>1, <1>3, <2>4, <2>5 DEF Modules
  <2>7. DlNext(dl_slots) \in Nat /\ DlNext(dl_slots)' = DlNext(dl_slots)
    BY <1>1, <1>3, <2>2 DEF DlNext
  <2>8. next_slot' \in Nat /\ next_slot' >= next_slot /\ next_slot >= SO_LOAD_BASE
    BY <1>3 DEF LayoutInv
  <2>9. SlotsLeft' => /\ ClearIn(Modules, INTERP_LOAD_BASE, INTERP_LOAD_BASE + SO_SLOT_SIZE)
                      /\ INTERP_LOAD_BASE <= INTERP_LOAD_BASE /\ SO_LOAD_BASE <= INTERP_LOAD_BASE
    BY <1>1, <1>3, <2>2, <2>8 DEF LayoutInv, LaidOut, SlotsLeft
  <2>10. Modules' = Append(Modules, Module(n, INTERP_LOAD_BASE, lib[n]))
    BY <2>3, <2>5, <2>6
  <2>11. SlotsLeft' => LaidOut(Modules)'
    BY <1>3, <2>1, <2>2, <2>7, <2>8, <2>9, <2>10, LayoutLib
  <2> QED
    BY <1>1, <1>3, <2>5, <2>11 DEF LayoutInv
<1> QED
  BY <1>2, <1>3 DEF load_interp

\* A library of a list goes into the next slot.
LEMMA LayoutDeps ==
  ASSUME ImagesFit, ClosureInv, LayoutInv, load_deps
  PROVE  LayoutInv'
<1> DEFINE d == Head(Head(pending))
<1>1. opened = << >> /\ dl_slots = 0 /\ step = "deps" /\ pending # << >> /\ Head(pending) # << >>
  BY DEF LayoutInv, load_deps
<1>2. d.base \in LibNames
  <2>1. pending \in Seq(Seq(Entries))
    BY <1>1, FilesAreOk DEF ClosureInv, ListsOk
  <2>2. Head(pending) \in Seq(Entries)
    BY <1>1, <2>1
  <2>3. d \in Entries
    BY <1>1, <2>2
  <2> QED
    BY <2>3 DEF Entries
<1>3. \/ NoFrames(lib[d.base], next_slot)
      \/ /\ UNCHANGED <<exe, lib, step, libs, opened, dl_slots>>
         /\ next_slot' = next_slot \/ next_slot' = SlotAfter(next_slot)
      \/ /\ SharedObject(d.base) /\ UNCHANGED <<exe, lib, step, opened, dl_slots>>
         /\ libs' = Append(libs, Module(d.base, next_slot, lib[d.base]))
         /\ next_slot' = SlotAfter(next_slot)
  BY DEF load_deps
<1> HIDE DEF d
<1>4. CASE NoFrames(lib[d.base], next_slot)
  BY <1>4, LayoutSame DEF NoFrames
<1>5. CASE /\ UNCHANGED <<exe, lib, step, libs, opened, dl_slots>>
           /\ next_slot' = next_slot \/ next_slot' = SlotAfter(next_slot)
  BY <1>5, LayoutSame DEF SlotAfter
<1>6. CASE /\ SharedObject(d.base) /\ UNCHANGED <<exe, lib, step, opened, dl_slots>>
           /\ libs' = Append(libs, Module(d.base, next_slot, lib[d.base]))
           /\ next_slot' = SlotAfter(next_slot)
  <2>1. PICK n \in LibNames : n = d.base
    BY <1>2
  <2>2. /\ SO_LOAD_BASE \in Nat /\ INTERP_LOAD_BASE \in Nat /\ SO_SLOT_SIZE \in Nat
        /\ DlBase \in Nat /\ SO_SLOT_SIZE % PageWords = 0
    BY LayoutConstants DEF ImagesFit
  <2>3. PICK a \in Nat : a = next_slot /\ a >= SO_LOAD_BASE /\ a % PageWords = 0
    BY DEF LayoutInv
  <2>4. next_slot' = a + SO_SLOT_SIZE
    BY <1>6, <2>3 DEF SlotAfter
  <2>5. (a + SO_SLOT_SIZE) % PageWords = 0
    <3>1. (a + 1 * SO_SLOT_SIZE) % PageWords = 0
      BY <2>2, <2>3, SlotBoundary
    <3>2. 1 * SO_SLOT_SIZE = SO_SLOT_SIZE
      BY <2>2
    <3> QED
      BY <3>1, <3>2
  <2>6. PICK m : m = Module(n, a, lib[n])
    OBVIOUS
  <2>7. m \in ModuleRecords /\ libs \in Seq(ModuleRecords)
    BY <1>6, <2>1, <2>2, <2>3, <2>6, LibFits DEF LayoutInv
  <2>8. libs' = Append(libs, m) /\ libs' \in Seq(ModuleRecords)
    BY <1>6, <2>1, <2>3, <2>6, <2>7
  <2>9. Modules = libs /\ Modules' = libs'
    BY <1>1, <1>6, <2>7, <2>8 DEF Modules
  <2>10. DlNext(dl_slots) \in Nat /\ DlNext(dl_slots)' = DlNext(dl_slots)
    BY <1>1, <1>6, <2>2 DEF DlNext
  <2>11. next_slot' \in Nat /\ next_slot' >= next_slot
    BY <2>2, <2>3, <2>4
  <2>12. SlotsLeft' => ClearIn(Modules, a, a + SO_SLOT_SIZE)
    <3>1. SUFFICES ASSUME SlotsLeft' PROVE ClearIn(Modules, a, a + SO_SLOT_SIZE)
      OBVIOUS
    <3>2. a + SO_SLOT_SIZE <= INTERP_LOAD_BASE /\ SlotsLeft
      BY <2>2, <2>3, <2>4, <3>1 DEF SlotsLeft
    <3>3. ClearIn(Modules, a, INTERP_LOAD_BASE)
      BY <2>3, <3>2 DEF LayoutInv, LaidOut
    <3> QED
      BY <2>2, <2>3, <3>2, <3>3, ClearPart
  <2>13. Modules' = Append(Modules, Module(n, a, lib[n]))
    BY <2>6, <2>8, <2>9
  <2>14. a + SO_SLOT_SIZE <= next_slot' /\ SO_LOAD_BASE <= a /\ DlNext(dl_slots)' >= DlNext(dl_slots)
    BY <2>2, <2>3, <2>4, <2>10
  <2>15. SharedObject(n) /\ step' # "interp" /\ UNCHANGED <<exe, lib>> /\ DlNext(dl_slots)' \in Nat
    BY <1>1, <1>6, <2>1, <2>10
  <2>16. SlotsLeft' => LaidOut(Modules)'
    BY <2>3, <2>10, <2>11, <2>12, <2>13, <2>14, <2>15, LayoutLib
  <2>17. next_slot' >= SO_LOAD_BASE /\ next_slot' % PageWords = 0
    BY <2>2, <2>3, <2>4, <2>5
  <2> QED
    BY <1>1, <1>6, <2>8, <2>11, <2>16, <2>17 DEF LayoutInv
<1> QED
  BY <1>3, <1>4, <1>5, <1>6

\* dlopen takes the next slot of the area of mmap.
LEMMA LayoutOpen ==
  ASSUME ImagesFit, LayoutInv, NEW n \in LibNames, sys_dlopen(n)
  PROVE  LayoutInv'
<1>1. step = "ready" /\ lib[n].here /\ dl_slots < MaxOpened
  BY DEF sys_dlopen
<1>2. PICK base : base = DlNext(dl_slots)
  OBVIOUS
<1>3. \/ NoFrames(lib[n], base)
      \/ /\ lib[n].elf /\ opened' = Append(opened, Module(n, base, lib[n]))
         /\ dl_slots' = dl_slots + 1 /\ UNCHANGED <<exe, lib, step, libs, next_slot>>
      \/ dl_slots' = dl_slots + 1 /\ UNCHANGED <<exe, lib, step, libs, next_slot, opened>>
  BY <1>2 DEF sys_dlopen
<1>6. /\ SO_LOAD_BASE \in Nat /\ INTERP_LOAD_BASE \in Nat /\ SO_SLOT_SIZE \in Nat
      /\ DlBase \in Nat /\ SO_SLOT_SIZE % PageWords = 0 /\ DlBase % PageWords = 0
      /\ MaxOpened \in Nat
  BY LayoutConstants DEF ImagesFit
<1>7. PICK k \in Nat : k = dl_slots
  BY DEF LayoutInv
<1>8. base = DlBase + k * SO_SLOT_SIZE /\ base \in Nat /\ base % PageWords = 0
  BY <1>2, <1>6, <1>7, SlotBoundary DEF DlNext
<1>9. ASSUME dl_slots' = dl_slots + 1 PROVE DlNext(dl_slots)' = base + SO_SLOT_SIZE
  <2>1. (k + 1) * SO_SLOT_SIZE = k * SO_SLOT_SIZE + SO_SLOT_SIZE /\ k * SO_SLOT_SIZE \in Nat
    BY <1>6
  <2>2. DlNext(dl_slots)' = DlBase + (k + 1) * SO_SLOT_SIZE
    BY <1>7, <1>9 DEF DlNext
  <2> QED
    BY <1>6, <1>8, <2>1, <2>2
<1>10. dl_slots < MaxOpened /\ dl_slots + 1 \in Nat /\ dl_slots + 1 <= MaxOpened
  BY <1>1, <1>6, <1>7
<1>4. CASE NoFrames(lib[n], base)
  BY <1>4, LayoutSame DEF NoFrames
<1>11. CASE dl_slots' = dl_slots + 1 /\ UNCHANGED <<exe, lib, step, libs, next_slot, opened>>
  <2>1. PICK s : s = Modules /\ s = Modules'
    BY <1>11 DEF Modules
  <2>2. ASSUME SlotsLeft' PROVE LaidOut(Modules)'
    <3>1. LaidOut(s)
      BY <1>11, <2>1, <2>2 DEF LayoutInv, SlotsLeft
    <3>2. ClearIn(s, base, SO_LOAD_BASE)
      BY <1>2, <3>1 DEF LaidOut
    <3>3. PICK hi \in Nat : hi = base + SO_SLOT_SIZE /\ base <= hi
      BY <1>6, <1>8
    <3>4. ClearIn(s, hi, SO_LOAD_BASE)
      BY <1>6, <1>8, <3>2, <3>3, ClearPart
    <3>5. DlNext(dl_slots)' = hi
      BY <1>9, <1>11, <3>3
    <3> QED
      BY <1>1, <1>11, <2>1, <3>1, <3>4, <3>5 DEF LaidOut
  <2> QED
    BY <1>1, <1>10, <1>11, <2>2 DEF LayoutInv
<1>5. CASE /\ lib[n].elf /\ opened' = Append(opened, Module(n, base, lib[n]))
           /\ dl_slots' = dl_slots + 1 /\ UNCHANGED <<exe, lib, step, libs, next_slot>>
  <2>1. SharedObject(n)
    BY <1>1, <1>5 DEF SharedObject
  <2>4. base + SO_SLOT_SIZE <= SO_LOAD_BASE
    <3>1. \A j \in Nat : j < MaxOpened =>
             DlBase + j * SO_SLOT_SIZE + SO_SLOT_SIZE <= SO_LOAD_BASE
      BY LayoutConstants
    <3> QED
      BY <1>1, <1>7, <1>8, <3>1
  <2>5. PICK m : m = Module(n, base, lib[n])
    OBVIOUS
  <2>6. m \in ModuleRecords /\ opened \in Seq(ModuleRecords) /\ libs \in Seq(ModuleRecords)
        /\ lib \in LibDirs
    BY <1>8, <2>1, <2>5, LibFits DEF LayoutInv
  <2>7. opened' = Append(opened, m) /\ opened' \in Seq(ModuleRecords)
    BY <1>5, <2>5, <2>6
  <2>8. Modules' = Append(Modules, m)
    <3>1. libs \o Append(opened, m) = Append(libs \o opened, m)
      BY <2>6
    <3> QED
      BY <1>5, <2>7, <3>1 DEF Modules
  <2>9. DlNext(dl_slots)' = base + SO_SLOT_SIZE
    BY <1>5, <1>9
  <2>10. PICK a \in Nat : a = next_slot /\ a = next_slot' /\ a >= SO_LOAD_BASE
    BY <1>5 DEF LayoutInv
  <2>11. SlotsLeft' => ClearIn(Modules, base, base + SO_SLOT_SIZE)
    <3>1. SUFFICES ASSUME SlotsLeft PROVE ClearIn(Modules, base, base + SO_SLOT_SIZE)
      BY <1>5 DEF SlotsLeft
    <3>2. ClearIn(Modules, base, SO_LOAD_BASE)
      BY <1>2, <3>1 DEF LayoutInv, LaidOut
    <3> QED
      BY <1>6, <1>8, <2>4, <3>2, ClearPart
  <2>12. /\ base + SO_SLOT_SIZE <= next_slot' /\ base + SO_SLOT_SIZE <= DlNext(dl_slots)'
         /\ next_slot' \in Nat /\ next_slot' >= next_slot
         /\ DlNext(dl_slots)' \in Nat /\ DlNext(dl_slots) \in Nat /\ DlNext(dl_slots)' >= DlNext(dl_slots)
    BY <1>2, <1>6, <1>8, <2>4, <2>9, <2>10
  <2>13. step' # "interp" /\ UNCHANGED <<exe, lib>>
    BY <1>1, <1>5
  <2>14. Modules' = Append(Modules, Module(n, base, lib[n]))
    BY <2>5, <2>8
  <2>15. SlotsLeft' => LaidOut(Modules)'
    BY <1>8, <2>1, <2>11, <2>12, <2>13, <2>14, LayoutLib
  <2> QED
    BY <1>1, <1>5, <1>10, <2>7, <2>15 DEF LayoutInv
<1> QED
  BY <1>3, <1>4, <1>5, <1>11

\* Every step keeps the layout.
LEMMA LayoutStep ==
  ASSUME ImagesFit, ClosureInv, LayoutInv, LoaderNext
  PROVE  LayoutInv'
<1>1. CASE load_elf_into_space
  BY <1>1, LayoutSame DEF load_elf_into_space, NoFrames
<1>2. CASE load_exec
  BY <1>2, LayoutExec
<1>3. CASE load_interp
  BY <1>3, LayoutInterp
<1>4. CASE load_deps
  BY <1>4, LayoutDeps
<1>5. CASE load_deps_return
  <2>1. opened = << >> /\ dl_slots = 0
    BY <1>5 DEF load_deps_return, LayoutInv
  <2> QED
    BY <1>5, <2>1, LayoutSame DEF load_deps_return
<1>6. CASE resolve_all
  BY <1>6, LayoutSame DEF resolve_all
<1>7. ASSUME NEW n \in LibNames, sys_dlopen(n) PROVE LayoutInv'
  BY <1>7, LayoutOpen
<1> QED
  BY <1>1, <1>2, <1>3, <1>4, <1>5, <1>6, <1>7 DEF LoaderNext, ExecSteps

\* The empty space satisfies the layout.
LEMMA LayoutStarts ==
  ASSUME ImagesFit, LoaderInit
  PROVE  LayoutInv
<1>1. << >> \in Seq(ModuleRecords) /\ Modules = << >>
  BY DEF LoaderInit, Modules
<1>2. ApartIn(<< >>) /\ \A a, b : ClearIn(<< >>, a, b)
  BY DEF ApartIn, ClearIn
<1>3. LaidOut(Modules)
  BY <1>1, <1>2 DEF LaidOut
<1>4. SO_LOAD_BASE \in Nat /\ SO_LOAD_BASE % PageWords = 0 /\ MaxOpened \in Nat
  BY LayoutConstants DEF ImagesFit
<1> QED
  BY <1>1, <1>3, <1>4 DEF LoaderInit, LayoutInv

\* For all files that fit the layout of dynlink.rs and every order of loading:
\* the program, its interpreter, the libraries and what dlopen adds lie apart,
\* as long as the slots for libraries end below the interpreter.  A file that
\* is not ELF uses up a slot, so the number of modules alone does not bound
\* them.
THEOREM ModulesLieApart ==
  ASSUME ImagesFit
  PROVE  LoaderSpec => [](SlotsLeft => ModulesApart)
<1>1. LoaderInit => ClosureInv /\ LayoutInv
  BY ClosureStarts, LayoutStarts
<1>2. ClosureInv /\ LayoutInv /\ [LoaderNext]_loaderVars => (ClosureInv /\ LayoutInv)'
  <2>1. ASSUME ClosureInv, LayoutInv, UNCHANGED loaderVars PROVE (ClosureInv /\ LayoutInv)'
    BY <2>1, ClosureSame, LayoutSame DEF loaderVars
  <2> QED
    BY <2>1, ClosureStep, LayoutStep
<1>3. LayoutInv => (SlotsLeft => ModulesApart)
  BY DEF LayoutInv, LaidOut, ApartIn, ModulesApart
<1> QED
  BY <1>1, <1>2, <1>3, PTL DEF LoaderSpec

----------------------------------------------------------------------------
(* Channels are accounted for and opened sparingly.                         *)

\* Induction up to n, over the set of the numbers a statement holds of.
LEMMA UpTo ==
  ASSUME NEW n \in Nat, NEW S, 0 \in S, \A i \in 0..(n - 1) : i \in S => i + 1 \in S
  PROVE  0..n \subseteq S
<1> DEFINE Bad == {i \in 0..n : i \notin S}
<1>1. SUFFICES ASSUME Bad # {} PROVE FALSE
  OBVIOUS
<1>2. IsWellFoundedOn(OpToRel(<, Nat), Nat)
  BY NatLessThanWellFounded
<1>3. Bad \in SUBSET Nat
  OBVIOUS
<1>4. PICK x \in Bad : \A y \in Bad : ~(<<y, x>> \in OpToRel(<, Nat))
  BY <1>1, <1>2, <1>3, WFMin
<1>5. x \in 0..n /\ x \notin S
  OBVIOUS
<1>6. \A y \in Bad : ~(y < x)
  BY <1>3, <1>4, <1>5 DEF OpToRel
<1>7. x - 1 \in 0..(n - 1) /\ x - 1 \notin Bad /\ (x - 1) + 1 = x
  BY <1>5, <1>6
<1>8. x - 1 \in S
  BY <1>7
<1> QED
  BY <1>5, <1>7, <1>8

\* F says what each of the n rounds of a loop makes of a value in D, and f
\* is what the loop has after each round when it starts from b.
LoopOver(n, D, F) == F \in [1..n -> [D -> D]]
LoopRun(n, D, F, b, f) ==
  f \in [0..n -> D] /\ f[0] = b /\ \A i \in 1..n : f[i] = F[i][f[i - 1]]

\* Every such loop has a run.
LEMMA LoopRuns ==
  ASSUME NEW n \in Nat, NEW D, NEW b \in D, NEW F, LoopOver(n, D, F)
  PROVE  \E f : LoopRun(n, D, F, b, f)
<1>0. F \in [1..n -> [D -> D]]
  BY DEF LoopOver
<1> DEFINE Run(k, f) == f \in [0..k -> D] /\ f[0] = b /\ \A i \in 1..k : f[i] = F[i][f[i - 1]]
           S == {k \in 0..n : \E f : Run(k, f)}
<1>1. 0 \in S
  <2> DEFINE f == [i \in 0..0 |-> b]
  <2>1. f \in [0..0 -> D] /\ f[0] = b /\ \A i \in 1..0 : f[i] = F[i][f[i - 1]]
    OBVIOUS
  <2> HIDE DEF f
  <2>2. Run(0, f)
    BY <2>1
  <2> QED
    BY <2>2
<1>2. ASSUME NEW k \in 0..(n - 1), k \in S PROVE k + 1 \in S
  <2>1. PICK f : Run(k, f)
    BY <1>2
  <2> DEFINE g == [i \in 0..(k + 1) |-> IF i = k + 1 THEN F[k + 1][f[k]] ELSE f[i]]
  <2>2. f \in [0..k -> D] /\ f[0] = b /\ (\A i \in 1..k : f[i] = F[i][f[i - 1]]) /\ f[k] \in D
    BY <2>1
  <2>3. k + 1 \in 1..n /\ F[k + 1] \in [D -> D] /\ F[k + 1][f[k]] \in D
    BY <1>0, <2>2
  <2>4. (\A i \in 0..k : g[i] = f[i]) /\ g[k + 1] = F[k + 1][f[k]]
    OBVIOUS
  <2>5. \A i \in 0..(k + 1) : g[i] \in D
    BY <2>2, <2>3, <2>4
  <2>6. g \in [0..(k + 1) -> D]
    BY <2>5
  <2> HIDE DEF g
  <2>7. \A i \in 1..(k + 1) : g[i] = F[i][g[i - 1]]
    <3> SUFFICES ASSUME NEW i \in 1..(k + 1) PROVE g[i] = F[i][g[i - 1]]
      OBVIOUS
    <3>1. i - 1 \in 0..k /\ g[i - 1] = f[i - 1]
      BY <2>4
    <3>2. CASE i = k + 1
      BY <2>4, <3>1, <3>2
    <3>3. CASE i # k + 1
      <4>1. i \in 1..k /\ i \in 0..k
        BY <3>3
      <4> QED
        BY <2>2, <2>4, <3>1, <4>1
    <3> QED
      BY <3>2, <3>3
  <2>8. g[0] = b
    BY <2>2, <2>4
  <2>9. Run(k + 1, g)
    BY <2>6, <2>7, <2>8
  <2> QED
    BY <2>9
<1> HIDE DEF S
<1>3. 0..n \subseteq S
  BY <1>1, <1>2, UpTo
<1>4. n \in S
  BY <1>3
<1> QED
  BY <1>4 DEF S, LoopRun

\* What every round preserves holds after each.
LEMMA LoopKeeps ==
  ASSUME NEW n \in Nat, NEW D, NEW F, LoopOver(n, D, F), NEW f, f[0] \in D,
         \A k \in 1..n : f[k - 1] \in D => f[k] = F[k][f[k - 1]]
  PROVE  \A k \in 0..n : f[k] \in D
<1> DEFINE S == {k \in 0..n : f[k] \in D}
<1>1. 0 \in S
  OBVIOUS
<1>2. ASSUME NEW k \in 0..(n - 1), k \in S PROVE k + 1 \in S
  <2>1. PICK m \in 1..n : m = k + 1 /\ m - 1 = k /\ m \in 0..n
    OBVIOUS
  <2>2. f[m] = F[m][f[k]] /\ f[k] \in D
    BY <1>2, <2>1
  <2>3. f[m] \in D
    BY <2>2 DEF LoopOver
  <2> QED
    BY <2>1, <2>3
<1> HIDE DEF S
<1>3. 0..n \subseteq S
  BY <1>1, <1>2, UpTo
<1> QED
  BY <1>3 DEF S

\* The records of the tables, and the record a report works on.
Cells == {None} \cup [pair: Pairs, count: Nat, last_count: Nat, cold: Nat]
PairTables == [Slots -> Cells]
Evictions == Pairs \X (0..Cooldown)
Works == [table: PairTables, channel: SUBSET Pairs, made: Nat, pinned: SUBSET Pids,
          preferred: SUBSET Pids, evict: Seq(Evictions)]

\* A pair stands once in a table; every channel stands in the table; and the
\* processes of a channel are pinned but for those of a pair without one.
TableOnce(t) == \A i, j \in Slots : t[i] # None /\ t[i].pair = t[j].pair => i = j
EvictOnce(ev) == \A i, j \in 1..Len(ev) : ev[i][1] = ev[j][1] => i = j
Tracked(t, ch) == \A p \in ch : \E i \in Slots : t[i].pair = p
PinnedBut(ch, pin) ==
  \A p \in ch : \A x \in {p[1], p[2]} \ pin : \E q \in Pairs \ ch : x \in {q[1], q[2]}
\* The pair p is cooling down for t ticks at least.
Cools(ev, p, t) == \E i \in 1..Len(ev) : ev[i][1] = p /\ ev[i][2] >= t

Sound(st) ==
  /\ st \in Works /\ TableOnce(st.table) /\ EvictOnce(st.evict)
  /\ Tracked(st.table, st.channel) /\ PinnedBut(st.channel, st.pinned)

\* The tables of pairs are large enough for all the pairs.
PairsFit == Cardinality(Pairs) <= MAX_IPC_PAIRS /\ Cardinality(Pairs) <= MAX_EVICT_PAIRS

LEMMA CellFacts ==
  /\ None.pair = <<>>
  /\ \A c \in Cells : c # None => c.pair \in Pairs /\ c.count \in Nat /\ c.last_count \in Nat
                                    /\ c.cold \in Nat
  /\ \A c \in Cells : c # None <=> c.pair \in Pairs
  /\ \A c \in Cells : c = None <=> c.pair = <<>>
<1>1. None.pair = <<>>
  BY DEF None
<1>2. \A c \in [pair: Pairs, count: Nat, last_count: Nat, cold: Nat] :
        c.pair \in Pairs /\ c.count \in Nat /\ c.last_count \in Nat /\ c.cold \in Nat
  OBVIOUS
<1>3. <<>> \notin Pairs
  BY PolicyConstants
<1> HIDE DEF None
<1> QED
  BY <1>1, <1>2, <1>3 DEF Cells

LEMMA WorkFields ==
  ASSUME NEW st \in Works
  PROVE  /\ st.table \in PairTables /\ st.channel \in SUBSET Pairs /\ st.made \in Nat
         /\ st.pinned \in SUBSET Pids /\ st.preferred \in SUBSET Pids /\ st.evict \in Seq(Evictions)
         /\ DOMAIN st = {"table", "channel", "made", "pinned", "preferred", "evict"}
BY DEF Works

\* What Promote makes of each field.
LEMMA PromoteFields ==
  ASSUME NEW st \in Works, NEW p \in Pairs
  PROVE  /\ Promote(st, p) \in Works
         /\ Promote(st, p).table = st.table /\ Promote(st, p).evict = st.evict
         /\ Promote(st, p).pinned = st.pinned \cup {p[1], p[2]}
         /\ \/ /\ Promote(st, p).channel = st.channel /\ Promote(st, p).made = st.made
            \/ /\ Promote(st, p).channel = st.channel \cup {p} /\ Promote(st, p).made = st.made + 1
               /\ p \notin st.channel /\ st.made < MAX_CHANNELS_PER_WINDOW
               /\ ~in_evict_cooldown(st, p)
<1>1. p[1] \in Pids /\ p[2] \in Pids
  BY DEF Pids
<1>2. ASSUME NEW w \in Works
      PROVE  /\ Pin(w, p) \in Works /\ Pin(w, p).table = w.table /\ Pin(w, p).evict = w.evict
             /\ Pin(w, p).pinned = w.pinned \cup {p[1], p[2]}
             /\ Pin(w, p).channel = w.channel /\ Pin(w, p).made = w.made
  BY <1>1 DEF Pin, Works
<1>3. CASE p \in st.channel \/ st.made >= MAX_CHANNELS_PER_WINDOW \/ in_evict_cooldown(st, p)
  <2>1. Promote(st, p) = Pin(st, p)
    BY <1>3 DEF Promote
  <2> QED
    BY <1>2, <2>1
<1>4. CASE ~(p \in st.channel \/ st.made >= MAX_CHANNELS_PER_WINDOW \/ in_evict_cooldown(st, p))
  <2>1. PICK w \in Works :
          /\ w = [st EXCEPT !.channel = @ \cup {p}, !.made = @ + 1]
          /\ w.table = st.table /\ w.evict = st.evict /\ w.pinned = st.pinned
          /\ w.channel = st.channel \cup {p} /\ w.made = st.made + 1
    <3>1. PICK c \in SUBSET Pairs, m \in Nat : c = st.channel \cup {p} /\ m = st.made + 1
      <4>1. st.channel \in SUBSET Pairs /\ st.made \in Nat
        BY WorkFields
      <4>2. st.channel \cup {p} \in SUBSET Pairs /\ st.made + 1 \in Nat
        BY <4>1
      <4> QED
        BY <4>2
    <3>2. [st EXCEPT !.channel = c, !.made = m] \in Works
      BY DEF Works
    <3>3. PICK w \in Works : w = [st EXCEPT !.channel = c, !.made = m]
      BY <3>2
    <3>4. /\ w.table = st.table /\ w.evict = st.evict /\ w.pinned = st.pinned
          /\ w.channel = c /\ w.made = m
      BY <3>3, WorkFields
    <3> QED
      BY <3>1, <3>3, <3>4
  <2>2. Promote(st, p) = Pin(w, p)
    BY <1>4, <2>1 DEF Promote
  <2>3. st.made < MAX_CHANNELS_PER_WINDOW
    BY <1>4, PolicyConstants, WorkFields
  <2> QED
    BY <1>2, <1>4, <2>1, <2>2, <2>3
<1> QED
  BY <1>3, <1>4

\* Through the promotions of a window that starts as s: the tables stay, at
\* most `made` channels are new, and none of a pair that is cooling down.
Promoting(s, st) ==
  /\ Sound(st) /\ st.table = s.table /\ st.evict = s.evict /\ s.channel \subseteq st.channel
  /\ st.made <= MAX_CHANNELS_PER_WINDOW
  /\ IsFiniteSet(st.channel \ s.channel) /\ Cardinality(st.channel \ s.channel) <= st.made
  /\ \A p \in st.channel \ s.channel : ~in_evict_cooldown(s, p)

LEMMA PromoteStep ==
  ASSUME NEW s \in Works, NEW st, Promoting(s, st), NEW p \in Pairs,
         \E i \in Slots : s.table[i].pair = p
  PROVE  Promoting(s, Promote(st, p))
<1>1. st \in Works /\ Sound(st) /\ Tracked(st.table, st.channel) /\ PinnedBut(st.channel, st.pinned)
  BY DEF Promoting, Sound
<1>2. PICK w \in Works :
        /\ w = Promote(st, p) /\ w.table = st.table /\ w.evict = st.evict
        /\ w.pinned = st.pinned \cup {p[1], p[2]}
        /\ \/ /\ w.channel = st.channel /\ w.made = st.made
           \/ /\ w.channel = st.channel \cup {p} /\ w.made = st.made + 1
              /\ p \notin st.channel /\ st.made < MAX_CHANNELS_PER_WINDOW
              /\ ~in_evict_cooldown(st, p)
  BY <1>1, PromoteFields
<1>3. Tracked(w.table, w.channel)
  BY <1>1, <1>2 DEF Tracked, Promoting
<1>4. PinnedBut(w.channel, w.pinned)
  <2> SUFFICES ASSUME NEW q \in w.channel, NEW x \in {q[1], q[2]} \ w.pinned
               PROVE  \E r \in Pairs \ w.channel : x \in {r[1], r[2]}
    BY DEF PinnedBut
  <2>1. x \notin st.pinned /\ x \notin {p[1], p[2]} /\ q # p /\ q \in st.channel
    BY <1>2
  <2>2. PICK r \in Pairs \ st.channel : x \in {r[1], r[2]}
    BY <1>1, <2>1 DEF PinnedBut
  <2> QED
    BY <1>2, <2>1, <2>2
<1>5. Sound(w)
  BY <1>1, <1>2, <1>3, <1>4 DEF Sound
<1>6. w.made <= MAX_CHANNELS_PER_WINDOW
  BY <1>1, <1>2, WorkFields, PolicyConstants DEF Promoting
<1>7. /\ IsFiniteSet(w.channel \ s.channel) /\ Cardinality(w.channel \ s.channel) <= w.made
      /\ s.channel \subseteq w.channel
      /\ \A q \in w.channel \ s.channel : ~in_evict_cooldown(s, q)
  <2>1. CASE w.channel = st.channel /\ w.made = st.made
    BY <2>1 DEF Promoting
  <2>2. CASE /\ w.channel = st.channel \cup {p} /\ w.made = st.made + 1
             /\ p \notin st.channel /\ ~in_evict_cooldown(st, p)
    <3>1. PICK T : T = st.channel \ s.channel
      OBVIOUS
    <3>2. p \notin T /\ w.channel \ s.channel = T \cup {p}
      BY <2>2, <3>1 DEF Promoting
    <3>3. IsFiniteSet(T) /\ Cardinality(T) \in Nat /\ Cardinality(T) <= st.made
      BY <3>1, FS_CardinalityType DEF Promoting
    <3>4. IsFiniteSet(T \cup {p}) /\ Cardinality(T \cup {p}) = Cardinality(T) + 1
      BY <3>2, <3>3, FS_AddElement
    <3>5. Cardinality(T) + 1 <= w.made
      BY <1>1, <2>2, <3>3, WorkFields
    <3>6. ~in_evict_cooldown(s, p)
      BY <2>2 DEF Promoting, in_evict_cooldown
    <3> QED
      BY <2>2, <3>1, <3>2, <3>4, <3>5, <3>6 DEF Promoting
  <2> QED
    BY <1>2, <2>1, <2>2
<1> QED
  BY <1>2, <1>5, <1>6, <1>7 DEF Promoting

\* The least of a set of slots or places.
LEMMA LowestIn ==
  ASSUME NEW S \in SUBSET Nat, S # {}
  PROVE  Lowest(S) \in S
<1>1. IsWellFoundedOn(OpToRel(<, Nat), Nat)
  BY NatLessThanWellFounded
<1>2. PICK x \in S : \A y \in S : ~(<<y, x>> \in OpToRel(<, Nat))
  BY <1>1, WFMin
<1>3. \A y \in S : x <= y
  <2> SUFFICES ASSUME NEW y \in S PROVE x <= y
    OBVIOUS
  <2>1. x \in Nat /\ y \in Nat
    OBVIOUS
  <2>2. ~(y < x)
    BY <1>2, <2>1 DEF OpToRel
  <2> QED
    BY <2>1, <2>2
<1> QED
  BY <1>3 DEF Lowest

\* An injective list of pairs other than p is shorter than the number of pairs.
LEMMA RoomForOne ==
  ASSUME NEW n \in Nat, NEW f \in [1..n -> Pairs], NEW p \in Pairs,
         \A i \in 1..n : f[i] # p, \A i, j \in 1..n : f[i] = f[j] => i = j
  PROVE  n < Cardinality(Pairs)
<1>1. IsFiniteSet(Pairs) /\ Cardinality(Pairs) \in Nat
  BY PolicyConstants, FS_CardinalityType
<1>2. PICK T : T = Pairs \ {p}
  OBVIOUS
<1>3. IsFiniteSet(T) /\ Cardinality(T) = Cardinality(Pairs) - 1
  BY <1>1, <1>2, FS_RemoveElement
<1>4. f \in Injection(1..n, T)
  BY <1>2 DEF Injection, IsInjective
<1>5. Cardinality(1..n) <= Cardinality(T)
  BY <1>3, <1>4, FS_Injection
<1>6. Cardinality(1..n) = n
  BY FS_Interval
<1> QED
  BY <1>1, <1>3, <1>5, <1>6

\* The table of evictions afterwards: p cools for the whole time and no other
\* pair is forgotten or gets less.
LEMMA EvictionRecorded ==
  ASSUME PairsFit, NEW ev \in Seq(Evictions), EvictOnce(ev), NEW p \in Pairs
  PROVE  /\ record_eviction(ev, p) \in Seq(Evictions) /\ EvictOnce(record_eviction(ev, p))
         /\ Cools(record_eviction(ev, p), p, Cooldown)
         /\ \A q, t : Cools(ev, q, t) /\ t \in Nat /\ t <= Cooldown => Cools(record_eviction(ev, p), q, t)
<1> DEFINE same == {i \in 1..Len(ev) : ev[i][1] = p}
<1>1. /\ Len(ev) \in Nat /\ DOMAIN ev = 1..Len(ev) /\ Cooldown \in Nat
      /\ \A i \in 1..Len(ev) : ev[i] \in Evictions
  BY PolicyConstants
<1>2. \A i \in 1..Len(ev) : ev[i][1] \in Pairs /\ ev[i][2] \in 0..Cooldown /\ ev[i] = <<ev[i][1], ev[i][2]>>
  BY <1>1 DEF Evictions
<1>3. \A q \in Pairs, t \in 0..Cooldown : <<q, t>> \in Evictions /\ <<q, t>>[1] = q /\ <<q, t>>[2] = t
  BY DEF Evictions
<1>4. CASE same # {}
  <2>1. PICK i \in 1..Len(ev) : i = Lowest(same) /\ ev[i][1] = p
    <3>1. Lowest(same) \in same
      <4>1. same \in SUBSET Nat
        BY <1>1
      <4> HIDE DEF same
      <4> QED
        BY <1>4, <4>1, LowestIn
    <3> QED
      BY <3>1
  <2>2. record_eviction(ev, p) = [ev EXCEPT ![i][2] = Cooldown]
    BY <1>4, <2>1 DEF record_eviction
  <2>3. [ev EXCEPT ![i][2] = Cooldown] = [ev EXCEPT ![i] = <<p, Cooldown>>]
    <3>1. [ev[i] EXCEPT ![2] = Cooldown] = <<p, Cooldown>>
      <4>1. PICK e \in Evictions : e = ev[i] /\ e = <<e[1], e[2]>> /\ e[1] = p
        BY <1>1, <1>2, <2>1
      <4>2. [<<e[1], e[2]>> EXCEPT ![2] = Cooldown] = <<e[1], Cooldown>>
        OBVIOUS
      <4> QED
        BY <4>1, <4>2
    <3> QED
      BY <3>1
  <2>4. PICK e \in Evictions : e = <<p, Cooldown>> /\ e[1] = p /\ e[2] = Cooldown
    <3>1. Cooldown \in 0..Cooldown
      BY <1>1
    <3>2. /\ <<p, Cooldown>> \in Evictions
          /\ <<p, Cooldown>>[1] = p /\ <<p, Cooldown>>[2] = Cooldown
      BY <1>3, <3>1
    <3> QED
      BY <3>2
  <2>5. PICK r \in Seq(Evictions) :
          /\ r = record_eviction(ev, p) /\ Len(r) = Len(ev)
          /\ \A j \in 1..Len(ev) : r[j] = IF j = i THEN e ELSE ev[j]
    <3>1. record_eviction(ev, p) = [ev EXCEPT ![i] = e]
      BY <2>2, <2>3, <2>4
    <3> HIDE DEF same, Evictions
    <3>2. [ev EXCEPT ![i] = e] \in Seq(Evictions) /\ Len([ev EXCEPT ![i] = e]) = Len(ev)
      OBVIOUS
    <3>3. \A j \in 1..Len(ev) : [ev EXCEPT ![i] = e][j] = IF j = i THEN e ELSE ev[j]
      BY <1>1
    <3> QED
      BY <3>1, <3>2, <3>3
  <2>6. EvictOnce(r)
    BY <2>1, <2>4, <2>5, SMTT(20) DEF EvictOnce
  <2>7. Cools(r, p, Cooldown)
    BY <1>1, <2>1, <2>4, <2>5 DEF Cools
  <2>8. ASSUME NEW q, NEW t, Cools(ev, q, t), t \in Nat, t <= Cooldown PROVE Cools(r, q, t)
    <3>1. PICK j \in 1..Len(ev) : ev[j][1] = q /\ ev[j][2] >= t
      BY <2>8 DEF Cools
    <3>2. r[j][1] = q /\ r[j][2] >= t
      BY <2>1, <2>4, <2>5, <2>8, <3>1
    <3> QED
      BY <2>5, <3>2 DEF Cools
  <2> QED
    BY <2>5, <2>6, <2>7, <2>8
<1>5. CASE same = {}
  <2>1. Len(ev) < MAX_EVICT_PAIRS
    <3> DEFINE f == [i \in 1..Len(ev) |-> ev[i][1]]
    <3>1. f \in [1..Len(ev) -> Pairs] /\ (\A i \in 1..Len(ev) : f[i] = ev[i][1])
      BY <1>2
    <3>2. (\A i \in 1..Len(ev) : f[i] # p) /\ \A i, j \in 1..Len(ev) : f[i] = f[j] => i = j
      BY <1>5 DEF EvictOnce
    <3> HIDE DEF f
    <3>3. Len(ev) < Cardinality(Pairs)
      BY <1>1, <3>1, <3>2, RoomForOne
    <3>4. Cardinality(Pairs) \in Nat
      BY PolicyConstants, FS_CardinalityType
    <3> QED
      BY <1>1, <3>3, <3>4, PolicyConstants DEF PairsFit
  <2>2. PICK e \in Evictions : e = <<p, Cooldown>> /\ e[1] = p /\ e[2] = Cooldown
    <3>1. Cooldown \in 0..Cooldown
      BY <1>1
    <3>2. /\ <<p, Cooldown>> \in Evictions
          /\ <<p, Cooldown>>[1] = p /\ <<p, Cooldown>>[2] = Cooldown
      BY <1>3, <3>1
    <3> QED
      BY <3>2
  <2>3. PICK r \in Seq(Evictions) :
          /\ r = record_eviction(ev, p) /\ Len(r) = Len(ev) + 1 /\ r[Len(ev) + 1] = e
          /\ \A j \in 1..Len(ev) : r[j] = ev[j]
    <3>1. record_eviction(ev, p) = Append(ev, e)
      BY <1>5, <2>1, <2>2 DEF record_eviction
    <3> HIDE DEF same, Evictions
    <3>2. /\ Append(ev, e) \in Seq(Evictions) /\ Len(Append(ev, e)) = Len(ev) + 1
          /\ Append(ev, e)[Len(ev) + 1] = e /\ \A j \in 1..Len(ev) : Append(ev, e)[j] = ev[j]
      OBVIOUS
    <3> QED
      BY <3>1, <3>2
  <2>4. \A j \in 1..Len(r) : j = Len(ev) + 1 \/ j \in 1..Len(ev)
    BY <1>1, <2>3
  <2>5. EvictOnce(r)
    <3>1. \A j \in 1..Len(ev) : r[j][1] # p /\ r[j][1] = ev[j][1]
      BY <1>5, <2>3
    <3>2. r[Len(ev) + 1][1] = p
      BY <2>2, <2>3
    <3> QED
      BY <2>4, <3>1, <3>2 DEF EvictOnce
  <2>6. Cools(r, p, Cooldown)
    <3>1. Len(ev) + 1 \in 1..Len(r)
      BY <1>1, <2>3
    <3> QED
      BY <1>1, <2>2, <2>3, <3>1 DEF Cools
  <2>7. ASSUME NEW q, NEW t, Cools(ev, q, t) PROVE Cools(r, q, t)
    <3>1. PICK j \in 1..Len(ev) : ev[j][1] = q /\ ev[j][2] >= t
      BY <2>7 DEF Cools
    <3>2. j \in 1..Len(r) /\ r[j] = ev[j]
      BY <1>1, <2>3
    <3> QED
      BY <3>1, <3>2 DEF Cools
  <2> QED
    BY <2>3, <2>5, <2>6, <2>7
<1> QED
  BY <1>4, <1>5

LEMMA TablePut ==
  ASSUME NEW t \in PairTables, NEW i \in Slots, NEW c \in Cells
  PROVE  /\ [t EXCEPT ![i] = c] \in PairTables /\ [t EXCEPT ![i] = c][i] = c
         /\ \A j \in Slots : j # i => [t EXCEPT ![i] = c][j] = t[j]
         /\ \A j \in Slots : t[j] \in Cells
BY DEF PairTables

\* What the body of the decay loop makes of the record: counters of slot i, or
\* the pair in slot i loses its entry, its channel and its pins.
LEMMA DecayFields ==
  ASSUME NEW st \in Works, NEW i \in Slots, NEW anomalies,
         \A p \in Pairs : record_eviction(st.evict, p) \in Seq(Evictions)
  PROVE  \E w \in Works :
           /\ w = Decay(st, i, anomalies) /\ w.made = st.made
           /\ \/ /\ \A j \in Slots : w.table[j].pair = st.table[j].pair
                 /\ w.channel = st.channel /\ w.pinned = st.pinned /\ w.evict = st.evict
              \/ \E p \in Pairs :
                   /\ st.table[i].pair = p
                   /\ w.table = [st.table EXCEPT ![i] = None] /\ w.channel = st.channel \ {p}
                   /\ w.pinned = st.pinned \ {p[1], p[2]}
                   /\ w.evict = record_eviction(st.evict, p)
<1> DEFINE e == st.table[i]
           p == e.pair
           delta == IF e.count > e.last_count THEN e.count - e.last_count ELSE 0
           seen == [st EXCEPT !.table[i].last_count = e.count]
<1>1. st.table \in PairTables /\ e \in Cells
  BY WorkFields DEF PairTables
<1>2. CASE e = None
  <2>1. Decay(st, i, anomalies) = st
    BY <1>2 DEF Decay
  <2> QED
    BY <2>1
<1>3. CASE e # None
  <2>1. p \in Pairs /\ e.count \in Nat /\ e.last_count \in Nat /\ e.cold \in Nat
    BY <1>1, <1>3, CellFacts
  <2>2. PICK tn \in PairTables : tn = [st.table EXCEPT ![i] = None]
    BY <1>1 DEF PairTables, Cells
  <2>3. PICK ev \in Seq(Evictions) : ev = record_eviction(st.evict, p)
    BY <2>1
  <2>4. PICK ch \in SUBSET Pairs, pn \in SUBSET Pids, pf \in SUBSET Pids :
          /\ ch = st.channel \ {p} /\ pn = st.pinned \ {p[1], p[2]}
          /\ pf = st.preferred \ {p[1], p[2]}
    <3>1. st.channel \in SUBSET Pairs /\ st.pinned \in SUBSET Pids /\ st.preferred \in SUBSET Pids
      BY WorkFields
    <3> HIDE DEF p
    <3>2. /\ st.channel \ {p} \in SUBSET Pairs /\ st.pinned \ {p[1], p[2]} \in SUBSET Pids
          /\ st.preferred \ {p[1], p[2]} \in SUBSET Pids
      BY <3>1
    <3> QED
      BY <3>2
  <2>5. PICK rc \in Works :
          /\ rc = Reclaim(st, i, p)
          /\ rc.table = tn /\ rc.channel = ch /\ rc.pinned = pn /\ rc.evict = ev
          /\ rc.made = st.made /\ rc.preferred = st.preferred
    <3>1. Reclaim(st, i, p) = [st EXCEPT !.channel = ch, !.pinned = pn, !.table = tn, !.evict = ev]
      <4> HIDE DEF p
      <4> QED
        BY <2>2, <2>3, <2>4 DEF Reclaim
    <3> HIDE DEF p, e
    <3>2. PICK rc : rc = [st EXCEPT !.channel = ch, !.pinned = pn, !.table = tn, !.evict = ev]
      OBVIOUS
    <3>3. rc \in Works
      BY <3>2 DEF Works
    <3>4. /\ rc.table = tn /\ rc.channel = ch /\ rc.pinned = pn /\ rc.evict = ev
          /\ rc.made = st.made /\ rc.preferred = st.preferred
      BY <3>2, WorkFields
    <3> QED
      BY <3>1, <3>2, <3>3, <3>4
  <2>6. PICK rp \in Works :
          /\ rp = [rc EXCEPT !.preferred = @ \ {p[1], p[2]}]
          /\ rp.table = tn /\ rp.channel = ch /\ rp.pinned = pn /\ rp.evict = ev
          /\ rp.made = st.made
    <3> HIDE DEF p, e
    <3>1. [rc EXCEPT !.preferred = @ \ {p[1], p[2]}] = [rc EXCEPT !.preferred = pf]
      BY <2>4, <2>5
    <3>2. PICK rp : rp = [rc EXCEPT !.preferred = pf]
      OBVIOUS
    <3>3. rp \in Works
      BY <3>2 DEF Works
    <3>4. /\ rp.table = rc.table /\ rp.channel = rc.channel /\ rp.pinned = rc.pinned
          /\ rp.evict = rc.evict /\ rp.made = rc.made
      BY <3>2, WorkFields
    <3> QED
      BY <2>5, <3>1, <3>2, <3>3, <3>4
  <2>7. PICK sn \in Works :
          /\ sn = seen /\ sn.made = st.made /\ sn.channel = st.channel /\ sn.pinned = st.pinned
          /\ sn.evict = st.evict
          /\ sn.table \in PairTables /\ \A j \in Slots : j # i => sn.table[j] = st.table[j]
          /\ sn.table[i] \in Cells /\ sn.table[i] # None /\ sn.table[i].pair = p
          /\ sn.table[i].cold = e.cold
    <3>1. PICK c : c = [e EXCEPT !.last_count = e.count]
      OBVIOUS
    <3>2. c \in Cells /\ c # None /\ c.pair = p /\ c.cold = e.cold
      <4>1. e \in [pair: Pairs, count: Nat, last_count: Nat, cold: Nat]
        BY <1>1, <1>3 DEF Cells
      <4> HIDE DEF e
      <4>2. c \in [pair: Pairs, count: Nat, last_count: Nat, cold: Nat] /\ c.pair = e.pair /\ c.cold = e.cold
        BY <3>1, <4>1
      <4>3. c \in Cells
        BY <4>2 DEF Cells
      <4> QED
        BY <2>1, <4>2, <4>3, CellFacts
    <3>3. PICK t \in PairTables : t = [st.table EXCEPT ![i] = c] /\ t[i] = c
                             /\ \A j \in Slots : j # i => t[j] = st.table[j]
      <4> HIDE DEF e, p
      <4>1. PICK u \in PairTables : u = st.table
        BY <1>1
      <4>2. /\ [u EXCEPT ![i] = c] \in PairTables /\ [u EXCEPT ![i] = c][i] = c
            /\ \A j \in Slots : j # i => [u EXCEPT ![i] = c][j] = u[j]
        BY <3>2, TablePut
      <4>3. PICK t : t = [u EXCEPT ![i] = c]
        OBVIOUS
      <4>4. t \in PairTables /\ t[i] = c /\ \A j \in Slots : j # i => t[j] = u[j]
        BY <4>2, <4>3
      <4>5. t = [st.table EXCEPT ![i] = c] /\ \A j \in Slots : j # i => t[j] = st.table[j]
        BY <4>1, <4>3, <4>4
      <4> QED
        BY <4>4, <4>5, Zenon
    <3>4. seen = [st EXCEPT !.table = t]
      BY <3>1, <3>3
    <3> HIDE DEF seen, e, p
    <3>5. PICK sn : sn = [st EXCEPT !.table = t]
      OBVIOUS
    <3>6. sn \in Works
      BY <3>5 DEF Works
    <3>7. /\ sn.table = t /\ sn.made = st.made /\ sn.channel = st.channel
          /\ sn.pinned = st.pinned /\ sn.evict = st.evict
      BY <3>5, WorkFields
    <3> QED
      BY <3>2, <3>3, <3>4, <3>5, <3>6, <3>7, ZenonT(40)
  <2>8. ASSUME NEW n \in Nat
        PROVE  \E w \in Works :
                 /\ w = [sn EXCEPT !.table[i].cold = n]
                 /\ w.made = st.made /\ \A j \in Slots : w.table[j].pair = st.table[j].pair
                 /\ w.channel = st.channel /\ w.pinned = st.pinned /\ w.evict = st.evict
    <3> HIDE DEF seen, e, p
    <3>1. PICK c : c = [sn.table[i] EXCEPT !.cold = n]
      OBVIOUS
    <3>2. c \in Cells /\ c.pair = p
      <4>1. PICK x \in [pair: Pairs, count: Nat, last_count: Nat, cold: Nat] : x = sn.table[i]
        BY <2>7 DEF Cells
      <4>2. c \in [pair: Pairs, count: Nat, last_count: Nat, cold: Nat] /\ c.pair = x.pair
        BY <3>1, <4>1
      <4>3. c \in Cells
        BY <4>2 DEF Cells
      <4> QED
        BY <2>7, <4>1, <4>2, <4>3
    <3>3. PICK t \in PairTables : t = [sn.table EXCEPT ![i] = c] /\ t[i] = c
                             /\ \A j \in Slots : j # i => t[j] = sn.table[j]
      <4>1. PICK u \in PairTables : u = sn.table
        BY <2>7
      <4>2. /\ [u EXCEPT ![i] = c] \in PairTables /\ [u EXCEPT ![i] = c][i] = c
            /\ \A j \in Slots : j # i => [u EXCEPT ![i] = c][j] = u[j]
        BY <3>2, TablePut
      <4>3. PICK t : t = [u EXCEPT ![i] = c]
        OBVIOUS
      <4>4. t \in PairTables /\ t[i] = c /\ \A j \in Slots : j # i => t[j] = u[j]
        BY <4>2, <4>3
      <4>5. t = [sn.table EXCEPT ![i] = c] /\ \A j \in Slots : j # i => t[j] = sn.table[j]
        BY <4>1, <4>3, <4>4
      <4> QED
        BY <4>4, <4>5, Zenon
    <3>4. [sn EXCEPT !.table[i].cold = n] = [sn EXCEPT !.table = t]
      BY <3>1, <3>3
    <3>5. PICK w : w = [sn EXCEPT !.table = t]
      OBVIOUS
    <3>6. w \in Works
      BY <3>5 DEF Works
    <3>7. /\ w.table = t /\ w.made = sn.made /\ w.channel = sn.channel
          /\ w.pinned = sn.pinned /\ w.evict = sn.evict
      BY <3>5, WorkFields
    <3>8. \A j \in Slots : w.table[j].pair = st.table[j].pair
      BY <2>7, <3>2, <3>3, <3>7 DEF p, e
    <3> QED
      BY <2>7, <3>4, <3>5, <3>6, <3>7, <3>8, ZenonT(30)
  <2>9. CASE i \in anomalies
    <3>1. Decay(st, i, anomalies) = rc
      <4> HIDE DEF seen
      <4> QED
        BY <1>3, <2>5, <2>9 DEF Decay
    <3> QED
      BY <2>1, <2>2, <2>3, <2>4, <2>5, <3>1
  <2>10. CASE i \notin anomalies /\ delta < DECAY_THRESHOLD /\ e.cold + 1 >= DECAY_COLD_WINDOWS
    <3>1. Decay(st, i, anomalies) = rp
      <4> HIDE DEF seen
      <4> QED
        BY <1>3, <2>5, <2>6, <2>10 DEF Decay
    <3> QED
      <4>1. PICK q \in Pairs : q = p
        BY <2>1
      <4>2. /\ st.table[i].pair = q /\ rp.table = [st.table EXCEPT ![i] = None]
            /\ rp.channel = st.channel \ {q} /\ rp.pinned = st.pinned \ {q[1], q[2]}
            /\ rp.evict = record_eviction(st.evict, q) /\ rp.made = st.made
        BY <2>2, <2>3, <2>4, <2>6, <4>1
      <4> HIDE DEF e, p, seen
      <4> QED
        BY <3>1, <4>1, <4>2
  <2>11. CASE i \notin anomalies /\ delta < DECAY_THRESHOLD /\ ~(e.cold + 1 >= DECAY_COLD_WINDOWS)
    <3>1. Decay(st, i, anomalies) = [sn EXCEPT !.table[i].cold = @ + 1]
      BY <1>3, <2>7, <2>11 DEF Decay
    <3>2. PICK n \in Nat : n = e.cold + 1
      BY <2>1
    <3>3. [sn EXCEPT !.table[i].cold = @ + 1] = [sn EXCEPT !.table[i].cold = n]
      <4> HIDE DEF e, p, seen
      <4> QED
        BY <2>7, <3>2
    <3> HIDE DEF e, p, seen
    <3> QED
      BY <2>8, <3>1, <3>3
  <2>12. CASE i \notin anomalies /\ ~(delta < DECAY_THRESHOLD)
    <3>1. Decay(st, i, anomalies) = [sn EXCEPT !.table[i].cold = 0]
      BY <1>3, <2>7, <2>12 DEF Decay
    <3> HIDE DEF e, p, seen
    <3>2. PICK n \in Nat : n = 0
      OBVIOUS
    <3> QED
      BY <2>8, <3>1, <3>2
  <2> QED
    BY <2>9, <2>10, <2>11, <2>12
<1> QED
  BY <1>2, <1>3

\* Through the decay of a window whose promotions ended as s: channels only
\* go, each that went cools for the whole time, and nobody cools for less.
Decaying(s, st) ==
  /\ Sound(st) /\ st.channel \subseteq s.channel /\ st.made = s.made
  /\ \A p \in s.channel \ st.channel : Cools(st.evict, p, Cooldown)
  /\ \A q, t : Cools(s.evict, q, t) /\ t \in Nat /\ t <= Cooldown => Cools(st.evict, q, t)

LEMMA DecayStep ==
  ASSUME PairsFit, NEW s, NEW st, Decaying(s, st), NEW i \in Slots, NEW anomalies
  PROVE  Decaying(s, Decay(st, i, anomalies))
<1>1. /\ st \in Works /\ TableOnce(st.table) /\ EvictOnce(st.evict)
      /\ Tracked(st.table, st.channel) /\ PinnedBut(st.channel, st.pinned)
  BY DEF Decaying, Sound
<1>2. st.evict \in Seq(Evictions) /\ st.table \in PairTables /\ st.channel \in SUBSET Pairs
  BY <1>1, WorkFields
<1>3. \A p \in Pairs : record_eviction(st.evict, p) \in Seq(Evictions)
  BY <1>1, <1>2, EvictionRecorded
<1>4. PICK w \in Works :
        /\ w = Decay(st, i, anomalies) /\ w.made = st.made
        /\ \/ /\ \A j \in Slots : w.table[j].pair = st.table[j].pair
              /\ w.channel = st.channel /\ w.pinned = st.pinned /\ w.evict = st.evict
           \/ \E p \in Pairs :
                /\ st.table[i].pair = p
                /\ w.table = [st.table EXCEPT ![i] = None] /\ w.channel = st.channel \ {p}
                /\ w.pinned = st.pinned \ {p[1], p[2]}
                /\ w.evict = record_eviction(st.evict, p)
  BY <1>1, <1>3, DecayFields
<1>5. \A j \in Slots : w.table[j] \in Cells /\ st.table[j] \in Cells
  BY <1>1, WorkFields DEF PairTables
<1>6. CASE /\ \A j \in Slots : w.table[j].pair = st.table[j].pair
           /\ w.channel = st.channel /\ w.pinned = st.pinned /\ w.evict = st.evict
  <2>1. TableOnce(w.table)
    <3> SUFFICES ASSUME NEW a \in Slots, NEW b \in Slots, w.table[a] # None,
                        w.table[a].pair = w.table[b].pair
                 PROVE  a = b
      BY DEF TableOnce
    <3>1. st.table[a] # None /\ st.table[a].pair = st.table[b].pair
      BY <1>5, <1>6, CellFacts
    <3> QED
      BY <1>1, <3>1 DEF TableOnce
  <2>2. Tracked(w.table, w.channel)
    BY <1>1, <1>6 DEF Tracked
  <2>3. Sound(w)
    BY <1>1, <1>6, <2>1, <2>2 DEF Sound
  <2> QED
    BY <1>4, <1>6, <2>3 DEF Decaying
<1>7. ASSUME NEW p \in Pairs, st.table[i].pair = p,
             w.table = [st.table EXCEPT ![i] = None], w.channel = st.channel \ {p},
             w.pinned = st.pinned \ {p[1], p[2]}, w.evict = record_eviction(st.evict, p)
      PROVE  Decaying(s, w)
  <2>1. w.table[i] = None /\ \A j \in Slots : j # i => w.table[j] = st.table[j]
    BY <1>2, <1>7 DEF PairTables
  <2>2. TableOnce(w.table)
    <3> SUFFICES ASSUME NEW a \in Slots, NEW b \in Slots, w.table[a] # None,
                        w.table[a].pair = w.table[b].pair
                 PROVE  a = b
      BY DEF TableOnce
    <3>1. a # i /\ b # i
      BY <1>5, <2>1, CellFacts
    <3> QED
      BY <1>1, <2>1, <3>1 DEF TableOnce
  <2>3. Tracked(w.table, w.channel)
    <3> SUFFICES ASSUME NEW q \in w.channel PROVE \E j \in Slots : w.table[j].pair = q
      BY DEF Tracked
    <3>1. PICK j \in Slots : st.table[j].pair = q
      BY <1>1, <1>7 DEF Tracked
    <3>2. j # i
      BY <1>7, <3>1
    <3> QED
      BY <2>1, <3>1, <3>2
  <2>4. PinnedBut(w.channel, w.pinned)
    <3> SUFFICES ASSUME NEW q \in w.channel, NEW x \in {q[1], q[2]} \ w.pinned
                 PROVE  \E r \in Pairs \ w.channel : x \in {r[1], r[2]}
      BY DEF PinnedBut
    <3>1. CASE x \in {p[1], p[2]}
      BY <1>7, <3>1
    <3>2. CASE x \notin {p[1], p[2]}
      <4>1. q \in st.channel /\ x \in {q[1], q[2]} \ st.pinned
        BY <1>7, <3>2
      <4>2. PICK r \in Pairs \ st.channel : x \in {r[1], r[2]}
        BY <1>1, <4>1 DEF PinnedBut
      <4> QED
        BY <1>7, <4>2
    <3> QED
      BY <3>1, <3>2
  <2>5. /\ EvictOnce(w.evict) /\ Cools(w.evict, p, Cooldown)
        /\ \A q, t : Cools(st.evict, q, t) /\ t \in Nat /\ t <= Cooldown => Cools(w.evict, q, t)
    BY <1>1, <1>2, <1>7, EvictionRecorded
  <2>6. Sound(w)
    BY <2>2, <2>3, <2>4, <2>5 DEF Sound
  <2>7. \A q \in s.channel \ w.channel : Cools(w.evict, q, Cooldown)
    <3> SUFFICES ASSUME NEW q \in s.channel \ w.channel PROVE Cools(w.evict, q, Cooldown)
      OBVIOUS
    <3>1. CASE q = p
      BY <2>5, <3>1
    <3>2. CASE q # p
      <4>1. Cools(st.evict, q, Cooldown)
        BY <1>7, <3>2 DEF Decaying
      <4>2. Cooldown \in Nat /\ Cooldown <= Cooldown
        BY PolicyConstants
      <4> QED
        BY <2>5, <4>1, <4>2
    <3> QED
      BY <3>1, <3>2
  <2> QED
    BY <1>4, <1>7, <2>5, <2>6, <2>7 DEF Decaying
<1> QED
  BY <1>4, <1>6, <1>7

\* After k rounds over the evictions ev: the entries before `at` outlast the
\* window, no pair stands twice, and no entry that outlasts it is lost.
Rounds == [at: Nat, left: Seq(Evictions)]
Outlasting(ev, ticks, k, r) ==
  /\ r \in Rounds /\ r.at \in 1..(Len(r.left) + 1) /\ Len(r.left) - r.at + 1 = Len(ev) - k
  /\ \A i \in 1..(r.at - 1) : r.left[i][2] > ticks
  /\ EvictOnce(r.left)
  /\ \A i \in 1..Len(ev) : ev[i][2] > ticks => \E j \in 1..Len(r.left) : r.left[j] = ev[i]

LEMMA ExpireStep ==
  ASSUME NEW ev \in Seq(Evictions), NEW ticks \in Nat, NEW k \in 1..Len(ev), NEW r,
         Outlasting(ev, ticks, k - 1, r)
  PROVE  Outlasting(ev, ticks, k, ExpireOne(r, ticks))
<1>1. PICK a \in Nat, l \in Seq(Evictions) : a = r.at /\ l = r.left /\ r = [at |-> a, left |-> l]
  BY DEF Outlasting, Rounds
<1>2. PICK n \in Nat : n = Len(l)
  OBVIOUS
<1>3. /\ a \in 1..(n + 1) /\ n - a + 1 = Len(ev) - (k - 1)
      /\ \A i \in 1..(a - 1) : l[i][2] > ticks
      /\ EvictOnce(l)
      /\ \A i \in 1..Len(ev) : ev[i][2] > ticks => \E j \in 1..n : l[j] = ev[i]
  BY <1>1, <1>2 DEF Outlasting
<1>4. PICK c \in Nat : c = Len(ev) /\ k \in 1..c /\ n - a + 1 = c - (k - 1) /\ a \in 1..(n + 1)
  <2>1. PICK c \in Nat : c = Len(ev)
    OBVIOUS
  <2>2. a \in 1..(n + 1) /\ n - a + 1 = Len(ev) - (k - 1) /\ k \in 1..Len(ev)
    BY <1>3
  <2> QED
    BY <2>1, <2>2
<1>9. a \in 1..n /\ n - a = c - k
  BY <1>4
<1>5. \A i \in 1..n : l[i] \in Evictions /\ l[i][2] \in Nat
  BY <1>2, PolicyConstants DEF Evictions
<1>6. CASE l[a][2] > ticks
  <2>1. PICK b \in Nat : b = a + 1
    OBVIOUS
  <2>2. PICK w : w = [at |-> b, left |-> l]
    OBVIOUS
  <2>3. w = ExpireOne(r, ticks)
    BY <1>1, <1>6, <2>1, <2>2 DEF ExpireOne
  <2>4. w \in Rounds /\ w.at = b /\ w.left = l
    BY <2>2 DEF Rounds
  <2>5. b \in 1..(n + 1) /\ n - b + 1 = c - k /\ \A i \in 1..(b - 1) : i = a \/ i \in 1..(a - 1)
    BY <1>9, <2>1
  <2>6. Outlasting(ev, ticks, k, w)
    BY <1>2, <1>3, <1>4, <1>6, <2>4, <2>5 DEF Outlasting
  <2> QED
    BY <2>3, <2>6
<1>7. CASE ~(l[a][2] > ticks)
  <2>1. PICK z \in Evictions : z = l[n]
    BY <1>9, <1>5
  <2>2. PICK x \in Seq(Evictions) : x = [l EXCEPT ![a] = z] /\ Len(x) = n
                                   /\ \A i \in 1..n : x[i] = IF i = a THEN z ELSE l[i]
    <3> HIDE DEF Evictions
    <3>1. [l EXCEPT ![a] = z] \in Seq(Evictions) /\ Len([l EXCEPT ![a] = z]) = n
      BY <1>2, <1>9
    <3>2. \A i \in 1..n : [l EXCEPT ![a] = z][i] = IF i = a THEN z ELSE l[i]
      BY <1>2
    <3> QED
      BY <3>1, <3>2
  <2>3. PICK m \in Seq(Evictions) : m = SubSeq(x, 1, n - 1) /\ Len(m) = n - 1
                                   /\ \A i \in 1..(n - 1) : m[i] = x[i]
    <3> HIDE DEF Evictions
    <3>1. n - 1 \in Nat /\ n - 1 <= Len(x)
      BY <1>9, <2>2
    <3>2. /\ SubSeq(x, 1, n - 1) \in Seq(Evictions) /\ Len(SubSeq(x, 1, n - 1)) = n - 1
          /\ \A i \in 1..(n - 1) : SubSeq(x, 1, n - 1)[i] = x[i]
      BY <3>1
    <3> QED
      BY <3>2
  <2>4. PICK w : w = [at |-> a, left |-> m]
    OBVIOUS
  <2>5. w = ExpireOne(r, ticks)
    BY <1>1, <1>2, <1>7, <2>1, <2>2, <2>3, <2>4 DEF ExpireOne
  <2>6. w \in Rounds /\ w.at = a /\ w.left = m
    BY <2>4 DEF Rounds
  <2>7. a \in 1..((n - 1) + 1) /\ (n - 1) - a + 1 = c - k /\ 1..(a - 1) \subseteq 1..(n - 1)
    BY <1>9
  <2>8. \A i \in 1..(a - 1) : m[i] = l[i]
    BY <1>9, <2>2, <2>3, <2>7
  <2>9. EvictOnce(m)
    <3> SUFFICES ASSUME NEW i \in 1..(n - 1), NEW j \in 1..(n - 1), m[i][1] = m[j][1] PROVE i = j
      BY <2>3 DEF EvictOnce
    <3>1. \A h \in 1..(n - 1) : h \in 1..n /\ h # n /\ m[h] = IF h = a THEN l[n] ELSE l[h]
      BY <2>1, <2>2, <2>3
    <3>5. n \in 1..n
      BY <1>9
    <3>6. EvictOnce(l)
      BY <1>3
    <3>2. n \in 1..n /\ \A g, h \in 1..n : l[g][1] = l[h][1] => g = h
      BY <1>2, <3>5, <3>6 DEF EvictOnce
    <3>3. PICK g \in 1..n, h \in 1..n : /\ m[i] = l[g] /\ m[j] = l[h]
                                       /\ g = (IF i = a THEN n ELSE i) /\ h = (IF j = a THEN n ELSE j)
      BY <3>1, <3>2
    <3>4. g = h
      BY <3>2, <3>3
    <3> QED
      BY <3>1, <3>3, <3>4
  <2>10. ASSUME NEW i \in 1..Len(ev), ev[i][2] > ticks PROVE \E j \in 1..(n - 1) : m[j] = ev[i]
    <3>1. PICK j \in 1..n : l[j] = ev[i] /\ j # a
      BY <1>3, <1>7, <2>10
    <3>2. CASE j = n
      <4>1. a \in 1..(n - 1) /\ m[a] = l[n]
        BY <1>9, <2>1, <2>2, <2>3, <3>1, <3>2, SMTT(20)
      <4> QED
        BY <3>1, <3>2, <4>1
    <3>3. CASE j # n
      <4>1. j \in 1..(n - 1) /\ m[j] = l[j]
        BY <2>2, <2>3, <3>1, <3>3
      <4> QED
        BY <3>1, <4>1
    <3> QED
      BY <3>2, <3>3
  <2>11. Outlasting(ev, ticks, k, w)
    <3>1. w.at \in 1..(Len(w.left) + 1) /\ Len(w.left) - w.at + 1 = Len(ev) - k
      BY <1>4, <2>3, <2>6, <2>7
    <3>2. \A i \in 1..(w.at - 1) : w.left[i][2] > ticks
      BY <1>3, <2>6, <2>8
    <3>3. \A i \in 1..Len(ev) : ev[i][2] > ticks => \E j \in 1..Len(w.left) : w.left[j] = ev[i]
      BY <2>3, <2>6, <2>10
    <3> QED
      BY <2>6, <2>9, <3>1, <3>2, <3>3 DEF Outlasting
  <2> QED
    BY <2>5, <2>11
<1> QED
  BY <1>6, <1>7

LEMMA ExpireKeeps ==
  ASSUME NEW ev \in Seq(Evictions), NEW ticks \in Nat, NEW f, Outlasting(ev, ticks, 0, f[0]),
         \A k \in 1..Len(ev) : Outlasting(ev, ticks, k - 1, f[k - 1]) => f[k] = ExpireOne(f[k - 1], ticks)
  PROVE  \A k \in 0..Len(ev) : Outlasting(ev, ticks, k, f[k])
<1> DEFINE S == {k \in 0..Len(ev) : Outlasting(ev, ticks, k, f[k])}
<1>0. Len(ev) \in Nat
  OBVIOUS
<1>1. 0 \in S
  BY <1>0
<1>2. ASSUME NEW k \in 0..(Len(ev) - 1), k \in S PROVE k + 1 \in S
  <2>1. PICK m \in 1..Len(ev) : m = k + 1 /\ m - 1 = k /\ m \in 0..Len(ev)
    BY <1>0
  <2>2. Outlasting(ev, ticks, m - 1, f[m - 1])
    BY <1>2, <2>1
  <2>3. f[m] = ExpireOne(f[m - 1], ticks)
    BY <2>2
  <2>4. Outlasting(ev, ticks, m, f[m])
    BY <2>2, <2>3, ExpireStep
  <2> QED
    BY <2>1, <2>4
<1> HIDE DEF S
<1>3. 0..Len(ev) \subseteq S
  BY <1>0, <1>1, <1>2, UpTo
<1> QED
  BY <1>3 DEF S

\* Some function is what the rounds of expire_evictions make of ev.
LEMMA ExpireRuns ==
  ASSUME NEW ev \in Seq(Evictions), EvictOnce(ev), NEW ticks \in Nat
  PROVE  \E f : f = [k \in 0..Len(ev) |->
                       IF k = 0 THEN [at |-> 1, left |-> ev] ELSE ExpireOne(f[k - 1], ticks)]
<1> DEFINE Round(k, r) == IF Outlasting(ev, ticks, k - 1, r) THEN ExpireOne(r, ticks) ELSE r
           F == [k \in 1..Len(ev) |-> [r \in Rounds |-> Round(k, r)]]
           b == [at |-> 1, left |-> ev]
<1>1. Len(ev) \in Nat /\ b \in Rounds
  BY DEF Rounds
<1>2. \A k \in 1..Len(ev), r \in Rounds : Round(k, r) \in Rounds
  <2> SUFFICES ASSUME NEW k \in 1..Len(ev), NEW r \in Rounds PROVE Round(k, r) \in Rounds
    OBVIOUS
  <2>1. CASE Outlasting(ev, ticks, k - 1, r)
    <3>1. Outlasting(ev, ticks, k, ExpireOne(r, ticks))
      BY <2>1, ExpireStep
    <3> QED
      BY <2>1, <3>1 DEF Outlasting
  <2> QED
    BY <2>1
<1>3. LoopOver(Len(ev), Rounds, F)
  <2> HIDE DEF Round, Rounds
  <2> QED
    BY <1>2 DEF LoopOver
<1>4. PICK f : LoopRun(Len(ev), Rounds, F, b, f)
  <2> HIDE DEF F, b, Rounds
  <2>1. PICK n \in Nat : n = Len(ev)
    BY <1>1
  <2>2. PICK c \in Rounds : c = b
    BY <1>1
  <2>3. LoopOver(n, Rounds, F)
    BY <1>3, <2>1
  <2>4. \E f : LoopRun(n, Rounds, F, c, f)
    BY <2>3, LoopRuns
  <2> QED
    BY <2>1, <2>2, <2>4
<1>5. f \in [0..Len(ev) -> Rounds] /\ f[0] = b /\ \A k \in 1..Len(ev) : f[k] = F[k][f[k - 1]]
  <2> HIDE DEF F, b, Rounds
  <2> QED
    BY <1>4 DEF LoopRun
<1>6. ASSUME NEW k \in 1..Len(ev) PROVE f[k] = Round(k, f[k - 1])
  <2>1. k - 1 \in 0..Len(ev)
    BY <1>1
  <2>2. f[k - 1] \in Rounds
    BY <1>5, <2>1
  <2>3. F[k][f[k - 1]] = Round(k, f[k - 1])
    <3> HIDE DEF Round, Rounds
    <3> QED
      BY <2>2 DEF F
  <2> QED
    BY <1>5, <2>3
<1>7. Outlasting(ev, ticks, 0, b)
  <2>1. b.at = 1 /\ b.left = ev
    OBVIOUS
  <2> HIDE DEF b
  <2> QED
    BY <1>1, <2>1 DEF Outlasting
<1>8. \A k \in 0..Len(ev) : Outlasting(ev, ticks, k, f[k])
  <2> HIDE DEF b, F
  <2>1. Outlasting(ev, ticks, 0, f[0])
    BY <1>5, <1>7
  <2>2. \A k \in 1..Len(ev) : Outlasting(ev, ticks, k - 1, f[k - 1]) => f[k] = ExpireOne(f[k - 1], ticks)
    BY <1>6
  <2> QED
    BY <2>1, <2>2, ExpireKeeps
<1>9. \A k \in 1..Len(ev) : f[k] = ExpireOne(f[k - 1], ticks)
  <2> SUFFICES ASSUME NEW k \in 1..Len(ev) PROVE f[k] = ExpireOne(f[k - 1], ticks)
    OBVIOUS
  <2>1. k - 1 \in 0..Len(ev)
    BY <1>1
  <2> QED
    BY <1>6, <1>8, <2>1
<1> HIDE DEF F, Round
<1>10. \A k \in 0..Len(ev) : f[k] = IF k = 0 THEN b ELSE ExpireOne(f[k - 1], ticks)
  <2> SUFFICES ASSUME NEW k \in 0..Len(ev) PROVE f[k] = IF k = 0 THEN b ELSE ExpireOne(f[k - 1], ticks)
    OBVIOUS
  <2>1. k = 0 \/ k \in 1..Len(ev)
    BY <1>1
  <2> HIDE DEF b
  <2> QED
    BY <1>5, <1>9, <2>1
<1>11. f = [k \in 0..Len(ev) |-> f[k]]
  BY <1>5
<1>12. f = [k \in 0..Len(ev) |-> IF k = 0 THEN b ELSE ExpireOne(f[k - 1], ticks)]
  <2> HIDE DEF b
  <2> QED
    BY <1>10, <1>11
<1> QED
  BY <1>12

\* A window later: no pair stands twice, and who had more time left than the
\* window is long still cools for the rest.
LEMMA Expired ==
  ASSUME NEW ev \in Seq(Evictions), EvictOnce(ev), NEW ticks \in Nat
  PROVE  /\ expire_evictions(ev, ticks) \in Seq(Evictions)
         /\ EvictOnce(expire_evictions(ev, ticks))
         /\ \A p, t : Cools(ev, p, t) /\ t \in Nat /\ t > ticks
                        => Cools(expire_evictions(ev, ticks), p, t - ticks)
<1> DEFINE round[k \in 0..Len(ev)] ==
             IF k = 0 THEN [at |-> 1, left |-> ev] ELSE ExpireOne(round[k - 1], ticks)
           l == round[Len(ev)].left
           res == [i \in 1..Len(l) |-> <<l[i][1], l[i][2] - ticks>>]
<1>1. expire_evictions(ev, ticks) = res
  BY DEF expire_evictions
<1>2. round = [k \in 0..Len(ev) |-> IF k = 0 THEN [at |-> 1, left |-> ev]
                                     ELSE ExpireOne(round[k - 1], ticks)]
  <2>1. \E f : f = [k \in 0..Len(ev) |->
                      IF k = 0 THEN [at |-> 1, left |-> ev] ELSE ExpireOne(f[k - 1], ticks)]
    BY ExpireRuns
  <2> QED
    BY <2>1
<1> HIDE DEF round
<1>3. Len(ev) \in Nat /\ Cooldown \in Nat
  BY PolicyConstants
<1>4. PICK b : b = [at |-> 1, left |-> ev]
  OBVIOUS
<1>5. Outlasting(ev, ticks, 0, b)
  <2>1. b.at = 1 /\ b.left = ev /\ b \in Rounds
    BY <1>4 DEF Rounds
  <2> QED
    BY <1>3, <2>1 DEF Outlasting
<1>6. round[0] = b /\ \A k \in 1..Len(ev) : round[k] = ExpireOne(round[k - 1], ticks)
  BY <1>2, <1>3, <1>4
<1>7. \A k \in 0..Len(ev) : Outlasting(ev, ticks, k, round[k])
  <2>1. Outlasting(ev, ticks, 0, round[0])
    BY <1>5, <1>6
  <2> QED
    BY <1>6, <2>1, ExpireKeeps
<1>8. Outlasting(ev, ticks, Len(ev), round[Len(ev)])
  BY <1>3, <1>7
<1>9. PICK m \in Seq(Evictions), n \in Nat :
        /\ m = l /\ n = Len(m) /\ EvictOnce(m)
        /\ \A i \in 1..n : m[i][2] > ticks
        /\ \A i \in 1..Len(ev) : ev[i][2] > ticks => \E j \in 1..n : m[j] = ev[i]
  <2>1. PICK r : r = round[Len(ev)]
    OBVIOUS
  <2>2. Outlasting(ev, ticks, Len(ev), r)
    BY <1>8, <2>1
  <2>3. PICK m \in Seq(Evictions), n \in Nat : m = r.left /\ n = Len(m)
    BY <2>2 DEF Outlasting, Rounds
  <2>4. r.at \in 1..(n + 1) /\ n - r.at + 1 = Len(ev) - Len(ev)
    BY <2>2, <2>3 DEF Outlasting
  <2>5. r.at = n + 1
    BY <1>3, <2>4
  <2>6. \A i \in 1..n : i \in 1..(r.at - 1)
    BY <2>5
  <2>7. \A i \in 1..n : m[i][2] > ticks
    BY <2>2, <2>3, <2>6 DEF Outlasting
  <2>8. EvictOnce(m) /\ \A i \in 1..Len(ev) : ev[i][2] > ticks => \E j \in 1..n : m[j] = ev[i]
    BY <2>2, <2>3 DEF Outlasting
  <2> QED
    BY <2>1, <2>3, <2>7, <2>8
<1>10. \A i \in 1..n : m[i][1] \in Pairs /\ m[i][2] \in 0..Cooldown
  BY <1>9 DEF Evictions
<1>11. \A i \in 1..n : /\ <<m[i][1], m[i][2] - ticks>> \in Evictions
                       /\ <<m[i][1], m[i][2] - ticks>>[1] = m[i][1]
                       /\ <<m[i][1], m[i][2] - ticks>>[2] = m[i][2] - ticks
  <2> SUFFICES ASSUME NEW i \in 1..n
               PROVE  /\ <<m[i][1], m[i][2] - ticks>> \in Evictions
                      /\ <<m[i][1], m[i][2] - ticks>>[1] = m[i][1]
                      /\ <<m[i][1], m[i][2] - ticks>>[2] = m[i][2] - ticks
    OBVIOUS
  <2>1. PICK q \in Pairs, c \in 0..Cooldown : q = m[i][1] /\ c = m[i][2] - ticks
    <3>1. m[i][2] - ticks \in 0..Cooldown
      <4>1. PICK x \in 0..Cooldown : x = m[i][2] /\ x > ticks
        BY <1>9, <1>10
      <4>2. x - ticks \in 0..Cooldown
        BY <1>3, <4>1
      <4> QED
        BY <4>1, <4>2
    <3> QED
      BY <1>10, <3>1
  <2>2. <<q, c>> \in Evictions /\ <<q, c>>[1] = q /\ <<q, c>>[2] = c
    BY DEF Evictions
  <2> QED
    BY <2>1, <2>2
<1>12. PICK w : w = [i \in 1..n |-> <<m[i][1], m[i][2] - ticks>>]
  OBVIOUS
<1>13. w = expire_evictions(ev, ticks)
  BY <1>1, <1>9, <1>12
<1>14. \A i \in 1..n : w[i] \in Evictions /\ w[i][1] = m[i][1] /\ w[i][2] = m[i][2] - ticks
  BY <1>11, <1>12
<1>15. w \in Seq(Evictions) /\ Len(w) = n
  <2>1. w \in [1..n -> Evictions]
    BY <1>12, <1>14
  <2> HIDE DEF Evictions
  <2> QED
    BY <2>1
<1>16. EvictOnce(w)
  BY <1>9, <1>14, <1>15 DEF EvictOnce
<1>17. ASSUME NEW p, NEW t, Cools(ev, p, t), t \in Nat, t > ticks PROVE Cools(w, p, t - ticks)
  <2>1. PICK i \in 1..Len(ev) : ev[i][1] = p /\ ev[i][2] >= t
    BY <1>17 DEF Cools
  <2>2. ev[i][2] \in Nat
    BY <1>3 DEF Evictions
  <2>3. ev[i][2] > ticks
    BY <1>17, <2>1, <2>2
  <2>4. PICK j \in 1..n : m[j] = ev[i]
    BY <1>9, <2>3
  <2>5. w[j][1] = p /\ w[j][2] = ev[i][2] - ticks
    BY <1>14, <2>1, <2>4
  <2>6. w[j][2] >= t - ticks
    BY <1>17, <2>1, <2>2, <2>5
  <2> QED
    BY <1>15, <2>5, <2>6 DEF Cools
<1> QED
  BY <1>13, <1>15, <1>16, <1>17

\* The promotions of a window that starts as s, for a list of observed pairs.
LEMMA Promotions ==
  ASSUME NEW s \in Works, Promoting(s, s), NEW hot \in Seq(Pairs),
         \A k \in 1..Len(hot) : \E i \in Slots : s.table[i].pair = hot[k]
  PROVE  /\ \E f : f = [k \in 0..Len(hot) |-> IF k = 0 THEN s ELSE Promote(f[k - 1], hot[k])]
         /\ \A g : g = [k \in 0..Len(hot) |-> IF k = 0 THEN s ELSE Promote(g[k - 1], hot[k])]
                 => \A k \in 0..Len(hot) : Promoting(s, g[k])
<1> DEFINE D == {st \in Works : Promoting(s, st)}
           Round(k, st) == Promote(st, hot[k])
           F == [k \in 1..Len(hot) |-> [st \in D |-> Round(k, st)]]
<1>1. s \in D /\ Len(hot) \in Nat
  BY PolicyConstants DEF Promoting, Sound
<1>2. \A k \in 1..Len(hot), st \in D : Round(k, st) \in D
  <2> SUFFICES ASSUME NEW k \in 1..Len(hot), NEW st \in D PROVE Round(k, st) \in D
    OBVIOUS
  <2>1. Promoting(s, Round(k, st))
    BY PromoteStep
  <2> QED
    BY <2>1 DEF Promoting, Sound
<1>3. LoopOver(Len(hot), D, F)
  <2> HIDE DEF Round, D
  <2> QED
    BY <1>2 DEF LoopOver
<1>4. PICK f : LoopRun(Len(hot), D, F, s, f)
  <2> HIDE DEF F, D
  <2>1. PICK n \in Nat : n = Len(hot)
    BY <1>1
  <2>2. PICK c \in D : c = s
    BY <1>1
  <2>3. LoopOver(n, D, F)
    BY <1>3, <2>1
  <2>4. \E f : LoopRun(n, D, F, c, f)
    BY <2>3, LoopRuns
  <2> QED
    BY <2>1, <2>2, <2>4
<1>5. f \in [0..Len(hot) -> D] /\ f[0] = s /\ \A k \in 1..Len(hot) : f[k] = F[k][f[k - 1]]
  <2> HIDE DEF F, D
  <2> QED
    BY <1>4 DEF LoopRun
<1>6. ASSUME NEW k \in 0..Len(hot) PROVE f[k] = IF k = 0 THEN s ELSE Round(k, f[k - 1])
  <2>1. CASE k = 0
    BY <1>5, <2>1
  <2>2. CASE k # 0
    <3>1. k \in 1..Len(hot) /\ k - 1 \in 0..Len(hot)
      BY <1>1, <2>2
    <3>2. f[k - 1] \in D
      BY <1>5, <3>1
    <3>3. F[k][f[k - 1]] = Round(k, f[k - 1])
      <4> HIDE DEF Round, D
      <4> QED
        BY <3>1, <3>2 DEF F
    <3> HIDE DEF F, Round
    <3> QED
      BY <1>5, <2>2, <3>1, <3>3
  <2> QED
    BY <2>1, <2>2
<1>7. f = [k \in 0..Len(hot) |-> IF k = 0 THEN s ELSE Round(k, f[k - 1])]
  <2> HIDE DEF Round, F, D
  <2>1. f = [k \in 0..Len(hot) |-> f[k]]
    BY <1>5
  <2> QED
    BY <1>6, <2>1
<1>8. ASSUME NEW g, g = [k \in 0..Len(hot) |-> IF k = 0 THEN s ELSE Round(k, g[k - 1])]
      PROVE  \A k \in 0..Len(hot) : g[k] \in D
  <2>1. g[0] \in D
    BY <1>1, <1>8
  <2>2. ASSUME NEW k \in 1..Len(hot), g[k - 1] \in D PROVE g[k] = F[k][g[k - 1]]
    <3>1. k \in 0..Len(hot) /\ k # 0
      BY <1>1
    <3> HIDE DEF Round, D
    <3>2. g[k] = Round(k, g[k - 1])
      BY <1>8, <3>1
    <3> QED
      BY <2>2, <3>2 DEF F
  <2> HIDE DEF D, F, Round
  <2>3. PICK n \in Nat : n = Len(hot)
    BY <1>1
  <2>4. LoopOver(n, D, F) /\ \A k \in 1..n : g[k - 1] \in D => g[k] = F[k][g[k - 1]]
    BY <1>3, <2>2, <2>3
  <2>5. \A k \in 0..n : g[k] \in D
    BY <2>1, <2>4, LoopKeeps
  <2> QED
    BY <2>3, <2>5
<1> QED
  BY <1>7, <1>8

\* The decay of a window whose promotions ended as s.
LEMMA Decays ==
  ASSUME PairsFit, NEW s \in Works, Decaying(s, s), NEW anomalies
  PROVE  /\ \E f : f = [k \in 0..MAX_IPC_PAIRS |-> IF k = 0 THEN s ELSE Decay(f[k - 1], k, anomalies)]
         /\ \A g : g = [k \in 0..MAX_IPC_PAIRS |-> IF k = 0 THEN s ELSE Decay(g[k - 1], k, anomalies)]
                 => \A k \in 0..MAX_IPC_PAIRS : Decaying(s, g[k])
<1> DEFINE D == {st \in Works : Decaying(s, st)}
           Round(k, st) == Decay(st, k, anomalies)
           F == [k \in 1..MAX_IPC_PAIRS |-> [st \in D |-> Round(k, st)]]
<1>1. s \in D /\ MAX_IPC_PAIRS \in Nat
  BY PolicyConstants DEF Decaying, Sound
<1>2. \A k \in 1..MAX_IPC_PAIRS, st \in D : Round(k, st) \in D
  <2> SUFFICES ASSUME NEW k \in 1..MAX_IPC_PAIRS, NEW st \in D PROVE Round(k, st) \in D
    OBVIOUS
  <2>1. Decaying(s, Round(k, st))
    BY DecayStep DEF Slots
  <2> QED
    BY <2>1 DEF Decaying, Sound
<1>3. LoopOver(MAX_IPC_PAIRS, D, F)
  <2> HIDE DEF Round, D
  <2> QED
    BY <1>2 DEF LoopOver
<1>4. PICK f : LoopRun(MAX_IPC_PAIRS, D, F, s, f)
  <2> HIDE DEF F, D
  <2>1. PICK n \in Nat : n = MAX_IPC_PAIRS
    BY <1>1
  <2>2. PICK c \in D : c = s
    BY <1>1
  <2>3. LoopOver(n, D, F)
    BY <1>3, <2>1
  <2>4. \E f : LoopRun(n, D, F, c, f)
    BY <2>3, LoopRuns
  <2> QED
    BY <2>1, <2>2, <2>4
<1>5. f \in [0..MAX_IPC_PAIRS -> D] /\ f[0] = s /\ \A k \in 1..MAX_IPC_PAIRS : f[k] = F[k][f[k - 1]]
  <2> HIDE DEF F, D
  <2> QED
    BY <1>4 DEF LoopRun
<1>6. ASSUME NEW k \in 0..MAX_IPC_PAIRS PROVE f[k] = IF k = 0 THEN s ELSE Round(k, f[k - 1])
  <2>1. CASE k = 0
    BY <1>5, <2>1
  <2>2. CASE k # 0
    <3>1. k \in 1..MAX_IPC_PAIRS /\ k - 1 \in 0..MAX_IPC_PAIRS
      BY <1>1, <2>2
    <3>2. f[k - 1] \in D
      BY <1>5, <3>1
    <3>3. F[k][f[k - 1]] = Round(k, f[k - 1])
      <4> HIDE DEF Round, D
      <4> QED
        BY <3>1, <3>2 DEF F
    <3> HIDE DEF F, Round
    <3> QED
      BY <1>5, <2>2, <3>1, <3>3
  <2> QED
    BY <2>1, <2>2
<1>7. f = [k \in 0..MAX_IPC_PAIRS |-> IF k = 0 THEN s ELSE Round(k, f[k - 1])]
  <2> HIDE DEF Round, F, D
  <2>1. f = [k \in 0..MAX_IPC_PAIRS |-> f[k]]
    BY <1>5
  <2> QED
    BY <1>6, <2>1
<1>8. ASSUME NEW g, g = [k \in 0..MAX_IPC_PAIRS |-> IF k = 0 THEN s ELSE Round(k, g[k - 1])]
      PROVE  \A k \in 0..MAX_IPC_PAIRS : g[k] \in D
  <2>1. g[0] \in D
    BY <1>1, <1>8
  <2>2. ASSUME NEW k \in 1..MAX_IPC_PAIRS, g[k - 1] \in D PROVE g[k] = F[k][g[k - 1]]
    <3>1. k \in 0..MAX_IPC_PAIRS /\ k # 0
      BY <1>1
    <3> HIDE DEF Round, D
    <3>2. g[k] = Round(k, g[k - 1])
      BY <1>8, <3>1
    <3> QED
      BY <2>2, <3>2 DEF F
  <2> HIDE DEF D, F, Round
  <2>3. PICK n \in Nat : n = MAX_IPC_PAIRS
    BY <1>1
  <2>4. LoopOver(n, D, F) /\ \A k \in 1..n : g[k - 1] \in D => g[k] = F[k][g[k - 1]]
    BY <1>3, <2>2, <2>3
  <2>5. \A k \in 0..n : g[k] \in D
    BY <2>1, <2>4, LoopKeeps
  <2> QED
    BY <2>3, <2>5
<1> QED
  BY <1>7, <1>8

\* What holds of the engine between two steps: the records are well formed,
\* the channels accounted for, and a pair that lost its channel stands in the
\* table of evictions for as long as it has to rest.
Resting ==
  /\ rested \in [Pairs -> 0..Cooldown]
  /\ \A p \in Pairs : rested[p] < Cooldown => Cools(evict, p, Cooldown - rested[p])

EngineInv ==
  /\ sent \in [Pairs -> Nat]
  /\ table \in PairTables /\ channel \in SUBSET Pairs /\ evict \in Seq(Evictions)
  /\ pinned \in SUBSET Pids /\ preferred \in SUBSET Pids
  /\ TableOnce(table) /\ EvictOnce(evict) /\ Tracked(table, channel) /\ PinnedBut(channel, pinned)
  /\ Resting

LEMMA EngineStarts ==
  ASSUME PolicyInit
  PROVE  EngineInv
<1>1. \A i \in Slots : table[i] = None
  BY DEF PolicyInit
<1>2. table \in PairTables /\ TableOnce(table)
  <2>1. None \in Cells
    BY DEF Cells
  <2>2. table \in [Slots -> Cells]
    BY <2>1 DEF PolicyInit
  <2> QED
    BY <1>1, <2>2 DEF PairTables, TableOnce
<1>3. evict = <<>> /\ evict \in Seq(Evictions) /\ EvictOnce(evict)
  BY DEF PolicyInit, EvictOnce
<1>4. Resting
  BY PolicyConstants DEF PolicyInit, Resting
<1> QED
  BY <1>2, <1>3, <1>4 DEF PolicyInit, EngineInv, Tracked, PinnedBut

\* observe_ipc writes the pair's own slot, or a free one, which there is.
LEMMA SlotFound ==
  ASSUME PairsFit, EngineInv, NEW p \in Pairs
  PROVE  /\ ObserveSlot(p) \in Slots
         /\ \/ table[ObserveSlot(p)].pair = p
            \/ table[ObserveSlot(p)] = None /\ \A i \in Slots : table[i].pair # p
<1> DEFINE idle == {i \in Slots : ~Active(i)}
<1>1. Slots \in SUBSET Nat /\ MAX_IPC_PAIRS \in Nat
  BY PolicyConstants DEF Slots
<1>2. \A i \in Slots : table[i] \in Cells
  BY DEF EngineInv, PairTables
<1>3. CASE SlotOf(p) # {}
  <2>1. ObserveSlot(p) = Lowest(SlotOf(p))
    BY <1>3 DEF ObserveSlot
  <2>2. SlotOf(p) \in SUBSET Nat
    BY <1>1 DEF SlotOf
  <2>3. Lowest(SlotOf(p)) \in SlotOf(p)
    BY <1>3, <2>2, LowestIn
  <2> QED
    BY <2>1, <2>3 DEF SlotOf
<1>4. CASE SlotOf(p) = {}
  <2>1. \A i \in Slots : table[i].pair # p
    BY <1>4 DEF SlotOf
  <2>2. idle # {}
    <3> SUFFICES ASSUME idle = {} PROVE FALSE
      OBVIOUS
    <3>1. PICK n \in Nat : n = MAX_IPC_PAIRS /\ Slots = 1..n
      BY <1>1 DEF Slots
    <3>2. \A i \in 1..n : table[i] # None /\ table[i].pair \in Pairs
      BY <1>2, <3>1, CellFacts DEF Active
    <3>3. PICK f \in [1..n -> Pairs] : \A i \in 1..n : f[i] = table[i].pair
      <4>1. [i \in 1..n |-> table[i].pair] \in [1..n -> Pairs]
        BY <3>2
      <4> QED
        BY <4>1
    <3>4. \A i, j \in 1..n : f[i] = f[j] => i = j
      BY <3>1, <3>2, <3>3 DEF EngineInv, TableOnce
    <3>5. \A i \in 1..n : f[i] # p
      BY <2>1, <3>1, <3>3
    <3>6. n < Cardinality(Pairs)
      BY <3>4, <3>5, RoomForOne
    <3>7. Cardinality(Pairs) \in Nat /\ Cardinality(Pairs) <= n
      BY <3>1, PolicyConstants, FS_CardinalityType DEF PairsFit
    <3> QED
      BY <3>6, <3>7
  <2>3. ObserveSlot(p) = Lowest(idle)
    BY <1>4, <2>2 DEF ObserveSlot
  <2>4. Lowest(idle) \in idle
    <3>1. idle \in SUBSET Nat
      BY <1>1
    <3> HIDE DEF idle
    <3> QED
      BY <2>2, <3>1, LowestIn
  <2> QED
    BY <2>1, <2>3, <2>4 DEF Active
<1> QED
  BY <1>3, <1>4

LEMMA SendKeepsAccount ==
  ASSUME PairsFit, EngineInv, NEW p \in Pairs, send_message(p)
  PROVE  EngineInv'
<1>1. PICK i \in Slots : /\ i = ObserveSlot(p)
                        /\ \/ table[i].pair = p
                           \/ table[i] = None /\ \A j \in Slots : table[j].pair # p
  BY SlotFound
<1>2. PICK n \in Nat : n = sent[p] + 1
  BY DEF EngineInv
<1>3. PICK c : c = IF table[i].pair = p THEN [table[i] EXCEPT !.count = n] ELSE NewEntry(p, n)
  OBVIOUS
<1>4. table \in PairTables /\ table[i] \in Cells
  BY DEF EngineInv, PairTables
<1>5. c \in Cells /\ c.pair = p /\ c # None
  <2>1. c \in [pair: Pairs, count: Nat, last_count: Nat, cold: Nat] /\ c.pair = p
    <3>1. CASE table[i].pair = p
      <4>1. table[i] # None
        BY <1>4, <3>1, CellFacts
      <4>2. PICK x \in [pair: Pairs, count: Nat, last_count: Nat, cold: Nat] : x = table[i]
        BY <1>4, <4>1 DEF Cells
      <4>3. c = [x EXCEPT !.count = n]
        BY <1>3, <3>1, <4>2
      <4>4. c \in [pair: Pairs, count: Nat, last_count: Nat, cold: Nat] /\ c.pair = x.pair
        BY <4>3
      <4> QED
        BY <3>1, <4>2, <4>4
    <3>2. CASE table[i].pair # p
      <4>1. c = [pair |-> p, count |-> n, last_count |-> 0, cold |-> 0]
        BY <1>3, <3>2 DEF NewEntry
      <4> QED
        BY <4>1
    <3> QED
      BY <3>1, <3>2
  <2>2. c \in Cells
    BY <2>1 DEF Cells
  <2> QED
    BY <2>1, <2>2, CellFacts
<1>6. table' = [table EXCEPT ![i] = c]
  BY <1>1, <1>2, <1>3 DEF send_message, observe_ipc
<1>7. table' \in PairTables /\ table'[i] = c /\ \A j \in Slots : j # i => table'[j] = table[j]
  <2>1. PICK t \in PairTables : t = table
    BY <1>4
  <2>2. /\ [t EXCEPT ![i] = c] \in PairTables /\ [t EXCEPT ![i] = c][i] = c
        /\ \A j \in Slots : j # i => [t EXCEPT ![i] = c][j] = t[j]
    BY <1>5, TablePut
  <2>3. table' = [t EXCEPT ![i] = c]
    BY <1>6, <2>1
  <2>4. table' \in PairTables /\ table'[i] = c /\ \A j \in Slots : j # i => table'[j] = t[j]
    BY <2>2, <2>3
  <2> QED
    BY <2>1, <2>4
<1>8. \A j \in Slots : table[j] \in Cells /\ table'[j] \in Cells
  BY <1>4, <1>7 DEF PairTables
<1>9. TableOnce(table')
  <2> SUFFICES ASSUME NEW a \in Slots, NEW b \in Slots, table'[a] # None,
                      table'[a].pair = table'[b].pair, a # b
               PROVE  FALSE
    BY DEF TableOnce
  <2>1. TableOnce(table)
    BY DEF EngineInv
  <2>2. CASE a # i /\ b # i
    BY <1>7, <2>1, <2>2 DEF TableOnce
  <2>3. CASE a = i
    <3>1. table[b].pair = p /\ table[b] # None
      BY <1>5, <1>7, <1>8, <2>3, CellFacts
    <3> QED
      BY <1>1, <2>1, <2>3, <3>1 DEF TableOnce
  <2>4. CASE b = i
    <3>1. table[a].pair = p /\ table[a] # None
      BY <1>5, <1>7, <1>8, <2>4, CellFacts
    <3> QED
      BY <1>1, <2>1, <2>4, <3>1 DEF TableOnce
  <2> QED
    BY <2>2, <2>3, <2>4
<1>10. Tracked(table', channel)
  <2> SUFFICES ASSUME NEW q \in channel PROVE \E j \in Slots : table'[j].pair = q
    BY DEF Tracked
  <2>1. PICK j \in Slots : table[j].pair = q /\ q \in Pairs
    BY DEF EngineInv, Tracked
  <2>2. CASE j # i
    BY <1>7, <2>1, <2>2
  <2>3. CASE j = i
    <3>1. table[i] # None
      BY <1>8, <2>1, <2>3, CellFacts
    <3> QED
      BY <1>1, <1>5, <1>7, <2>1, <2>3, <3>1
  <2> QED
    BY <2>2, <2>3
<1>11. sent' \in [Pairs -> Nat]
  <2>1. sent \in [Pairs -> Nat] /\ sent' = [sent EXCEPT ![p] = n]
    BY <1>2 DEF EngineInv, send_message
  <2> QED
    BY <2>1
<1>12. /\ channel' = channel /\ evict' = evict /\ pinned' = pinned /\ preferred' = preferred
       /\ rested' = rested
  BY DEF send_message
<1> QED
  BY <1>7, <1>9, <1>10, <1>11, <1>12 DEF EngineInv, Resting

LEMMA TheLesser ==
  ASSUME NEW a \in Nat, NEW b \in Nat
  PROVE  Min({a, b}) = IF a <= b THEN a ELSE b
BY DEF Min

\* What a report makes of the state: all the invariant needs, few new
\* channels, and none of a pair that has not rested.
LEMMA WindowKeepsAccount ==
  ASSUME PairsFit, EngineInv, NEW ticks \in Intervals, NEW hot \in HotChoices,
         NEW anomalies \in AnomalyChoices, adapt_and_report(ticks, hot, anomalies)
  PROVE  /\ EngineInv'
         /\ Cardinality(channel' \ channel) <= MAX_CHANNELS_PER_WINDOW
         /\ \A p \in channel' \ channel : rested'[p] >= Cooldown
<1> DEFINE start == [table |-> table, channel |-> channel, made |-> 0, pinned |-> pinned,
                     preferred |-> preferred, evict |-> expire_evictions(evict, ticks)]
           promotion[k \in 0..Len(hot)] ==
             IF k = 0 THEN start ELSE Promote(promotion[k - 1], hot[k])
           promoted == promotion[Len(hot)]
           decay[k \in 0..MAX_IPC_PAIRS] ==
             IF k = 0 THEN promoted ELSE Decay(decay[k - 1], k, anomalies)
           end == decay[MAX_IPC_PAIRS]
<1>1. /\ table' = end.table /\ channel' = end.channel
      /\ evict' = end.evict /\ pinned' = end.pinned /\ preferred' = end.preferred
      /\ rested' = [p \in Pairs |->
                      IF p \in promoted.channel /\ p \notin end.channel THEN 0
                      ELSE Min({rested[p] + ticks, Cooldown})]
      /\ sent' = sent
  BY DEF adapt_and_report
<1>2. ticks \in Nat /\ Cooldown \in Nat /\ MAX_IPC_PAIRS \in Nat /\ MAX_CHANNELS_PER_WINDOW \in Nat
  BY PolicyConstants
<1>3. PICK ex \in Seq(Evictions) :
        /\ ex = expire_evictions(evict, ticks) /\ EvictOnce(ex)
        /\ \A p, t : Cools(evict, p, t) /\ t \in Nat /\ t > ticks => Cools(ex, p, t - ticks)
  <2>1. evict \in Seq(Evictions) /\ EvictOnce(evict)
    BY DEF EngineInv
  <2>2. PICK ev \in Seq(Evictions) : ev = evict
    BY <2>1
  <2>3. /\ expire_evictions(ev, ticks) \in Seq(Evictions)
        /\ EvictOnce(expire_evictions(ev, ticks))
        /\ \A p, t : Cools(ev, p, t) /\ t \in Nat /\ t > ticks
                       => Cools(expire_evictions(ev, ticks), p, t - ticks)
    BY <1>2, <2>1, <2>2, Expired
  <2> QED
    BY <2>2, <2>3
<1>4. PICK s \in Works :
        /\ s = start /\ s.table = table /\ s.channel = channel /\ s.made = 0
        /\ s.pinned = pinned /\ s.preferred = preferred /\ s.evict = ex
  <2>1. PICK s : s = [table |-> table, channel |-> channel, made |-> 0, pinned |-> pinned,
                      preferred |-> preferred, evict |-> ex]
    OBVIOUS
  <2>2. s \in Works
    BY <2>1 DEF EngineInv, Works
  <2>3. /\ s.table = table /\ s.channel = channel /\ s.made = 0
        /\ s.pinned = pinned /\ s.preferred = preferred /\ s.evict = ex
    BY <2>1
  <2>4. s = start
    BY <1>3, <2>1
  <2> HIDE DEF start
  <2> QED
    BY <2>2, <2>3, <2>4
<1>5. Promoting(s, s)
  <2>1. Sound(s)
    BY <1>3, <1>4 DEF EngineInv, Sound
  <2>2. s.channel \ s.channel = {}
    OBVIOUS
  <2>3. IsFiniteSet({}) /\ Cardinality({}) = 0
    BY FS_EmptySet
  <2>4. /\ IsFiniteSet(s.channel \ s.channel) /\ Cardinality(s.channel \ s.channel) <= s.made
        /\ s.made <= MAX_CHANNELS_PER_WINDOW
    <3>1. IsFiniteSet(s.channel \ s.channel) /\ Cardinality(s.channel \ s.channel) = 0
      BY <2>2, <2>3, Zenon
    <3> QED
      BY <1>2, <1>4, <3>1
  <2> QED
    BY <2>1, <2>4 DEF Promoting
<1>6. hot \in Seq(Pairs) /\ \A k \in 1..Len(hot) : \E i \in Slots : s.table[i].pair = hot[k]
  <2> DEFINE observed == {table[i].pair : i \in {j \in Slots : Active(j)}}
  <2>1. PICK n \in 0..TopPairs : hot \in [1..n -> observed]
    BY DEF HotChoices
  <2>2. observed \subseteq Pairs
    BY CellFacts DEF EngineInv, PairTables, Active
  <2>3. \A q \in observed : \E i \in Slots : s.table[i].pair = q
    BY <1>4
  <2> HIDE DEF observed
  <2>4. n \in Nat
    BY PolicyConstants
  <2>5. hot \in Seq(Pairs) /\ Len(hot) = n
    BY <2>1, <2>2, <2>4
  <2> QED
    BY <2>1, <2>3, <2>5
<1>7. Len(hot) \in Nat
  BY <1>6
<1>8. /\ promotion = [k \in 0..Len(hot) |-> IF k = 0 THEN s ELSE Promote(promotion[k - 1], hot[k])]
      /\ \A k \in 0..Len(hot) : Promoting(s, promotion[k])
  <2> HIDE DEF start
  <2>1. /\ \E f : f = [k \in 0..Len(hot) |-> IF k = 0 THEN s ELSE Promote(f[k - 1], hot[k])]
        /\ \A g : g = [k \in 0..Len(hot) |-> IF k = 0 THEN s ELSE Promote(g[k - 1], hot[k])]
                => \A k \in 0..Len(hot) : Promoting(s, g[k])
    BY <1>5, <1>6, Promotions
  <2>2. promotion = [k \in 0..Len(hot) |-> IF k = 0 THEN s ELSE Promote(promotion[k - 1], hot[k])]
    BY <1>4, <2>1, SMTT(20)
  <2> HIDE DEF promotion
  <2> QED
    BY <2>1, <2>2
<1> HIDE DEF promotion, start
<1>9. PICK pr \in Works : pr = promoted /\ Promoting(s, pr)
  <2>1. Promoting(s, promotion[Len(hot)])
    BY <1>7, <1>8
  <2> QED
    BY <2>1 DEF Promoting, Sound
<1>10. Decaying(pr, pr)
  BY <1>9 DEF Decaying, Promoting
<1> HIDE DEF promoted
<1>11. \A k \in 0..MAX_IPC_PAIRS : Decaying(pr, decay[k])
  <2>1. /\ \E f : f = [k \in 0..MAX_IPC_PAIRS |-> IF k = 0 THEN pr ELSE Decay(f[k - 1], k, anomalies)]
        /\ \A g : g = [k \in 0..MAX_IPC_PAIRS |-> IF k = 0 THEN pr ELSE Decay(g[k - 1], k, anomalies)]
                => \A k \in 0..MAX_IPC_PAIRS : Decaying(pr, g[k])
    BY <1>10, Decays
  <2>2. decay = [k \in 0..MAX_IPC_PAIRS |-> IF k = 0 THEN pr ELSE Decay(decay[k - 1], k, anomalies)]
    BY <1>9, <2>1
  <2> HIDE DEF decay
  <2> QED
    BY <2>1, <2>2
<1> HIDE DEF decay
<1>12. PICK w \in Works : w = end /\ Decaying(pr, w)
  <2>1. Decaying(pr, decay[MAX_IPC_PAIRS])
    BY <1>2, <1>11
  <2> QED
    BY <2>1 DEF Decaying, Sound
<1> HIDE DEF end
<1>13. /\ table' = w.table /\ channel' = w.channel
       /\ evict' = w.evict /\ pinned' = w.pinned /\ preferred' = w.preferred
       /\ rested' = [p \in Pairs |->
                       IF p \in pr.channel /\ p \notin w.channel THEN 0
                       ELSE Min({rested[p] + ticks, Cooldown})]
  BY <1>1, <1>9, <1>12
<1>14. ASSUME NEW p \in Pairs
       PROVE  /\ rested[p] \in 0..Cooldown
              /\ rested'[p] = IF p \in pr.channel /\ p \notin w.channel THEN 0
                              ELSE IF rested[p] + ticks <= Cooldown THEN rested[p] + ticks ELSE Cooldown
              /\ rested'[p] \in 0..Cooldown
  <2>1. rested[p] \in 0..Cooldown
    BY DEF EngineInv, Resting
  <2>2. PICK a \in Nat : a = rested[p] + ticks
    BY <1>2, <2>1
  <2>3. Min({a, Cooldown}) = IF a <= Cooldown THEN a ELSE Cooldown
    BY <1>2, TheLesser
  <2>4. rested'[p] = IF p \in pr.channel /\ p \notin w.channel THEN 0 ELSE Min({a, Cooldown})
    BY <1>13, <2>2
  <2>5. rested'[p] = IF p \in pr.channel /\ p \notin w.channel THEN 0
                     ELSE IF a <= Cooldown THEN a ELSE Cooldown
    BY <2>3, <2>4
  <2> QED
    BY <1>2, <2>1, <2>2, <2>5
<1>15. \A p \in Pairs : rested[p] < Cooldown => Cools(evict, p, Cooldown - rested[p])
  BY DEF EngineInv, Resting
<1>16. ASSUME NEW p \in Pairs, rested[p] + ticks < Cooldown
       PROVE  Cools(ex, p, Cooldown - (rested[p] + ticks))
  <2>1. PICK t \in Nat : t = Cooldown - rested[p] /\ t > ticks
                        /\ t - ticks = Cooldown - (rested[p] + ticks)
    BY <1>2, <1>14, <1>16
  <2>2. Cools(evict, p, t)
    BY <1>2, <1>14, <1>15, <1>16, <2>1
  <2>3. Cools(ex, p, t - ticks)
    BY <1>3, <2>1, <2>2
  <2> QED
    BY <2>1, <2>3
<1>17. Resting'
  <2>1. rested' \in [Pairs -> 0..Cooldown]
    <3>1. rested' = [p \in Pairs |-> rested'[p]]
      BY <1>13
    <3> QED
      BY <1>14, <3>1
  <2>2. ASSUME NEW p \in Pairs, rested'[p] < Cooldown
        PROVE  Cools(w.evict, p, Cooldown - rested'[p])
    <3>1. CASE p \in pr.channel /\ p \notin w.channel
      <4>1. Cools(w.evict, p, Cooldown)
        BY <1>12, <3>1 DEF Decaying
      <4>2. Cooldown - rested'[p] = Cooldown
        BY <1>2, <1>14, <3>1
      <4> QED
        BY <4>1, <4>2
    <3>2. CASE ~(p \in pr.channel /\ p \notin w.channel)
      <4>1. rested'[p] = rested[p] + ticks /\ rested[p] + ticks < Cooldown
        BY <1>2, <1>14, <2>2, <3>2
      <4>2. PICK t \in Nat : t = Cooldown - (rested[p] + ticks) /\ t <= Cooldown
        BY <1>2, <1>14, <4>1
      <4>3. Cools(pr.evict, p, t)
        BY <1>4, <1>9, <1>16, <4>1, <4>2 DEF Promoting
      <4>4. Cools(w.evict, p, t)
        BY <1>12, <4>2, <4>3 DEF Decaying
      <4> QED
        BY <4>1, <4>2, <4>4
    <3> QED
      BY <3>1, <3>2
  <2> QED
    BY <1>13, <2>1, <2>2 DEF Resting
<1>18. EngineInv'
  <2>1. /\ w.table \in PairTables /\ w.channel \in SUBSET Pairs /\ w.evict \in Seq(Evictions)
        /\ w.pinned \in SUBSET Pids /\ w.preferred \in SUBSET Pids
    BY WorkFields
  <2>2. /\ TableOnce(w.table) /\ EvictOnce(w.evict) /\ Tracked(w.table, w.channel)
        /\ PinnedBut(w.channel, w.pinned)
    BY <1>12 DEF Decaying, Sound
  <2>3. sent' \in [Pairs -> Nat]
    BY <1>1 DEF EngineInv
  <2> QED
    BY <1>13, <1>17, <2>1, <2>2, <2>3 DEF EngineInv
<1>19. channel' \ channel \subseteq pr.channel \ s.channel
  BY <1>4, <1>12, <1>13 DEF Decaying
<1>20. Cardinality(channel' \ channel) <= MAX_CHANNELS_PER_WINDOW
  <2>1. PICK A, B : A = channel' \ channel /\ B = pr.channel \ s.channel
    OBVIOUS
  <2>2. IsFiniteSet(B) /\ Cardinality(B) <= pr.made /\ pr.made <= MAX_CHANNELS_PER_WINDOW
    BY <1>9, <2>1 DEF Promoting
  <2>3. A \in SUBSET B
    BY <1>19, <2>1
  <2>4. IsFiniteSet(A) /\ Cardinality(A) <= Cardinality(B)
    BY <2>2, <2>3, FS_Subset
  <2>5. Cardinality(A) \in Nat /\ Cardinality(B) \in Nat /\ pr.made \in Nat
    BY <2>2, <2>4, FS_CardinalityType, WorkFields
  <2> QED
    BY <1>2, <2>1, <2>2, <2>4, <2>5
<1>21. ASSUME NEW p \in channel' \ channel PROVE rested'[p] >= Cooldown
  <2>1. p \in pr.channel \ s.channel /\ p \in w.channel /\ p \in Pairs
    BY <1>13, <1>19, WorkFields
  <2>2. ~in_evict_cooldown(s, p)
    BY <1>9, <2>1 DEF Promoting
  <2>3. ~(rested[p] + ticks < Cooldown)
    <3> SUFFICES ASSUME rested[p] + ticks < Cooldown PROVE FALSE
      OBVIOUS
    <3>1. Cools(ex, p, Cooldown - (rested[p] + ticks))
      BY <1>16, <2>1
    <3> QED
      BY <1>4, <2>2, <3>1 DEF Cools, in_evict_cooldown
  <2>4. rested'[p] = Cooldown
    BY <1>2, <1>14, <2>1, <2>3
  <2> QED
    BY <1>2, <2>4
<1> QED
  BY <1>18, <1>20, <1>21

LEMMA EngineSteps ==
  ASSUME PairsFit, EngineInv, [PolicyNext]_policyVars
  PROVE  /\ EngineInv'
         /\ policyVars' # policyVars =>
              /\ Cardinality(channel' \ channel) <= MAX_CHANNELS_PER_WINDOW
              /\ \A p \in channel' \ channel : rested'[p] >= Cooldown
<1>1. ASSUME NEW p \in Pairs, send_message(p)
      PROVE  /\ EngineInv'
             /\ Cardinality(channel' \ channel) <= MAX_CHANNELS_PER_WINDOW
             /\ \A q \in channel' \ channel : rested'[q] >= Cooldown
  <2>1. channel' \ channel = {}
    BY <1>1 DEF send_message
  <2>2. Cardinality(channel' \ channel) <= MAX_CHANNELS_PER_WINDOW
    <3>1. Cardinality({}) = 0
      BY FS_EmptySet
    <3>2. Cardinality(channel' \ channel) = 0
      BY <2>1, <3>1, Zenon
    <3> QED
      BY <3>2, PolicyConstants
  <2> QED
    BY <1>1, <2>1, <2>2, SendKeepsAccount
<1>2. CASE Window
  BY <1>2, WindowKeepsAccount DEF Window
<1>3. CASE UNCHANGED policyVars
  BY <1>3 DEF policyVars, EngineInv, Resting
<1> QED
  BY <1>1, <1>2, <1>3 DEF PolicyNext

LEMMA EngineAccounts ==
  ASSUME EngineInv
  PROVE  ChannelsAccounted
<1>1. \A i \in Slots : table[i] \in Cells
  BY DEF EngineInv, PairTables
<1>2. ChannelsTracked
  BY DEF EngineInv, Tracked, ChannelsTracked, SlotOf
<1>3. OneEntryPerPair
  <2> SUFFICES ASSUME NEW p \in Pairs PROVE Cardinality(SlotOf(p)) <= 1
    BY DEF OneEntryPerPair
  <2>1. \A i, j \in SlotOf(p) : i = j
    <3> SUFFICES ASSUME NEW i \in SlotOf(p), NEW j \in SlotOf(p) PROVE i = j
      OBVIOUS
    <3>1. i \in Slots /\ j \in Slots /\ table[i].pair = p /\ table[j].pair = p
      BY DEF SlotOf
    <3>2. table[i] # None
      BY <1>1, <3>1, CellFacts
    <3> QED
      BY <3>1, <3>2 DEF EngineInv, TableOnce
  <2>2. CASE SlotOf(p) = {}
    BY <2>2, FS_EmptySet
  <2>3. CASE SlotOf(p) # {}
    <3>1. PICK i : SlotOf(p) = {i}
      BY <2>1, <2>3
    <3>2. Cardinality({i}) = 1
      BY FS_Singleton
    <3>3. Cardinality(SlotOf(p)) = 1
      BY <3>1, <3>2, Zenon
    <3> QED
      BY <3>3
  <2> QED
    BY <2>2, <2>3
<1>4. ChannelPairsPinned
  BY DEF EngineInv, PinnedBut, ChannelPairsPinned
<1> QED
  BY <1>2, <1>3, <1>4 DEF ChannelsAccounted

\* ChannelsAccounted for any number of slots, windows, limits and pairs, as
\* long as the tables have room for all the pairs: observe_ipc never takes the
\* slot of a pair that has a channel, and the promotions and the decay of
\* adapt_and_report leave every channel in the table, once, with its processes
\* pinned (but for those of another pair, without a channel).
THEOREM EngineKeepsAccount ==
  ASSUME PairsFit
  PROVE  PolicySpec => []ChannelsAccounted
<1>1. PolicyInit => EngineInv
  BY EngineStarts
<1>2. EngineInv /\ [PolicyNext]_policyVars => EngineInv'
  BY EngineSteps
<1>3. EngineInv => ChannelsAccounted
  BY EngineAccounts
<1> QED
  BY <1>1, <1>2, <1>3, PTL DEF PolicySpec

\* OpensSparingly under the same assumption: the loop of adapt_and_report over
\* the hot pairs opens at most MAX_CHANNELS_PER_WINDOW channels, and
\* expire_evictions, which fills each hole with the last entry, keeps exactly
\* the pairs that lost their channel less than Cooldown ticks ago.
THEOREM EngineOpensSparingly ==
  ASSUME PairsFit
  PROVE  PolicySpec => OpensSparingly
<1>1. PolicyInit => EngineInv
  BY EngineStarts
<1>2. EngineInv /\ [PolicyNext]_policyVars => EngineInv'
  BY EngineSteps
<1>3. EngineInv /\ [PolicyNext]_policyVars =>
        [/\ Cardinality(channel' \ channel) <= MAX_CHANNELS_PER_WINDOW
         /\ \A p \in channel' \ channel : rested'[p] >= Cooldown]_policyVars
  BY EngineSteps
<1> QED
  BY <1>1, <1>2, <1>3, PTL DEF PolicySpec, OpensSparingly
====
