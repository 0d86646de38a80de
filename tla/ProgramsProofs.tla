--------------------------- MODULE ProgramsProofs ----------------------------
(***************************************************************************)
(* Proofs about what user programs run on.  UserProc, for every size of    *)
(* the table and every number of processes: whoever runs runs as itself,   *)
(* and an exit is final.  Files over Vfs, for every image, set of names    *)
(* and number of nodes and handles: the tree stays sound, and a call       *)
(* leaves alone every file it is not about.                                *)
(***************************************************************************)
EXTENDS UserProc, Files, FiniteSetTheorems, WellFoundedInduction, TLAPS

Reports == {NoReport} \cup [child : Pids, to : Pids, code : Nat]

\* The values of Kernel.
Kernels == [table : [Slots -> Proc \cup {NoProc}], current : Slots, nextPid : 1..(MaxPid + 1),
            word : [Spaces -> [Addrs -> {0, 1}]], fsMsr : Tls \cup {0}, ring3 : 0..MaxPid,
            overflowed : BOOLEAN, exitOf : [Pids -> Int], report : Reports]

\* The signals a live process may find pending: SIGSEGV is only raised on
\* the way to exit.
Harmless(sg) == sg.pending \subseteq {SIGCHLD}

\* Process ids are handed out once, to the child after the parent, and
\* nobody exits who was not started.
Numbered(k) ==
    /\ \A s \in Used(k.table) :
         k.table[s].pid < k.nextPid /\ k.table[s].parent < k.table[s].pid
    /\ \A s, r \in Used(k.table) : k.table[s].pid = k.table[r].pid => s = r
    /\ \A p \in Pids : p >= k.nextPid => k.exitOf[p] = -1

\* A slot whose code is not in ring3: it waits for its turn and has not
\* exited, or it is a zombie that keeps its code, or it is left over from a
\* program that the kernel started.
Settled(k, s) ==
    LET p == k.table[s]
    IN  \/ p.st \in {"Ready", "Waiting", "Blocked"} /\ k.exitOf[p.pid] = -1 /\ Harmless(p.sg)
        \/ p.st = "Zombie" /\ k.exitOf[p.pid] = p.arg /\ p.parent # 0
        \/ p.st = "Running" /\ k.exitOf[p.pid] # -1 /\ p.parent = 0

\* The slot whose code is in ring3.
InRing3(k) ==
    LET p == k.table[k.current]
    IN  /\ p # NoProc /\ p.pid = k.ring3 /\ p.st = "Running"
        /\ k.exitOf[p.pid] = -1 /\ Harmless(p.sg)
        /\ p.fs # 0 => k.fsMsr = p.fs

\* Between two programs, and while one runs.
Parked(k) == Numbered(k) /\ \A s \in Used(k.table) : Settled(k, s)

Sound(k) ==
    /\ Numbered(k)
    /\ \A s \in Used(k.table) \ {k.current} : Settled(k, s)
    /\ IF k.ring3 = 0 THEN Used(k.table) = {} ELSE InRing3(k)

\* The inductive invariant.
UPInv == UPTypeOK /\ (~overflowed => Sound(Kernel))

---------------------------------------------------------------------------
(* Searches.                                                                *)

LEMMA LeastOf ==
  ASSUME NEW S \in SUBSET Nat, S # {}
  PROVE  Min(S) \in S /\ \A y \in S : Min(S) <= y
<1>1. IsWellFoundedOn(OpToRel(<, Nat), Nat)
  BY NatLessThanWellFounded
<1>2. PICK x \in S : \A y \in S : ~(<<y, x>> \in OpToRel(<, Nat))
  BY <1>1, WFMin
<1>3. \A y \in S : ~(y < x)
  BY <1>2 DEF OpToRel
<1>4. \A y \in S : x <= y
  BY <1>3
<1> QED
  BY <1>4 DEF Min

LEMMA SlotsNat == Slots \subseteq Nat /\ 1 \in Slots
BY UserProcAssumption DEF Slots

\* A search of the slots that finds anything finds a slot of the kind.
LEMMA LeastSlot ==
  ASSUME NEW S \in SUBSET Slots, S # {}
  PROVE  Min(S) \in S
BY LeastOf, SlotsNat

\* The cyclic search finds a Ready slot if there is one.
LEMMA NextReady ==
  ASSUME NEW t, NEW start \in Nat, Ready(t) # {}
  PROVE  find_next_ready_from(t, start) \in Ready(t)
<1> DEFINE d(s) == (s - start) % MaxProcs
           D == {d(s) : s \in Ready(t)}
<1>1. Ready(t) \subseteq Slots
  BY DEF Ready, Used
<1>2. \A s \in Slots : d(s) \in Nat
  <2>1. ASSUME NEW a \in Int, NEW m \in Nat \ {0} PROVE a % m \in Nat
    BY <2>1
  <2>2. \A s \in Slots : s - start \in Int
    BY SlotsNat
  <2> QED
    BY <2>1, <2>2, UserProcAssumption
<1>3. D \in SUBSET Nat /\ D # {}
  BY <1>1, <1>2
<1>4. PICK s \in Ready(t) : d(s) = Min(D)
  BY <1>3, LeastOf
<1>5. \A r \in Ready(t) : d(s) <= d(r)
  <2>1. \A y \in D : Min(D) <= y
    BY <1>3, LeastOf
  <2>2. \A r \in Ready(t) : d(r) \in D
    OBVIOUS
  <2> QED
    BY <1>4, <2>1, <2>2
<1>6. \E x \in Ready(t) : \A r \in Ready(t) : (x - start) % MaxProcs <= (r - start) % MaxProcs
  BY <1>5
<1> QED
  BY <1>6 DEF find_next_ready_from

\* There is one more address space than slots: one is always free.
LEMMA FreshSpaceFree ==
  ASSUME NEW t \in [Slots -> Proc \cup {NoProc}]
  PROVE  FreshSpace(t) \in Spaces
<1> DEFINE U == {t[s].space : s \in Used(t)}
           f == [s \in Slots |-> IF s \in Used(t) THEN t[s].space ELSE 1]
           V == {f[s] : s \in Slots}
<1>1. Spaces \subseteq Nat /\ 1 \in Spaces
  BY UserProcAssumption DEF Spaces
<1>2. IsFiniteSet(Slots) /\ Cardinality(Slots) = MaxProcs
  BY FS_Interval, UserProcAssumption DEF Slots
<1>3. IsFiniteSet(Spaces) /\ Cardinality(Spaces) = MaxProcs + 1
  <2>1. 1 \in Int /\ MaxProcs + 1 \in Int /\ MaxProcs + 1 - 1 + 1 = MaxProcs + 1 /\ ~(1 > MaxProcs + 1)
    BY UserProcAssumption
  <2> QED
    BY <2>1, FS_Interval DEF Spaces
<1>4. f \in Surjection(Slots, V)
  BY DEF Surjection
<1>5. Cardinality(V) <= MaxProcs
  BY <1>2, <1>4, FS_Surjection
<1>6. U \subseteq V
  BY DEF Used
<1>7. Spaces \ U # {}
  <2>1. SUFFICES ASSUME Spaces \subseteq U PROVE FALSE
    OBVIOUS
  <2>2. IsFiniteSet(V)
    BY <1>2, <1>4, FS_Surjection
  <2>3. Cardinality(Spaces) <= Cardinality(V) /\ Cardinality(V) \in Nat
    BY <1>6, <2>1, <2>2, FS_Subset, FS_CardinalityType
  <2> QED
    BY <1>3, <1>5, <2>3, UserProcAssumption
<1> QED
  BY <1>1, <1>7, LeastOf DEF FreshSpace

---------------------------------------------------------------------------
(* Signals.                                                                 *)

LEMMA SigConstants ==
  /\ SIGCHLD = 17
  /\ Sigs \subseteq Nat
  /\ DefaultAction \in SigAction
  /\ Actions \subseteq SigAction
BY SigsAssumption DEF SIGCHLD, DefaultAction, SigAction

\* Every operation on the signals of a process keeps their shape, and only
\* raise adds to the pending ones.
LEMMA SignalTypes ==
  /\ FreshSignals \in SigState /\ Harmless(FreshSignals)
  /\ \A sg \in SigState :
       /\ ForkSignals(sg) \in SigState /\ Harmless(ForkSignals(sg))
       /\ CloneSignals(sg) \in SigState /\ Harmless(CloneSignals(sg))
       /\ ExecSignals(sg) \in SigState /\ (Harmless(sg) => Harmless(ExecSignals(sg)))
       /\ \A s : raise(sg, s) \in SigState
       /\ Harmless(sg) => Harmless(raise(sg, SIGCHLD))
<1>1. FreshSignals \in SigState /\ Harmless(FreshSignals)
  BY SigConstants DEF FreshSignals, SigState, Harmless
<1>2. ASSUME NEW sg \in SigState
      PROVE  /\ ForkSignals(sg) \in SigState /\ Harmless(ForkSignals(sg))
             /\ CloneSignals(sg) \in SigState /\ Harmless(CloneSignals(sg))
             /\ ExecSignals(sg) \in SigState /\ (Harmless(sg) => Harmless(ExecSignals(sg)))
             /\ \A s : raise(sg, s) \in SigState
             /\ Harmless(sg) => Harmless(raise(sg, SIGCHLD))
  <2>0. <<>> \in Seq(SigFrame)
    OBVIOUS
  <2>1. ForkSignals(sg) \in SigState /\ Harmless(ForkSignals(sg))
    BY DEF SigState, Harmless, ForkSignals
  <2>2. CloneSignals(sg) \in SigState /\ Harmless(CloneSignals(sg))
    BY <2>0 DEF SigState, Harmless, CloneSignals
  <2>3. ExecSignals(sg) \in SigState /\ (Harmless(sg) => Harmless(ExecSignals(sg)))
    BY <2>0 DEF SigState, Harmless, ExecSignals
  <2>4. \A s : raise(sg, s) \in SigState /\ raise(sg, s).pending \subseteq sg.pending \cup {s}
    BY DEF SigState, raise
  <2> QED
    BY <2>1, <2>2, <2>3, <2>4 DEF Harmless
<1> QED
  BY <1>1, <1>2

LEMMA SigactionTypes ==
  ASSUME NEW sg \in SigState, NEW s \in Sigs, NEW a \in Actions
  PROVE  /\ sys_rt_sigaction(sg, s, a) \in SigState
         /\ Harmless(sg) => Harmless(sys_rt_sigaction(sg, s, a))
BY SigConstants DEF SigState, Harmless, sys_rt_sigaction

LEMMA SigprocmaskTypes ==
  ASSUME NEW sg \in SigState, NEW how \in {"BLOCK", "UNBLOCK", "SETMASK"}, NEW set \in Masks
  PROVE  /\ sys_rt_sigprocmask(sg, how, set) \in SigState
         /\ Harmless(sg) => Harmless(sys_rt_sigprocmask(sg, how, set))
<1>1. set \subseteq Sigs
  BY UserProcAssumption
<1>2. PICK m : sys_rt_sigprocmask(sg, how, set) = [sg EXCEPT !.mask = m] /\ m \subseteq Sigs
  <2>1. sg.mask \subseteq Sigs
    BY DEF SigState
  <2>2. CASE how = "BLOCK"
    <3>1. sys_rt_sigprocmask(sg, how, set) = [sg EXCEPT !.mask = sg.mask \cup (set \ {SIGKILL, SIGSTOP})]
      BY <2>2 DEF sys_rt_sigprocmask, SigState
    <3> QED
      BY <1>1, <2>1, <3>1
  <2>3. CASE how = "UNBLOCK"
    <3>1. sys_rt_sigprocmask(sg, how, set) = [sg EXCEPT !.mask = sg.mask \ set]
      BY <2>3 DEF sys_rt_sigprocmask, SigState
    <3> QED
      BY <1>1, <2>1, <3>1
  <2>4. CASE how = "SETMASK"
    <3>1. sys_rt_sigprocmask(sg, how, set) = [sg EXCEPT !.mask = set \ {SIGKILL, SIGSTOP}]
      BY <2>4 DEF sys_rt_sigprocmask, SigState
    <3> QED
      BY <1>1, <2>1, <3>1
  <2> QED
    BY <2>2, <2>3, <2>4
<1> QED
  BY <1>2 DEF SigState, Harmless

LEMMA SigreturnTypes ==
  ASSUME NEW sg \in SigState, sg.frames # <<>>
  PROVE  /\ sys_rt_sigreturn(sg) \in SigState
         /\ Harmless(sg) => Harmless(sys_rt_sigreturn(sg))
<1>1. sg.frames \in Seq(SigFrame)
  BY DEF SigState
<1>2. Head(sg.frames) \in SigFrame /\ Tail(sg.frames) \in Seq(SigFrame)
  BY <1>1
<1>3. PICK m, f : m = Head(sg.frames).mask /\ f = Tail(sg.frames)
  OBVIOUS
<1>4. m \subseteq Sigs /\ f \in Seq(SigFrame)
  BY <1>2, <1>3 DEF SigFrame
<1>5. sys_rt_sigreturn(sg) = [sg EXCEPT !.mask = m, !.frames = f]
  BY <1>3 DEF sys_rt_sigreturn, SigState
<1> QED
  BY <1>4, <1>5 DEF SigState, Harmless

\* Installing a frame.
LEMMA HandleTypes ==
  ASSUME NEW sg \in SigState, NEW s \in Sigs
  PROVE  Handle(sg, s) \in SigState /\ Handle(sg, s).pending = sg.pending
<1> DEFINE a == sg.act[s]
           mask == sg.mask \cup (IF a.nodefer THEN {} ELSE {s}) \cup a.mask
           reset == IF a.resethand THEN [sg EXCEPT !.act[s] = DefaultAction] ELSE sg
<1>1. a \in SigAction /\ sg.mask \subseteq Sigs
  BY DEF SigState
<1>2. mask \subseteq Sigs
  BY <1>1 DEF SigAction
<1>3. reset \in SigState /\ reset.pending = sg.pending
  BY SigConstants DEF SigState
<1>4. [sig |-> s, mask |-> mask] \in SigFrame
  BY <1>2 DEF SigFrame
<1>5. <<[sig |-> s, mask |-> mask]>> \o reset.frames \in Seq(SigFrame)
  BY <1>3, <1>4 DEF SigState
<1>6. Handle(sg, s) = install_sigframe(reset, s, mask)
  BY DEF Handle
<1> HIDE DEF mask, reset
<1>7. PICK f \in Seq(SigFrame) : f = <<[sig |-> s, mask |-> mask]>> \o reset.frames
  BY <1>5
<1>8. install_sigframe(reset, s, mask) = [reset EXCEPT !.mask = mask, !.frames = f]
  BY <1>3, <1>7 DEF install_sigframe, SigState
<1>9. PICK m \in SUBSET Sigs, r \in SigState : m = mask /\ r = reset
  BY <1>2, <1>3
<1>10. [r EXCEPT !.mask = m, !.frames = f] \in SigState
  BY DEF SigState
<1>11. [r EXCEPT !.mask = m, !.frames = f].pending = r.pending
  BY DEF SigState
<1> QED
  BY <1>3, <1>6, <1>8, <1>9, <1>10, <1>11

\* The delivery at the end of a call never ends a live process, because
\* SIGCHLD is ignored by default.
LEMMA DeliveryHarmless ==
  ASSUME NEW sg \in SigState, Harmless(sg)
  PROVE  LET d == deliver_pending_signals(sg)
         IN  d.dies = FALSE /\ d.sg \in SigState /\ Harmless(d.sg)
<1> DEFINE ready == sg.pending \ sg.mask
           s == Min(ready)
           taken == [sg EXCEPT !.pending = @ \ {s}]
<1>1. CASE ready = {}
  BY <1>1 DEF deliver_pending_signals
<1>2. CASE ready # {}
  <2>1. ready = {SIGCHLD} /\ SIGCHLD \in Sigs
    BY <1>2 DEF Harmless, SigState
  <2>2. s = SIGCHLD
    BY <2>1, SigConstants, LeastOf
  <2>3. taken \in SigState /\ Harmless(taken)
    BY DEF SigState, Harmless
  <2>4. Handle(taken, s) \in SigState /\ Harmless(Handle(taken, s))
    BY <2>1, <2>2, <2>3, HandleTypes DEF Harmless
  <2>5. sg.act[s].handler = "DFL" => Ignored(sg, s)
    BY <2>2 DEF Ignored
  <2>6. deliver_pending_signals(sg) =
          IF Ignored(sg, s) THEN [sg |-> taken, dies |-> FALSE, code |-> 0]
          ELSE [sg |-> Handle(taken, s), dies |-> FALSE, code |-> 0]
    <3>1. CASE Ignored(sg, s)
      BY <1>2, <3>1 DEF deliver_pending_signals
    <3>2. CASE ~Ignored(sg, s)
      BY <1>2, <2>5, <3>2 DEF deliver_pending_signals
    <3> QED
      BY <3>1, <3>2
  <2> HIDE DEF taken, s
  <2> QED
    BY <2>3, <2>4, <2>6
<1> QED
  BY <1>1, <1>2

---------------------------------------------------------------------------
(* The table.                                                               *)

Sts == {"Ready", "Running", "Waiting", "Zombie", "Blocked"}
Tables == [Slots -> Proc \cup {NoProc}]

\* A used slot holds a process, a free one none.
LEMMA SlotContents ==
  ASSUME NEW t \in Tables, NEW s \in Slots
  PROVE  /\ t[s] # NoProc => t[s] \in Proc
         /\ t[s] \in Proc => t[s] # NoProc /\ t[s].pid # 0
         /\ s \in Used(t) <=> t[s] \in Proc
         /\ s \notin Used(t) <=> t[s] = NoProc
<1>1. NoProc \notin Proc
  BY DEF NoProc, Proc, Pids
<1>2. t[s] \in Proc => t[s].pid # 0
  BY DEF Proc, Pids
<1> QED
  BY <1>1, <1>2 DEF Tables, Used

LEMMA ProcFields ==
  ASSUME NEW p \in Proc
  PROVE  /\ p.pid \in Pids /\ p.parent \in 0..MaxPid /\ p.st \in Sts /\ p.arg \in Nat
         /\ p.space \in Spaces /\ p.fs \in Tls \cup {0} /\ p.tgid \in 0..MaxPid
         /\ p.tid \in Addrs \cup {0} /\ p.sg \in SigState
BY DEF Proc, Sts

LEMMA KernelFields ==
  ASSUME NEW k \in Kernels
  PROVE  /\ k.table \in Tables /\ k.current \in Slots /\ k.nextPid \in 1..(MaxPid + 1)
         /\ k.word \in [Spaces -> [Addrs -> {0, 1}]] /\ k.fsMsr \in Tls \cup {0}
         /\ k.ring3 \in 0..MaxPid /\ k.overflowed \in BOOLEAN /\ k.exitOf \in [Pids -> Int]
         /\ k.report \in Reports
BY DEF Kernels, Tables

\* What a slot has to keep to stay the process it is.
SameAs(p, q) == p \in Proc /\ q \in Proc /\ p.pid = q.pid /\ p.parent = q.parent

\* The table u differs from t in slot s at most.
Only(s, t, u) == t \in Tables /\ u \in Tables /\ \A r \in Slots \ {s} : u[r] = t[r]

\* A slot that stays the process it is.
LEMMA Touched ==
  ASSUME NEW j \in Kernels, NEW k \in Kernels, NEW s \in Slots,
         Only(s, j.table, k.table), SameAs(j.table[s], k.table[s]),
         k.nextPid = j.nextPid, k.exitOf = j.exitOf, Numbered(j)
  PROVE  /\ Used(k.table) = Used(j.table) /\ s \in Used(k.table) /\ Numbered(k)
         /\ \A r \in Used(k.table) \ {s} : Settled(k, r) <=> Settled(j, r)
<1>1. Used(k.table) = Used(j.table) /\ s \in Used(k.table)
  <2>1. \A r \in Slots : r \in Used(k.table) <=> r \in Used(j.table)
    BY SlotContents DEF Only, SameAs, Used
  <2> QED
    BY <2>1, SlotContents DEF Only, SameAs, Used
<1>2. \A r \in Slots : k.table[r].pid = j.table[r].pid /\ k.table[r].parent = j.table[r].parent
  BY DEF Only, SameAs
<1>3. Numbered(k)
  BY <1>1, <1>2 DEF Numbered, Used
<1>4. \A r \in Used(k.table) \ {s} : Settled(k, r) <=> Settled(j, r)
  BY DEF Only, Settled, Used
<1> QED
  BY <1>1, <1>3, <1>4

\* A slot that is given up.
LEMMA Freed ==
  ASSUME NEW j \in Kernels, NEW k \in Kernels, NEW s \in Slots,
         Only(s, j.table, k.table), k.table[s] = NoProc,
         k.nextPid = j.nextPid, k.exitOf = j.exitOf, Numbered(j)
  PROVE  /\ Used(k.table) = Used(j.table) \ {s} /\ Numbered(k)
         /\ \A r \in Used(k.table) : Settled(k, r) <=> Settled(j, r)
<1>1. Used(k.table) = Used(j.table) \ {s}
  BY DEF Only, Used
<1>2. \A r \in Used(k.table) : k.table[r] = j.table[r]
  BY <1>1 DEF Only, Used
<1>3. Numbered(k)
  BY <1>1, <1>2 DEF Numbered
<1>4. \A r \in Used(k.table) : Settled(k, r) <=> Settled(j, r)
  BY <1>2 DEF Settled
<1> QED
  BY <1>1, <1>3, <1>4

\* A slot that is taken by the process with the next id.
LEMMA Added ==
  ASSUME NEW j \in Kernels, NEW k \in Kernels, NEW s \in Slots,
         Only(s, j.table, k.table), j.table[s] = NoProc, k.table[s] \in Proc,
         k.table[s].pid = j.nextPid, k.table[s].parent < j.nextPid,
         k.nextPid = j.nextPid + 1, k.exitOf = j.exitOf, Numbered(j)
  PROVE  /\ Used(k.table) = Used(j.table) \cup {s} /\ Numbered(k)
         /\ k.exitOf[k.table[s].pid] = -1
         /\ \A r \in Used(j.table) : r # s /\ (Settled(k, r) <=> Settled(j, r))
<1>1. Used(k.table) = Used(j.table) \cup {s} /\ s \notin Used(j.table)
  BY SlotContents DEF Only, Used
<1>2. \A r \in Used(j.table) : k.table[r] = j.table[r]
  BY <1>1 DEF Only, Used
<1>3. \A r \in Used(j.table) : k.table[r] \in Proc
  BY <1>1, SlotContents DEF Only, Used
<1>4. \A p \in Proc : p.pid \in Nat /\ p.parent \in Nat
  BY ProcFields, UserProcAssumption DEF Pids
<1>5. j.nextPid \in Nat /\ k.table[s].pid \in Pids /\ Pids \subseteq Nat
  BY ProcFields, KernelFields DEF Pids
<1>6. \A r \in Used(k.table) :
        k.table[r].pid < k.nextPid /\ k.table[r].parent < k.table[r].pid
  BY <1>1, <1>2, <1>3, <1>4, <1>5 DEF Numbered
<1>7. \A q, r \in Used(k.table) : k.table[q].pid = k.table[r].pid => q = r
  BY <1>1, <1>2, <1>3, <1>4, <1>5 DEF Numbered
<1>8. \A p \in Pids : p >= k.nextPid => k.exitOf[p] = -1
  BY <1>5 DEF Numbered
<1>9. k.exitOf[k.table[s].pid] = -1
  BY <1>5 DEF Numbered
<1>10. \A r \in Used(j.table) : r # s /\ (Settled(k, r) <=> Settled(j, r))
  BY <1>1, <1>2 DEF Settled
<1> QED
  BY <1>1, <1>6, <1>7, <1>8, <1>9, <1>10 DEF Numbered

\* The code a process exits with is noted.
LEMMA ExitNoted ==
  ASSUME NEW j \in Kernels, NEW k \in Kernels, NEW p \in Pids, NEW c \in Nat,
         k.table = j.table, k.nextPid = j.nextPid, p < j.nextPid,
         k.exitOf = [j.exitOf EXCEPT ![p] = c], Numbered(j)
  PROVE  /\ Numbered(k)
         /\ \A r \in Used(j.table) : j.table[r].pid # p => (Settled(k, r) <=> Settled(j, r))
<1>1. j.exitOf \in [Pids -> Int] /\ Pids \subseteq Nat /\ j.nextPid \in Nat
  BY KernelFields DEF Pids
<1>2. \A q \in Pids : q # p => k.exitOf[q] = j.exitOf[q]
  BY <1>1
<1>3. Numbered(k)
  BY <1>1, <1>2 DEF Numbered
<1>4. \A r \in Used(j.table) : j.table[r].pid \in Pids
  BY SlotContents, ProcFields, KernelFields DEF Used
<1>5. \A r \in Used(j.table) : j.table[r].pid # p => (Settled(k, r) <=> Settled(j, r))
  BY <1>2, <1>4 DEF Settled
<1> QED
  BY <1>3, <1>5

---------------------------------------------------------------------------
(* Switching to a program.                                                  *)

\* Only the process in slot s has changed, if at all; it is the one it was.
Renewed(j, k, s) ==
  /\ k \in Kernels /\ Only(s, j.table, k.table) /\ SameAs(j.table[s], k.table[s])
  /\ k.nextPid = j.nextPid /\ k.exitOf = j.exitOf /\ k.report = j.report
  /\ k.overflowed = j.overflowed

LEMMA IretqShape ==
  ASSUME NEW k \in Kernels, NEW s \in Used(k.table)
  PROVE  LET q == iretq_to_frame(k, s)
         IN  /\ Renewed(k, q, s)
             /\ q.current = s /\ q.ring3 = k.table[s].pid /\ q.table[s].st = "Running"
             /\ q.table[s].sg = k.table[s].sg /\ q.table[s].fs = k.table[s].fs
             /\ q.fsMsr = IF k.table[s].fs # 0 THEN k.table[s].fs ELSE k.fsMsr
<1> DEFINE q == iretq_to_frame(k, s)
           p == k.table[s]
<1>1. s \in Slots /\ k.table \in Tables /\ p \in Proc
  BY SlotContents, KernelFields DEF Used
<1>2. PICK r : r = [p EXCEPT !.st = "Running", !.arg = 0]
  OBVIOUS
<1>3. r \in Proc /\ r.pid = p.pid /\ r.parent = p.parent /\ r.st = "Running"
      /\ r.sg = p.sg /\ r.fs = p.fs
  BY <1>1, <1>2 DEF Proc
<1>4. PICK t : t = [k.table EXCEPT ![s] = r]
  OBVIOUS
<1>5. t \in Tables /\ t[s] = r /\ \A x \in Slots \ {s} : t[x] = k.table[x]
  BY <1>1, <1>3, <1>4 DEF Tables
<1>6. PICK f : f = IF p.fs # 0 THEN p.fs ELSE k.fsMsr
  OBVIOUS
<1>7. f \in Tls \cup {0} /\ p.pid \in 0..MaxPid
  BY <1>1, <1>6, ProcFields, KernelFields DEF Pids
<1>8. q = [k EXCEPT !.table = t, !.current = s, !.ring3 = p.pid, !.fsMsr = f]
  BY <1>1, <1>2, <1>4, <1>6, ZenonT(30) DEF iretq_to_frame, Kernels, Tables
<1> HIDE DEF q, p
<1>9. q \in Kernels /\ q.table = t /\ q.current = s /\ q.ring3 = p.pid /\ q.fsMsr = f
      /\ q.nextPid = k.nextPid /\ q.exitOf = k.exitOf /\ q.report = k.report
      /\ q.overflowed = k.overflowed
  BY <1>1, <1>5, <1>7, <1>8 DEF Kernels, Tables
<1> QED
  BY <1>1, <1>3, <1>5, <1>6, <1>9 DEF q, p, Renewed, Only, SameAs

\* A process that has not exited is resumed: it runs as itself.
LEMMA ResumedSound ==
  ASSUME NEW k \in Kernels, NEW s \in Used(k.table), Numbered(k),
         \A r \in Used(k.table) \ {s} : Settled(k, r),
         k.exitOf[k.table[s].pid] = -1, Harmless(k.table[s].sg)
  PROVE  Sound(iretq_to_frame(k, s))
<1>1. PICK q : q = iretq_to_frame(k, s)
  OBVIOUS
<1>2. /\ Renewed(k, q, s)
      /\ q.current = s /\ q.ring3 = k.table[s].pid /\ q.table[s].st = "Running"
      /\ q.table[s].sg = k.table[s].sg /\ q.table[s].fs = k.table[s].fs
      /\ q.fsMsr = IF k.table[s].fs # 0 THEN k.table[s].fs ELSE k.fsMsr
  BY <1>1, IretqShape
<1>3. s \in Slots
  BY DEF Used
<1>4. /\ Used(q.table) = Used(k.table) /\ s \in Used(q.table) /\ Numbered(q)
      /\ \A r \in Used(q.table) \ {s} : Settled(q, r) <=> Settled(k, r)
  BY <1>2, <1>3, Touched DEF Renewed
<1>5. q.table[s] # NoProc /\ q.table[s].pid = k.table[s].pid /\ q.table[s].pid # 0
  BY <1>2, <1>3, SlotContents DEF Renewed, Only, SameAs
<1>6. InRing3(q)
  BY <1>2, <1>5 DEF InRing3, Renewed
<1> QED
  BY <1>1, <1>2, <1>4, <1>5, <1>6 DEF Sound

\* after_user_demo hands out one id, whatever register finds.
LEMMA LaunchPid ==
  ASSUME NEW k \in Kernels
  PROVE  after_user_demo(k).nextPid = k.nextPid + 1
<1>1. ASSUME NEW j, NEW n, NEW p,
             j = [k EXCEPT !.word[FreshSpace(k.table)] = [a \in Addrs |-> 0],
                           !.nextPid = k.nextPid + 1, !.ring3 = k.nextPid],
             n = register(j, p)
      PROVE  n.nextPid = k.nextPid + 1
  <2>1. DOMAIN j = DOMAIN k /\ j.nextPid = k.nextPid + 1
    BY <1>1 DEF Kernels
  <2>2. PICK t, c : n = [j EXCEPT !.table = t, !.current = c] \/ n = [j EXCEPT !.overflowed = TRUE]
    BY <1>1, <2>1 DEF register, Kernels
  <2> QED
    BY <2>1, <2>2 DEF Kernels
<1> QED
  BY <1>1 DEF after_user_demo, Kernels

\* What the next program finds: everything as it was but for a slot of its own.
Launched(k, q) ==
  /\ q \in Kernels /\ q.exitOf = k.exitOf /\ q.report = k.report
  /\ \A r \in Used(k.table) : q.table[r] = k.table[r]
  /\ ~q.overflowed => Sound(q)

\* The next program gets the first free slot, a fresh id and a fresh space.
LEMMA LaunchShape ==
  ASSUME NEW k \in Kernels, Parked(k), k.nextPid <= MaxPid
  PROVE  Launched(k, after_user_demo(k))
<1> DEFINE pid == k.nextPid
           sp == FreshSpace(k.table)
<1>1. k.table \in Tables /\ pid \in Pids /\ sp \in Spaces /\ pid # 0 /\ pid + 1 \in 1..(MaxPid + 1)
  BY KernelFields, FreshSpaceFree, UserProcAssumption DEF Pids, Tables
<1>2. PICK w : w = [k.word EXCEPT ![sp] = [a \in Addrs |-> 0]]
  OBVIOUS
<1>3. w \in [Spaces -> [Addrs -> {0, 1}]]
  BY <1>1, <1>2, KernelFields
<1>4. PICK j : j = [k EXCEPT !.word = w, !.nextPid = pid + 1, !.ring3 = pid]
  OBVIOUS
<1>5. /\ j \in Kernels /\ j.table = k.table /\ j.nextPid = pid + 1 /\ j.ring3 = pid
      /\ j.exitOf = k.exitOf /\ j.report = k.report
  <2>1. PICK n \in 1..(MaxPid + 1), m \in 0..MaxPid : n = pid + 1 /\ m = pid
    BY <1>1 DEF Pids
  <2>2. j = [k EXCEPT !.word = w, !.nextPid = n, !.ring3 = m]
    BY <1>4, <2>1
  <2>3. /\ j \in Kernels /\ j.table = k.table /\ j.nextPid = n /\ j.ring3 = m
        /\ j.exitOf = k.exitOf /\ j.report = k.report
    BY <1>3, <2>2 DEF Kernels
  <2> QED
    BY <2>1, <2>3
<1>6. after_user_demo(k) = register(j, pid)
  BY <1>2, <1>4 DEF after_user_demo, Kernels
<1>7. {s \in Used(j.table) : j.table[s].pid = pid} = {}
  <2>1. \A s \in Used(j.table) : j.table[s].pid < pid
    BY <1>5 DEF Parked, Numbered
  <2>2. \A s \in Used(j.table) : j.table[s].pid \in Nat
    BY <1>1, <1>5, SlotContents, ProcFields DEF Used, Pids
  <2> QED
    BY <1>1, <2>1, <2>2 DEF Pids
<1>8. PICK fresh : fresh = [pid |-> pid, parent |-> 0, st |-> "Running", arg |-> 0,
                            space |-> sp, fs |-> 0, tgid |-> 0, tid |-> 0,
                            sg |-> FreshSignals]
  OBVIOUS
<1>9. /\ fresh \in Proc /\ fresh.pid = pid /\ fresh.parent = 0 /\ fresh.st = "Running"
      /\ fresh.fs = 0 /\ fresh.sg = FreshSignals
  BY <1>1, <1>8, SignalTypes, UserProcAssumption DEF Proc
<1> HIDE DEF pid, sp
<1>10. CASE FreeSlots(j.table) = {}
  <2>1. PICK q : q = [j EXCEPT !.overflowed = TRUE]
    OBVIOUS
  <2>2. register(j, pid) = q
    BY <1>7, <1>10, <2>1 DEF register
  <2>3. q \in Kernels /\ q.table = j.table /\ q.exitOf = j.exitOf /\ q.report = j.report
        /\ q.overflowed = TRUE
    BY <1>5, <2>1 DEF Kernels
  <2> QED
    BY <1>5, <1>6, <2>2, <2>3 DEF Launched
<1>11. CASE FreeSlots(j.table) # {}
  <2>1. PICK s : s = Min(FreeSlots(j.table))
    OBVIOUS
  <2>2. s \in Slots /\ j.table[s] = NoProc
    <3>1. s \in FreeSlots(j.table)
      BY <1>11, <2>1, LeastSlot DEF FreeSlots
    <3> QED
      BY <3>1 DEF FreeSlots, Used
  <2>3. PICK t : t = [j.table EXCEPT ![s] = fresh]
    OBVIOUS
  <2>4. t \in Tables /\ t[s] = fresh /\ \A r \in Slots \ {s} : t[r] = j.table[r]
    BY <1>1, <1>5, <1>9, <2>2, <2>3 DEF Tables
  <2>5. PICK q : q = [j EXCEPT !.table = t, !.current = s]
    OBVIOUS
  <2>6. register(j, pid) = q
    BY <1>5, <1>7, <1>8, <1>11, <2>1, <2>3, <2>5 DEF register, Kernels, sp
  <2>7. /\ q \in Kernels /\ q.table = t /\ q.exitOf = k.exitOf /\ q.report = k.report
        /\ q.current = s /\ q.ring3 = pid /\ q.nextPid = pid + 1
    BY <1>5, <2>2, <2>4, <2>5 DEF Kernels, Tables
  <2>8. \A r \in Used(k.table) : r # s /\ q.table[r] = k.table[r]
    BY <1>5, <2>2, <2>4, <2>7 DEF Used
  <2>9. /\ Used(q.table) = Used(k.table) \cup {s} /\ Numbered(q) /\ q.exitOf[pid] = -1
        /\ \A r \in Used(k.table) : r # s /\ (Settled(q, r) <=> Settled(k, r))
    <3>1. Only(s, k.table, q.table) /\ k.table[s] = NoProc /\ q.table[s] \in Proc
      BY <1>1, <1>5, <1>9, <2>2, <2>4, <2>7 DEF Only
    <3>2. q.table[s].pid = k.nextPid /\ q.table[s].parent < k.nextPid /\ q.nextPid = k.nextPid + 1
      BY <1>1, <1>9, <2>4, <2>7 DEF pid, Pids
    <3> QED
      BY <2>2, <2>7, <3>1, <3>2, Added DEF Parked, pid
  <2>10. InRing3(q)
    BY <1>9, <2>4, <2>7, <2>9, SlotContents, <2>2, <1>1, SignalTypes DEF InRing3
  <2>11. Sound(q)
    BY <1>1, <2>7, <2>9, <2>10 DEF Sound, Parked
  <2> QED
    BY <1>6, <2>6, <2>7, <2>8, <2>11 DEF Launched
<1> QED
  BY <1>10, <1>11

LEMMA Launch ==
  ASSUME NEW k \in Kernels, Parked(k), after_user_demo(k).nextPid <= MaxPid + 1
  PROVE  Launched(k, after_user_demo(k))
<1>1. k.nextPid + 1 <= MaxPid + 1 /\ k.nextPid \in Nat
  BY LaunchPid, KernelFields
<1>2. k.nextPid <= MaxPid
  BY <1>1, UserProcAssumption
<1> QED
  BY <1>2, LaunchShape

\* A write to one slot of the table.
PutSlot(k, s, r) == [k EXCEPT !.table[s] = r]

LEMMA Put ==
  ASSUME NEW k \in Kernels, NEW s \in Slots, NEW r \in Proc \cup {NoProc}, NEW q,
         q = PutSlot(k, s, r)
  PROVE  /\ q \in Kernels /\ Only(s, k.table, q.table) /\ q.table[s] = r
         /\ q.current = k.current /\ q.nextPid = k.nextPid /\ q.word = k.word
         /\ q.fsMsr = k.fsMsr /\ q.ring3 = k.ring3 /\ q.overflowed = k.overflowed
         /\ q.exitOf = k.exitOf /\ q.report = k.report
<1>1. k.table \in Tables
  BY KernelFields
<1>2. PICK t : t = [k.table EXCEPT ![s] = r]
  OBVIOUS
<1>3. t \in Tables /\ t[s] = r /\ \A x \in Slots \ {s} : t[x] = k.table[x]
  BY <1>1, <1>2 DEF Tables
<1>4. q = [k EXCEPT !.table = t]
  BY <1>2 DEF Kernels, PutSlot
<1>5. /\ q \in Kernels /\ q.table = t
      /\ q.current = k.current /\ q.nextPid = k.nextPid /\ q.word = k.word
      /\ q.fsMsr = k.fsMsr /\ q.ring3 = k.ring3 /\ q.overflowed = k.overflowed
      /\ q.exitOf = k.exitOf /\ q.report = k.report
  BY <1>3, <1>4 DEF Kernels, Tables
<1> QED
  BY <1>1, <1>3, <1>5 DEF Only

---------------------------------------------------------------------------
(* Waking the waiters of a futex.                                           *)

\* Some of the Blocked slots of t are Ready in u.
WokenTable(t, u) ==
  /\ u \in Tables
  /\ \A s \in Slots :
       \/ u[s] = t[s]
       \/ /\ SameAs(t[s], u[s]) /\ t[s].st = "Blocked" /\ u[s].st = "Ready"
          /\ u[s].sg = t[s].sg

LEMMA WakeShape ==
  ASSUME NEW t \in Tables, NEW a, NEW n
  PROVE  WokenTable(t, futex_wake_impl(t, a, n))
<1> DEFINE waiters == {s \in Used(t) : t[s].st = "Blocked" /\ t[s].arg = a}
           woken == {s \in waiters : Cardinality({r \in waiters : r < s}) < n}
           up(s) == [t[s] EXCEPT !.st = "Ready", !.arg = 0]
<1>1. PICK W : W = woken
  OBVIOUS
<1>2. \A s \in W : s \in Slots /\ t[s] \in Proc /\ t[s].st = "Blocked"
  BY <1>1, SlotContents DEF Used
<1>3. futex_wake_impl(t, a, n) = [s \in Slots |-> IF s \in W THEN up(s) ELSE t[s]]
  BY <1>1 DEF futex_wake_impl
<1>4. \A p \in Proc : LET q == [p EXCEPT !.st = "Ready", !.arg = 0]
                      IN  SameAs(p, q) /\ q.st = "Ready" /\ q.sg = p.sg
  BY DEF Proc, SameAs
<1>5. \A s \in W : SameAs(t[s], up(s)) /\ up(s).st = "Ready" /\ up(s).sg = t[s].sg
  BY <1>2, <1>4
<1> HIDE DEF up, woken
<1>6. PICK u : u = [s \in Slots |-> IF s \in W THEN up(s) ELSE t[s]]
  OBVIOUS
<1>7. u \in Tables
  BY <1>5, <1>6 DEF Tables, SameAs
<1> QED
  BY <1>2, <1>3, <1>5, <1>6, <1>7 DEF WokenTable

\* Waking changes nothing that the invariant is about.
LEMMA Woken ==
  ASSUME NEW j \in Kernels, NEW k \in Kernels, WokenTable(j.table, k.table),
         k.nextPid = j.nextPid, k.exitOf = j.exitOf, Numbered(j)
  PROVE  /\ Used(k.table) = Used(j.table) /\ Numbered(k)
         /\ \A r \in Slots : k.table[r].pid = j.table[r].pid
         /\ \A r \in Slots : j.table[r].st # "Blocked" => k.table[r] = j.table[r]
         /\ \A r \in Used(j.table) : Settled(j, r) => Settled(k, r)
<1>1. j.table \in Tables /\ k.table \in Tables
  BY KernelFields
<1>2. \A s \in Slots :
        \/ k.table[s] = j.table[s]
        \/ /\ SameAs(j.table[s], k.table[s]) /\ j.table[s].st = "Blocked"
           /\ k.table[s].st = "Ready" /\ k.table[s].sg = j.table[s].sg
  BY DEF WokenTable
<1>3. \A s \in Slots : k.table[s].pid = j.table[s].pid /\ k.table[s].parent = j.table[s].parent
  BY <1>2 DEF SameAs
<1>4. Used(k.table) = Used(j.table)
  <2>1. \A s \in Slots : s \in Used(k.table) <=> s \in Used(j.table)
    BY <1>1, <1>2, SlotContents DEF SameAs, Used
  <2> QED
    BY <2>1 DEF Used
<1>5. Numbered(k)
  BY <1>3, <1>4 DEF Numbered, Used
<1>6. \A r \in Used(j.table) : Settled(j, r) => Settled(k, r)
  <2>1. SUFFICES ASSUME NEW r \in Used(j.table), Settled(j, r) PROVE Settled(k, r)
    OBVIOUS
  <2>2. CASE k.table[r] = j.table[r]
    BY <2>1, <2>2 DEF Settled
  <2>3. CASE k.table[r] # j.table[r]
    <3>1. /\ SameAs(j.table[r], k.table[r]) /\ j.table[r].st = "Blocked"
          /\ k.table[r].st = "Ready" /\ k.table[r].sg = j.table[r].sg
      BY <1>2, <2>3 DEF Used
    <3> QED
      BY <2>1, <3>1 DEF Settled, SameAs
  <2> QED
    BY <2>2, <2>3
<1> QED
  BY <1>2, <1>3, <1>4, <1>5, <1>6

---------------------------------------------------------------------------
(* Exit.                                                                    *)

\* The program in ring3 has exited with the code and its slot is still its own.
Exiting(k, code) ==
  /\ Numbered(k) /\ k.report = NoReport
  /\ \A s \in Used(k.table) \ {k.current} : Settled(k, s)
  /\ k.current \in Used(k.table) /\ k.table[k.current].st = "Running"
  /\ k.exitOf[k.table[k.current].pid] = code

\* What a report must be: the child's code, of a child that has no slot.
ReportRight(k) ==
  k.report # NoReport =>
    /\ k.exitOf[k.report.child] = k.report.code
    /\ \A s \in Slots : k.table[s].pid # k.report.child

\* What comes after the exit: somebody else runs, and every other slot
\* still belongs to the process it belonged to.
Ended(k, q) ==
  /\ q \in Kernels /\ q.exitOf = k.exitOf /\ ReportRight(q)
  /\ \A r \in Used(k.table) \ {k.current} : q.table[r].pid = k.table[r].pid
  /\ ~q.overflowed => Sound(q)

\* A slot that waits for its turn can be resumed.
LEMMA ResumeParked ==
  ASSUME NEW k \in Kernels, Parked(k), NEW s \in Used(k.table),
         k.table[s].st \in {"Ready", "Waiting", "Blocked"}, NEW q, q = iretq_to_frame(k, s)
  PROVE  /\ q \in Kernels /\ Sound(q) /\ q.exitOf = k.exitOf /\ q.report = k.report
         /\ q.nextPid = k.nextPid /\ q.overflowed = k.overflowed
         /\ \A r \in Slots : q.table[r].pid = k.table[r].pid
<1>1. k.exitOf[k.table[s].pid] = -1 /\ Harmless(k.table[s].sg)
  BY DEF Parked, Settled
<1>2. Sound(q)
  BY <1>1, ResumedSound DEF Parked
<1>3. Renewed(k, q, s)
  BY IretqShape
<1> QED
  BY <1>2, <1>3 DEF Renewed, Only, SameAs

LEMMA ThreadExitEnds ==
  ASSUME NEW k \in Kernels, NEW code \in Nat, Exiting(k, code),
         ThreadExit(k).nextPid <= MaxPid + 1
  PROVE  Ended(k, ThreadExit(k))
<1> DEFINE self == k.table[k.current]
           joined == IF self.tid = 0 THEN k
                     ELSE [k EXCEPT !.word[self.space][self.tid] = 0,
                                    !.table = futex_wake_impl(k.table, self.tid, AllWaiters)]
<1>1. k.table \in Tables /\ k.current \in Slots /\ self \in Proc
  BY KernelFields, SlotContents DEF Exiting
<1>2. PICK j : j = joined
  OBVIOUS
<1>3. /\ j \in Kernels /\ j.nextPid = k.nextPid /\ j.exitOf = k.exitOf /\ j.report = k.report
      /\ j.current = k.current
      /\ WokenTable(k.table, j.table)
  <2>1. CASE self.tid = 0
    BY <1>1, <1>2, <2>1 DEF WokenTable
  <2>2. CASE self.tid # 0
    <3>1. self.space \in Spaces /\ self.tid \in Addrs
      BY <1>1, <2>2, ProcFields
    <3>2. PICK w : w = [k.word EXCEPT ![self.space][self.tid] = 0]
      OBVIOUS
    <3>3. w \in [Spaces -> [Addrs -> {0, 1}]]
      BY <3>1, <3>2, KernelFields
    <3>4. PICK t : t = futex_wake_impl(k.table, self.tid, AllWaiters)
      OBVIOUS
    <3>5. t \in Tables /\ WokenTable(k.table, t)
      BY <1>1, <3>4, WakeShape DEF WokenTable
    <3>6. j = [k EXCEPT !.word = w, !.table = t]
      BY <1>2, <2>2, <3>2, <3>4 DEF Kernels
    <3>7. /\ j \in Kernels /\ j.nextPid = k.nextPid /\ j.exitOf = k.exitOf
          /\ j.report = k.report /\ j.current = k.current /\ j.table = t
      BY <3>3, <3>5, <3>6 DEF Kernels, Tables
    <3> QED
      BY <3>5, <3>7
  <2> QED
    BY <2>1, <2>2
<1>4. /\ Used(j.table) = Used(k.table) /\ Numbered(j)
      /\ \A r \in Slots : j.table[r].pid = k.table[r].pid
      /\ \A r \in Used(k.table) : Settled(k, r) => Settled(j, r)
  BY <1>3, Woken DEF Exiting
<1>5. PICK g : g = [j EXCEPT !.table[k.current] = NoProc]
  OBVIOUS
<1>6. /\ g \in Kernels /\ Only(k.current, j.table, g.table) /\ g.table[k.current] = NoProc
      /\ g.nextPid = k.nextPid /\ g.exitOf = k.exitOf /\ g.report = k.report
  <2>1. NoProc \in Proc \cup {NoProc}
    OBVIOUS
  <2>2. g = PutSlot(j, k.current, NoProc)
    BY <1>5 DEF PutSlot
  <2> QED
    BY <1>1, <1>3, <2>1, <2>2, Put
<1>7. /\ Used(g.table) = Used(j.table) \ {k.current} /\ Numbered(g)
      /\ \A r \in Used(g.table) : Settled(g, r) <=> Settled(j, r)
  BY <1>1, <1>3, <1>4, <1>6, Freed
<1>8. Parked(g)
  BY <1>4, <1>7 DEF Parked, Exiting
<1>9. \A r \in Used(k.table) \ {k.current} : r \in Used(g.table) /\ g.table[r].pid = k.table[r].pid
  BY <1>4, <1>6, <1>7 DEF Only, Used
<1>10. ThreadExit(k) = IF Ready(g.table) # {}
                       THEN iretq_to_frame(g, find_next_ready_from(g.table, 1))
                       ELSE after_user_demo(g)
  <2> DEFINE gone == [joined EXCEPT !.table[k.current] = NoProc]
  <2>1. ThreadExit(k) = IF Ready(gone.table) # {}
                        THEN iretq_to_frame(gone, find_next_ready_from(gone.table, 1))
                        ELSE after_user_demo(gone)
    BY DEF ThreadExit
  <2>2. g = gone
    BY <1>2, <1>5
  <2> HIDE DEF gone
  <2> QED
    BY <2>1, <2>2
<1> HIDE DEF self, joined
<1>11. CASE Ready(g.table) # {}
  <2>1. PICK s : s = find_next_ready_from(g.table, 1)
    OBVIOUS
  <2>2. s \in Used(g.table) /\ g.table[s].st = "Ready"
    <3>1. s \in Ready(g.table)
      BY <1>11, <2>1, NextReady
    <3> QED
      BY <3>1 DEF Ready
  <2>3. PICK q : q = iretq_to_frame(g, s)
    OBVIOUS
  <2>4. /\ q \in Kernels /\ Sound(q) /\ q.exitOf = g.exitOf /\ q.report = g.report
        /\ \A r \in Slots : q.table[r].pid = g.table[r].pid
    BY <1>6, <1>8, <2>2, <2>3, ResumeParked
  <2>5. ReportRight(q)
    BY <1>6, <2>4 DEF ReportRight, Exiting
  <2> QED
    BY <1>6, <1>9, <1>10, <1>11, <2>1, <2>3, <2>4, <2>5 DEF Ended, Used
<1>12. CASE Ready(g.table) = {}
  <2>1. PICK q : q = after_user_demo(g)
    OBVIOUS
  <2>2. Launched(g, q)
    BY <1>6, <1>8, <1>10, <1>12, <2>1, Launch
  <2>3. ReportRight(q)
    BY <1>6, <2>2 DEF ReportRight, Exiting, Launched
  <2> QED
    BY <1>6, <1>9, <1>10, <1>12, <2>1, <2>2, <2>3 DEF Ended, Launched
<1> QED
  BY <1>11, <1>12

\* The next program is launched after the exit.
LEMMA LaunchEnds ==
  ASSUME NEW k \in Kernels, NEW j \in Kernels, NEW q, q = after_user_demo(j),
         Parked(j), q.nextPid <= MaxPid + 1, j.exitOf = k.exitOf, j.report = NoReport,
         \A r \in Used(k.table) : r \in Used(j.table) /\ j.table[r].pid = k.table[r].pid
  PROVE  Ended(k, q)
<1>1. Launched(j, q)
  BY Launch
<1>2. ReportRight(q)
  BY <1>1 DEF ReportRight, Launched
<1> QED
  BY <1>1, <1>2 DEF Ended, Launched

LEMMA ProcessExitEnds ==
  ASSUME NEW k \in Kernels, NEW code \in Nat, Exiting(k, code),
         ProcessExit(k, code).nextPid <= MaxPid + 1
  PROVE  Ended(k, ProcessExit(k, code))
<1> DEFINE self == k.table[k.current]
           zombie == [k EXCEPT !.table[k.current].st = "Zombie", !.table[k.current].arg = code]
           parents == {s \in Used(k.table) : k.table[s].pid = self.parent}
           p == Min(parents)
           told == [zombie EXCEPT !.table[p].sg = raise(zombie.table[p].sg, SIGCHLD)]
           reaped == [zombie EXCEPT !.table[k.current] = NoProc,
                                    !.report = [child |-> self.pid, to |-> self.parent,
                                                code |-> code]]
           q == ProcessExit(k, code)
<1>1. k.table \in Tables /\ k.current \in Slots /\ self \in Proc /\ k.current \in Used(k.table)
  BY KernelFields, SlotContents DEF Exiting
<1>2. self.pid \in Pids /\ self.pid \in Nat /\ self.parent \in 0..MaxPid /\ self.parent \in Nat
  BY <1>1, ProcFields DEF Pids
<1>3. /\ self.parent = 0 => q = after_user_demo(k)
      /\ self.parent # 0 /\ parents = {} => q = after_user_demo(zombie)
      /\ self.parent # 0 /\ parents # {} /\ zombie.table[p].st # "Waiting" =>
           q = after_user_demo(told)
      /\ self.parent # 0 /\ parents # {} /\ zombie.table[p].st = "Waiting" =>
           q = IF zombie.table[p].arg # self.pid THEN after_user_demo(zombie)
               ELSE iretq_to_frame(reaped, p)
  BY DEF ProcessExit
<1>4. PICK z : z = zombie
  OBVIOUS
<1>5. PICK r : r = [self EXCEPT !.st = "Zombie", !.arg = code]
  OBVIOUS
<1>6. r \in Proc /\ SameAs(self, r) /\ r.st = "Zombie" /\ r.arg = code /\ r.pid = self.pid
      /\ r.parent = self.parent
  BY <1>1, <1>5 DEF Proc, SameAs
<1>7. /\ z \in Kernels /\ Only(k.current, k.table, z.table) /\ z.table[k.current] = r
      /\ z.current = k.current /\ z.nextPid = k.nextPid /\ z.exitOf = k.exitOf
      /\ z.report = NoReport
  <2>1. z = PutSlot(k, k.current, r)
    BY <1>1, <1>4, <1>5 DEF PutSlot, Kernels, Tables
  <2> QED
    BY <1>1, <1>6, <2>1, Put DEF Exiting
<1>8. /\ Used(z.table) = Used(k.table) /\ Numbered(z)
      /\ \A s \in Used(z.table) \ {k.current} : Settled(z, s)
  BY <1>1, <1>6, <1>7, Touched DEF Exiting
<1>9. self.parent # 0 => Parked(z)
  <2>1. self.parent # 0 => Settled(z, k.current)
    BY <1>6, <1>7 DEF Settled, Exiting
  <2> QED
    BY <1>8, <2>1 DEF Parked
<1>10. \A s \in Used(k.table) : z.table[s].pid = k.table[s].pid
  BY <1>6, <1>7 DEF Only, Used
<1> HIDE DEF zombie, q
<1>11. CASE self.parent = 0
  <2>1. Settled(k, k.current)
    BY <1>11 DEF Settled, Exiting
  <2>2. Parked(k)
    BY <2>1 DEF Parked, Exiting
  <2> QED
    BY <1>3, <1>11, <2>2, LaunchEnds DEF Exiting, q
<1>12. CASE self.parent # 0 /\ q = after_user_demo(zombie)
  BY <1>4, <1>7, <1>8, <1>9, <1>10, <1>12, LaunchEnds DEF q
<1>13. ASSUME self.parent # 0, parents # {}
       PROVE  p \in Used(k.table) /\ p # k.current /\ k.table[p].pid = self.parent
              /\ z.table[p] = k.table[p] /\ p \in Slots
  <2>1. p \in parents
    BY <1>13, LeastSlot DEF Used
  <2>2. self.parent < self.pid
    BY <1>1 DEF Exiting, Numbered
  <2>3. p # k.current
    <3>1. PICK c, n : c = p /\ n = self.parent
      OBVIOUS
    <3>2. k.table[c].pid = n /\ n < self.pid /\ n \in Nat
      BY <1>2, <2>1, <2>2, <3>1
    <3>3. c # k.current
      BY <1>2, <3>2
    <3> QED
      BY <3>1, <3>3
  <2> QED
    BY <1>7, <2>1, <2>3 DEF Only, Used
<1>14. CASE self.parent # 0 /\ parents # {} /\ zombie.table[p].st # "Waiting"
  <2> HIDE DEF p
  <2>1. PICK t : t = told
    OBVIOUS
  <2>2. PICK x : x = [z.table[p] EXCEPT !.sg = raise(z.table[p].sg, SIGCHLD)]
    OBVIOUS
  <2>3. p \in Slots /\ p \in Used(z.table) /\ z.table[p] \in Proc
    BY <1>7, <1>8, <1>13, <1>14, SlotContents DEF Only
  <2>4. /\ x \in Proc /\ SameAs(z.table[p], x) /\ x.st = z.table[p].st /\ x.arg = z.table[p].arg
        /\ x.sg = raise(z.table[p].sg, SIGCHLD)
    <3>1. PICK g : g = raise(z.table[p].sg, SIGCHLD)
      OBVIOUS
    <3>2. g \in SigState
      BY <2>3, <3>1, ProcFields, SignalTypes
    <3>3. x = [z.table[p] EXCEPT !.sg = g]
      BY <2>2, <3>1
    <3>4. x \in Proc /\ SameAs(z.table[p], x) /\ x.st = z.table[p].st /\ x.arg = z.table[p].arg
          /\ x.sg = g
      BY <2>3, <3>2, <3>3 DEF Proc, SameAs
    <3> QED
      BY <3>1, <3>4
  <2>5. /\ t \in Kernels /\ Only(p, z.table, t.table) /\ t.table[p] = x
        /\ t.nextPid = z.nextPid /\ t.exitOf = z.exitOf /\ t.report = z.report
    <3>1. t = PutSlot(z, p, x)
      BY <1>4, <1>7, <2>1, <2>2, <2>3 DEF PutSlot, Kernels
    <3> QED
      BY <1>7, <2>3, <2>4, <3>1, Put
  <2>6. /\ Used(t.table) = Used(z.table) /\ Numbered(t)
        /\ \A s \in Used(t.table) \ {p} : Settled(t, s) <=> Settled(z, s)
    BY <1>7, <1>8, <2>3, <2>4, <2>5, Touched
  <2>7. Settled(t, p)
    <3>1. Settled(z, p)
      BY <1>9, <1>14, <2>3 DEF Parked
    <3>2. Harmless(z.table[p].sg) => Harmless(x.sg)
      BY <2>3, <2>4, ProcFields, SignalTypes
    <3> QED
      BY <2>4, <2>5, <3>1, <3>2 DEF Settled, SameAs
  <2>8. Parked(t)
    BY <1>9, <1>14, <2>6, <2>7 DEF Parked
  <2>9. \A s \in Used(k.table) : s \in Used(t.table) /\ t.table[s].pid = k.table[s].pid
    BY <1>8, <1>10, <2>4, <2>5, <2>6 DEF Only, SameAs, Used
  <2>10. q = after_user_demo(t)
    BY <1>3, <1>14, <2>1
  <2> QED
    BY <1>7, <2>5, <2>8, <2>9, <2>10, LaunchEnds DEF q
<1>15. CASE self.parent # 0 /\ parents # {} /\ zombie.table[p].st = "Waiting"
            /\ zombie.table[p].arg = self.pid
  <2>1. PICK d : d = reaped
    OBVIOUS
  <2>2. PICK t : t = PutSlot(z, k.current, NoProc)
    OBVIOUS
  <2>3. PICK rp : rp = [child |-> self.pid, to |-> self.parent, code |-> code]
    OBVIOUS
  <2>4. rp \in Reports /\ rp.child = self.pid /\ rp.code = code
    <3>1. self.parent \in Pids
      <4>1. PICK x \in 0..MaxPid : x = self.parent
        BY <1>2
      <4>2. x # 0
        BY <1>15, <4>1
      <4>3. x \in Pids
        BY <4>2 DEF Pids
      <4> QED
        BY <4>1, <4>3
    <3> QED
      BY <1>2, <2>3, <3>1 DEF Reports
  <2>5. /\ t \in Kernels /\ Only(k.current, z.table, t.table) /\ t.table[k.current] = NoProc
        /\ t.nextPid = z.nextPid /\ t.exitOf = z.exitOf
    <3>1. NoProc \in Proc \cup {NoProc}
      OBVIOUS
    <3> QED
      BY <1>1, <1>7, <2>2, <3>1, Put
  <2>6. d = [t EXCEPT !.report = rp]
    BY <1>4, <2>1, <2>2, <2>3 DEF PutSlot
  <2> HIDE DEF p, reaped
  <2>7. /\ d \in Kernels /\ d.table = t.table /\ d.nextPid = z.nextPid /\ d.exitOf = z.exitOf
        /\ d.report = rp
    BY <2>4, <2>5, <2>6 DEF Kernels
  <2>8. /\ Used(d.table) = Used(z.table) \ {k.current} /\ Numbered(d)
        /\ \A s \in Used(d.table) : Settled(d, s) <=> Settled(z, s)
    BY <1>1, <1>7, <1>8, <2>5, <2>7, Freed
  <2>9. Parked(d)
    BY <1>9, <1>15, <2>8 DEF Parked
  <2>10. p \in Used(d.table) /\ d.table[p].st = "Waiting"
    BY <1>4, <1>8, <1>13, <1>15, <2>5, <2>7, <2>8 DEF Only
  <2>11. q = iretq_to_frame(d, p)
    BY <1>3, <1>15, <2>1
  <2>12. /\ q \in Kernels /\ Sound(q) /\ q.exitOf = d.exitOf /\ q.report = d.report
         /\ \A s \in Slots : q.table[s].pid = d.table[s].pid
    BY <2>7, <2>9, <2>10, <2>11, ResumeParked
  <2>13. \A s \in Used(k.table) \ {k.current} : q.table[s].pid = k.table[s].pid
    BY <1>10, <2>5, <2>7, <2>12 DEF Only, Used
  <2>14. ReportRight(q)
    <3>1. q.exitOf[self.pid] = code
      BY <1>7, <2>7, <2>12 DEF Exiting
    <3>2. \A s \in Slots : q.table[s].pid # self.pid
      <4>1. \A s \in Slots \ {k.current} : k.table[s].pid # self.pid
        <5>1. SUFFICES ASSUME NEW s \in Slots, s # k.current, k.table[s].pid = self.pid PROVE FALSE
          OBVIOUS
        <5>2. s \in Used(k.table)
          <6>1. NoProc.pid = 0 /\ self.pid # 0
            BY <1>2 DEF NoProc, Pids
          <6> QED
            BY <5>1, <6>1 DEF Used
        <5> QED
          BY <1>1, <5>1, <5>2 DEF Exiting, Numbered
      <4>2. \A s \in Slots \ {k.current} : q.table[s].pid = k.table[s].pid
        BY <1>7, <2>5, <2>7, <2>12 DEF Only
      <4>3. q.table[k.current].pid = 0 /\ self.pid # 0
        BY <1>1, <1>2, <2>5, <2>7, <2>12 DEF NoProc, Pids
      <4> QED
        BY <4>1, <4>2, <4>3
    <3> QED
      BY <2>4, <2>7, <2>12, <3>1, <3>2 DEF ReportRight
  <2> QED
    BY <1>7, <2>7, <2>12, <2>13, <2>14 DEF Ended, q
<1> QED
  BY <1>3, <1>11, <1>12, <1>14, <1>15

\* A program in ring3 that is about to exit.
Leaving(k) ==
  /\ Numbered(k) /\ k.report = NoReport
  /\ \A s \in Used(k.table) \ {k.current} : Settled(k, s)
  /\ IF k.ring3 = 0 THEN Used(k.table) = {}
     ELSE /\ k.current \in Used(k.table) /\ k.table[k.current].st = "Running"
          /\ k.table[k.current].pid = k.ring3

LEMMA ExitEnds ==
  ASSUME NEW k \in Kernels, NEW code \in Nat, Leaving(k),
         sys_exit_impl(k, code).nextPid <= MaxPid + 1
  PROVE  LET q == sys_exit_impl(k, code)
         IN  /\ q \in Kernels /\ ReportRight(q)
             /\ \A p \in Pids : k.exitOf[p] # -1 => q.exitOf[p] # -1
             /\ \A r \in Used(k.table) \ {k.current} : q.table[r].pid = k.table[r].pid
             /\ ~q.overflowed => Sound(q)
<1> DEFINE self == k.table[k.current]
           noted == IF k.ring3 = 0 THEN k ELSE [k EXCEPT !.exitOf[k.ring3] = code]
           q == sys_exit_impl(k, code)
<1>1. PICK e : e = noted
  OBVIOUS
<1>2. /\ self = NoProc => q = after_user_demo(e)
      /\ self # NoProc /\ self.tgid # 0 => q = ThreadExit(e)
      /\ self # NoProc /\ self.tgid = 0 => q = ProcessExit(e, code)
  <2>1. /\ self = NoProc => q = after_user_demo(noted)
        /\ self # NoProc /\ self.tgid # 0 => q = ThreadExit(noted)
        /\ self # NoProc /\ self.tgid = 0 => q = ProcessExit(noted, code)
    BY DEF sys_exit_impl
  <2> HIDE DEF noted, q
  <2> QED
    BY <1>1, <2>1
<1> HIDE DEF q
<1>3. CASE k.ring3 = 0
  <2>1. e = k
    BY <1>1, <1>3
  <2>2. Parked(k) /\ self = NoProc
    BY <1>3, KernelFields DEF Leaving, Parked, Used
  <2>3. q = after_user_demo(k)
    BY <1>2, <2>1, <2>2
  <2>4. Ended(k, q)
    BY <2>2, <2>3, LaunchEnds DEF Leaving, q
  <2> QED
    BY <2>4 DEF Ended, q
<1>4. CASE k.ring3 # 0
  <2>1. /\ k.current \in Used(k.table) /\ k.table[k.current].st = "Running"
        /\ self.pid = k.ring3 /\ self # NoProc /\ k.ring3 \in Pids
    <3>1. k.current \in Used(k.table) /\ k.table[k.current].st = "Running" /\ self.pid = k.ring3
      BY <1>4 DEF Leaving
    <3>2. self \in Proc
      BY <3>1, KernelFields, SlotContents
    <3> QED
      BY <3>1, <3>2, ProcFields DEF Used
  <2>2. /\ e \in Kernels /\ e.table = k.table /\ e.nextPid = k.nextPid /\ e.current = k.current
        /\ e.report = k.report /\ e.exitOf = [k.exitOf EXCEPT ![k.ring3] = code]
    <3>1. PICK x : x = [k.exitOf EXCEPT ![k.ring3] = code]
      OBVIOUS
    <3>2. x \in [Pids -> Int]
      BY <2>1, <3>1, KernelFields
    <3>3. e = [k EXCEPT !.exitOf = x]
      BY <1>1, <1>4, <3>1 DEF Kernels
    <3>4. /\ e \in Kernels /\ e.table = k.table /\ e.nextPid = k.nextPid /\ e.current = k.current
          /\ e.report = k.report /\ e.exitOf = x
      BY <3>2, <3>3 DEF Kernels
    <3> QED
      BY <3>1, <3>4
  <2>3. /\ Numbered(e)
        /\ \A r \in Used(k.table) : k.table[r].pid # k.ring3 => (Settled(e, r) <=> Settled(k, r))
    BY <2>1, <2>2, ExitNoted DEF Leaving, Numbered
  <2>4. \A r \in Used(k.table) \ {k.current} : k.table[r].pid # k.ring3
    BY <2>1 DEF Leaving, Numbered
  <2>5. k.exitOf \in [Pids -> Int]
    BY KernelFields
  <2>6. Exiting(e, code)
    <3>1. e.exitOf[self.pid] = code
      BY <2>1, <2>2, <2>5
    <3> QED
      BY <2>1, <2>2, <2>3, <2>4, <3>1 DEF Exiting, Leaving
  <2>7. Ended(e, q)
    BY <1>2, <2>1, <2>2, <2>6, ThreadExitEnds, ProcessExitEnds DEF q
  <2>8. \A p \in Pids : k.exitOf[p] # -1 => e.exitOf[p] # -1
    BY <2>1, <2>2, <2>5
  <2> QED
    BY <2>2, <2>7, <2>8 DEF Ended, q
<1> QED
  BY <1>3, <1>4

---------------------------------------------------------------------------
(* Steps.                                                                   *)

\* The invariant as the operators see it, in a state in which a call is made.
LEMMA KernelShape ==
  ASSUME UPInv, ~overflowed
  PROVE  /\ Kernel \in Kernels /\ Sound(Kernel)
         /\ Kernel.table = table /\ Kernel.current = current /\ Kernel.nextPid = nextPid
         /\ Kernel.word = word /\ Kernel.fsMsr = fsMsr /\ Kernel.ring3 = ring3
         /\ Kernel.overflowed = overflowed /\ Kernel.exitOf = exitOf
         /\ Kernel.report = NoReport
         /\ InUser => ring3 # 0 /\ InRing3(Kernel) /\ current \in Used(table) /\ me \in Proc
<1>1. UPTypeOK
  BY DEF UPInv
<1>2. /\ Kernel \in Kernels
      /\ Kernel.table = table /\ Kernel.current = current /\ Kernel.nextPid = nextPid
      /\ Kernel.word = word /\ Kernel.fsMsr = fsMsr /\ Kernel.ring3 = ring3
      /\ Kernel.overflowed = overflowed /\ Kernel.exitOf = exitOf
      /\ Kernel.report = NoReport
  BY <1>1 DEF UPTypeOK, Kernel, Kernels, Reports
<1>3. Sound(Kernel)
  BY DEF UPInv
<1>4. ASSUME InUser
      PROVE  ring3 # 0 /\ InRing3(Kernel) /\ current \in Used(table) /\ me \in Proc
  <2>1. table \in Tables /\ current \in Slots
    BY <1>1 DEF UPTypeOK, Tables
  <2>2. current \in Used(table) /\ me \in Proc
    BY <1>4, <2>1, SlotContents DEF InUser, Used, me
  <2> QED
    BY <1>2, <1>3, <2>2 DEF Sound
<1> QED
  BY <1>2, <1>3, <1>4

\* What the next state may be.
Follows(q) ==
  /\ q \in Kernels /\ ReportRight(q)
  /\ ~q.overflowed => Sound(q)
  /\ \A p \in Pids : exitOf[p] # -1 => q.exitOf[p] # -1
  /\ \A s \in Used(table) :
       table[s].st = "Zombie" /\ q.table[s].pid # table[s].pid
         => q.report = [child |-> table[s].pid, to |-> table[s].parent, code |-> table[s].arg]

\* The step formula of ExitIsFinal.
FinalStep ==
  ~overflowed' =>
    /\ \A p \in Pids : exitOf[p] # -1 => ring3' # p
    /\ \A s \in Used(table) :
         table[s].st = "Zombie" /\ table'[s].pid # table[s].pid
            => report' = [child |-> table[s].pid, to |-> table[s].parent, code |-> table[s].arg]
    /\ report' # NoReport =>
         /\ exitOf'[report'.child] = report'.code
         /\ \A s \in Slots : table'[s].pid # report'.child

LEMMA Commit ==
  ASSUME NEW q, Follows(q), SetKernel(q)
  PROVE  UPInv' /\ FinalStep
<1>1. /\ table' = q.table /\ current' = q.current /\ nextPid' = q.nextPid
      /\ word' = q.word /\ fsMsr' = q.fsMsr /\ ring3' = q.ring3
      /\ overflowed' = q.overflowed /\ exitOf' = q.exitOf /\ report' = q.report
  BY DEF SetKernel
<1>2. UPTypeOK'
  BY <1>1, KernelFields DEF Follows, UPTypeOK, Tables, Reports
<1>3. ~overflowed' => Sound(Kernel')
  <2>1. PICK k : k = Kernel'
    OBVIOUS
  <2>2. /\ k.table = q.table /\ k.current = q.current /\ k.nextPid = q.nextPid
        /\ k.fsMsr = q.fsMsr /\ k.ring3 = q.ring3 /\ k.exitOf = q.exitOf
    BY <1>1, <2>1 DEF Kernel
  <2>3. Sound(q) => Sound(k)
    BY <2>2 DEF Sound, Numbered, Settled, InRing3
  <2> QED
    BY <1>1, <2>1, <2>3 DEF Follows
<1>4. UPInv'
  BY <1>2, <1>3 DEF UPInv
<1>5. ASSUME ~overflowed', NEW p \in Pids, exitOf[p] # -1
      PROVE  ring3' # p
  <2>1. Sound(q) /\ q.exitOf[p] # -1
    BY <1>1, <1>5 DEF Follows
  <2>2. q.ring3 # 0 => q.exitOf[q.ring3] = -1
    BY <2>1 DEF Sound, InRing3
  <2>3. p # 0
    BY DEF Pids
  <2> QED
    BY <1>1, <2>1, <2>2, <2>3
<1>6. FinalStep
  BY <1>1, <1>5 DEF FinalStep, Follows, ReportRight
<1> QED
  BY <1>4, <1>6

\* The program in ring3 changes and stays.
LEMMA StillRuns ==
  ASSUME NEW k \in Kernels, NEW q \in Kernels, Sound(k), k.ring3 # 0,
         Only(k.current, k.table, q.table), SameAs(k.table[k.current], q.table[k.current]),
         q.table[k.current].st = "Running", Harmless(q.table[k.current].sg),
         q.table[k.current].fs # 0 => q.fsMsr = q.table[k.current].fs,
         q.current = k.current, q.ring3 = k.ring3, q.nextPid = k.nextPid, q.exitOf = k.exitOf
  PROVE  Sound(q)
<1>1. k.current \in Slots
  BY KernelFields
<1>2. /\ Used(q.table) = Used(k.table) /\ k.current \in Used(q.table) /\ Numbered(q)
      /\ \A r \in Used(q.table) \ {k.current} : Settled(q, r) <=> Settled(k, r)
  BY <1>1, Touched DEF Sound
<1>3. InRing3(q)
  BY <1>2 DEF InRing3, Sound, SameAs, Used
<1> QED
  BY <1>2, <1>3 DEF Sound

\* A call that returns ends with a delivery that changes the caller's
\* signals only.
LEMMA DispatchFollows ==
  ASSUME NEW k, Follows(k), Sound(k), k.ring3 # 0, syscall_dispatch(k)
  PROVE  \E q : Follows(q) /\ SetKernel(q)
<1> DEFINE d == deliver_pending_signals(k.table[k.current].sg)
           done == [k EXCEPT !.table[k.current].sg = d.sg]
<1>1. k \in Kernels /\ k.current \in Slots /\ InRing3(k)
  BY KernelFields DEF Follows, Sound
<1>2. k.table[k.current] \in Proc
  BY <1>1, KernelFields, SlotContents DEF InRing3
<1>3. d.dies = FALSE /\ d.sg \in SigState /\ Harmless(d.sg)
  BY <1>1, <1>2, ProcFields, DeliveryHarmless DEF InRing3
<1>4. SetKernel(done)
  <2>1. SetKernel(IF d.dies THEN sys_exit_impl(done, d.code) ELSE done)
    BY DEF syscall_dispatch
  <2> HIDE DEF done, d
  <2>2. (IF d.dies THEN sys_exit_impl(done, d.code) ELSE done) = done
    BY <1>3
  <2> QED
    BY <2>1, <2>2
<1> HIDE DEF d
<1>5. PICK g, x : g = d.sg /\ x = [k.table[k.current] EXCEPT !.sg = g]
  OBVIOUS
<1>6. /\ x \in Proc /\ SameAs(k.table[k.current], x) /\ x.st = k.table[k.current].st
      /\ x.fs = k.table[k.current].fs /\ x.sg = g
  BY <1>2, <1>3, <1>5 DEF Proc, SameAs
<1>7. PICK q : q = done
  OBVIOUS
<1>8. q = PutSlot(k, k.current, x)
  BY <1>5, <1>7 DEF PutSlot
<1>9. /\ q \in Kernels /\ Only(k.current, k.table, q.table) /\ q.table[k.current] = x
      /\ q.current = k.current /\ q.nextPid = k.nextPid /\ q.word = k.word
      /\ q.fsMsr = k.fsMsr /\ q.ring3 = k.ring3 /\ q.overflowed = k.overflowed
      /\ q.exitOf = k.exitOf /\ q.report = k.report
  BY <1>1, <1>6, <1>8, Put
<1>10. Sound(q)
  <2>1. SameAs(k.table[k.current], q.table[k.current])
    BY <1>6, <1>9
  <2>2. /\ k.table[k.current].st = "Running"
        /\ k.table[k.current].fs # 0 => k.fsMsr = k.table[k.current].fs
    BY <1>1 DEF InRing3
  <2>3. /\ q.table[k.current].st = "Running" /\ Harmless(q.table[k.current].sg)
        /\ q.table[k.current].fs # 0 => q.fsMsr = q.table[k.current].fs
    BY <1>3, <1>5, <1>6, <1>9, <2>2
  <2> QED
    BY <1>1, <1>9, <2>1, <2>3, StillRuns
<1>11. \A s \in Slots : q.table[s].pid = k.table[s].pid
  BY <1>6, <1>9 DEF Only, SameAs
<1>12. Follows(q)
  BY <1>9, <1>10, <1>11 DEF Follows, ReportRight, Used
<1> QED
  BY <1>4, <1>7, <1>12

\* A step that reports nothing and leaves every process in its slot.
LEMMA Quiet ==
  ASSUME UPInv, ~overflowed, NEW q \in Kernels, Sound(q), q.exitOf = exitOf,
         q.report = NoReport, \A s \in Used(table) : q.table[s].pid = table[s].pid
  PROVE  Follows(q)
BY DEF Follows, ReportRight

\* A call that changes the caller and returns.
LEMMA CallerChanged ==
  ASSUME UPInv, InUser, NEW x \in Proc, SameAs(me, x), x.st = "Running", Harmless(x.sg),
         NEW f \in Tls \cup {0}, x.fs # 0 => f = x.fs,
         NEW k, k = [PutSlot(Kernel, current, x) EXCEPT !.fsMsr = f], syscall_dispatch(k)
  PROVE  \E q : Follows(q) /\ SetKernel(q)
<1>1. PICK K : K = Kernel
  OBVIOUS
<1>2. /\ K \in Kernels /\ Sound(K) /\ K.ring3 # 0 /\ K.table = table /\ K.current = current
      /\ K.exitOf = exitOf /\ K.report = NoReport /\ current \in Slots
  BY <1>1, KernelShape, KernelFields DEF InUser
<1>3. PICK j : j = PutSlot(K, current, x)
  OBVIOUS
<1>4. /\ j \in Kernels /\ Only(current, K.table, j.table) /\ j.table[current] = x
      /\ j.current = current /\ j.nextPid = K.nextPid /\ j.ring3 = K.ring3
      /\ j.exitOf = exitOf /\ j.report = NoReport
  BY <1>2, <1>3, Put
<1>5. k = [j EXCEPT !.fsMsr = f]
  BY <1>1, <1>3
<1>6. /\ k \in Kernels /\ k.table = j.table /\ k.current = j.current /\ k.nextPid = j.nextPid
      /\ k.ring3 = j.ring3 /\ k.exitOf = j.exitOf /\ k.report = j.report /\ k.fsMsr = f
  BY <1>4, <1>5 DEF Kernels
<1>7. Sound(k)
  <2>1. Only(K.current, K.table, k.table) /\ SameAs(K.table[K.current], k.table[K.current])
    BY <1>2, <1>4, <1>6 DEF me
  <2>2. /\ k.table[K.current].st = "Running" /\ Harmless(k.table[K.current].sg)
        /\ k.table[K.current].fs # 0 => k.fsMsr = k.table[K.current].fs
    BY <1>2, <1>4, <1>6
  <2>3. k.current = K.current /\ k.ring3 = K.ring3 /\ k.nextPid = K.nextPid /\ k.exitOf = K.exitOf
    BY <1>2, <1>4, <1>6
  <2> QED
    BY <1>2, <1>6, <2>1, <2>2, <2>3, StillRuns
<1>8. \A s \in Used(table) : k.table[s].pid = table[s].pid
  BY <1>2, <1>4, <1>6 DEF Only, SameAs, Used, me
<1>9. Follows(k)
  BY <1>4, <1>6, <1>7, <1>8, Quiet DEF InUser
<1> QED
  BY <1>2, <1>4, <1>6, <1>7, <1>9, DispatchFollows

\* The same without a write to FS_BASE.
LEMMA CallerChangedOnly ==
  ASSUME UPInv, InUser, NEW x \in Proc, SameAs(me, x), x.st = "Running", Harmless(x.sg),
         x.fs = me.fs, NEW k, k = PutSlot(Kernel, current, x), syscall_dispatch(k)
  PROVE  \E q : Follows(q) /\ SetKernel(q)
<1>1. PICK K : K = Kernel
  OBVIOUS
<1>2. /\ K \in Kernels /\ K.fsMsr = fsMsr /\ K.table = table /\ K.current = current
      /\ current \in Slots /\ InRing3(K) /\ fsMsr \in Tls \cup {0}
  BY <1>1, KernelShape, KernelFields DEF InUser
<1>3. x.fs # 0 => fsMsr = x.fs
  BY <1>2 DEF InRing3, me
<1>4. k \in Kernels /\ k.fsMsr = fsMsr
  BY <1>1, <1>2, Put
<1>5. k = [k EXCEPT !.fsMsr = fsMsr]
  BY <1>4 DEF Kernels
<1>6. PICK f \in Tls \cup {0} : f = fsMsr
  BY <1>2
<1>7. k = [PutSlot(Kernel, current, x) EXCEPT !.fsMsr = f]
  BY <1>5, <1>6
<1> QED
  BY <1>3, <1>6, <1>7, CallerChanged

\* The caller's record, and what it may become.
LEMMA Caller ==
  ASSUME UPInv, InUser
  PROVE  /\ me \in Proc /\ me.st = "Running" /\ me.sg \in SigState /\ Harmless(me.sg)
         /\ \A g \in SigState : LET x == [me EXCEPT !.sg = g]
                                IN  x \in Proc /\ SameAs(me, x) /\ x.st = "Running"
                                    /\ x.fs = me.fs /\ x.sg = g
         /\ \A a \in Addrs : LET x == [me EXCEPT !.tid = a]
                             IN  x \in Proc /\ SameAs(me, x) /\ x.st = "Running"
                                 /\ x.fs = me.fs /\ x.sg = me.sg
         /\ \A f \in Tls : LET x == [me EXCEPT !.fs = f]
                           IN  x \in Proc /\ SameAs(me, x) /\ x.st = "Running"
                               /\ x.fs = f /\ x.sg = me.sg
<1>1. PICK p : p = me
  OBVIOUS
<1>2. p \in Proc /\ p.st = "Running" /\ Harmless(p.sg)
  BY <1>1, KernelShape DEF InUser, InRing3, me
<1>3. p.sg \in SigState
  BY <1>2, ProcFields
<1>4. \A g \in SigState : LET x == [p EXCEPT !.sg = g]
                          IN  x \in Proc /\ SameAs(p, x) /\ x.st = "Running"
                              /\ x.fs = p.fs /\ x.sg = g
  BY <1>2 DEF Proc, SameAs
<1>5. \A a \in Addrs : LET x == [p EXCEPT !.tid = a]
                       IN  x \in Proc /\ SameAs(p, x) /\ x.st = "Running"
                           /\ x.fs = p.fs /\ x.sg = p.sg
  BY <1>2 DEF Proc, SameAs
<1>6. \A f \in Tls : LET x == [p EXCEPT !.fs = f]
                     IN  x \in Proc /\ SameAs(p, x) /\ x.st = "Running"
                         /\ x.fs = f /\ x.sg = p.sg
  BY <1>2 DEF Proc, SameAs
<1> QED
  BY <1>1, <1>2, <1>3, <1>4, <1>5, <1>6

\* A call that replaces the caller's signals.
LEMMA SignalsChanged ==
  ASSUME UPInv, InUser, NEW g \in SigState, Harmless(g),
         syscall_dispatch([Kernel EXCEPT !.table[current].sg = g])
  PROVE  \E q : Follows(q) /\ SetKernel(q)
<1>1. PICK x : x = [me EXCEPT !.sg = g]
  OBVIOUS
<1>2. x \in Proc /\ SameAs(me, x) /\ x.st = "Running" /\ x.fs = me.fs /\ x.sg = g
  BY <1>1, Caller
<1>3. PICK k : k = [Kernel EXCEPT !.table[current].sg = g]
  OBVIOUS
<1>4. k = PutSlot(Kernel, current, x)
  BY <1>1, <1>3, KernelShape DEF PutSlot, InUser, me
<1> QED
  BY <1>2, <1>3, <1>4, CallerChangedOnly

LEMMA OtherFollows ==
  ASSUME UPInv, InUser, syscall_dispatch(Kernel)
  PROVE  \E q : Follows(q) /\ SetKernel(q)
<1>1. PICK K : K = Kernel
  OBVIOUS
<1>2. /\ K \in Kernels /\ Sound(K) /\ K.ring3 # 0 /\ K.table = table
      /\ K.exitOf = exitOf /\ K.report = NoReport
  BY <1>1, KernelShape DEF InUser
<1>3. Follows(K)
  BY <1>2, Quiet DEF InUser
<1> QED
  BY <1>1, <1>2, <1>3, DispatchFollows

\* The calls that change the caller only.
LEMMA TuningFollows ==
  ASSUME UPInv, Tunes,
         \/ \E a \in Addrs : sys_set_tid_address(a)
         \/ \E tls \in MainTls : sys_arch_prctl(tls)
         \/ \E s \in Sigs, a \in Actions : rt_sigaction(s, a)
         \/ \E how \in {"BLOCK", "UNBLOCK", "SETMASK"}, set \in Masks : rt_sigprocmask(how, set)
  PROVE  \E q : Follows(q) /\ SetKernel(q)
<1>1. InUser
  BY DEF Tunes
<1>2. Kernel \in Kernels /\ Kernel.table = table /\ Kernel.current = current /\ table[current] = me
  BY <1>1, KernelShape DEF InUser, me
<1>3. ASSUME NEW a \in Addrs, sys_set_tid_address(a)
      PROVE  \E q : Follows(q) /\ SetKernel(q)
  <2>1. PICK x : x = [me EXCEPT !.tid = a]
    OBVIOUS
  <2>2. x \in Proc /\ SameAs(me, x) /\ x.st = "Running" /\ x.fs = me.fs /\ Harmless(x.sg)
    BY <1>1, <2>1, Caller
  <2>3. PICK k : k = [Kernel EXCEPT !.table[current].tid = a]
    OBVIOUS
  <2>4. k = PutSlot(Kernel, current, x)
    BY <1>2, <2>1, <2>3 DEF PutSlot
  <2>5. syscall_dispatch(k)
    BY <1>3, <2>3 DEF sys_set_tid_address
  <2> QED
    BY <1>1, <2>2, <2>4, <2>5, CallerChangedOnly
<1>4. ASSUME NEW tls \in MainTls, sys_arch_prctl(tls)
      PROVE  \E q : Follows(q) /\ SetKernel(q)
  <2>0. tls \in Tls /\ tls \in Tls \cup {0}
    BY UserProcAssumption
  <2>1. PICK x : x = [me EXCEPT !.fs = tls]
    OBVIOUS
  <2>2. x \in Proc /\ SameAs(me, x) /\ x.st = "Running" /\ x.fs = tls /\ Harmless(x.sg)
    BY <1>1, <2>0, <2>1, Caller
  <2>3. PICK k : k = [Kernel EXCEPT !.table[current].fs = tls, !.fsMsr = tls]
    OBVIOUS
  <2>4. k = [PutSlot(Kernel, current, x) EXCEPT !.fsMsr = tls]
    BY <1>2, <2>1, <2>3 DEF PutSlot
  <2>5. syscall_dispatch(k)
    BY <1>4, <2>3 DEF sys_arch_prctl
  <2> QED
    BY <1>1, <2>0, <2>2, <2>4, <2>5, CallerChanged
<1>5. ASSUME NEW s \in Sigs, NEW a \in Actions, rt_sigaction(s, a)
      PROVE  \E q : Follows(q) /\ SetKernel(q)
  <2>1. PICK g : g = sys_rt_sigaction(me.sg, s, a)
    OBVIOUS
  <2>2. g \in SigState /\ Harmless(g)
    BY <1>1, <2>1, Caller, SigactionTypes
  <2>3. syscall_dispatch([Kernel EXCEPT !.table[current].sg = g])
    BY <1>2, <1>5, <2>1 DEF rt_sigaction
  <2> QED
    BY <1>1, <2>2, <2>3, SignalsChanged
<1>6. ASSUME NEW how \in {"BLOCK", "UNBLOCK", "SETMASK"}, NEW set \in Masks, rt_sigprocmask(how, set)
      PROVE  \E q : Follows(q) /\ SetKernel(q)
  <2>1. PICK g : g = sys_rt_sigprocmask(me.sg, how, set)
    OBVIOUS
  <2>2. g \in SigState /\ Harmless(g)
    BY <1>1, <2>1, Caller, SigprocmaskTypes
  <2>3. syscall_dispatch([Kernel EXCEPT !.table[current].sg = g])
    BY <1>2, <1>6, <2>1 DEF rt_sigprocmask
  <2> QED
    BY <1>1, <2>2, <2>3, SignalsChanged
<1> QED
  BY <1>3, <1>4, <1>5, <1>6

LEMMA SigreturnFollows ==
  ASSUME UPInv, rt_sigreturn
  PROVE  \E q : Follows(q) /\ SetKernel(q)
<1>1. InUser /\ me.sg.frames # <<>>
  BY DEF rt_sigreturn
<1>2. Kernel \in Kernels /\ Kernel.table = table /\ table[current] = me
  BY <1>1, KernelShape DEF InUser, me
<1>3. PICK g : g = sys_rt_sigreturn(me.sg)
  OBVIOUS
<1>4. g \in SigState /\ Harmless(g)
  BY <1>1, <1>3, Caller, SigreturnTypes
<1>5. syscall_dispatch([Kernel EXCEPT !.table[current].sg = g])
  BY <1>2, <1>3 DEF rt_sigreturn
<1> QED
  BY <1>1, <1>4, <1>5, SignalsChanged

LEMMA WakeFollows ==
  ASSUME UPInv, NEW a \in Addrs, futex_wake(a, 1)
  PROVE  \E q : Follows(q) /\ SetKernel(q)
<1>1. InUser
  BY DEF futex_wake
<1>2. PICK K : K = Kernel
  OBVIOUS
<1>3. /\ K \in Kernels /\ Sound(K) /\ K.ring3 # 0 /\ K.table = table /\ K.current = current
      /\ K.exitOf = exitOf /\ K.report = NoReport /\ InRing3(K) /\ K.table \in Tables
      /\ K.current \in Slots
  BY <1>1, <1>2, KernelShape, KernelFields DEF InUser
<1>4. PICK t : t = futex_wake_impl(K.table, a, 1)
  OBVIOUS
<1>5. WokenTable(K.table, t) /\ t \in Tables
  BY <1>3, <1>4, WakeShape DEF WokenTable
<1>6. PICK k : k = [K EXCEPT !.table = t]
  OBVIOUS
<1>7. /\ k \in Kernels /\ k.table = t /\ k.current = K.current /\ k.nextPid = K.nextPid
      /\ k.ring3 = K.ring3 /\ k.exitOf = K.exitOf /\ k.report = K.report /\ k.fsMsr = K.fsMsr
  BY <1>3, <1>5, <1>6 DEF Kernels, Tables
<1>8. /\ Used(k.table) = Used(K.table) /\ Numbered(k)
      /\ \A r \in Slots : k.table[r].pid = K.table[r].pid
      /\ \A r \in Slots : K.table[r].st # "Blocked" => k.table[r] = K.table[r]
      /\ \A r \in Used(K.table) : Settled(K, r) => Settled(k, r)
  BY <1>3, <1>5, <1>7, Woken DEF Sound
<1>9. InRing3(k)
  BY <1>3, <1>7, <1>8 DEF InRing3
<1>10. Sound(k)
  BY <1>3, <1>7, <1>8, <1>9 DEF Sound
<1>11. Follows(k)
  BY <1>1, <1>3, <1>7, <1>8, <1>10, Quiet DEF InUser, Used
<1>12. syscall_dispatch(k)
  BY <1>2, <1>4, <1>6 DEF futex_wake
<1> QED
  BY <1>3, <1>7, <1>10, <1>11, <1>12, DispatchFollows

\* The caller gives up the processor and waits for its turn.
LEMMA CallerParked ==
  ASSUME UPInv, InUser, NEW x \in Proc, SameAs(me, x), Harmless(x.sg),
         x.st \in {"Ready", "Waiting", "Blocked"}, NEW j, j = PutSlot(Kernel, current, x)
  PROVE  /\ j \in Kernels /\ Parked(j) /\ Used(j.table) = Used(table)
         /\ j.exitOf = exitOf /\ j.report = NoReport /\ j.table[current] = x
         /\ \A s \in Slots \ {current} : j.table[s] = table[s]
         /\ \A s \in Slots : j.table[s].pid = table[s].pid
<1>1. PICK K : K = Kernel
  OBVIOUS
<1>2. /\ K \in Kernels /\ Sound(K) /\ K.ring3 # 0 /\ K.table = table /\ K.current = current
      /\ K.exitOf = exitOf /\ K.report = NoReport /\ current \in Slots /\ InRing3(K)
  BY <1>1, KernelShape, KernelFields DEF InUser
<1>3. /\ j \in Kernels /\ Only(current, K.table, j.table) /\ j.table[current] = x
      /\ j.nextPid = K.nextPid /\ j.exitOf = K.exitOf /\ j.report = NoReport
  BY <1>1, <1>2, Put
<1>4. SameAs(K.table[current], j.table[current])
  BY <1>2, <1>3 DEF me
<1>5. /\ Used(j.table) = Used(K.table) /\ Numbered(j)
      /\ \A r \in Used(j.table) \ {current} : Settled(j, r) <=> Settled(K, r)
  BY <1>2, <1>3, <1>4, Touched DEF Sound
<1>6. Settled(j, current)
  BY <1>2, <1>3, <1>4 DEF Settled, InRing3, SameAs
<1>7. Parked(j)
  BY <1>2, <1>5, <1>6 DEF Parked, Sound
<1> QED
  BY <1>2, <1>3, <1>4, <1>5, <1>7 DEF Only, SameAs

\* Another program is resumed.
LEMMA SwitchFollows ==
  ASSUME UPInv, ~overflowed, NEW j \in Kernels, Parked(j), j.exitOf = exitOf,
         j.report = NoReport, \A s \in Slots : j.table[s].pid = table[s].pid,
         NEW s \in Used(j.table), j.table[s].st \in {"Ready", "Waiting", "Blocked"},
         SetKernel(iretq_to_frame(j, s))
  PROVE  \E q : Follows(q) /\ SetKernel(q)
<1>1. PICK q : q = iretq_to_frame(j, s)
  OBVIOUS
<1>2. /\ q \in Kernels /\ Sound(q) /\ q.exitOf = j.exitOf /\ q.report = j.report
      /\ \A r \in Slots : q.table[r].pid = j.table[r].pid
  BY <1>1, ResumeParked
<1>3. Follows(q)
  BY <1>2, Quiet DEF Used
<1> QED
  BY <1>1, <1>3

LEMMA YieldFollows ==
  ASSUME UPInv, sched_yield_impl
  PROVE  \E q : Follows(q) /\ SetKernel(q)
<1>1. InUser
  BY DEF sched_yield_impl
<1>2. /\ Kernel \in Kernels /\ Kernel.table = table /\ current \in Slots /\ me \in Proc
      /\ table[current] = me /\ Harmless(me.sg) /\ current \in Used(table)
  BY <1>1, KernelShape, KernelFields, Caller DEF InUser, me
<1>3. PICK x : x = [me EXCEPT !.st = "Ready"]
  OBVIOUS
<1>4. x \in Proc /\ SameAs(me, x) /\ x.st = "Ready" /\ x.sg = me.sg
  BY <1>2, <1>3 DEF Proc, SameAs
<1>5. PICK j : j = [Kernel EXCEPT !.table[current].st = "Ready"]
  OBVIOUS
<1>6. j = PutSlot(Kernel, current, x)
  BY <1>2, <1>3, <1>5 DEF PutSlot
<1>7. /\ j \in Kernels /\ Parked(j) /\ Used(j.table) = Used(table)
      /\ j.exitOf = exitOf /\ j.report = NoReport /\ j.table[current] = x
      /\ \A s \in Slots : j.table[s].pid = table[s].pid
  BY <1>1, <1>2, <1>4, <1>6, CallerParked
<1>8. PICK start \in Nat : start = (current % MaxProcs) + 1
  <2>1. ASSUME NEW a \in Nat, NEW m \in Nat \ {0} PROVE (a % m) + 1 \in Nat
    BY <2>1
  <2> QED
    BY <1>2, <2>1, SlotsNat, UserProcAssumption
<1>9. PICK s : s = find_next_ready_from(j.table, start)
  OBVIOUS
<1>10. s \in Used(j.table) /\ j.table[s].st = "Ready"
  <2>1. current \in Ready(j.table)
    BY <1>2, <1>4, <1>7 DEF Ready
  <2>2. s \in Ready(j.table)
    BY <1>9, <2>1, NextReady
  <2> QED
    BY <2>2 DEF Ready
<1>11. SetKernel(iretq_to_frame(j, s))
  BY <1>5, <1>8, <1>9 DEF sched_yield_impl
<1> QED
  BY <1>1, <1>7, <1>10, <1>11, SwitchFollows DEF InUser

LEMMA FutexWaitFollows ==
  ASSUME UPInv, NEW a \in Addrs, NEW v, futex_wait_impl(a, v)
  PROVE  \E q : Follows(q) /\ SetKernel(q)
<1>1. InUser
  BY DEF futex_wait_impl
<1>2. /\ Kernel \in Kernels /\ Kernel.table = table /\ current \in Slots /\ me \in Proc
      /\ table[current] = me /\ Harmless(me.sg) /\ current \in Used(table)
  BY <1>1, KernelShape, KernelFields, Caller DEF InUser, me
<1>3. PICK x : x = [me EXCEPT !.st = "Blocked", !.arg = a]
  OBVIOUS
<1>4. x \in Proc /\ SameAs(me, x) /\ x.st = "Blocked" /\ x.sg = me.sg
  <2>1. a \in Nat
    BY UserProcAssumption
  <2> QED
    BY <1>2, <1>3, <2>1 DEF Proc, SameAs
<1>5. PICK j : j = [Kernel EXCEPT !.table[current].st = "Blocked", !.table[current].arg = a]
  OBVIOUS
<1>6. j = PutSlot(Kernel, current, x)
  BY <1>2, <1>3, <1>5 DEF PutSlot, Kernels
<1>7. /\ j \in Kernels /\ Parked(j) /\ j.exitOf = exitOf /\ j.report = NoReport
      /\ \A s \in Slots : j.table[s].pid = table[s].pid
  BY <1>1, <1>2, <1>4, <1>6, CallerParked
<1>8. \/ Ready(j.table) # {} /\ SetKernel(iretq_to_frame(j, find_next_ready_from(j.table, 1)))
      \/ syscall_dispatch(Kernel)
  BY <1>5 DEF futex_wait_impl
<1>9. CASE Ready(j.table) # {} /\ SetKernel(iretq_to_frame(j, find_next_ready_from(j.table, 1)))
  <2>1. PICK s : s = find_next_ready_from(j.table, 1)
    OBVIOUS
  <2>2. s \in Ready(j.table)
    BY <1>9, <2>1, NextReady
  <2>3. s \in Used(j.table) /\ j.table[s].st = "Ready"
    BY <2>2 DEF Ready
  <2> QED
    BY <1>1, <1>7, <1>9, <2>1, <2>3, SwitchFollows DEF InUser
<1>10. CASE syscall_dispatch(Kernel)
  BY <1>1, <1>10, OtherFollows
<1> QED
  BY <1>8, <1>9, <1>10

\* The program in ring3 exits.
LEMMA ExitFollows ==
  ASSUME UPInv, ~overflowed, NEW k \in Kernels, Leaving(k), NEW code \in Nat,
         k.exitOf = exitOf, k.current = current, k.ring3 = ring3, Used(k.table) = Used(table),
         \A s \in Used(table) : k.table[s].pid = table[s].pid /\ k.table[s].st = table[s].st,
         SetKernel(sys_exit_impl(k, code))
  PROVE  \E q : Follows(q) /\ SetKernel(q)
<1>1. PICK q : q = sys_exit_impl(k, code)
  OBVIOUS
<1>2. q.nextPid <= MaxPid + 1
  BY <1>1 DEF SetKernel
<1>3. /\ q \in Kernels /\ ReportRight(q)
      /\ \A p \in Pids : k.exitOf[p] # -1 => q.exitOf[p] # -1
      /\ \A r \in Used(k.table) \ {k.current} : q.table[r].pid = k.table[r].pid
      /\ ~q.overflowed => Sound(q)
  BY <1>1, <1>2, ExitEnds
<1>4. \A s \in Used(table) : table[s].st = "Zombie" => s # current
  BY DEF Leaving
<1>5. \A s \in Used(table) : table[s].st = "Zombie" => q.table[s].pid = table[s].pid
  BY <1>3, <1>4
<1>6. Follows(q)
  BY <1>3, <1>5 DEF Follows
<1> QED
  BY <1>1, <1>6

LEMMA KernelLeaving ==
  ASSUME UPInv, ~overflowed
  PROVE  Leaving(Kernel)
<1>1. PICK K : K = Kernel
  OBVIOUS
<1>2. K \in Kernels /\ Sound(K) /\ K.report = NoReport
  BY <1>1, KernelShape
<1>3. K.ring3 # 0 => K.current \in Used(K.table)
  BY <1>2, KernelFields DEF Sound, InRing3, Used
<1>4. Leaving(K)
  BY <1>2, <1>3 DEF Leaving, Sound, InRing3
<1> QED
  BY <1>1, <1>4

\* exit, and execve of a program that the kernel started.
LEMMA PlainExitFollows ==
  ASSUME UPInv, ~overflowed, NEW c \in Nat, SetKernel(sys_exit_impl(Kernel, c))
  PROVE  \E q : Follows(q) /\ SetKernel(q)
<1>1. PICK K : K = Kernel
  OBVIOUS
<1>2. /\ K \in Kernels /\ Leaving(K) /\ K.exitOf = exitOf /\ K.current = current
      /\ K.ring3 = ring3 /\ K.table = table
  BY <1>1, KernelShape, KernelLeaving
<1> QED
  BY <1>1, <1>2, ExitFollows

LEMMA FaultFollows ==
  ASSUME UPInv, exception_handler
  PROVE  \E q : Follows(q) /\ SetKernel(q)
<1>1. InUser /\ ~overflowed
  BY DEF exception_handler, InUser
<1>2. PICK K : K = Kernel
  OBVIOUS
<1>3. /\ K \in Kernels /\ Leaving(K) /\ K.exitOf = exitOf /\ K.current = current
      /\ K.ring3 = ring3 /\ K.table = table /\ current \in Slots /\ table[current] = me
      /\ K.ring3 # 0
  BY <1>1, <1>2, KernelShape, KernelLeaving, KernelFields DEF me
<1>4. PICK g : g = raise(me.sg, SIGSEGV)
  OBVIOUS
<1>5. PICK x : x = [me EXCEPT !.sg = g]
  OBVIOUS
<1>6. x \in Proc /\ SameAs(me, x) /\ x.st = "Running" /\ me.st = "Running"
  BY <1>1, <1>4, <1>5, Caller, SignalTypes
<1>7. PICK k : k = [Kernel EXCEPT !.table[current].sg = g]
  OBVIOUS
<1>8. k = PutSlot(K, current, x)
  BY <1>2, <1>3, <1>5, <1>7 DEF PutSlot
<1>9. /\ k \in Kernels /\ Only(current, K.table, k.table) /\ k.table[current] = x
      /\ k.current = K.current /\ k.nextPid = K.nextPid /\ k.ring3 = K.ring3
      /\ k.exitOf = K.exitOf /\ k.report = K.report
  BY <1>3, <1>6, <1>8, Put
<1>10. /\ Used(k.table) = Used(K.table) /\ current \in Used(k.table) /\ Numbered(k)
       /\ \A r \in Used(k.table) \ {current} : Settled(k, r) <=> Settled(K, r)
  BY <1>3, <1>6, <1>9, Touched DEF Leaving
<1>11. Leaving(k)
  BY <1>3, <1>6, <1>9, <1>10 DEF Leaving, SameAs
<1>12. \A s \in Used(table) : k.table[s].pid = table[s].pid /\ k.table[s].st = table[s].st
  BY <1>3, <1>6, <1>9 DEF Only, SameAs, Used
<1>13. PICK c \in Nat : c = 128 + SIGSEGV
  BY DEF SIGSEGV
<1>14. SetKernel(sys_exit_impl(k, c))
  <2>1. k = [Kernel EXCEPT !.table[current].sg = raise(Kernel.table[current].sg, SIGSEGV)]
    BY <1>2, <1>3, <1>4, <1>7
  <2> QED
    BY <1>13, <2>1 DEF exception_handler
<1> QED
  BY <1>1, <1>3, <1>9, <1>10, <1>11, <1>12, <1>13, <1>14, ExitFollows

\* exec_replace: the same process in a new space.
LEMMA ExecFollows ==
  ASSUME UPInv, InUser, exec_replace
  PROVE  \E q : Follows(q) /\ SetKernel(q)
<1>1. PICK K : K = Kernel
  OBVIOUS
<1>2. /\ K \in Kernels /\ Sound(K) /\ K.exitOf = exitOf /\ K.current = current /\ K.word = word
      /\ K.report = NoReport /\ K.ring3 # 0 /\ K.table = table /\ current \in Slots
      /\ table[current] = me /\ InRing3(K)
  BY <1>1, KernelShape, KernelFields DEF me, InUser
<1>3. PICK sp, g : sp = FreshSpace(table) /\ g = ExecSignals(me.sg)
  OBVIOUS
<1>4. sp \in Spaces /\ g \in SigState /\ Harmless(g)
  <2>1. table \in [Slots -> Proc \cup {NoProc}]
    BY DEF UPInv, UPTypeOK
  <2> QED
    BY <1>3, <2>1, FreshSpaceFree, Caller, SignalTypes
<1>5. PICK w : w = [word EXCEPT ![sp] = [a \in Addrs |-> 0]]
  OBVIOUS
<1>6. w \in [Spaces -> [Addrs -> {0, 1}]]
  BY <1>2, <1>4, <1>5, KernelFields
<1>7. PICK x : x = [me EXCEPT !.space = sp, !.sg = g]
  OBVIOUS
<1>8. x \in Proc /\ SameAs(me, x) /\ x.st = "Running" /\ x.sg = g /\ x.fs = me.fs
  <2>1. me \in Proc /\ me.st = "Running"
    BY Caller
  <2> QED
    BY <1>4, <1>7, <2>1 DEF Proc, SameAs
<1>9. PICK j : j = PutSlot(K, current, x)
  OBVIOUS
<1>10. /\ j \in Kernels /\ Only(current, K.table, j.table) /\ j.table[current] = x
       /\ j.nextPid = K.nextPid /\ j.exitOf = K.exitOf /\ j.report = K.report
  BY <1>2, <1>8, <1>9, Put
<1>11. PICK k : k = [j EXCEPT !.word = w]
  OBVIOUS
<1>12. /\ k \in Kernels /\ k.table = j.table /\ k.nextPid = j.nextPid /\ k.exitOf = j.exitOf
       /\ k.report = j.report
  BY <1>6, <1>10, <1>11 DEF Kernels
<1>13. SetKernel(iretq_to_frame(k, current))
  <2>1. [Kernel EXCEPT !.table[current].space = FreshSpace(table),
                       !.table[current].sg = ExecSignals(Kernel.table[current].sg),
                       !.word[FreshSpace(table)] = [a \in Addrs |-> 0]] = k
    <3>1. PICK z : z = [a \in Addrs |-> 0]
      OBVIOUS
    <3>2. [K EXCEPT !.table[current].space = sp, !.table[current].sg = g] = j
      BY <1>2, <1>7, <1>9 DEF PutSlot, Kernels, Tables
    <3>3. j.word = word
      BY <1>2, <1>8, <1>9, Put
    <3>4. [j EXCEPT !.word[sp] = z] = k
      BY <1>5, <1>11, <3>1, <3>3
    <3>5. [K EXCEPT !.table[current].space = sp, !.table[current].sg = g, !.word[sp] = z]
            = [[K EXCEPT !.table[current].space = sp, !.table[current].sg = g] EXCEPT !.word[sp] = z]
      OBVIOUS
    <3> QED
      BY <1>1, <1>2, <1>3, <3>1, <3>2, <3>4, <3>5
  <2> QED
    BY <2>1 DEF exec_replace
<1>14. /\ Used(k.table) = Used(K.table) /\ current \in Used(k.table) /\ Numbered(k)
       /\ \A r \in Used(k.table) \ {current} : Settled(k, r) <=> Settled(K, r)
  BY <1>2, <1>8, <1>10, <1>12, Touched DEF Sound
<1>15. k.exitOf[k.table[current].pid] = -1 /\ Harmless(k.table[current].sg)
  BY <1>2, <1>4, <1>8, <1>10, <1>12 DEF InRing3, SameAs
<1>16. PICK q : q = iretq_to_frame(k, current)
  OBVIOUS
<1>17. Sound(q) /\ Renewed(k, q, current)
  BY <1>2, <1>12, <1>14, <1>15, <1>16, ResumedSound, IretqShape DEF Sound
<1>18. \A s \in Slots : q.table[s].pid = table[s].pid
  BY <1>2, <1>8, <1>10, <1>12, <1>17 DEF Renewed, Only, SameAs
<1>19. Follows(q)
  BY <1>2, <1>10, <1>12, <1>17, <1>18, Quiet DEF Renewed, InUser, Used
<1> QED
  BY <1>13, <1>16, <1>19

LEMMA ExecveFollows ==
  ASSUME UPInv, sys_execve
  PROVE  \E q : Follows(q) /\ SetKernel(q)
<1>1. InUser /\ (exec_replace \/ SetKernel(sys_exit_impl(Kernel, 0)))
  BY DEF sys_execve
<1> QED
  BY <1>1, ExecFollows, PlainExitFollows DEF InUser

\* A child of the caller is in another slot, and either a zombie or waiting
\* for its turn.
LEMMA FoundChild ==
  ASSUME UPInv, InUser, NEW target, NEW c, c = Min(find_child(table, me.pid, target)),
         find_child(table, me.pid, target) # {}
  PROVE  /\ c \in Used(table) /\ c \in Slots /\ c # current /\ table[c] \in Proc
         /\ table[c].parent = me.pid /\ me.pid \in Pids /\ Settled(Kernel, c)
         /\ table[c].st \in {"Ready", "Waiting", "Blocked", "Zombie"}
<1>1. PICK K : K = Kernel
  OBVIOUS
<1>2. /\ K \in Kernels /\ Sound(K) /\ K.current = current /\ K.ring3 # 0 /\ K.table = table
      /\ current \in Used(table) /\ me \in Proc /\ table[current] = me /\ table \in Tables
  BY <1>1, KernelShape, KernelFields DEF me, InUser
<1>3. me.pid \in Pids /\ me.pid \in Nat /\ me.pid # 0
  BY <1>2, ProcFields DEF Pids
<1>4. c \in Used(table) /\ c \in Slots /\ table[c].parent = me.pid
  <2>1. c \in find_child(table, me.pid, target)
    BY LeastSlot DEF find_child, Used
  <2> QED
    BY <2>1 DEF find_child, Used
<1>5. table[c] \in Proc
  BY <1>2, <1>4, SlotContents
<1>6. table[c].pid \in Nat
  BY <1>5, ProcFields DEF Pids
<1>7. c # current
  BY <1>2, <1>3, <1>4, <1>6 DEF Sound, Numbered
<1>8. Settled(K, c)
  BY <1>2, <1>4, <1>7 DEF Sound
<1>9. table[c].st \in {"Ready", "Waiting", "Blocked", "Zombie"}
  BY <1>2, <1>3, <1>4, <1>8 DEF Settled
<1> QED
  BY <1>1, <1>3, <1>4, <1>5, <1>7, <1>8, <1>9

\* wait4 reaps a zombie: its slot goes, its code is reported.
LEMMA ReapFollows ==
  ASSUME UPInv, InUser, NEW target, NEW c, c = Min(find_child(table, me.pid, target)),
         find_child(table, me.pid, target) # {}, table[c].st = "Zombie",
         syscall_dispatch([Kernel EXCEPT !.table[c] = NoProc,
             !.report = [child |-> table[c].pid, to |-> me.pid, code |-> table[c].arg]])
  PROVE  \E q : Follows(q) /\ SetKernel(q)
<1>1. PICK K : K = Kernel
  OBVIOUS
<1>2. /\ K \in Kernels /\ Sound(K) /\ K.current = current /\ K.ring3 # 0 /\ K.table = table
      /\ InRing3(K) /\ K.exitOf = exitOf
  BY <1>1, KernelShape DEF InUser
<1>3. /\ c \in Used(table) /\ c \in Slots /\ c # current /\ table[c] \in Proc
      /\ table[c].parent = me.pid /\ me.pid \in Pids /\ Settled(K, c)
  BY <1>1, FoundChild
<1>4. table[c].pid \in Pids /\ table[c].arg \in Nat /\ table[c].pid # 0
  BY <1>3, ProcFields DEF Pids
<1>5. PICK rp : rp = [child |-> table[c].pid, to |-> me.pid, code |-> table[c].arg]
  OBVIOUS
<1>6. rp \in Reports /\ rp.child = table[c].pid /\ rp.code = table[c].arg
  BY <1>3, <1>4, <1>5 DEF Reports
<1>7. PICK t : t = PutSlot(K, c, NoProc)
  OBVIOUS
<1>8. /\ t \in Kernels /\ Only(c, K.table, t.table) /\ t.table[c] = NoProc
      /\ t.nextPid = K.nextPid /\ t.exitOf = K.exitOf /\ t.current = K.current
      /\ t.ring3 = K.ring3 /\ t.fsMsr = K.fsMsr
  <2>1. NoProc \in Proc \cup {NoProc}
    OBVIOUS
  <2> QED
    BY <1>2, <1>3, <1>7, <2>1, Put
<1>9. PICK k : k = [t EXCEPT !.report = rp]
  OBVIOUS
<1>10. /\ k \in Kernels /\ k.table = t.table /\ k.nextPid = K.nextPid /\ k.exitOf = K.exitOf
       /\ k.current = K.current /\ k.ring3 = K.ring3 /\ k.fsMsr = K.fsMsr /\ k.report = rp
  BY <1>6, <1>8, <1>9 DEF Kernels
<1>11. /\ Used(k.table) = Used(K.table) \ {c} /\ Numbered(k)
       /\ \A r \in Used(k.table) : Settled(k, r) <=> Settled(K, r)
  BY <1>2, <1>3, <1>8, <1>10, Freed DEF Sound
<1>12. InRing3(k)
  <2>1. k.table[k.current] = K.table[K.current] /\ K.current \in Slots
    BY <1>2, <1>3, <1>8, <1>10, KernelFields DEF Only
  <2> QED
    BY <1>2, <1>10, <2>1 DEF InRing3
<1>13. Sound(k)
  BY <1>2, <1>10, <1>11, <1>12 DEF Sound
<1>14. \A s \in Slots \ {c} : k.table[s] = table[s]
  BY <1>2, <1>8, <1>10 DEF Only
<1>15. ReportRight(k)
  <2>1. k.exitOf[table[c].pid] = table[c].arg
    BY <1>2, <1>3, <1>10 DEF Settled
  <2>2. \A s \in Slots : k.table[s].pid # table[c].pid
    <3>1. SUFFICES ASSUME NEW s \in Slots, k.table[s].pid = table[c].pid PROVE FALSE
      OBVIOUS
    <3>2. NoProc.pid = 0
      BY DEF NoProc
    <3>3. s # c /\ s \in Used(table) /\ table[s].pid = table[c].pid
      BY <1>4, <1>8, <1>10, <1>14, <3>1, <3>2 DEF Used
    <3> QED
      BY <1>2, <1>3, <3>3 DEF Sound, Numbered
  <2> QED
    BY <1>6, <1>10, <2>1, <2>2 DEF ReportRight
<1>16. ASSUME NEW s \in Used(table), table[s].st = "Zombie", k.table[s].pid # table[s].pid
       PROVE  k.report = [child |-> table[s].pid, to |-> table[s].parent, code |-> table[s].arg]
  <2>1. s = c
    BY <1>14, <1>16 DEF Used
  <2> QED
    BY <1>3, <1>5, <1>10, <2>1
<1>17. Follows(k)
  BY <1>2, <1>10, <1>13, <1>15, <1>16 DEF Follows
<1>18. syscall_dispatch(k)
  BY <1>1, <1>5, <1>7, <1>9 DEF PutSlot
<1> QED
  BY <1>2, <1>10, <1>13, <1>17, <1>18, DispatchFollows

\* wait4 hands the processor to the child.
LEMMA HandOverFollows ==
  ASSUME UPInv, InUser, NEW target, NEW c, c = Min(find_child(table, me.pid, target)),
         find_child(table, me.pid, target) # {}, table[c].st # "Zombie",
         SetKernel(iretq_to_frame([Kernel EXCEPT !.table[current].st = "Waiting",
                                                 !.table[current].arg = table[c].pid], c))
  PROVE  \E q : Follows(q) /\ SetKernel(q)
<1>1. /\ Kernel \in Kernels /\ Kernel.table = table /\ current \in Slots /\ me \in Proc
      /\ table[current] = me /\ Harmless(me.sg)
  BY KernelShape, KernelFields, Caller DEF InUser, me
<1>2. /\ c \in Used(table) /\ c \in Slots /\ c # current /\ table[c] \in Proc
      /\ table[c].st \in {"Ready", "Waiting", "Blocked"}
  BY FoundChild
<1>3. PICK n : n = table[c].pid
  OBVIOUS
<1>4. n \in Nat
  BY <1>2, <1>3, ProcFields DEF Pids
<1>5. PICK x : x = [me EXCEPT !.st = "Waiting", !.arg = n]
  OBVIOUS
<1>6. x \in Proc /\ SameAs(me, x) /\ x.st = "Waiting" /\ x.sg = me.sg
  BY <1>1, <1>4, <1>5 DEF Proc, SameAs
<1>7. PICK j : j = [Kernel EXCEPT !.table[current].st = "Waiting", !.table[current].arg = n]
  OBVIOUS
<1>8. j = PutSlot(Kernel, current, x)
  BY <1>1, <1>5, <1>7 DEF PutSlot, Kernels
<1>9. /\ j \in Kernels /\ Parked(j) /\ Used(j.table) = Used(table)
      /\ j.exitOf = exitOf /\ j.report = NoReport
      /\ \A s \in Slots \ {current} : j.table[s] = table[s]
      /\ \A s \in Slots : j.table[s].pid = table[s].pid
  BY <1>1, <1>6, <1>8, CallerParked
<1>10. SetKernel(iretq_to_frame(j, c))
  BY <1>3, <1>7
<1> QED
  BY <1>2, <1>9, <1>10, SwitchFollows DEF InUser

LEMMA WaitFollows ==
  ASSUME UPInv, NEW target, NEW h, wait4_impl(target, h)
  PROVE  \E q : Follows(q) /\ SetKernel(q)
<1> DEFINE found == find_child(table, me.pid, target)
<1>1. PICK c : c = Min(found)
  OBVIOUS
<1>2. /\ InUser
      /\ \/ syscall_dispatch(Kernel)
         \/ /\ found # {} /\ table[c].st = "Zombie"
            /\ syscall_dispatch([Kernel EXCEPT !.table[c] = NoProc,
                  !.report = [child |-> table[c].pid, to |-> me.pid, code |-> table[c].arg]])
         \/ /\ found # {} /\ table[c].st # "Zombie"
            /\ SetKernel(iretq_to_frame([Kernel EXCEPT !.table[current].st = "Waiting",
                                                       !.table[current].arg = table[c].pid], c))
  BY <1>1 DEF wait4_impl
<1> QED
  BY <1>1, <1>2, OtherFollows, ReapFollows, HandOverFollows

\* A call that returns fits the bound on process ids.
LEMMA DispatchPid ==
  ASSUME NEW k, k.table[k.current].sg \in SigState, Harmless(k.table[k.current].sg),
         "nextPid" \in DOMAIN k, syscall_dispatch(k)
  PROVE  k.nextPid <= MaxPid + 1
<1> DEFINE d == deliver_pending_signals(k.table[k.current].sg)
           done == [k EXCEPT !.table[k.current].sg = d.sg]
<1>1. d.dies = FALSE
  BY DeliveryHarmless
<1>2. SetKernel(IF d.dies THEN sys_exit_impl(done, d.code) ELSE done)
  BY DEF syscall_dispatch
<1>3. done.nextPid = k.nextPid
  OBVIOUS
<1> HIDE DEF done, d
<1>4. SetKernel(done)
  <2>1. (IF d.dies THEN sys_exit_impl(done, d.code) ELSE done) = done
    BY <1>1
  <2> QED
    BY <1>2, <2>1
<1> QED
  BY <1>3, <1>4 DEF SetKernel

\* What fork and clone start.
Child(c) ==
  /\ c \in Proc /\ c.pid = nextPid /\ c.parent = me.pid /\ c.st = "Ready" /\ Harmless(c.sg)

LEMMA AddChildFollows ==
  ASSUME UPInv, InUser, NEW c, NEW w \in [Spaces -> [Addrs -> {0, 1}]], AddChild(c, w),
         nextPid <= MaxPid => Child(c)
  PROVE  \E q : Follows(q) /\ SetKernel(q)
<1>1. PICK K : K = Kernel
  OBVIOUS
<1>2. /\ K \in Kernels /\ Sound(K) /\ K.current = current /\ K.ring3 # 0 /\ K.table = table
      /\ InRing3(K) /\ K.exitOf = exitOf /\ K.report = NoReport /\ K.nextPid = nextPid
      /\ current \in Slots /\ table \in Tables /\ current \in Used(table) /\ table[current] = me
      /\ nextPid \in Nat
  BY <1>1, KernelShape, KernelFields DEF InUser, me
<1>3. PICK n : n = nextPid + 1
  OBVIOUS
<1>4. PICK k : k = [K EXCEPT !.nextPid = n, !.word = w]
  OBVIOUS
<1>5. /\ DOMAIN k = DOMAIN K /\ k.nextPid = n /\ k.table = table /\ k.current = current
      /\ "nextPid" \in DOMAIN k /\ "table" \in DOMAIN k /\ "current" \in DOMAIN k
  BY <1>2, <1>4 DEF Kernels
<1>6. \/ /\ FreeSlots(table) = {}
         /\ syscall_dispatch([k EXCEPT !.overflowed = TRUE])
      \/ /\ FreeSlots(table) # {}
         /\ syscall_dispatch([k EXCEPT !.table[Min(FreeSlots(table))] = c])
  <2>1. k = [Kernel EXCEPT !.nextPid = Kernel.nextPid + 1, !.word = w]
    BY <1>1, <1>2, <1>3, <1>4
  <2> QED
    BY <2>1 DEF AddChild
<1>7. me.sg \in SigState /\ Harmless(me.sg)
  BY Caller
<1>8. CASE FreeSlots(table) = {} /\ syscall_dispatch([k EXCEPT !.overflowed = TRUE])
  <2>1. PICK j : j = [k EXCEPT !.overflowed = TRUE]
    OBVIOUS
  <2>2. j.table = table /\ j.current = current /\ j.nextPid = n /\ "nextPid" \in DOMAIN j
    BY <1>5, <2>1
  <2>3. n <= MaxPid + 1
    BY <1>2, <1>7, <1>8, <2>1, <2>2, DispatchPid
  <2>4. n \in 1..(MaxPid + 1) /\ n >= nextPid
    BY <1>2, <1>3, <2>3, UserProcAssumption
  <2>5. /\ j \in Kernels /\ j.ring3 = K.ring3 /\ j.fsMsr = K.fsMsr /\ j.exitOf = exitOf
        /\ j.report = NoReport
    BY <1>2, <1>4, <2>1, <2>4 DEF Kernels
  <2>6. Numbered(j)
    <3>1. \A s \in Used(table) : table[s].pid \in Nat
      BY <1>2, SlotContents, ProcFields DEF Used, Pids
    <3>2. Pids \subseteq Nat
      BY DEF Pids
    <3> QED
      BY <1>2, <2>2, <2>4, <2>5, <3>1, <3>2 DEF Sound, Numbered
  <2>7. Sound(j)
    <3>1. \A s \in Used(table) \ {current} : Settled(j, s)
      BY <1>2, <2>2, <2>5 DEF Sound, Settled
    <3>2. InRing3(j)
      BY <1>2, <2>2, <2>5 DEF InRing3
    <3> QED
      BY <1>2, <2>2, <2>5, <2>6, <3>1, <3>2 DEF Sound
  <2>8. Follows(j)
    BY <2>2, <2>5, <2>7, Quiet DEF InUser
  <2> QED
    BY <1>2, <1>8, <2>1, <2>5, <2>7, <2>8, DispatchFollows
<1>9. CASE FreeSlots(table) # {} /\ syscall_dispatch([k EXCEPT !.table[Min(FreeSlots(table))] = c])
  <2>1. PICK s : s = Min(FreeSlots(table))
    OBVIOUS
  <2>2. s \in Slots /\ table[s] = NoProc /\ s # current
    <3>1. s \in FreeSlots(table)
      BY <1>9, <2>1, LeastSlot DEF FreeSlots
    <3> QED
      BY <1>2, <3>1 DEF FreeSlots, Used
  <2>3. PICK j : j = [k EXCEPT !.table[s] = c]
    OBVIOUS
  <2>4. /\ j.table = [table EXCEPT ![s] = c] /\ j.current = current /\ j.nextPid = n
        /\ "nextPid" \in DOMAIN j
    BY <1>5, <2>3
  <2>5. j.table[current] = me
    BY <1>2, <2>2, <2>4 DEF Tables
  <2>6. n <= MaxPid + 1
    BY <1>7, <1>9, <2>1, <2>3, <2>4, <2>5, DispatchPid
  <2>7. n \in 1..(MaxPid + 1) /\ nextPid <= MaxPid
    BY <1>2, <1>3, <2>6, UserProcAssumption
  <2>8. Child(c)
    BY <2>7
  <2>9. k \in Kernels /\ k.exitOf = K.exitOf /\ k.report = K.report /\ k.ring3 = K.ring3
        /\ k.fsMsr = K.fsMsr
    BY <1>2, <1>4, <2>7 DEF Kernels
  <2>10. /\ j \in Kernels /\ Only(s, k.table, j.table) /\ j.table[s] = c
         /\ j.ring3 = K.ring3 /\ j.fsMsr = K.fsMsr /\ j.exitOf = K.exitOf
         /\ j.report = NoReport
    <3>1. j = PutSlot(k, s, c)
      BY <2>3 DEF PutSlot
    <3> QED
      BY <1>2, <2>2, <2>8, <2>9, <3>1, Put DEF Child
  <2>11. /\ Used(j.table) = Used(K.table) \cup {s} /\ Numbered(j) /\ j.exitOf[j.table[s].pid] = -1
         /\ \A r \in Used(K.table) : r # s /\ (Settled(j, r) <=> Settled(K, r))
    <3>1. Only(s, K.table, j.table) /\ K.table[s] = NoProc /\ j.table[s] \in Proc
      BY <1>2, <1>5, <2>2, <2>8, <2>10 DEF Child
    <3>2. j.table[s].pid = K.nextPid /\ j.nextPid = K.nextPid + 1
      BY <1>2, <1>3, <2>4, <2>8, <2>10 DEF Child
    <3>3. j.table[s].parent < K.nextPid
      BY <1>2, <2>8, <2>10 DEF Child, Sound, Numbered
    <3> QED
      BY <1>2, <2>2, <2>10, <3>1, <3>2, <3>3, Added DEF Sound
  <2>12. Settled(j, s)
    BY <2>8, <2>10, <2>11 DEF Settled, Child
  <2>13. InRing3(j)
    BY <1>2, <2>4, <2>5, <2>10 DEF InRing3
  <2>14. Sound(j)
    BY <1>2, <2>4, <2>10, <2>11, <2>12, <2>13 DEF Sound
  <2>15. \A r \in Used(table) : j.table[r].pid = table[r].pid
    BY <1>2, <1>5, <2>10, <2>11 DEF Only, Used
  <2>16. Follows(j)
    BY <1>2, <2>10, <2>14, <2>15, Quiet DEF InUser
  <2> QED
    BY <1>2, <1>9, <2>1, <2>3, <2>10, <2>14, <2>16, DispatchFollows
<1> QED
  BY <1>6, <1>8, <1>9

LEMMA ForkFollows ==
  ASSUME UPInv, fork_current
  PROVE  \E q : Follows(q) /\ SetKernel(q)
<1>1. InUser
  BY DEF fork_current
<1>2. UPTypeOK /\ me \in Proc
  BY <1>1, Caller DEF UPInv
<1>3. PICK sp, g : sp = FreshSpace(table) /\ g = ForkSignals(me.sg)
  OBVIOUS
<1>4. sp \in Spaces /\ g \in SigState /\ Harmless(g)
  BY <1>2, <1>3, FreshSpaceFree, ProcFields, SignalTypes DEF UPTypeOK
<1>5. PICK w : w = [word EXCEPT ![sp] = word[me.space]]
  OBVIOUS
<1>6. w \in [Spaces -> [Addrs -> {0, 1}]]
  BY <1>2, <1>4, <1>5, ProcFields DEF UPTypeOK
<1>7. PICK c : c = [pid |-> nextPid, parent |-> me.pid, st |-> "Ready", arg |-> 0,
                    space |-> sp, fs |-> 0, tgid |-> 0, tid |-> 0, sg |-> g]
  OBVIOUS
<1>8. nextPid <= MaxPid => Child(c)
  <2>1. SUFFICES ASSUME nextPid <= MaxPid PROVE Child(c)
    OBVIOUS
  <2>2. nextPid \in Pids /\ me.pid \in 0..MaxPid /\ 0 \in 0..MaxPid
    BY <1>2, <2>1, ProcFields, UserProcAssumption DEF UPTypeOK, Pids
  <2>3. c \in Proc
    BY <1>4, <1>7, <2>2 DEF Proc
  <2> QED
    BY <1>4, <1>7, <2>3 DEF Child
<1>9. AddChild(c, w)
  BY <1>3, <1>5, <1>7 DEF fork_current
<1> QED
  BY <1>1, <1>6, <1>8, <1>9, AddChildFollows

LEMMA CloneFollows ==
  ASSUME UPInv, NEW f \in CloneFlags, NEW a \in Addrs, clone_thread(f, a)
  PROVE  \E q : Follows(q) /\ SetKernel(q)
<1>1. InUser
  BY DEF clone_thread
<1>2. UPTypeOK /\ me \in Proc
  BY <1>1, Caller DEF UPInv
<1>3. /\ me.space \in Spaces /\ me.fs \in Tls \cup {0} /\ me.tgid \in 0..MaxPid /\ me.pid \in Pids
      /\ me.sg \in SigState
  BY <1>2, ProcFields
<1>4. PICK v : v = IF f.childSettid THEN [word EXCEPT ![me.space][a] = 1] ELSE word
  OBVIOUS
<1>5. v \in [Spaces -> [Addrs -> {0, 1}]]
  BY <1>2, <1>3, <1>4 DEF UPTypeOK
<1>6. PICK sp, g, fs, tg, td :
        /\ sp = (IF f.vm THEN me.space ELSE FreshSpace(table)) /\ g = CloneSignals(me.sg)
        /\ fs = (IF f.tls # 0 THEN f.tls ELSE me.fs)
        /\ tg = (IF f.thread THEN IF me.tgid # 0 THEN me.tgid ELSE me.pid ELSE 0)
        /\ td = (IF f.childSettid \/ f.childCleartid THEN a ELSE 0)
  OBVIOUS
<1>7. sp \in Spaces /\ g \in SigState /\ Harmless(g)
  BY <1>2, <1>3, <1>6, FreshSpaceFree, SignalTypes DEF UPTypeOK
<1>8. f.tls \in Tls \cup {0}
  BY UserProcAssumption
<1>9. fs \in Tls \cup {0} /\ tg \in 0..MaxPid /\ td \in Addrs \cup {0} /\ me.pid \in 0..MaxPid
  BY <1>3, <1>6, <1>8, UserProcAssumption DEF Pids
<1>10. PICK w : w = [v EXCEPT ![sp] = v[me.space]]
  OBVIOUS
<1>11. w \in [Spaces -> [Addrs -> {0, 1}]]
  BY <1>3, <1>5, <1>7, <1>10
<1>12. PICK c : c = [pid |-> nextPid, parent |-> me.pid, st |-> "Ready", arg |-> 0,
                     space |-> sp, fs |-> fs, tgid |-> tg, tid |-> td, sg |-> g]
  OBVIOUS
<1>13. nextPid <= MaxPid => Child(c)
  <2>1. SUFFICES ASSUME nextPid <= MaxPid PROVE Child(c)
    OBVIOUS
  <2>2. nextPid \in Pids
    BY <1>2, <2>1 DEF UPTypeOK, Pids
  <2>3. c \in Proc
    BY <1>7, <1>9, <1>12, <2>2 DEF Proc
  <2> QED
    BY <1>7, <1>12, <2>3 DEF Child
<1>14. AddChild(c, w)
  BY <1>4, <1>6, <1>10, <1>12 DEF clone_thread
<1> QED
  BY <1>1, <1>11, <1>13, <1>14, AddChildFollows

---------------------------------------------------------------------------
(* Theorems.                                                                *)

LEMMA UPInitInv == UPInit => UPInv
<1> SUFFICES ASSUME UPInit PROVE UPInv
  OBVIOUS
<1>1. UPTypeOK
  <2>1. table \in [Slots -> Proc \cup {NoProc}] /\ current \in Slots
    BY SlotsNat DEF UPInit
  <2>2. nextPid \in 1..(MaxPid + 1) /\ ring3 \in 0..MaxPid
    BY UserProcAssumption DEF UPInit
  <2>3. word \in [Spaces -> [Addrs -> {0, 1}]] /\ fsMsr \in Tls \cup {0}
    BY DEF UPInit
  <2>4. overflowed \in BOOLEAN /\ exitOf \in [Pids -> Int]
    <3>1. overflowed = FALSE /\ exitOf = [p \in Pids |-> -1]
      BY DEF UPInit
    <3>2. -1 \in Int
      OBVIOUS
    <3> QED
      BY <3>1, <3>2
  <2>5. report \in {NoReport} \cup [child : Pids, to : Pids, code : Nat]
    BY DEF UPInit
  <2> QED
    BY <2>1, <2>2, <2>3, <2>4, <2>5 DEF UPTypeOK
<1>2. Kernel.table = table /\ Kernel.ring3 = 0 /\ Kernel.exitOf = exitOf
  BY DEF Kernel, UPInit
<1>3. Used(table) = {}
  BY DEF Used, UPInit
<1>4. Sound(Kernel)
  BY <1>2, <1>3 DEF Sound, Numbered, UPInit
<1> QED
  BY <1>1, <1>4 DEF UPInv

\* Every step keeps the invariant and leaves exits alone, one case per call.
LEMMA UPStep ==
  ASSUME UPInv, [UPNext]_upVars
  PROVE  UPInv' /\ (FinalStep \/ UNCHANGED upVars)
<1>1. CASE UNCHANGED upVars
  BY <1>1 DEF UPInv, UPTypeOK, Kernel, upVars
<1>2. ASSUME UPNext, ~UNCHANGED upVars
      PROVE  \E q : Follows(q) /\ SetKernel(q)
  <2>1. CASE fork_current
    BY <2>1, ForkFollows
  <2>2. CASE \E f \in CloneFlags, a \in Addrs : clone_thread(f, a)
    BY <2>2, CloneFollows
  <2>3. CASE \E target \in {-1} \cup Pids, h \in BOOLEAN : wait4_impl(target, h)
    BY <2>3, WaitFollows
  <2>4. CASE \E c \in Codes : exit(c)
    <3>1. PICK c \in Codes : ~overflowed /\ SetKernel(sys_exit_impl(Kernel, c))
      BY <2>4 DEF exit
    <3>2. c \in Nat
      BY UserProcAssumption
    <3> QED
      BY <3>1, <3>2, PlainExitFollows
  <2>5. CASE exception_handler
    BY <2>5, FaultFollows
  <2>6. CASE sys_execve
    BY <2>6, ExecveFollows
  <2>7. CASE sched_yield_impl
    BY <2>7, YieldFollows
  <2>8. CASE \E a \in Addrs, v \in {0, 1} : futex_wait_impl(a, v)
    BY <2>8, FutexWaitFollows
  <2>9. CASE \E a \in Addrs : futex_wake(a, 1)
    BY <2>9, WakeFollows
  <2>10. CASE \/ \E a \in Addrs : sys_set_tid_address(a)
              \/ \E tls \in MainTls : sys_arch_prctl(tls)
              \/ \E s \in Sigs, a \in Actions : rt_sigaction(s, a)
              \/ \E how \in {"BLOCK", "UNBLOCK", "SETMASK"}, set \in Masks :
                    rt_sigprocmask(how, set)
    <3>1. Tunes
      BY <2>10 DEF sys_set_tid_address, sys_arch_prctl, rt_sigaction, rt_sigprocmask
    <3> QED
      BY <2>10, <3>1, TuningFollows
  <2>11. CASE rt_sigreturn
    BY <2>11, SigreturnFollows
  <2>12. CASE other_syscall
    <3>1. InUser /\ syscall_dispatch(Kernel)
      BY <1>2, <2>12 DEF other_syscall
    <3> QED
      BY <3>1, OtherFollows
  <2> QED
    BY <1>2, <2>1, <2>2, <2>3, <2>4, <2>5, <2>6, <2>7, <2>8, <2>9, <2>10, <2>11, <2>12 DEF UPNext
<1>3. CASE UPNext /\ ~UNCHANGED upVars
  BY <1>2, <1>3, Commit
<1> QED
  BY <1>1, <1>3

LEMMA UPInvariant == UPSpec => []UPInv
<1>1. UPInv /\ [UPNext]_upVars => UPInv'
  BY UPStep
<1> QED
  BY <1>1, UPInitInv, PTL DEF UPSpec

\* The state of the processes keeps its shape: no call writes outside the
\* table, and a program that needs an address space finds a fresh one.
THEOREM ProcessesTyped == UPSpec => []UPTypeOK
<1>1. UPInv => UPTypeOK
  BY DEF UPInv
<1> QED
  BY <1>1, UPInvariant, PTL

\* Whoever runs runs as itself: the code in ring 3 is that of the slot
\* CURRENT_UPROC names, with the thread pointer that slot records if it records
\* one (a forked child's does not), whichever of fork, clone, wait4, yield,
\* futex, exit and execve got it there.
THEOREM ProgramsRunAsThemselves == UPSpec => []RunsAsItself
<1>1. ASSUME UPInv PROVE RunsAsItself
  <2>1. SUFFICES ASSUME ~overflowed PROVE RunsAsItself
    BY DEF RunsAsItself, RunsWhoIsCurrent, ThreadPointerOwn
  <2>2. PICK K : K = Kernel
    OBVIOUS
  <2>3. /\ K \in Kernels /\ Sound(K) /\ K.table = table /\ K.current = current
        /\ K.fsMsr = fsMsr /\ K.ring3 = ring3 /\ K.exitOf = exitOf
    BY <1>1, <2>1, <2>2, KernelShape
  <2>4. ASSUME ring3 # 0
        PROVE  /\ InUser /\ me.pid = ring3 /\ me.st = "Running"
               /\ \A s \in Used(table) \ {current} :
                    table[s].st = "Running" => table[s].parent = 0 /\ exitOf[table[s].pid] # -1
    BY <2>1, <2>3, <2>4 DEF Sound, InRing3, Settled, InUser, me
  <2>5. ASSUME InUser, me.fs # 0
        PROVE  fsMsr = me.fs
    BY <1>1, <2>1, <2>2, <2>3, <2>5, KernelShape DEF InRing3, me
  <2> QED
    BY <2>4, <2>5 DEF RunsAsItself, RunsWhoIsCurrent, ThreadPointerOwn
<1> QED
  BY <1>1, UPInvariant, PTL

\* An exit is final and is reported once: a process that has exited is never
\* resumed, and its slot goes to its own parent with the code it left.
THEOREM ExitsAreFinal == UPSpec => ExitIsFinal
<1>1. UPInv /\ [UPNext]_upVars => [FinalStep]_upVars
  BY UPStep
<1>2. [][FinalStep]_upVars => ExitIsFinal
  BY PTL DEF FinalStep, ExitIsFinal
<1> QED
  BY <1>1, <1>2, UPInvariant, PTL DEF UPSpec

----------------------------------------------------------------------------
(* Files: the tree stays sound and calls keep to what they are about.       *)

\* Induction up to n, over the set of the numbers a statement holds of.
LEMMA UpTo ==
  ASSUME NEW n \in Nat, NEW S, 0 \in S, \A i \in 0..(n - 1) : i \in S => i + 1 \in S
  PROVE  0..n \subseteq S
<1> DEFINE Bad == {i \in 0..n : i \notin S}
<1>1. SUFFICES ASSUME Bad # {} PROVE FALSE
  OBVIOUS
<1>2. IsWellFoundedOn(OpToRel(<, Nat), Nat)
  BY NatLessThanWellFounded
<1>3. Bad \in SUBSET Nat
  OBVIOUS
<1>4. PICK x \in Bad : \A y \in Bad : ~(<<y, x>> \in OpToRel(<, Nat))
  BY <1>1, <1>2, <1>3, WFMin
<1>5. x \in 0..n /\ x \notin S
  OBVIOUS
<1>6. \A y \in Bad : ~(y < x)
  BY <1>3, <1>4, <1>5 DEF OpToRel
<1>7. x - 1 \in 0..(n - 1) /\ x - 1 \notin Bad /\ (x - 1) + 1 = x
  BY <1>5, <1>6
<1>8. x - 1 \in S
  BY <1>7
<1> QED
  BY <1>5, <1>7, <1>8

\* F says what each of the n rounds of a loop makes of a value in D, and f
\* is what the loop has after each round when it starts from b.
LoopOver(n, D, F) == F \in [1..n -> [D -> D]]
LoopRun(n, D, F, b, f) ==
  f \in [0..n -> D] /\ f[0] = b /\ \A i \in 1..n : f[i] = F[i][f[i - 1]]

\* Every such loop has a run.
LEMMA LoopRuns ==
  ASSUME NEW n \in Nat, NEW D, NEW b \in D, NEW F, LoopOver(n, D, F)
  PROVE  \E f : LoopRun(n, D, F, b, f)
<1>0. F \in [1..n -> [D -> D]]
  BY DEF LoopOver
<1> DEFINE Run(k, f) == f \in [0..k -> D] /\ f[0] = b /\ \A i \in 1..k : f[i] = F[i][f[i - 1]]
           S == {k \in 0..n : \E f : Run(k, f)}
<1>1. 0 \in S
  <2> DEFINE f == [i \in 0..0 |-> b]
  <2>1. f \in [0..0 -> D] /\ f[0] = b /\ \A i \in 1..0 : f[i] = F[i][f[i - 1]]
    OBVIOUS
  <2> HIDE DEF f
  <2>2. Run(0, f)
    BY <2>1
  <2> QED
    BY <2>2
<1>2. ASSUME NEW k \in 0..(n - 1), k \in S PROVE k + 1 \in S
  <2>1. PICK f : Run(k, f)
    BY <1>2
  <2> DEFINE g == [i \in 0..(k + 1) |-> IF i = k + 1 THEN F[k + 1][f[k]] ELSE f[i]]
  <2>2. f \in [0..k -> D] /\ f[0] = b /\ (\A i \in 1..k : f[i] = F[i][f[i - 1]]) /\ f[k] \in D
    BY <2>1
  <2>3. k + 1 \in 1..n /\ F[k + 1] \in [D -> D] /\ F[k + 1][f[k]] \in D
    BY <1>0, <2>2
  <2>4. (\A i \in 0..k : g[i] = f[i]) /\ g[k + 1] = F[k + 1][f[k]]
    OBVIOUS
  <2>5. \A i \in 0..(k + 1) : g[i] \in D
    BY <2>2, <2>3, <2>4
  <2>6. g \in [0..(k + 1) -> D]
    BY <2>5
  <2> HIDE DEF g
  <2>7. \A i \in 1..(k + 1) : g[i] = F[i][g[i - 1]]
    <3> SUFFICES ASSUME NEW i \in 1..(k + 1) PROVE g[i] = F[i][g[i - 1]]
      OBVIOUS
    <3>1. i - 1 \in 0..k /\ g[i - 1] = f[i - 1]
      BY <2>4
    <3>2. CASE i = k + 1
      BY <2>4, <3>1, <3>2
    <3>3. CASE i # k + 1
      <4>1. i \in 1..k /\ i \in 0..k
        BY <3>3
      <4> QED
        BY <2>2, <2>4, <3>1, <4>1
    <3> QED
      BY <3>2, <3>3
  <2>8. g[0] = b
    BY <2>2, <2>4
  <2>9. Run(k + 1, g)
    BY <2>6, <2>7, <2>8
  <2> QED
    BY <2>9
<1> HIDE DEF S
<1>3. 0..n \subseteq S
  BY <1>1, <1>2, UpTo
<1>4. n \in S
  BY <1>3
<1> QED
  BY <1>4 DEF S, LoopRun

\* What every round preserves holds after each.
LEMMA LoopKeeps ==
  ASSUME NEW n \in Nat, NEW D, NEW F, LoopOver(n, D, F), NEW f, f[0] \in D,
         \A k \in 1..n : f[k - 1] \in D => f[k] = F[k][f[k - 1]]
  PROVE  \A k \in 0..n : f[k] \in D
<1> DEFINE S == {k \in 0..n : f[k] \in D}
<1>1. 0 \in S
  OBVIOUS
<1>2. ASSUME NEW k \in 0..(n - 1), k \in S PROVE k + 1 \in S
  <2>1. PICK m \in 1..n : m = k + 1 /\ m - 1 = k /\ m \in 0..n
    OBVIOUS
  <2>2. f[m] = F[m][f[k]] /\ f[k] \in D
    BY <1>2, <2>1
  <2>3. f[m] \in D
    BY <2>2 DEF LoopOver
  <2> QED
    BY <2>1, <2>3
<1> HIDE DEF S
<1>3. 0..n \subseteq S
  BY <1>1, <1>2, UpTo
<1> QED
  BY <1>3 DEF S

\* The values of a node and of the tree.
DirNodes == [kind : {"dir"}, kids : [Names -> Ids \cup {None}]]
FileNodes == [kind : {"file"}, data : Content, nlink : Nat]
TreeNodes == {Free} \cup DirNodes \cup FileNodes
Trees == [Ids -> TreeNodes]
Walks == Seq(Names)

\* The kind of a node says which record it is.
LEMMA NodeFacts ==
  ASSUME NEW x \in TreeNodes
  PROVE  /\ x.kind = "dir" <=> x \in DirNodes
         /\ x.kind = "file" <=> x \in FileNodes
         /\ x = Free <=> x.kind = "free"
         /\ x.kind \in {"dir", "file", "free"}
         /\ x.kind = "dir" => x.kids \in [Names -> Ids \cup {None}]
         /\ x.kind = "file" => x.data \in Content /\ x.nlink \in Nat
<1>1. Free.kind = "free"
  BY DEF Free
<1>2. \A y \in DirNodes : y.kind = "dir" /\ y.kids \in [Names -> Ids \cup {None}]
  BY DEF DirNodes
<1>3. \A y \in FileNodes : y.kind = "file" /\ y.data \in Content /\ y.nlink \in Nat
  BY DEF FileNodes
<1> HIDE DEF Free, DirNodes, FileNodes
<1> QED
  BY <1>1, <1>2, <1>3 DEF TreeNodes

\* The numbers of nodes: finitely many, and the root is one of them.
LEMMA IdFacts == /\ None \notin Ids /\ Root \in Ids /\ Root # None /\ IsFiniteSet(Ids)
                 /\ Cardinality(Ids) = MaxNodes /\ MaxNodes \in Nat /\ Ids \in SUBSET Nat
<1>1. MaxNodes \in Nat \ {0}
  BY VfsAssumption
<1>2. IsFiniteSet(Ids) /\ Cardinality(Ids) = MaxNodes
  <2>1. PICK n \in Nat : n = MaxNodes
    BY <1>1
  <2>2. IsFiniteSet(1..n) /\ Cardinality(1..n) = n
    BY FS_Interval
  <2> QED
    BY <2>1, <2>2 DEF Ids
<1> QED
  BY <1>1, <1>2 DEF Ids, Root, None

\* One step of a walk down the tree.
StepDown(ns, d, n) == IF IsDir(ns, d) THEN ns[d].kids[n] ELSE None

\* One component of a path leads to a node or to nothing.
LEMMA StepType ==
  ASSUME NEW ns \in Trees, NEW d \in Ids \cup {None}, NEW n \in Names
  PROVE  StepDown(ns, d, n) \in Ids \cup {None}
<1>1. CASE IsDir(ns, d)
  <2>1. d \in Ids /\ ns[d] \in TreeNodes /\ ns[d].kind = "dir"
    BY <1>1, IdFacts DEF IsDir, Trees
  <2>2. ns[d].kids \in [Names -> Ids \cup {None}]
    BY <2>1, NodeFacts
  <2> QED
    BY <1>1, <2>2 DEF StepDown
<1>2. CASE ~IsDir(ns, d)
  BY <1>2 DEF StepDown
<1> QED
  BY <1>1, <1>2

\* The nodes a walk passes: at[n] after n names.
Passes(ns, path, at) ==
  /\ at \in [0..Len(path) -> Ids \cup {None}] /\ at[0] = Root
  /\ \A n \in 1..Len(path) : at[n] = StepDown(ns, at[n - 1], path[n])

\* Every path can be walked.
LEMMA WalkRuns ==
  ASSUME NEW ns \in Trees, NEW path \in Walks
  PROVE  \E at : Passes(ns, path, at)
<1> DEFINE D == Ids \cup {None}
           F == [n \in 1..Len(path) |-> [d \in D |-> StepDown(ns, d, path[n])]]
<1>1. Len(path) \in Nat /\ \A n \in 1..Len(path) : path[n] \in Names
  BY DEF Walks
<1>2. Root \in D
  BY IdFacts
<1>3. LoopOver(Len(path), D, F)
  <2>1. \A n \in 1..Len(path), d \in D : StepDown(ns, d, path[n]) \in D
    BY <1>1, StepType
  <2> HIDE DEF D
  <2> QED
    BY <2>1 DEF LoopOver
<1>4. PICK f : LoopRun(Len(path), D, F, Root, f)
  <2> HIDE DEF D, F
  <2>1. PICK n \in Nat, b \in D : n = Len(path) /\ b = Root
    BY <1>1, <1>2
  <2>2. LoopOver(n, D, F)
    BY <1>3, <2>1
  <2>3. \E f : LoopRun(n, D, F, b, f)
    BY <2>2, LoopRuns
  <2> QED
    BY <2>1, <2>3
<1>5. f \in [0..Len(path) -> D] /\ f[0] = Root /\ \A n \in 1..Len(path) : f[n] = F[n][f[n - 1]]
  <2> HIDE DEF D, F
  <2> QED
    BY <1>4 DEF LoopRun
<1>6. ASSUME NEW n \in 1..Len(path) PROVE f[n] = StepDown(ns, f[n - 1], path[n])
  <2>1. n - 1 \in 0..Len(path)
    BY <1>1
  <2>2. f[n - 1] \in D
    BY <1>5, <2>1
  <2> HIDE DEF D
  <2>3. F[n][f[n - 1]] = StepDown(ns, f[n - 1], path[n])
    BY <2>2
  <2> QED
    BY <1>5, <2>3
<1> QED
  BY <1>5, <1>6 DEF Passes

\* A walk is determined by its path.
LEMMA WalkUnique ==
  ASSUME NEW ns \in Trees, NEW path \in Walks, NEW f, NEW g, Passes(ns, path, f),
         NEW n \in 0..Len(path), g[0] = Root,
         \A i \in 1..n : g[i] = StepDown(ns, g[i - 1], path[i])
  PROVE  g[n] = f[n]
<1> DEFINE S == {i \in 0..n : g[i] = f[i]}
<1>1. Len(path) \in Nat /\ n \in Nat
  BY DEF Walks
<1>2. 0 \in S
  BY <1>1 DEF Passes
<1>3. ASSUME NEW i \in 0..(n - 1), i \in S PROVE i + 1 \in S
  <2>1. PICK m \in 1..n : m = i + 1 /\ m - 1 = i /\ m \in 1..Len(path)
    BY <1>1
  <2>2. g[m] = StepDown(ns, g[i], path[m]) /\ f[m] = StepDown(ns, f[i], path[m])
    BY <2>1 DEF Passes
  <2> QED
    BY <1>1, <1>3, <2>1, <2>2
<1> HIDE DEF S
<1>4. 0..n \subseteq S
  BY <1>1, <1>2, <1>3, UpTo
<1>5. n \in S
  BY <1>1, <1>4
<1> QED
  BY <1>5 DEF S

\* lookup is where the walk ends.
LEMMA LookupIs ==
  ASSUME NEW ns \in Trees, NEW path \in Walks, NEW f, Passes(ns, path, f)
  PROVE  lookup(ns, path) = f[Len(path)]
<1> DEFINE at[n \in 0..Len(path)] ==
             IF n = 0 THEN Root
             ELSE LET dir == at[n - 1] IN IF IsDir(ns, dir) THEN ns[dir].kids[path[n]] ELSE None
<1>1. lookup(ns, path) = at[Len(path)]
  BY DEF lookup
<1>2. Len(path) \in Nat
  BY DEF Walks
<1>3. \E g : g = [n \in 0..Len(path) |->
                    IF n = 0 THEN Root
                    ELSE LET dir == g[n - 1] IN IF IsDir(ns, dir) THEN ns[dir].kids[path[n]] ELSE None]
  <2>1. /\ f = [n \in 0..Len(path) |-> f[n]] /\ f[0] = Root
        /\ \A n \in 1..Len(path) : f[n] = StepDown(ns, f[n - 1], path[n])
    BY DEF Passes
  <2>2. \A n \in 0..Len(path) : f[n] = IF n = 0 THEN Root ELSE StepDown(ns, f[n - 1], path[n])
    BY <1>2, <2>1
  <2>3. f = [n \in 0..Len(path) |-> IF n = 0 THEN Root ELSE StepDown(ns, f[n - 1], path[n])]
    BY <2>1, <2>2
  <2> QED
    BY <2>3 DEF StepDown
<1>4. at = [n \in 0..Len(path) |->
              IF n = 0 THEN Root
              ELSE LET dir == at[n - 1] IN IF IsDir(ns, dir) THEN ns[dir].kids[path[n]] ELSE None]
  BY <1>3
<1> HIDE DEF at
<1>5. at[0] = Root /\ \A n \in 1..Len(path) : at[n] = StepDown(ns, at[n - 1], path[n])
  <2>1. at = [n \in 0..Len(path) |-> IF n = 0 THEN Root ELSE StepDown(ns, at[n - 1], path[n])]
    BY <1>4 DEF StepDown
  <2>2. 0 \in 0..Len(path) /\ \A n \in 1..Len(path) : n \in 0..Len(path) /\ n # 0
    BY <1>2
  <2> QED
    BY <2>1, <2>2
<1>6. Len(path) \in 0..Len(path)
  BY <1>2
<1>7. at[Len(path)] = f[Len(path)]
  BY <1>5, <1>6, WalkUnique
<1> QED
  BY <1>1, <1>7

\* What lookup returns, name by name.
LEMMA LookupRoot ==
  ASSUME NEW ns \in Trees
  PROVE  lookup(ns, <<>>) = Root
<1>1. PICK p \in Walks : p = <<>>
  <2>1. <<>> \in Walks
    BY DEF Walks
  <2> QED
    BY <2>1
<1>2. PICK f : Passes(ns, p, f)
  BY WalkRuns
<1>3. lookup(ns, p) = f[Len(p)] /\ Len(p) = 0 /\ f[0] = Root
  BY <1>1, <1>2, LookupIs DEF Passes
<1> QED
  BY <1>1, <1>3

\* A path leads to a node or to nothing.
LEMMA LookupType ==
  ASSUME NEW ns \in Trees, NEW path \in Walks
  PROVE  lookup(ns, path) \in Ids \cup {None}
<1>1. PICK f : Passes(ns, path, f)
  BY WalkRuns
<1>2. lookup(ns, path) = f[Len(path)]
  BY <1>1, LookupIs
<1>3. Len(path) \in 0..Len(path)
  BY DEF Walks
<1> QED
  BY <1>1, <1>2, <1>3 DEF Passes

\* A longer path is one step further.
LEMMA LookupStep ==
  ASSUME NEW ns \in Trees, NEW q \in Walks, NEW n \in Names
  PROVE  lookup(ns, Append(q, n)) = StepDown(ns, lookup(ns, q), n)
<1>1. PICK p \in Walks : p = Append(q, n)
  <2>1. Append(q, n) \in Walks
    BY DEF Walks
  <2> QED
    BY <2>1
<1>2. PICK k \in Nat : k = Len(q)
  BY DEF Walks
<1>3. Len(p) = k + 1 /\ p[k + 1] = n /\ \A i \in 1..k : p[i] = q[i]
  BY <1>1, <1>2 DEF Walks
<1>4. PICK f : Passes(ns, p, f)
  BY WalkRuns
<1>5. PICK g : Passes(ns, q, g)
  BY WalkRuns
<1>6. /\ f[0] = Root
      /\ \A i \in 1..(k + 1) : f[i] = StepDown(ns, f[i - 1], p[i])
  BY <1>3, <1>4 DEF Passes
<1>7. \A i \in 1..k : f[i] = StepDown(ns, f[i - 1], q[i])
  BY <1>3, <1>6
<1>8. k \in 0..Len(q)
  BY <1>2
<1>9. f[k] = g[k]
  BY <1>5, <1>6, <1>7, <1>8, WalkUnique
<1>10. lookup(ns, q) = g[k] /\ lookup(ns, p) = f[k + 1]
  BY <1>2, <1>3, <1>4, <1>5, LookupIs
<1>11. k + 1 \in 1..(k + 1) /\ (k + 1) - 1 = k
  OBVIOUS
<1>12. f[k + 1] = StepDown(ns, f[k], n)
  BY <1>3, <1>6, <1>11
<1> QED
  BY <1>1, <1>9, <1>10, <1>12

\* Induction over the names of a path.
LEMMA WalkInduction ==
  ASSUME NEW S, <<>> \in S, \A q \in Walks, n \in Names : q \in S => Append(q, n) \in S
  PROVE  Walks \subseteq S
<1> SUFFICES ASSUME NEW p \in Walks PROVE p \in S
  OBVIOUS
<1> DEFINE C == {k \in 0..Len(p) : SubSeq(p, 1, k) \in S}
<1>1. Len(p) \in Nat
  BY DEF Walks
<1>2. 0 \in C
  <2>1. SubSeq(p, 1, 0) = <<>>
    BY DEF Walks
  <2>2. SubSeq(p, 1, 0) \in S
    BY <2>1, Zenon
  <2>3. 0 \in 0..Len(p)
    BY <1>1
  <2> QED
    BY <2>2, <2>3
<1>3. ASSUME NEW k \in 0..(Len(p) - 1), k \in C PROVE k + 1 \in C
  <2>1. PICK q \in Walks, n \in Names : q = SubSeq(p, 1, k) /\ n = p[k + 1]
    <3>1. SubSeq(p, 1, k) \in Walks
      BY <1>1 DEF Walks
    <3>2. p[k + 1] \in Names
      BY <1>1 DEF Walks
    <3> QED
      BY <3>1, <3>2
  <2>2. SubSeq(p, 1, k + 1) = Append(q, n)
    BY <1>1, <2>1 DEF Walks
  <2>3. SubSeq(p, 1, k) \in S
    BY <1>3
  <2>4. Append(q, n) \in S
    BY <2>1, <2>3
  <2>5. SubSeq(p, 1, k + 1) \in S
    BY <2>2, <2>4, Zenon
  <2>6. k + 1 \in 0..Len(p)
    BY <1>1
  <2> QED
    BY <2>5, <2>6
<1> HIDE DEF C
<1>4. 0..Len(p) \subseteq C
  BY <1>1, <1>2, <1>3, UpTo
<1>5. SubSeq(p, 1, Len(p)) \in S
  BY <1>1, <1>4 DEF C
<1>6. SubSeq(p, 1, Len(p)) = p
  BY DEF Walks
<1> QED
  BY <1>5, <1>6

\* A path is its directory and its last name.
LEMMA WalkSplit ==
  ASSUME NEW p \in Walks, p # <<>>
  PROVE  Front(p) \in Walks /\ Last(p) \in Names /\ p = Append(Front(p), Last(p))
<1>1. Len(p) \in Nat \ {0}
  BY DEF Walks
<1>2. Front(p) \in Walks
  BY <1>1 DEF Front, Walks
<1>3. Last(p) \in Names
  BY <1>1 DEF Last, Walks
<1>4. p = Append(Front(p), Last(p))
  BY <1>1 DEF Front, Last, Walks
<1> QED
  BY <1>2, <1>3, <1>4

\* A path and one more name.
LEMMA WalkJoin ==
  ASSUME NEW q \in Walks, NEW n \in Names
  PROVE  /\ Append(q, n) \in Walks /\ Append(q, n) # <<>> /\ Front(Append(q, n)) = q
         /\ Last(Append(q, n)) = n /\ Len(Append(q, n)) = Len(q) + 1
<1>1. Append(q, n) \in Walks
  BY DEF Walks
<1>2. Len(Append(q, n)) = Len(q) + 1 /\ Len(q) \in Nat
  BY DEF Walks
<1>3. Append(q, n) # <<>>
  BY <1>2
<1>4. Front(Append(q, n)) = q
  BY DEF Front, Walks
<1>5. Last(Append(q, n)) = n
  BY DEF Last, Walks
<1> QED
  BY <1>1, <1>2, <1>3, <1>4, <1>5

\* What makes a tree sound: no directory refers to a freed node or to the
\* root, a directory has one name at most, a file no more than its count.
EntriesIn(ns, id) == {e \in Ids \X Names : IsDir(ns, e[1]) /\ ns[e[1]].kids[e[2]] = id}
NoDangling(ns) == \A d \in Ids, n \in Names : IsDir(ns, d) /\ ns[d].kids[n] # None
                                                => ns[ns[d].kids[n]] # Free
RootNameless(ns) == \A d \in Ids, n \in Names : IsDir(ns, d) => ns[d].kids[n] # Root
OneName(ns) == \A d, e \in Ids, m, n \in Names :
                 /\ IsDir(ns, d) /\ IsDir(ns, e) /\ ns[d].kids[m] = ns[e].kids[n]
                 /\ IsDir(ns, ns[d].kids[m])
                 => d = e /\ m = n
LinksCover(ns) == \A id \in Ids : IsFile(ns, id) => Cardinality(EntriesIn(ns, id)) <= ns[id].nlink
GoodTree(ns) == /\ ns \in Trees /\ IsDir(ns, Root) /\ NoDangling(ns) /\ RootNameless(ns)
                /\ OneName(ns) /\ LinksCover(ns)

\* A node has finitely many names.
LEMMA EntriesFinite ==
  ASSUME NEW ns, NEW id
  PROVE  IsFiniteSet(EntriesIn(ns, id)) /\ Cardinality(EntriesIn(ns, id)) \in Nat
<1>1. IsFiniteSet(Ids \X Names)
  BY IdFacts, VfsAssumption, FS_Product
<1>2. EntriesIn(ns, id) \in SUBSET (Ids \X Names)
  BY DEF EntriesIn
<1>3. IsFiniteSet(EntriesIn(ns, id))
  BY <1>1, <1>2, FS_Subset
<1> QED
  BY <1>3, FS_CardinalityType

\* What it is to be a name of a node.
LEMMA EntryIs ==
  ASSUME NEW ns, NEW id, NEW d \in Ids, NEW n \in Names
  PROVE  <<d, n>> \in EntriesIn(ns, id) <=> IsDir(ns, d) /\ ns[d].kids[n] = id
BY DEF EntriesIn

\* An entry of a directory is a node or nothing.
LEMMA KidType ==
  ASSUME NEW ns \in Trees, NEW d \in Ids, IsDir(ns, d), NEW n \in Names
  PROVE  ns[d].kids[n] \in Ids \cup {None}
<1>1. StepDown(ns, d, n) \in Ids \cup {None}
  BY StepType
<1> QED
  BY <1>1 DEF StepDown

\* A path leads to the root, to a node that is there, or nowhere.
LEMMA LookupAlive ==
  ASSUME NEW ns, GoodTree(ns), NEW p \in Walks, lookup(ns, p) # None
  PROVE  lookup(ns, p) \in Ids /\ ns[lookup(ns, p)] # Free /\ (p # <<>> => lookup(ns, p) # Root)
<1>1. ns \in Trees
  BY DEF GoodTree
<1>2. lookup(ns, p) \in Ids
  BY <1>1, LookupType
<1>3. CASE p = <<>>
  <2>1. lookup(ns, p) = Root /\ ns[Root].kind = "dir" /\ ns[Root] \in TreeNodes
    BY <1>1, <1>3, LookupRoot, IdFacts DEF GoodTree, IsDir, Trees
  <2> QED
    BY <1>2, <1>3, <2>1, NodeFacts
<1>4. CASE p # <<>>
  <2>1. PICK q \in Walks, n \in Names : p = Append(q, n)
    BY <1>4, WalkSplit
  <2>2. PICK d \in Ids \cup {None} : d = lookup(ns, q) /\ lookup(ns, p) = StepDown(ns, d, n)
    BY <1>1, <2>1, LookupStep, LookupType
  <2>3. IsDir(ns, d) /\ lookup(ns, p) = ns[d].kids[n] /\ d \in Ids
    BY <2>2 DEF StepDown, IsDir
  <2> QED
    BY <1>2, <2>3 DEF GoodTree, NoDangling, RootNameless
<1> QED
  BY <1>3, <1>4

\* Only one path leads to a directory.
LEMMA UniquePath ==
  ASSUME NEW ns, GoodTree(ns), NEW p \in Walks, NEW r \in Walks,
         IsDir(ns, lookup(ns, p)), lookup(ns, r) = lookup(ns, p)
  PROVE  r = p
<1> DEFINE S == {q \in Walks : \A s \in Walks : /\ IsDir(ns, lookup(ns, q)) /\ lookup(ns, s) = lookup(ns, q)
                                               => s = q}
<1>1. ns \in Trees
  BY DEF GoodTree
<1>2. <<>> \in S
  <2>1. <<>> \in Walks /\ lookup(ns, <<>>) = Root
    BY <1>1, LookupRoot DEF Walks
  <2>2. ASSUME NEW s \in Walks, lookup(ns, s) = Root PROVE s = <<>>
    BY <2>2, LookupAlive, IdFacts
  <2> QED
    BY <2>1, <2>2
<1>3. ASSUME NEW q \in Walks, NEW n \in Names, q \in S PROVE Append(q, n) \in S
  <2>1. PICK w \in Walks : w = Append(q, n) /\ w # <<>>
    BY WalkJoin
  <2> SUFFICES ASSUME NEW s \in Walks, IsDir(ns, lookup(ns, w)), lookup(ns, s) = lookup(ns, w)
               PROVE  s = w
    BY <2>1
  <2>2. lookup(ns, w) # None
    BY DEF IsDir
  <2>3. s # <<>>
    BY <1>1, <2>1, <2>2, LookupAlive, LookupRoot
  <2>4. PICK t \in Walks, m \in Names : s = Append(t, m)
    BY <2>3, WalkSplit
  <2>5. PICK d \in Ids \cup {None}, e \in Ids \cup {None} :
          /\ d = lookup(ns, q) /\ lookup(ns, w) = StepDown(ns, d, n)
          /\ e = lookup(ns, t) /\ lookup(ns, s) = StepDown(ns, e, m)
    BY <1>1, <2>1, <2>4, LookupStep, LookupType
  <2>6. /\ IsDir(ns, d) /\ lookup(ns, w) = ns[d].kids[n] /\ d \in Ids
        /\ IsDir(ns, e) /\ lookup(ns, s) = ns[e].kids[m] /\ e \in Ids
    BY <2>2, <2>5 DEF StepDown, IsDir
  <2>7. d = e /\ n = m
    BY <2>6 DEF GoodTree, OneName
  <2>8. t = q
    BY <1>3, <2>5, <2>6, <2>7
  <2> QED
    BY <2>1, <2>4, <2>7, <2>8
<1> HIDE DEF S
<1>4. Walks \subseteq S
  BY <1>2, <1>3, WalkInduction
<1> QED
  BY <1>4 DEF S

\* t is ns but for the entry n of the directory d, which is now id.
KidSet(ns, t, d, n, id) ==
  /\ t \in Trees
  /\ \A e \in Ids : t[e].kind = ns[e].kind /\ (ns[e].kind # "dir" => t[e] = ns[e])
  /\ \A e \in Ids, m \in Names :
       IsDir(ns, e) => t[e].kids[m] = IF e = d /\ m = n THEN id ELSE ns[e].kids[m]

\* Setting an entry is what KidSet says.
LEMMA KidPut ==
  ASSUME NEW ns \in Trees, NEW d \in Ids, IsDir(ns, d), NEW n \in Names, NEW id \in Ids \cup {None}
  PROVE  KidSet(ns, [ns EXCEPT ![d].kids[n] = id], d, n, id)
<1>1. PICK x \in DirNodes : x = ns[d]
  BY NodeFacts DEF IsDir, Trees
<1>2. PICK k : k = [x.kids EXCEPT ![n] = id]
  OBVIOUS
<1>3. k \in [Names -> Ids \cup {None}] /\ \A m \in Names : k[m] = IF m = n THEN id ELSE x.kids[m]
  BY <1>2 DEF DirNodes
<1>4. PICK y : y = [x EXCEPT !.kids = k]
  OBVIOUS
<1>5. y \in DirNodes /\ y.kids = k /\ y.kind = "dir" /\ x.kind = "dir"
  BY <1>3, <1>4 DEF DirNodes
<1>6. PICK t : t = [ns EXCEPT ![d] = y]
  OBVIOUS
<1>7. t = [ns EXCEPT ![d].kids[n] = id]
  BY <1>1, <1>2, <1>4, <1>6
<1>8. y \in TreeNodes
  BY <1>5 DEF TreeNodes
<1>9. t \in Trees /\ t[d] = y /\ \A e \in Ids : e # d => t[e] = ns[e]
  BY <1>6, <1>8 DEF Trees
<1>10. \A e \in Ids : t[e].kind = ns[e].kind /\ (ns[e].kind # "dir" => t[e] = ns[e])
  BY <1>1, <1>5, <1>9
<1>11. \A e \in Ids, m \in Names :
         IsDir(ns, e) => t[e].kids[m] = IF e = d /\ m = n THEN id ELSE ns[e].kids[m]
  BY <1>1, <1>3, <1>5, <1>9
<1>12. KidSet(ns, t, d, n, id)
  BY <1>9, <1>10, <1>11 DEF KidSet
<1> QED
  BY <1>7, <1>12

\* Setting an entry makes no node a directory or a file.
LEMMA KidSetKinds ==
  ASSUME NEW ns, NEW t, NEW d, NEW n, NEW id, KidSet(ns, t, d, n, id), NEW e \in Ids \cup {None}
  PROVE  (IsDir(t, e) <=> IsDir(ns, e)) /\ (IsFile(t, e) <=> IsFile(ns, e))
BY DEF KidSet, IsDir, IsFile

\* A directory is in one place.
LEMMA OneNameUse ==
  ASSUME NEW ns, OneName(ns), NEW d \in Ids, NEW e \in Ids, NEW m \in Names, NEW n \in Names,
         IsDir(ns, d), IsDir(ns, e), ns[d].kids[m] = ns[e].kids[n], IsDir(ns, ns[d].kids[m])
  PROVE  d = e /\ m = n
BY Zenon DEF OneName

\* A name less.
LEMMA DetachGood ==
  ASSUME NEW ns, GoodTree(ns), NEW t, NEW d \in Ids, NEW n \in Names, KidSet(ns, t, d, n, None)
  PROVE  GoodTree(t)
<1>1. ns \in Trees /\ t \in Trees
  BY DEF GoodTree, KidSet
<1>2. \A e \in Ids \cup {None} : (IsDir(t, e) <=> IsDir(ns, e)) /\ (IsFile(t, e) <=> IsFile(ns, e))
  BY KidSetKinds
<1>3. ASSUME NEW e \in Ids, NEW m \in Names, IsDir(t, e), t[e].kids[m] # None
      PROVE  IsDir(ns, e) /\ t[e].kids[m] = ns[e].kids[m] /\ t[e].kids[m] \in Ids
  <2>1. IsDir(ns, e) /\ t[e].kids[m] = ns[e].kids[m]
    BY <1>2, <1>3 DEF KidSet
  <2> QED
    BY <1>1, <1>3, <2>1, KidType
<1>4. \A e \in Ids : t[e] = Free <=> ns[e] = Free
  BY <1>1, NodeFacts DEF KidSet, Trees
<1>5. IsDir(t, Root)
  BY <1>2, IdFacts DEF GoodTree
<1>6. NoDangling(t)
  BY <1>3, <1>4 DEF NoDangling, GoodTree
<1>7. RootNameless(t)
  BY <1>3, IdFacts DEF RootNameless, GoodTree
<1>8. OneName(t)
  <2> SUFFICES ASSUME NEW a \in Ids, NEW b \in Ids, NEW m \in Names, NEW k \in Names,
                      IsDir(t, a), IsDir(t, b), t[a].kids[m] = t[b].kids[k], IsDir(t, t[a].kids[m])
               PROVE  a = b /\ m = k
    BY DEF OneName
  <2>1. t[a].kids[m] # None
    BY DEF IsDir
  <2>2. /\ IsDir(ns, a) /\ t[a].kids[m] = ns[a].kids[m] /\ t[a].kids[m] \in Ids
        /\ IsDir(ns, b) /\ t[b].kids[k] = ns[b].kids[k]
    BY <1>3, <2>1
  <2>3. IsDir(ns, ns[a].kids[m]) /\ ns[a].kids[m] = ns[b].kids[k]
    BY <1>2, <2>2
  <2>4. OneName(ns)
    BY DEF GoodTree
  <2> QED
    BY <2>2, <2>3, <2>4, OneNameUse
<1>9. LinksCover(t)
  <2> SUFFICES ASSUME NEW id \in Ids, IsFile(t, id)
               PROVE  Cardinality(EntriesIn(t, id)) <= t[id].nlink
    BY DEF LinksCover
  <2>1. IsFile(ns, id) /\ t[id] = ns[id] /\ ns[id].nlink \in Nat
    BY <1>1, <1>2, NodeFacts DEF KidSet, IsFile, Trees
  <2>2. EntriesIn(t, id) \in SUBSET EntriesIn(ns, id)
    <3> SUFFICES ASSUME NEW e \in EntriesIn(t, id) PROVE e \in EntriesIn(ns, id)
      OBVIOUS
    <3>1. PICK a \in Ids, m \in Names : e = <<a, m>>
      BY DEF EntriesIn
    <3>2. IsDir(t, a) /\ t[a].kids[m] = id
      BY <3>1, EntryIs
    <3>3. IsDir(ns, a) /\ ns[a].kids[m] = id
      BY <1>3, <3>2, IdFacts
    <3> QED
      BY <3>1, <3>3, EntryIs
  <2>3. /\ IsFiniteSet(EntriesIn(ns, id)) /\ Cardinality(EntriesIn(ns, id)) \in Nat
        /\ Cardinality(EntriesIn(t, id)) \in Nat
    BY EntriesFinite
  <2>4. Cardinality(EntriesIn(t, id)) <= Cardinality(EntriesIn(ns, id))
    BY <2>2, <2>3, FS_Subset
  <2>5. Cardinality(EntriesIn(ns, id)) <= ns[id].nlink
    BY <2>1 DEF GoodTree, LinksCover
  <2> QED
    BY <2>1, <2>3, <2>4, <2>5
<1> QED
  BY <1>1, <1>5, <1>6, <1>7, <1>8, <1>9 DEF GoodTree

\* A name more, for a node that has room for it.
Attachable(ns, id) ==
  /\ id \in Ids \ {Root} /\ ns[id] # Free
  /\ IsDir(ns, id) => EntriesIn(ns, id) = {}
  /\ IsFile(ns, id) => Cardinality(EntriesIn(ns, id)) + 1 <= ns[id].nlink

\* A node that may be attached can be entered under a name.
LEMMA AttachGood ==
  ASSUME NEW ns, GoodTree(ns), NEW t, NEW d \in Ids, NEW n \in Names, NEW id, Attachable(ns, id),
         KidSet(ns, t, d, n, id)
  PROVE  GoodTree(t)
<1>1. ns \in Trees /\ t \in Trees /\ id \in Ids /\ id # Root /\ id # None
  BY IdFacts DEF GoodTree, KidSet, Attachable
<1>2. \A e \in Ids \cup {None} : (IsDir(t, e) <=> IsDir(ns, e)) /\ (IsFile(t, e) <=> IsFile(ns, e))
  BY KidSetKinds
<1>3. ASSUME NEW e \in Ids, NEW m \in Names, IsDir(t, e), t[e].kids[m] # None
      PROVE  /\ IsDir(ns, e) /\ t[e].kids[m] \in Ids
             /\ (e = d /\ m = n /\ t[e].kids[m] = id) \/ t[e].kids[m] = ns[e].kids[m]
  <2>1. IsDir(ns, e) /\ t[e].kids[m] = IF e = d /\ m = n THEN id ELSE ns[e].kids[m]
    BY <1>2, <1>3 DEF KidSet
  <2>2. ns[e].kids[m] \in Ids \cup {None}
    BY <1>1, <2>1, KidType
  <2> QED
    BY <1>1, <1>3, <2>1, <2>2
<1>4. \A e \in Ids : t[e] = Free <=> ns[e] = Free
  BY <1>1, NodeFacts DEF KidSet, Trees
<1>5. IsDir(t, Root)
  BY <1>2, IdFacts DEF GoodTree
<1>6. NoDangling(t)
  <2> SUFFICES ASSUME NEW e \in Ids, NEW m \in Names, IsDir(t, e), t[e].kids[m] # None
               PROVE  t[t[e].kids[m]] # Free
    BY DEF NoDangling
  <2> QED
    BY <1>3, <1>4 DEF NoDangling, GoodTree, Attachable
<1>7. RootNameless(t)
  <2> SUFFICES ASSUME NEW e \in Ids, NEW m \in Names, IsDir(t, e), t[e].kids[m] = Root
               PROVE  FALSE
    BY DEF RootNameless
  <2> QED
    BY <1>1, <1>3, IdFacts DEF RootNameless, GoodTree
<1>8. OneName(t)
  <2> SUFFICES ASSUME NEW a \in Ids, NEW b \in Ids, NEW m \in Names, NEW k \in Names,
                      IsDir(t, a), IsDir(t, b), t[a].kids[m] = t[b].kids[k], IsDir(t, t[a].kids[m])
               PROVE  a = b /\ m = k
    BY DEF OneName
  <2>1. t[a].kids[m] # None
    BY DEF IsDir
  <2>2. /\ IsDir(ns, a) /\ t[a].kids[m] \in Ids /\ IsDir(ns, b)
        /\ (a = d /\ m = n /\ t[a].kids[m] = id) \/ t[a].kids[m] = ns[a].kids[m]
        /\ (b = d /\ k = n /\ t[b].kids[k] = id) \/ t[b].kids[k] = ns[b].kids[k]
    BY <1>3, <2>1
  <2>3. IsDir(ns, t[a].kids[m])
    BY <1>2, <2>2
  <2>4. IsDir(ns, id) => \A e \in Ids, j \in Names : IsDir(ns, e) => ns[e].kids[j] # id
    BY EntryIs DEF Attachable
  <2>5. CASE t[a].kids[m] = ns[a].kids[m] /\ t[b].kids[k] = ns[b].kids[k]
    <3>1. IsDir(ns, ns[a].kids[m]) /\ ns[a].kids[m] = ns[b].kids[k]
      BY <2>3, <2>5
    <3>2. OneName(ns)
      BY DEF GoodTree
    <3> QED
      BY <2>2, <3>1, <3>2, OneNameUse
  <2>6. CASE (a = d /\ m = n /\ t[a].kids[m] = id) \/ (b = d /\ k = n /\ t[b].kids[k] = id)
    BY <2>2, <2>3, <2>4, <2>6
  <2> QED
    BY <2>2, <2>5, <2>6
<1>9. LinksCover(t)
  <2> SUFFICES ASSUME NEW f \in Ids, IsFile(t, f)
               PROVE  Cardinality(EntriesIn(t, f)) <= t[f].nlink
    BY DEF LinksCover
  <2>1. IsFile(ns, f) /\ t[f] = ns[f] /\ ns[f].nlink \in Nat
    BY <1>1, <1>2, NodeFacts DEF KidSet, IsFile, Trees
  <2>2. /\ IsFiniteSet(EntriesIn(ns, f)) /\ Cardinality(EntriesIn(ns, f)) \in Nat
        /\ Cardinality(EntriesIn(t, f)) \in Nat
    BY EntriesFinite
  <2>3. ASSUME NEW e \in EntriesIn(t, f)
        PROVE  e \in EntriesIn(ns, f) \/ (f = id /\ e = <<d, n>>)
    <3>1. PICK a \in Ids, m \in Names : e = <<a, m>>
      BY DEF EntriesIn
    <3>2. IsDir(t, a) /\ t[a].kids[m] = f
      BY <2>3, <3>1, EntryIs
    <3>3. IsDir(ns, a) /\ ((a = d /\ m = n /\ f = id) \/ ns[a].kids[m] = f)
      BY <1>3, <3>2, IdFacts
    <3> QED
      BY <3>1, <3>3, EntryIs
  <2>4. CASE f # id
    <3>1. EntriesIn(t, f) \in SUBSET EntriesIn(ns, f)
      BY <2>3, <2>4
    <3>2. Cardinality(EntriesIn(t, f)) <= Cardinality(EntriesIn(ns, f))
      BY <2>2, <3>1, FS_Subset
    <3>3. Cardinality(EntriesIn(ns, f)) <= ns[f].nlink
      BY <2>1 DEF GoodTree, LinksCover
    <3> QED
      BY <2>1, <2>2, <3>2, <3>3
  <2>5. CASE f = id
    <3>1. PICK E : E = EntriesIn(ns, f) \cup {<<d, n>>}
      OBVIOUS
    <3>2. EntriesIn(t, f) \in SUBSET E
      BY <2>3, <3>1
    <3>3. IsFiniteSet(E) /\ Cardinality(E) \in Nat /\ Cardinality(E) <= Cardinality(EntriesIn(ns, f)) + 1
      <4>1. /\ IsFiniteSet(EntriesIn(ns, f) \cup {<<d, n>>})
            /\ Cardinality(EntriesIn(ns, f) \cup {<<d, n>>}) =
                 IF <<d, n>> \in EntriesIn(ns, f) THEN Cardinality(EntriesIn(ns, f))
                 ELSE Cardinality(EntriesIn(ns, f)) + 1
        BY <2>2, FS_AddElement
      <4> QED
        BY <2>2, <3>1, <4>1
    <3>4. Cardinality(EntriesIn(t, f)) <= Cardinality(E)
      BY <3>2, <3>3, FS_Subset
    <3>5. Cardinality(EntriesIn(ns, f)) + 1 <= ns[f].nlink
      BY <2>1, <2>5 DEF Attachable
    <3> QED
      BY <2>1, <2>2, <3>3, <3>4, <3>5
  <2> QED
    BY <2>4, <2>5
<1> QED
  BY <1>1, <1>5, <1>6, <1>7, <1>8, <1>9 DEF GoodTree

\* Node by node t is ns, but for contents and for link counts that grew.
SameKids(ns, t) ==
  /\ t \in Trees
  /\ \A e \in Ids : /\ t[e].kind = ns[e].kind
                    /\ ns[e].kind # "file" => t[e] = ns[e]
                    /\ ns[e].kind = "file" => ns[e].nlink <= t[e].nlink

\* A tree with the same entries has the same directories and files.
LEMMA SameKidsKinds ==
  ASSUME NEW ns, NEW t, SameKids(ns, t), NEW e \in Ids \cup {None}
  PROVE  (IsDir(t, e) <=> IsDir(ns, e)) /\ (IsFile(t, e) <=> IsFile(ns, e))
BY DEF SameKids, IsDir, IsFile

\* A tree with the same entries is walked the same way.
LEMMA SameKidsStep ==
  ASSUME NEW ns, NEW t, SameKids(ns, t), NEW e \in Ids \cup {None}, NEW n \in Names
  PROVE  StepDown(t, e, n) = StepDown(ns, e, n)
<1>1. IsDir(t, e) <=> IsDir(ns, e)
  BY SameKidsKinds
<1>2. IsDir(ns, e) => t[e] = ns[e]
  BY DEF SameKids, IsDir
<1> QED
  BY <1>1, <1>2 DEF StepDown

\* A tree with the same entries is as good.
LEMMA SameKidsGood ==
  ASSUME NEW ns, GoodTree(ns), NEW t, SameKids(ns, t)
  PROVE  GoodTree(t)
<1>1. ns \in Trees /\ t \in Trees
  BY DEF GoodTree, SameKids
<1>2. \A e \in Ids \cup {None} : (IsDir(t, e) <=> IsDir(ns, e)) /\ (IsFile(t, e) <=> IsFile(ns, e))
  BY SameKidsKinds
<1>3. \A e \in Ids : IsDir(t, e) => IsDir(ns, e) /\ t[e] = ns[e]
  BY <1>2 DEF SameKids, IsDir
<1>4. \A e \in Ids : t[e] = Free <=> ns[e] = Free
  BY <1>1, NodeFacts DEF SameKids, Trees
<1>5. IsDir(t, Root)
  BY <1>2, IdFacts DEF GoodTree
<1>6. NoDangling(t)
  <2> SUFFICES ASSUME NEW e \in Ids, NEW m \in Names, IsDir(t, e), t[e].kids[m] # None
               PROVE  t[t[e].kids[m]] # Free
    BY DEF NoDangling
  <2>1. IsDir(ns, e) /\ t[e].kids[m] = ns[e].kids[m] /\ ns[e].kids[m] \in Ids
    BY <1>1, <1>3, KidType
  <2> QED
    BY <1>4, <2>1 DEF NoDangling, GoodTree
<1>7. RootNameless(t)
  BY <1>3 DEF RootNameless, GoodTree
<1>8. OneName(t)
  <2> SUFFICES ASSUME NEW a \in Ids, NEW b \in Ids, NEW m \in Names, NEW k \in Names,
                      IsDir(t, a), IsDir(t, b), t[a].kids[m] = t[b].kids[k], IsDir(t, t[a].kids[m])
               PROVE  a = b /\ m = k
    BY DEF OneName
  <2>1. IsDir(ns, a) /\ IsDir(ns, b) /\ t[a] = ns[a] /\ t[b] = ns[b]
    BY <1>3
  <2>2. ns[a].kids[m] \in Ids \cup {None}
    BY <1>1, <2>1, KidType
  <2>3. IsDir(ns, ns[a].kids[m]) /\ ns[a].kids[m] = ns[b].kids[k]
    BY <1>2, <2>1, <2>2
  <2>4. OneName(ns)
    BY DEF GoodTree
  <2> QED
    BY <2>1, <2>3, <2>4, OneNameUse
<1>9. LinksCover(t)
  <2> SUFFICES ASSUME NEW id \in Ids, IsFile(t, id)
               PROVE  Cardinality(EntriesIn(t, id)) <= t[id].nlink
    BY DEF LinksCover
  <2>1. IsFile(ns, id) /\ ns[id].nlink <= t[id].nlink /\ ns[id].nlink \in Nat /\ t[id].nlink \in Nat
    BY <1>1, <1>2, NodeFacts DEF SameKids, IsFile, Trees
  <2>2. EntriesIn(t, id) = EntriesIn(ns, id)
    <3>1. \A e \in Ids \X Names : /\ IsDir(t, e[1]) <=> IsDir(ns, e[1])
                                  /\ IsDir(ns, e[1]) => t[e[1]] = ns[e[1]]
      BY <1>2, <1>3
    <3> QED
      BY <3>1 DEF EntriesIn
  <2>3. Cardinality(EntriesIn(ns, id)) <= ns[id].nlink /\ Cardinality(EntriesIn(ns, id)) \in Nat
    BY <2>1, EntriesFinite DEF GoodTree, LinksCover
  <2> QED
    BY <2>1, <2>2, <2>3
<1> QED
  BY <1>1, <1>5, <1>6, <1>7, <1>8, <1>9 DEF GoodTree

\* Two trees with the same steps lead to the same nodes.
LEMMA SameLookup ==
  ASSUME NEW ns \in Trees, NEW t \in Trees,
         \A e \in Ids \cup {None}, n \in Names : StepDown(t, e, n) = StepDown(ns, e, n),
         NEW p \in Walks
  PROVE  lookup(t, p) = lookup(ns, p)
<1> DEFINE S == {q \in Walks : lookup(t, q) = lookup(ns, q)}
<1>1. <<>> \in S
  BY LookupRoot DEF Walks
<1>2. ASSUME NEW q \in Walks, NEW n \in Names, q \in S PROVE Append(q, n) \in S
  <2>1. PICK w \in Walks : w = Append(q, n)
    BY WalkJoin
  <2>2. PICK d \in Ids \cup {None} : d = lookup(ns, q) /\ lookup(t, q) = d
    BY <1>2, LookupType
  <2>3. lookup(ns, w) = StepDown(ns, d, n) /\ lookup(t, w) = StepDown(t, d, n)
    BY <2>1, <2>2, LookupStep
  <2> QED
    BY <2>1, <2>3
<1> HIDE DEF S
<1>3. Walks \subseteq S
  BY <1>1, <1>2, WalkInduction
<1> QED
  BY <1>3 DEF S

\* What the files of a tree hold and where they are stays, but for the nodes
\* in X and the paths in P.
SameNodes(ns, t, X) ==
  \A id \in Ids \ X : ns[id] # Free =>
     t[id].kind = ns[id].kind /\ (ns[id].kind = "file" => t[id].data = ns[id].data)
SameReads(ns, t, P) == \A p \in Walks \ P : read_file(t, p) = read_file(ns, p)

\* A path reads the same when it leads to the same, unchanged node.
LEMMA ReadsFollow ==
  ASSUME NEW ns, GoodTree(ns), NEW t, NEW X, SameNodes(ns, t, X), NEW p \in Walks,
         lookup(t, p) = lookup(ns, p), lookup(ns, p) \notin X
  PROVE  read_file(t, p) = read_file(ns, p)
<1>1. CASE lookup(ns, p) = None
  BY <1>1 DEF read_file, IsFile
<1>2. CASE lookup(ns, p) # None
  <2>1. PICK id \in Ids \ X : id = lookup(ns, p) /\ ns[id] # Free
    <3>1. lookup(ns, p) \in Ids \ X /\ ns[lookup(ns, p)] # Free
      BY <1>2, LookupAlive
    <3> QED
      BY <3>1
  <2>2. t[id].kind = ns[id].kind /\ (ns[id].kind = "file" => t[id].data = ns[id].data)
    BY <2>1 DEF SameNodes
  <2> QED
    BY <2>1, <2>2 DEF read_file, IsFile
<1> QED
  BY <1>1, <1>2

\* New contents for a file.
DataSet(ns, t, id, c) == t = [ns EXCEPT ![id].data = c]

\* Writing a file's content moves no path.
LEMMA DataPut ==
  ASSUME NEW ns, GoodTree(ns), NEW id \in Ids, IsFile(ns, id), NEW c \in Content, NEW t,
         DataSet(ns, t, id, c)
  PROVE  /\ GoodTree(t) /\ SameNodes(ns, t, {id})
         /\ \A p \in Walks : lookup(t, p) = lookup(ns, p)
         /\ \A p \in Walks : lookup(ns, p) # id => read_file(t, p) = read_file(ns, p)
         /\ t[id].data = c /\ IsFile(t, id)
<1>1. ns \in Trees
  BY DEF GoodTree
<1>2. PICK x \in FileNodes : x = ns[id]
  <2>1. ns[id] \in FileNodes
    BY <1>1, NodeFacts DEF IsFile, Trees
  <2> QED
    BY <2>1
<1>3. PICK y : y = [x EXCEPT !.data = c]
  OBVIOUS
<1>4. y \in FileNodes /\ y.nlink = x.nlink /\ y.kind = "file" /\ x.kind = "file" /\ x.nlink \in Nat
  BY <1>3 DEF FileNodes
<1>5. t = [ns EXCEPT ![id] = y]
  BY <1>2, <1>3 DEF DataSet
<1>6. y \in TreeNodes
  BY <1>4 DEF TreeNodes
<1>7. t \in Trees /\ t[id] = y /\ \A e \in Ids : e # id => t[e] = ns[e]
  BY <1>1, <1>5, <1>6 DEF Trees
<1>8. \A e \in Ids : ns[e].kind = "file" => ns[e].nlink \in Nat
  BY <1>1, NodeFacts DEF Trees
<1>9. SameKids(ns, t)
  <2> SUFFICES ASSUME NEW e \in Ids
               PROVE  /\ t[e].kind = ns[e].kind
                      /\ ns[e].kind # "file" => t[e] = ns[e]
                      /\ ns[e].kind = "file" => ns[e].nlink <= t[e].nlink
    BY <1>7 DEF SameKids
  <2>1. CASE e = id
    BY <1>2, <1>4, <1>7, <2>1
  <2>2. CASE e # id
    BY <1>7, <1>8, <2>2
  <2> QED
    BY <2>1, <2>2
<1>10. SameNodes(ns, t, {id})
  BY <1>7 DEF SameNodes
<1>11. ASSUME NEW p \in Walks PROVE lookup(t, p) = lookup(ns, p)
  <2>1. \A e \in Ids \cup {None}, n \in Names : StepDown(t, e, n) = StepDown(ns, e, n)
    BY <1>9, SameKidsStep
  <2> QED
    BY <1>1, <1>7, <2>1, SameLookup
<1>12. ASSUME NEW p \in Walks, lookup(ns, p) # id PROVE read_file(t, p) = read_file(ns, p)
  <2>1. lookup(ns, p) \notin {id}
    BY <1>12
  <2> QED
    BY <1>10, <1>11, <2>1, ReadsFollow
<1>13. t[id].data = c /\ IsFile(t, id)
  <2>1. y.data = c
    BY <1>3 DEF FileNodes
  <2> QED
    BY <1>4, <1>7, <2>1, IdFacts DEF IsFile
<1> QED
  BY <1>9, <1>10, <1>11, <1>12, <1>13, SameKidsGood

\* The node that Create takes is a free one.
LEMMA FreeFacts ==
  ASSUME NEW ns, Cardinality(FreeIds(ns)) >= 1
  PROVE  Min(FreeIds(ns)) \in Ids /\ ns[Min(FreeIds(ns))] = Free
<1>1. FreeIds(ns) \in SUBSET Nat /\ FreeIds(ns) \in SUBSET Ids
  BY IdFacts DEF FreeIds
<1>2. FreeIds(ns) # {}
  <2>1. Cardinality({}) = 0
    BY FS_EmptySet
  <2> QED
    BY <2>1
<1>3. Min(FreeIds(ns)) \in FreeIds(ns)
  <2> DEFINE F == FreeIds(ns)
  <2>1. IsWellFoundedOn(OpToRel(<, Nat), Nat)
    BY NatLessThanWellFounded
  <2> HIDE DEF F
  <2>2. F \in SUBSET Nat /\ F # {}
    BY <1>1, <1>2 DEF F
  <2>3. PICK x \in F : \A y \in F : ~(<<y, x>> \in OpToRel(<, Nat))
    BY <2>1, <2>2, WFMin
  <2>4. \A y \in F : y \in Nat /\ ~(y < x) /\ x \in Nat
    BY <2>2, <2>3 DEF OpToRel
  <2>5. \A y \in F : x <= y
    BY <2>4
  <2>6. Min(F) \in F
    BY <2>3, <2>5 DEF Min
  <2> QED
    BY <2>6 DEF F
<1> QED
  BY <1>3 DEF FreeIds

\* A node that no name refers to yet.
Blanks == {NewFile, EmptyDir}
NodeAdded(ns, t, new, node) == t = [ns EXCEPT ![new] = node]

\* A node taken from the free ones can be attached.
LEMMA AddNode ==
  ASSUME NEW ns, GoodTree(ns), NEW new \in Ids, ns[new] = Free, NEW node \in Blanks,
         NEW t, NodeAdded(ns, t, new, node)
  PROVE  /\ GoodTree(t) /\ Attachable(t, new) /\ t[new] = node /\ new # Root
         /\ \A e \in Ids : e # new => t[e] = ns[e]
<1>1. ns \in Trees /\ OneName(ns)
  BY DEF GoodTree
<1>2. node \in TreeNodes /\ node # Free /\ (node.kind = "dir" => node = EmptyDir) /\ (node.kind = "file" => node = NewFile)
  <2>1. EmptyDir \in DirNodes /\ NewFile \in FileNodes
    BY DEF EmptyDir, NewFile, DirNodes, FileNodes, Content
  <2>2. EmptyDir \in TreeNodes /\ NewFile \in TreeNodes
    BY <2>1 DEF TreeNodes
  <2>3. EmptyDir.kind = "dir" /\ NewFile.kind = "file" /\ Free.kind = "free"
    BY DEF EmptyDir, NewFile, Free
  <2> QED
    BY <2>2, <2>3 DEF Blanks
<1>3. t \in Trees /\ t[new] = node /\ \A e \in Ids : e # new => t[e] = ns[e]
  BY <1>1, <1>2 DEF Trees, NodeAdded
<1>4. EmptyDir.kids = [n \in Names |-> None] /\ NewFile.nlink = 1
  BY DEF EmptyDir, NewFile
<1>5. ASSUME NEW e \in Ids, NEW m \in Names, IsDir(t, e), t[e].kids[m] # None
      PROVE  e # new /\ IsDir(ns, e) /\ t[e] = ns[e] /\ ns[e].kids[m] \in Ids
             /\ ns[ns[e].kids[m]] # Free /\ ns[e].kids[m] # new
  <2>1. e # new
    BY <1>2, <1>3, <1>4, <1>5 DEF IsDir
  <2>2. IsDir(ns, e) /\ t[e] = ns[e]
    BY <1>3, <1>5, <2>1 DEF IsDir
  <2>3. ns[e].kids[m] \in Ids
    BY <1>1, <1>5, <2>2, KidType
  <2>4. ns[ns[e].kids[m]] # Free
    BY <1>5, <2>2 DEF GoodTree, NoDangling
  <2> QED
    BY <2>1, <2>2, <2>3, <2>4
<1>6. ns[Root] # Free /\ new # Root
  <2>1. ns[Root].kind = "dir" /\ ns[Root] \in TreeNodes
    BY <1>1, IdFacts DEF GoodTree, IsDir, Trees
  <2> QED
    BY <2>1, NodeFacts
<1>7. IsDir(t, Root)
  BY <1>3, <1>6, IdFacts DEF GoodTree, IsDir
<1>8. NoDangling(t)
  <2> SUFFICES ASSUME NEW e \in Ids, NEW m \in Names, IsDir(t, e), t[e].kids[m] # None
               PROVE  t[t[e].kids[m]] # Free
    BY DEF NoDangling
  <2>3. t[e] = ns[e] /\ ns[e].kids[m] \in Ids /\ ns[ns[e].kids[m]] # Free /\ ns[e].kids[m] # new
    BY <1>5
  <2>1. PICK k \in Ids : k = ns[e].kids[m] /\ t[e].kids[m] = k /\ ns[k] # Free /\ k # new
    BY <2>3
  <2>2. t[k] = ns[k]
    BY <1>3, <2>1
  <2> QED
    BY <2>1, <2>2
<1>9. RootNameless(t)
  <2> SUFFICES ASSUME NEW e \in Ids, NEW m \in Names, IsDir(t, e), t[e].kids[m] = Root
               PROVE  FALSE
    BY DEF RootNameless
  <2> QED
    BY <1>5, IdFacts DEF RootNameless, GoodTree
<1>10. OneName(t)
  <2> SUFFICES ASSUME NEW a \in Ids, NEW b \in Ids, NEW m \in Names, NEW k \in Names,
                      IsDir(t, a), IsDir(t, b), t[a].kids[m] = t[b].kids[k], IsDir(t, t[a].kids[m])
               PROVE  a = b /\ m = k
    BY DEF OneName
  <2>1. t[a].kids[m] # None
    BY DEF IsDir
  <2>2. /\ IsDir(ns, a) /\ t[a] = ns[a] /\ ns[a].kids[m] \in Ids /\ ns[a].kids[m] # new
        /\ IsDir(ns, b) /\ t[b] = ns[b]
    BY <1>5, <2>1
  <2>3. IsDir(ns, ns[a].kids[m]) /\ ns[a].kids[m] = ns[b].kids[k]
    BY <1>3, <2>2 DEF IsDir
  <2> QED
    BY <1>1, <2>2, <2>3, OneNameUse
<1>11. ASSUME NEW id \in Ids PROVE EntriesIn(t, id) \in SUBSET EntriesIn(ns, id) /\ (id = new => EntriesIn(t, id) = {})
  <2>1. ASSUME NEW e \in EntriesIn(t, id) PROVE e \in EntriesIn(ns, id) /\ id # new
    <3>1. PICK a \in Ids, m \in Names : e = <<a, m>>
      BY DEF EntriesIn
    <3>2. IsDir(t, a) /\ t[a].kids[m] = id
      BY <2>1, <3>1 DEF EntriesIn
    <3>4. id # None
      BY IdFacts
    <3>3. IsDir(ns, a) /\ ns[a].kids[m] = id /\ id # new
      BY <1>5, <3>2, <3>4
    <3> QED
      BY <3>1, <3>3, EntryIs
  <2> QED
    BY <2>1
<1>12. Cardinality(EntriesIn(t, new)) = 0 /\ EntriesIn(t, new) = {}
  BY <1>11, FS_EmptySet
<1>13. LinksCover(t)
  <2> SUFFICES ASSUME NEW id \in Ids, IsFile(t, id)
               PROVE  Cardinality(EntriesIn(t, id)) <= t[id].nlink
    BY DEF LinksCover
  <2>1. CASE id = new
    <3>1. t[id].nlink = 1
      BY <1>2, <1>3, <1>4, <2>1 DEF IsFile
    <3> QED
      BY <1>12, <2>1, <3>1
  <2>2. CASE id # new
    <3>1. IsFile(ns, id) /\ t[id] = ns[id]
      BY <1>3, <2>2 DEF IsFile
    <3>2. ns[id].nlink \in Nat
      BY <1>1, <3>1, NodeFacts DEF IsFile, Trees
    <3>3. /\ IsFiniteSet(EntriesIn(ns, id)) /\ Cardinality(EntriesIn(ns, id)) \in Nat
          /\ Cardinality(EntriesIn(t, id)) \in Nat
      BY EntriesFinite
    <3>4. Cardinality(EntriesIn(t, id)) <= Cardinality(EntriesIn(ns, id))
      BY <1>11, <3>3, FS_Subset
    <3>5. Cardinality(EntriesIn(ns, id)) <= ns[id].nlink
      BY <3>1 DEF GoodTree, LinksCover
    <3> QED
      BY <3>1, <3>2, <3>3, <3>4, <3>5
  <2> QED
    BY <2>1, <2>2
<1>14. GoodTree(t)
  BY <1>3, <1>7, <1>8, <1>9, <1>10, <1>13 DEF GoodTree
<1>15. Attachable(t, new)
  <2>1. IsFile(t, new) => t[new].nlink = 1
    BY <1>2, <1>3, <1>4 DEF IsFile
  <2>2. IsFile(t, new) => Cardinality(EntriesIn(t, new)) + 1 <= t[new].nlink
    BY <1>12, <2>1
  <2>3. new \in Ids \ {Root} /\ t[new] # Free
    BY <1>2, <1>3, <1>6
  <2> QED
    BY <1>12, <2>2, <2>3 DEF Attachable
<1> QED
  BY <1>3, <1>6, <1>14, <1>15

\* t is ns and a new node with the name path.
Made(ns, t, path, new, node) ==
  /\ GoodTree(t) /\ new \in Ids /\ ns[new] = Free /\ t[new] = node /\ lookup(ns, path) = None
  /\ \A e \in Ids : e # new => t[e].kind = ns[e].kind /\ (ns[e].kind # "dir" => t[e] = ns[e])
  /\ \A p \in Walks : lookup(t, p) = IF p = path THEN new ELSE lookup(ns, p)

\* Create makes a node where its directory is and nothing else is.
LEMMA CreateMakes ==
  ASSUME NEW ns, GoodTree(ns), NEW path \in Walks, path # <<>>, NEW node \in Blanks,
         Cardinality(FreeIds(ns)) >= 1, IsDir(ns, Parent(ns, path)), lookup(ns, path) = None,
         NEW r, r = Create(ns, path, node)
  PROVE  Made(ns, r.ns, path, r.id, node) /\ r = [ns |-> r.ns, id |-> r.id]
<1>1. PICK q \in Walks, n \in Names : q = Front(path) /\ n = Last(path) /\ path = Append(q, n)
  BY WalkSplit
<1>2. ns \in Trees /\ lookup(ns, q) = Parent(ns, path)
  BY <1>1 DEF GoodTree, Parent
<1>3. PICK d \in Ids : d = Parent(ns, path) /\ IsDir(ns, d) /\ d = lookup(ns, q)
  <2>1. Parent(ns, path) \in Ids
    BY <1>2, LookupType DEF IsDir
  <2> QED
    BY <1>2, <2>1
<1>4. ns[d].kids[n] = None
  <2>1. lookup(ns, path) = StepDown(ns, d, n)
    BY <1>1, <1>2, <1>3, LookupStep
  <2> QED
    BY <1>3, <2>1 DEF StepDown
<1>5. PICK new \in Ids : new = Min(FreeIds(ns)) /\ ns[new] = Free
  BY FreeFacts
<1> DEFINE t1 == [ns EXCEPT ![new] = node]
           t == [t1 EXCEPT ![d].kids[n] = new]
<1>7. r = [ns |-> t, id |-> new]
  <2>1. [ns EXCEPT ![new] = node, ![d].kids[n] = new] = t
    OBVIOUS
  <2> QED
    BY <1>1, <1>3, <1>4, <1>5, <2>1 DEF Create
<1> HIDE DEF t
<1>6. NodeAdded(ns, t1, new, node)
  BY DEF NodeAdded
<1> HIDE DEF t1
<1>8. /\ GoodTree(t1) /\ Attachable(t1, new) /\ t1[new] = node /\ new # Root
      /\ \A e \in Ids : e # new => t1[e] = ns[e]
  BY <1>5, <1>6, AddNode
<1>9. d # new /\ IsDir(t1, d) /\ t1 \in Trees
  <2>1. Free.kind = "free"
    BY DEF Free
  <2> QED
    BY <1>3, <1>5, <1>8, <2>1 DEF IsDir, GoodTree
<1>10. KidSet(t1, t, d, n, new)
  BY <1>9, KidPut DEF t
<1>11. GoodTree(t) /\ t \in Trees
  BY <1>8, <1>10, AttachGood DEF KidSet
<1>12. t[new] = node
  <2>1. t[new] = t1[new]
    BY <1>9 DEF t, Trees
  <2> QED
    BY <1>8, <2>1
<1>13. \A e \in Ids : e # new => t[e].kind = ns[e].kind /\ (ns[e].kind # "dir" => t[e] = ns[e])
  BY <1>8, <1>10 DEF KidSet
<1>14. ASSUME NEW e \in Ids \cup {None}, NEW m \in Names, e # new, ~(e = d /\ m = n)
       PROVE  StepDown(t, e, m) = StepDown(ns, e, m)
  <2>1. CASE e = None
    BY <2>1 DEF StepDown, IsDir
  <2>2. CASE e # None
    <3>1. e \in Ids /\ t1[e] = ns[e] /\ (IsDir(t, e) <=> IsDir(t1, e))
      BY <1>8, <1>10, <1>14, <2>2, KidSetKinds
    <3>2. IsDir(t1, e) => t[e].kids[m] = t1[e].kids[m]
      BY <1>10, <1>14, <3>1 DEF KidSet
    <3> QED
      BY <3>1, <3>2 DEF StepDown, IsDir
  <2> QED
    BY <2>1, <2>2
<1>15. StepDown(t, d, n) = new
  <2>1. IsDir(t, d) /\ t[d].kids[n] = new
    <3>1. IsDir(t, d)
      BY <1>9, <1>10, KidSetKinds
    <3> QED
      BY <1>9, <1>10, <3>1 DEF KidSet
  <2> QED
    BY <2>1 DEF StepDown
<1>16. \A m \in Names : StepDown(t, new, m) = None
  <2>1. node.kind = "dir" => node.kids = [m \in Names |-> None]
    BY DEF EmptyDir, NewFile, Blanks
  <2> QED
    BY <1>12, <2>1 DEF StepDown, IsDir
<1>17. \A p \in Walks : lookup(ns, p) # new
  BY <1>5, LookupAlive, IdFacts
<1> DEFINE S == {p \in Walks : lookup(t, p) = IF p = path THEN new ELSE lookup(ns, p)}
<1>18. <<>> \in S
  BY <1>2, <1>11, LookupRoot DEF Walks
<1>19. ASSUME NEW p \in Walks, NEW m \in Names, p \in S PROVE Append(p, m) \in S
  <2>1. PICK w \in Walks : w = Append(p, m) /\ p = Front(w) /\ m = Last(w)
    BY WalkJoin
  <2>2. PICK e \in Ids \cup {None}, c \in Ids \cup {None} : e = lookup(ns, p) /\ c = lookup(t, p)
    BY <1>2, <1>11, LookupType
  <2>3. lookup(ns, w) = StepDown(ns, e, m) /\ lookup(t, w) = StepDown(t, c, m)
    BY <1>2, <1>11, <2>1, <2>2, LookupStep
  <2>4. c = IF p = path THEN new ELSE e
    BY <1>19, <2>2
  <2>5. CASE p = path
    <3>1. e = None /\ c = new
      BY <2>2, <2>4, <2>5
    <3>2. lookup(ns, w) = None /\ lookup(t, w) = None
      BY <1>16, <2>3, <3>1 DEF StepDown, IsDir
    <3>3. w # path
      <4>1. Len(w) = Len(p) + 1 /\ Len(p) \in Nat
        BY <2>1, WalkJoin DEF Walks
      <4> QED
        BY <2>5, <4>1
    <3> QED
      BY <2>1, <3>2, <3>3
  <2>6. CASE p # path /\ e = d /\ m = n
    <3>1. p = q
      BY <1>3, <2>2, <2>6, UniquePath
    <3>2. w = path /\ lookup(t, w) = new
      BY <1>1, <1>15, <2>1, <2>3, <2>4, <2>6, <3>1
    <3> QED
      BY <2>1, <3>2
  <2>7. CASE p # path /\ ~(e = d /\ m = n)
    <3>1. w # path
      BY <1>1, <1>3, <2>1, <2>2, <2>7
    <3>2. e # new /\ c = e
      BY <1>17, <2>2, <2>4, <2>7
    <3>3. lookup(t, w) = lookup(ns, w)
      BY <1>14, <2>3, <2>7, <3>2
    <3> QED
      BY <2>1, <3>1, <3>3
  <2> QED
    BY <2>5, <2>6, <2>7
<1> HIDE DEF S
<1>20. Walks \subseteq S
  BY <1>18, <1>19, WalkInduction
<1>21. Made(ns, t, path, new, node)
  BY <1>5, <1>11, <1>12, <1>13, <1>20 DEF Made, S
<1> QED
  BY <1>7, <1>21

\* What create_file and mkdir do: nothing, or a new node.
LEMMA CreateResult ==
  ASSUME NEW ns, GoodTree(ns), NEW path \in Walks, path # <<>>, NEW node \in Blanks,
         Cardinality(FreeIds(ns)) >= 1, NEW r, r = Create(ns, path, node)
  PROVE  /\ r = [ns |-> r.ns, id |-> r.id]
         /\ \/ r.ns = ns /\ r.id = lookup(ns, path)
            \/ Made(ns, r.ns, path, r.id, node)
<1>1. PICK q \in Walks, n \in Names : q = Front(path) /\ n = Last(path) /\ path = Append(q, n)
  BY WalkSplit
<1>2. ns \in Trees /\ lookup(ns, q) = Parent(ns, path)
  BY <1>1 DEF GoodTree, Parent
<1>3. PICK d \in Ids \cup {None} : d = Parent(ns, path) /\ d = lookup(ns, q)
  BY <1>2, LookupType
<1>4. lookup(ns, path) = StepDown(ns, d, n)
  BY <1>1, <1>2, <1>3, LookupStep
<1>5. CASE ~IsDir(ns, d)
  <2>1. r = [ns |-> ns, id |-> None] /\ lookup(ns, path) = None
    BY <1>3, <1>4, <1>5 DEF Create, StepDown
  <2> QED
    BY <2>1
<1>6. CASE IsDir(ns, d) /\ ns[d].kids[n] # None
  <2>1. r = [ns |-> ns, id |-> ns[d].kids[n]] /\ lookup(ns, path) = ns[d].kids[n]
    BY <1>1, <1>3, <1>4, <1>6 DEF Create, StepDown
  <2> QED
    BY <2>1
<1>7. CASE IsDir(ns, d) /\ ns[d].kids[n] = None
  <2>1. lookup(ns, path) = None /\ IsDir(ns, Parent(ns, path))
    BY <1>3, <1>4, <1>7 DEF StepDown
  <2> QED
    BY <2>1, CreateMakes
<1> QED
  BY <1>5, <1>6, <1>7

\* Prefixes of a path with one more name.
LEMMA PrefixFacts ==
  ASSUME NEW r \in Walks, NEW q \in Walks, NEW n \in Names
  PROVE  IsPrefix(r, r) /\ (IsPrefix(r, q) => IsPrefix(r, Append(q, n)))
<1>1. PICK a \in Nat, b \in Nat : a = Len(r) /\ b = Len(q)
  BY DEF Walks
<1>2. IsPrefix(r, r)
  BY <1>1 DEF IsPrefix
<1>3. ASSUME IsPrefix(r, q) PROVE IsPrefix(r, Append(q, n))
  <2>1. a <= b /\ SubSeq(r, 1, a) = SubSeq(q, 1, a)
    BY <1>1, <1>3 DEF IsPrefix
  <2>2. Len(Append(q, n)) = b + 1
    BY <1>1 DEF Walks
  <2>3. SubSeq(Append(q, n), 1, a) = SubSeq(q, 1, a)
    BY <1>1, <2>1 DEF Walks
  <2>4. a <= b + 1
    BY <2>1
  <2> QED
    BY <1>1, <2>1, <2>2, <2>3, <2>4 DEF IsPrefix
<1> QED
  BY <1>2, <1>3

\* The paths of P and those below.
Under(P) == {p \in Walks : \E r \in P : IsPrefix(r, p)}

\* t has the nodes of ns, and its directories differ only in the entries that
\* the paths of P name.
OnlyAt(ns, t, P) ==
  /\ \A e \in Ids : t[e].kind = ns[e].kind /\ (ns[e].kind = "file" => t[e].data = ns[e].data)
  /\ \A e \in Ids, m \in Names : IsDir(ns, e) =>
       \/ t[e].kids[m] = ns[e].kids[m]
       \/ \E r \in P : r # <<>> /\ e = lookup(ns, Front(r)) /\ m = Last(r)

\* Then no path changes that is neither in P nor below.
LEMMA Beside ==
  ASSUME NEW ns, GoodTree(ns), NEW t \in Trees, NEW P \in SUBSET Walks, OnlyAt(ns, t, P),
         NEW p \in Walks, p \notin Under(P)
  PROVE  lookup(t, p) = lookup(ns, p)
<1> DEFINE S == {q \in Walks : q \in Under(P) \/ lookup(t, q) = lookup(ns, q)}
<1>1. ns \in Trees
  BY DEF GoodTree
<1>2. <<>> \in S
  BY <1>1, LookupRoot DEF Walks
<1>3. ASSUME NEW q \in Walks, NEW n \in Names, q \in S PROVE Append(q, n) \in S
  <2>1. PICK w \in Walks : w = Append(q, n)
    BY WalkJoin
  <2>2. CASE q \in Under(P)
    <3>1. PICK r \in P : IsPrefix(r, q)
      BY <2>2 DEF Under
    <3>2. r \in Walks
      OBVIOUS
    <3>3. IsPrefix(r, w)
      BY <2>1, <3>1, <3>2, PrefixFacts
    <3> QED
      BY <2>1, <3>3 DEF Under
  <2>3. CASE q \notin Under(P)
    <3>1. PICK d \in Ids \cup {None} : d = lookup(ns, q) /\ lookup(t, q) = d
      BY <1>1, <1>3, <2>3, LookupType
    <3>2. lookup(ns, w) = StepDown(ns, d, n) /\ lookup(t, w) = StepDown(t, d, n)
      BY <1>1, <2>1, <3>1, LookupStep
    <3>3. CASE ~IsDir(ns, d)
      <4>1. ~IsDir(t, d)
        BY <3>3 DEF OnlyAt, IsDir
      <4> QED
        BY <2>1, <3>2, <3>3, <4>1 DEF StepDown
    <3>4. CASE IsDir(ns, d)
      <4>1. d \in Ids /\ IsDir(t, d)
        BY <3>4 DEF OnlyAt, IsDir
      <4>2. lookup(ns, w) = ns[d].kids[n] /\ lookup(t, w) = t[d].kids[n]
        BY <3>2, <3>4, <4>1 DEF StepDown
      <4>3. CASE t[d].kids[n] = ns[d].kids[n]
        BY <2>1, <4>2, <4>3
      <4>4. CASE \E r \in P : r # <<>> /\ d = lookup(ns, Front(r)) /\ n = Last(r)
        <5>1. PICK r \in P : r # <<>> /\ d = lookup(ns, Front(r)) /\ n = Last(r)
          BY <4>4
        <5>2. r \in Walks
          OBVIOUS
        <5>3. Front(r) \in Walks /\ r = Append(Front(r), n)
          BY <5>1, <5>2, WalkSplit
        <5>4. Front(r) = q
          BY <3>1, <3>4, <5>1, <5>3, UniquePath
        <5>5. r = w
          BY <2>1, <5>3, <5>4
        <5>6. IsPrefix(r, w)
          BY <5>2, <5>5, PrefixFacts
        <5> QED
          BY <2>1, <5>6 DEF Under
      <4> QED
        BY <3>4, <4>1, <4>3, <4>4 DEF OnlyAt
    <3> QED
      BY <3>3, <3>4
  <2> QED
    BY <2>2, <2>3
<1> HIDE DEF S
<1>4. Walks \subseteq S
  BY <1>2, <1>3, WalkInduction
<1> QED
  BY <1>4 DEF S

\* A call leaves a sound tree, and the nodes but for X and the paths but for
\* P read as before.
Keeps(ns, t, X, P) == GoodTree(t) /\ SameNodes(ns, t, X) /\ SameReads(ns, t, P)

\* A change of some entries leaves alone what is not below them.
LEMMA OnlyAtKeeps ==
  ASSUME NEW ns, GoodTree(ns), NEW t, GoodTree(t), NEW P \in SUBSET Walks, OnlyAt(ns, t, P)
  PROVE  Keeps(ns, t, {}, Under(P))
<1>1. SameNodes(ns, t, {})
  BY DEF OnlyAt, SameNodes
<1>2. t \in Trees
  BY DEF GoodTree
<1>3. ASSUME NEW p \in Walks, p \notin Under(P) PROVE read_file(t, p) = read_file(ns, p)
  <2>1. lookup(t, p) = lookup(ns, p)
    BY <1>2, <1>3, Beside
  <2> QED
    BY <1>1, <2>1, ReadsFollow
<1> QED
  BY <1>1, <1>3 DEF Keeps, SameReads

\* No change keeps everything.
LEMMA KeepsSame ==
  ASSUME NEW ns, GoodTree(ns), NEW X, NEW P
  PROVE  Keeps(ns, ns, X, P)
BY DEF Keeps, SameNodes, SameReads

\* An entry is set where its path ends.
LEMMA KidSetOnlyAt ==
  ASSUME NEW ns, NEW t, NEW d \in Ids, NEW n \in Names, NEW id, KidSet(ns, t, d, n, id),
         NEW P, NEW r \in P, r # <<>>, d = lookup(ns, Front(r)), n = Last(r)
  PROVE  OnlyAt(ns, t, P)
BY DEF KidSet, OnlyAt

\* A name whose directory is there.
LEMMA NamePlace ==
  ASSUME NEW ns \in Trees, NEW path \in Walks, path # <<>>, IsDir(ns, Parent(ns, path))
  PROVE  /\ Parent(ns, path) \in Ids /\ Last(path) \in Names /\ Front(path) \in Walks
         /\ Parent(ns, path) = lookup(ns, Front(path))
         /\ lookup(ns, path) = ns[Parent(ns, path)].kids[Last(path)]
<1>1. Front(path) \in Walks /\ Last(path) \in Names /\ path = Append(Front(path), Last(path))
  BY WalkSplit
<1>2. Parent(ns, path) = lookup(ns, Front(path))
  BY DEF Parent
<1>3. Parent(ns, path) \in Ids
  BY <1>1, <1>2, LookupType DEF IsDir
<1>4. PICK q \in Walks, n \in Names : q = Front(path) /\ n = Last(path) /\ path = Append(q, n)
  BY <1>1
<1>5. lookup(ns, path) = StepDown(ns, lookup(ns, q), n)
  BY <1>4, LookupStep
<1> QED
  BY <1>1, <1>2, <1>3, <1>4, <1>5 DEF StepDown

\* unlink and rmdir change no path beside theirs.
LEMMA RemoveKeeps ==
  ASSUME NEW ns, GoodTree(ns), NEW path \in Walks, path # <<>>, NEW allow_dir
  PROVE  Keeps(ns, remove_entry(ns, path, allow_dir).ns, {}, Under({path}))
<1>1. remove_entry(ns, path, allow_dir).ns = ns
      \/ (IsDir(ns, Parent(ns, path)) /\ remove_entry(ns, path, allow_dir).ns = Detach(ns, path))
  BY DEF remove_entry
<1>2. CASE remove_entry(ns, path, allow_dir).ns = ns
  BY <1>2, KeepsSame
<1>3. CASE IsDir(ns, Parent(ns, path)) /\ remove_entry(ns, path, allow_dir).ns = Detach(ns, path)
  <2>1. ns \in Trees
    BY DEF GoodTree
  <2>2. PICK d \in Ids, n \in Names : d = Parent(ns, path) /\ n = Last(path) /\ d = lookup(ns, Front(path))
    BY <1>3, <2>1, NamePlace
  <2>3. PICK t : t = Detach(ns, path)
    OBVIOUS
  <2>4. KidSet(ns, t, d, n, None)
    <3>1. t = [ns EXCEPT ![d].kids[n] = None]
      BY <2>2, <2>3 DEF Detach
    <3>2. KidSet(ns, [ns EXCEPT ![d].kids[n] = None], d, n, None)
      BY <1>3, <2>1, <2>2, KidPut
    <3> QED
      BY <3>1, <3>2
  <2>5. GoodTree(t)
    BY <2>4, DetachGood
  <2>6. OnlyAt(ns, t, {path})
    BY <2>2, <2>4, KidSetOnlyAt
  <2> QED
    BY <1>3, <2>3, <2>5, <2>6, OnlyAtKeeps
<1> QED
  BY <1>1, <1>2, <1>3

\* rename changes no path beside its two.
LEMMA RenameKeeps ==
  ASSUME NEW ns, GoodTree(ns), NEW old \in Walks, old # <<>>, NEW new \in Walks, new # <<>>
  PROVE  Keeps(ns, rename(ns, old, new).ns, {}, Under({old, new}))
<1>1. PICK id : id = lookup(ns, old)
  OBVIOUS
<1>2. PICK to : to = Parent(ns, new)
  OBVIOUS
<1>3. PICK gone : gone = Detach(ns, old)
  OBVIOUS
<1>4. \/ rename(ns, old, new).ns = ns
      \/ /\ IsDir(ns, Parent(ns, old)) /\ id # None
         /\ \/ IsDir(ns, to) /\ rename(ns, old, new).ns = [gone EXCEPT ![to].kids[Last(new)] = id]
            \/ rename(ns, old, new).ns = gone
  BY <1>1, <1>2, <1>3 DEF rename
<1>5. CASE rename(ns, old, new).ns = ns
  BY <1>5, KeepsSame
<1>6. CASE IsDir(ns, Parent(ns, old)) /\ id # None
  <2>1. ns \in Trees /\ OneName(ns)
    BY DEF GoodTree
  <2>2. /\ Parent(ns, old) \in Ids /\ Last(old) \in Names /\ Parent(ns, old) = lookup(ns, Front(old))
        /\ lookup(ns, old) = ns[Parent(ns, old)].kids[Last(old)]
    BY <1>6, <2>1, NamePlace
  <2>3. PICK d \in Ids, n \in Names : /\ d = Parent(ns, old) /\ n = Last(old) /\ IsDir(ns, d)
                                      /\ d = lookup(ns, Front(old)) /\ ns[d].kids[n] = id
    BY <1>1, <1>6, <2>2
  <2>4. KidSet(ns, gone, d, n, None)
    <3>1. gone = [ns EXCEPT ![d].kids[n] = None]
      BY <1>3, <2>3 DEF Detach
    <3>2. KidSet(ns, [ns EXCEPT ![d].kids[n] = None], d, n, None)
      BY <2>1, <2>3, KidPut
    <3> QED
      BY <3>1, <3>2
  <2>5. GoodTree(gone) /\ gone \in Trees
    BY <2>4, DetachGood DEF KidSet
  <2>6. \A e \in Ids \cup {None} : (IsDir(gone, e) <=> IsDir(ns, e)) /\ (IsFile(gone, e) <=> IsFile(ns, e))
    BY <2>4, KidSetKinds
  <2>7. CASE rename(ns, old, new).ns = gone
    <3>1. OnlyAt(ns, gone, {old, new})
      BY <2>3, <2>4, KidSetOnlyAt
    <3> QED
      BY <2>5, <2>7, <3>1, OnlyAtKeeps
  <2>8. CASE IsDir(ns, to) /\ rename(ns, old, new).ns = [gone EXCEPT ![to].kids[Last(new)] = id]
    <3>1. to \in Ids /\ Last(new) \in Names /\ to = lookup(ns, Front(new))
      BY <1>2, <2>1, <2>8, NamePlace
    <3>2. id \in Ids /\ ns[id] # Free /\ id # Root
      BY <1>1, <1>6, LookupAlive
    <3>3. ASSUME NEW a \in Ids, NEW m \in Names, IsDir(gone, a), gone[a].kids[m] = id
          PROVE  IsDir(ns, a) /\ ns[a].kids[m] = id /\ ~(a = d /\ m = n)
      <4>1. IsDir(ns, a)
        BY <2>6, <3>3
      <4>2. gone[a].kids[m] = IF a = d /\ m = n THEN None ELSE ns[a].kids[m]
        BY <2>4, <4>1 DEF KidSet
      <4> QED
        BY <1>6, <3>3, <4>1, <4>2
    <3>4. ASSUME NEW e \in EntriesIn(gone, id) PROVE e \in EntriesIn(ns, id) \ {<<d, n>>}
      <4>1. PICK a \in Ids, m \in Names : e = <<a, m>>
        BY DEF EntriesIn
      <4>2. IsDir(gone, a) /\ gone[a].kids[m] = id
        BY <3>4, <4>1 DEF EntriesIn
      <4>3. IsDir(ns, a) /\ ns[a].kids[m] = id /\ ~(a = d /\ m = n)
        BY <3>3, <4>2
      <4>4. <<a, m>> \in EntriesIn(ns, id) /\ <<a, m>> # <<d, n>>
        BY <4>3, EntryIs
      <4> QED
        BY <4>1, <4>4
    <3>5. IsDir(gone, id) => EntriesIn(gone, id) = {}
      <4> SUFFICES ASSUME IsDir(gone, id), NEW e \in EntriesIn(gone, id) PROVE FALSE
        OBVIOUS
      <4>1. PICK a \in Ids, m \in Names : e = <<a, m>>
        BY DEF EntriesIn
      <4>2. IsDir(gone, a) /\ gone[a].kids[m] = id
        BY <4>1 DEF EntriesIn
      <4>3. IsDir(ns, a) /\ ns[a].kids[m] = id /\ ~(a = d /\ m = n)
        BY <3>3, <4>2
      <4>4. IsDir(ns, id)
        BY <2>6, <3>2
      <4>5. IsDir(ns, ns[a].kids[m]) /\ ns[a].kids[m] = ns[d].kids[n]
        BY <2>3, <4>3, <4>4
      <4> QED
        BY <2>1, <2>3, <4>3, <4>5, OneNameUse
    <3>6. IsFile(gone, id) => Cardinality(EntriesIn(gone, id)) + 1 <= gone[id].nlink
      <4> SUFFICES ASSUME IsFile(gone, id) PROVE Cardinality(EntriesIn(gone, id)) + 1 <= gone[id].nlink
        OBVIOUS
      <4>1. IsFile(ns, id) /\ gone[id] = ns[id]
        BY <2>4, <2>6, <3>2 DEF KidSet, IsFile
      <4>2. <<d, n>> \in EntriesIn(ns, id)
        BY <2>3, EntryIs
      <4>3. PICK E : E = EntriesIn(ns, id)
        OBVIOUS
      <4>4. IsFiniteSet(E) /\ Cardinality(E) \in Nat
        BY <4>3, EntriesFinite
      <4>5. IsFiniteSet(E \ {<<d, n>>}) /\ Cardinality(E \ {<<d, n>>}) = Cardinality(E) - 1
        BY <4>2, <4>3, <4>4, FS_RemoveElement
      <4>6. EntriesIn(gone, id) \in SUBSET (E \ {<<d, n>>})
        BY <3>4, <4>3
      <4>7. Cardinality(EntriesIn(gone, id)) <= Cardinality(E \ {<<d, n>>})
        BY <4>5, <4>6, FS_Subset
      <4>8. Cardinality(E) <= ns[id].nlink
        BY <3>2, <4>1, <4>3 DEF GoodTree, LinksCover
      <4>9. ns[id].nlink \in Nat /\ Cardinality(EntriesIn(gone, id)) \in Nat
        BY <2>1, <3>2, <4>1, NodeFacts, EntriesFinite DEF IsFile, Trees
      <4> QED
        BY <4>1, <4>4, <4>5, <4>7, <4>8, <4>9
    <3>7. gone[id] # Free
      <4>1. gone[id].kind = ns[id].kind /\ gone[id] \in TreeNodes /\ ns[id] \in TreeNodes
        BY <2>1, <2>4, <2>5, <3>2 DEF KidSet, Trees
      <4> QED
        BY <3>2, <4>1, NodeFacts
    <3>8. Attachable(gone, id)
      BY <3>2, <3>5, <3>6, <3>7 DEF Attachable
    <3>9. PICK t : t = rename(ns, old, new).ns
      OBVIOUS
    <3>10. KidSet(gone, t, to, Last(new), id)
      <4>1. IsDir(gone, to) /\ id \in Ids \cup {None}
        BY <2>6, <2>8, <3>1, <3>2
      <4>2. KidSet(gone, [gone EXCEPT ![to].kids[Last(new)] = id], to, Last(new), id)
        BY <2>5, <3>1, <4>1, KidPut
      <4> QED
        BY <2>8, <3>9, <4>2
    <3>11. GoodTree(t)
      BY <2>5, <3>1, <3>8, <3>10, AttachGood
    <3>12. OnlyAt(ns, t, {old, new})
      <4>1. \A e \in Ids : t[e].kind = ns[e].kind /\ (ns[e].kind = "file" => t[e].data = ns[e].data)
        BY <2>4, <3>10 DEF KidSet
      <4>2. ASSUME NEW e \in Ids, NEW m \in Names, IsDir(ns, e)
            PROVE  \/ t[e].kids[m] = ns[e].kids[m]
                   \/ \E r \in {old, new} : r # <<>> /\ e = lookup(ns, Front(r)) /\ m = Last(r)
        <5>1. IsDir(gone, e)
          BY <2>6, <4>2
        <5>2. t[e].kids[m] = IF e = to /\ m = Last(new) THEN id ELSE gone[e].kids[m]
          BY <3>10, <5>1 DEF KidSet
        <5>3. gone[e].kids[m] = IF e = d /\ m = n THEN None ELSE ns[e].kids[m]
          BY <2>4, <4>2 DEF KidSet
        <5> QED
          BY <2>3, <3>1, <5>2, <5>3
      <4> QED
        BY <4>1, <4>2 DEF OnlyAt
    <3> QED
      BY <3>9, <3>11, <3>12, OnlyAtKeeps
  <2> QED
    BY <1>4, <1>5, <1>6, <2>7, <2>8
<1> QED
  BY <1>4, <1>5, <1>6

\* A tree with the same entries has the same names.
LEMMA SameKidsEntries ==
  ASSUME NEW ns, NEW t, SameKids(ns, t), NEW id
  PROVE  EntriesIn(t, id) = EntriesIn(ns, id)
<1>1. \A e \in Ids \X Names : /\ IsDir(t, e[1]) <=> IsDir(ns, e[1])
                              /\ IsDir(ns, e[1]) => t[e[1]] = ns[e[1]]
  BY DEF SameKids, IsDir
<1> QED
  BY <1>1 DEF EntriesIn

\* link changes no path beside the new one.
LEMMA LinkKeeps ==
  ASSUME NEW ns, GoodTree(ns), NEW old \in Walks, old # <<>>, NEW new \in Walks, new # <<>>
  PROVE  Keeps(ns, link_vfs(ns, old, new).ns, {}, Under({new}))
<1>1. PICK id : id = lookup(ns, old)
  OBVIOUS
<1>2. PICK to : to = Parent(ns, new)
  OBVIOUS
<1>3. ns \in Trees
  BY DEF GoodTree
<1>4. id # None => id \in Ids /\ ns[id] # Free /\ id # Root
  BY <1>1, LookupAlive
<1>5. \/ link_vfs(ns, old, new).ns = ns
      \/ /\ IsFile(ns, id) /\ IsDir(ns, to)
         /\ link_vfs(ns, old, new).ns =
              [ns EXCEPT ![to].kids[Last(new)] = id, ![id].nlink = ns[id].nlink + 1]
  <2>1. id # None /\ ~IsDir(ns, id) => IsFile(ns, id)
    <3>1. id \in Ids => ns[id] \in TreeNodes
      BY <1>3 DEF Trees
    <3> QED
      BY <1>4, <3>1, NodeFacts DEF IsDir, IsFile
  <2>2. IsDir(ns, to) /\ IsFile(ns, id) => [ns EXCEPT ![to].kids[Last(new)] = id, ![id].nlink = @ + 1]
            = [ns EXCEPT ![to].kids[Last(new)] = id, ![id].nlink = ns[id].nlink + 1]
    <3>1. IsDir(ns, to) /\ IsFile(ns, id) => to # id
      BY DEF IsDir, IsFile
    <3> QED
      BY <1>3, <3>1 DEF Trees
  <2> QED
    BY <1>1, <1>2, <2>1, <2>2 DEF link_vfs
<1>6. CASE link_vfs(ns, old, new).ns = ns
  BY <1>6, KeepsSame
<1>7. CASE /\ IsFile(ns, id) /\ IsDir(ns, to)
           /\ link_vfs(ns, old, new).ns =
                [ns EXCEPT ![to].kids[Last(new)] = id, ![id].nlink = ns[id].nlink + 1]
  <2>1. to \in Ids /\ Last(new) \in Names /\ to = lookup(ns, Front(new))
    BY <1>2, <1>3, <1>7, NamePlace
  <2>2. id \in Ids /\ ns[id] # Free /\ id # Root /\ id # to
    BY <1>4, <1>7 DEF IsFile, IsDir
  <2>3. PICK x \in FileNodes : x = ns[id]
    <3>1. ns[id] \in FileNodes
      BY <1>3, <1>7, <2>2, NodeFacts DEF IsFile, Trees
    <3> QED
      BY <3>1
  <2>4. PICK y : y = [x EXCEPT !.nlink = x.nlink + 1]
    OBVIOUS
  <2>5. /\ y \in FileNodes /\ y.nlink = x.nlink + 1 /\ x.nlink \in Nat /\ y.kind = "file"
        /\ x.kind = "file" /\ y.data = x.data
    BY <2>4 DEF FileNodes
  <2>6. PICK t1 : t1 = [ns EXCEPT ![id] = y]
    OBVIOUS
  <2>7. t1 \in Trees /\ t1[id] = y /\ \A e \in Ids : e # id => t1[e] = ns[e]
    <3>1. y \in TreeNodes
      BY <2>5 DEF TreeNodes
    <3> QED
      BY <1>3, <2>2, <2>6, <3>1 DEF Trees
  <2>8. \A e \in Ids : ns[e].kind = "file" => ns[e].nlink \in Nat
    BY <1>3, NodeFacts DEF Trees
  <2>9. SameKids(ns, t1)
    <3> SUFFICES ASSUME NEW e \in Ids
                 PROVE  /\ t1[e].kind = ns[e].kind
                        /\ ns[e].kind # "file" => t1[e] = ns[e]
                        /\ ns[e].kind = "file" => ns[e].nlink <= t1[e].nlink
      BY <2>7 DEF SameKids
    <3>1. CASE e = id
      <4>1. t1[e] = y /\ ns[e] = x
        BY <2>3, <2>7, <3>1
      <4> QED
        BY <2>5, <4>1
    <3>2. CASE e # id
      BY <2>7, <2>8, <3>2
    <3> QED
      BY <3>1, <3>2
  <2>10. GoodTree(t1)
    BY <2>9, SameKidsGood
  <2>11. Attachable(t1, id)
    <3>1. EntriesIn(t1, id) = EntriesIn(ns, id)
      BY <2>9, SameKidsEntries
    <3>2. Cardinality(EntriesIn(ns, id)) <= x.nlink /\ Cardinality(EntriesIn(ns, id)) \in Nat
      BY <1>7, <2>2, <2>3, EntriesFinite DEF GoodTree, LinksCover
    <3>3. Cardinality(EntriesIn(t1, id)) + 1 <= t1[id].nlink
      BY <2>5, <2>7, <3>1, <3>2
    <3>4. t1[id] # Free /\ ~IsDir(t1, id)
      <4>1. Free.kind = "free"
        BY DEF Free
      <4> QED
        BY <2>5, <2>7, <4>1 DEF IsDir
    <3> QED
      BY <2>2, <3>3, <3>4 DEF Attachable
  <2>12. PICK t : t = link_vfs(ns, old, new).ns
    OBVIOUS
  <2>13. t = [t1 EXCEPT ![to].kids[Last(new)] = id]
    <3>1. PICK z : z = [ns[to] EXCEPT !.kids[Last(new)] = id]
      OBVIOUS
    <3>2. t = [ns EXCEPT ![to] = z, ![id] = y]
      <4>1. ns[id].nlink + 1 = x.nlink + 1
        BY <2>3
      <4>2. [[ns EXCEPT ![to] = z] EXCEPT ![id].nlink = ns[id].nlink + 1] = [[ns EXCEPT ![to] = z] EXCEPT ![id] = y]
        <5>1. [ns EXCEPT ![to] = z][id] = x
          BY <1>3, <2>2, <2>3 DEF Trees
        <5> QED
          BY <2>3, <2>4, <5>1
      <4> QED
        BY <1>7, <2>12, <3>1, <4>2
    <3>3. [t1 EXCEPT ![to].kids[Last(new)] = id] = [t1 EXCEPT ![to] = z]
      <4>1. t1[to] = ns[to]
        BY <2>1, <2>2, <2>7
      <4> QED
        BY <3>1, <4>1
    <3> QED
      BY <1>3, <2>1, <2>2, <2>6, <3>2, <3>3 DEF Trees
  <2>14. IsDir(t1, to)
    BY <1>7, <2>1, <2>9, SameKidsKinds
  <2>15. KidSet(t1, t, to, Last(new), id)
    <3>1. id \in Ids \cup {None}
      BY <2>2
    <3>2. KidSet(t1, [t1 EXCEPT ![to].kids[Last(new)] = id], to, Last(new), id)
      BY <2>1, <2>7, <2>14, <3>1, KidPut
    <3> QED
      BY <2>13, <3>2
  <2>16. GoodTree(t)
    BY <2>1, <2>10, <2>11, <2>15, AttachGood
  <2>17. OnlyAt(ns, t, {new})
    <3>1. \A e \in Ids : t[e].kind = ns[e].kind /\ (ns[e].kind = "file" => t[e].data = ns[e].data)
      <4> SUFFICES ASSUME NEW e \in Ids
                   PROVE  t[e].kind = ns[e].kind /\ (ns[e].kind = "file" => t[e].data = ns[e].data)
        OBVIOUS
      <4>1. t[e].kind = t1[e].kind /\ (t1[e].kind # "dir" => t[e] = t1[e])
        BY <2>15 DEF KidSet
      <4>2. t1[e].kind = ns[e].kind
        BY <2>9 DEF SameKids
      <4>3. ns[e].kind = "file" => t1[e].data = ns[e].data
        <5>1. CASE e = id
          BY <2>3, <2>5, <2>7, <5>1
        <5>2. CASE e # id
          BY <2>7, <5>2
        <5> QED
          BY <5>1, <5>2
      <4> QED
        BY <4>1, <4>2, <4>3
    <3>2. ASSUME NEW e \in Ids, NEW m \in Names, IsDir(ns, e)
          PROVE  \/ t[e].kids[m] = ns[e].kids[m]
                 \/ \E r \in {new} : r # <<>> /\ e = lookup(ns, Front(r)) /\ m = Last(r)
      <4>1. IsDir(t1, e) /\ t1[e] = ns[e]
        BY <2>9, <3>2 DEF SameKids, IsDir
      <4>2. t[e].kids[m] = IF e = to /\ m = Last(new) THEN id ELSE t1[e].kids[m]
        BY <2>15, <4>1 DEF KidSet
      <4> QED
        BY <2>1, <4>1, <4>2
    <3> QED
      BY <3>1, <3>2 DEF OnlyAt
  <2> QED
    BY <2>12, <2>16, <2>17, OnlyAtKeeps
<1> QED
  BY <1>5, <1>6, <1>7

\* A free node by its kind.
LEMMA FreeKind ==
  ASSUME NEW ns \in Trees, NEW e \in Ids
  PROVE  ns[e] = Free <=> ns[e].kind = "free"
<1>1. ns[e] \in TreeNodes
  BY DEF Trees
<1> QED
  BY <1>1, NodeFacts

\* A made node takes the place of none.
LEMMA MadeNodes ==
  ASSUME NEW ns, GoodTree(ns), NEW t, NEW path \in Walks, NEW new, NEW node, Made(ns, t, path, new, node)
  PROVE  SameNodes(ns, t, {})
BY DEF Made, SameNodes

\* A made file changes its own path only, a made directory none.
LEMMA MadeReads ==
  ASSUME NEW ns, GoodTree(ns), NEW t, NEW path \in Walks, NEW new, NEW node \in Blanks,
         Made(ns, t, path, new, node)
  PROVE  Keeps(ns, t, {}, {path}) /\ (node = EmptyDir => Keeps(ns, t, {}, {}))
<1>1. SameNodes(ns, t, {}) /\ GoodTree(t)
  BY MadeNodes DEF Made
<1>2. ASSUME NEW p \in Walks, p # path PROVE read_file(t, p) = read_file(ns, p)
  <2>1. lookup(t, p) = lookup(ns, p)
    BY <1>2 DEF Made
  <2> QED
    BY <1>1, <2>1, ReadsFollow
<1>3. ASSUME node = EmptyDir PROVE read_file(t, path) = read_file(ns, path)
  <2>1. lookup(t, path) = new /\ lookup(ns, path) = None /\ t[new] = EmptyDir
    BY <1>3 DEF Made
  <2>2. EmptyDir.kind = "dir"
    BY DEF EmptyDir
  <2> QED
    BY <2>1, <2>2 DEF read_file, IsFile
<1> QED
  BY <1>1, <1>2, <1>3 DEF Keeps, SameReads

\* create_file and mkdir change at most their own path.
LEMMA CreateKeeps ==
  ASSUME NEW ns, GoodTree(ns), NEW path \in Walks, path # <<>>, Cardinality(FreeIds(ns)) >= 1
  PROVE  Keeps(ns, create_file(ns, path).ns, {}, {path}) /\ Keeps(ns, mkdir(ns, path).ns, {}, {})
<1>1. NewFile \in Blanks /\ EmptyDir \in Blanks
  BY DEF Blanks
<1>2. Keeps(ns, create_file(ns, path).ns, {}, {path})
  <2>1. PICK r : r = Create(ns, path, NewFile)
    OBVIOUS
  <2>2. r.ns = ns \/ Made(ns, r.ns, path, r.id, NewFile)
    BY <1>1, <2>1, CreateResult
  <2>3. Keeps(ns, r.ns, {}, {path})
    BY <1>1, <2>2, KeepsSame, MadeReads
  <2> QED
    BY <2>1, <2>3 DEF create_file
<1>3. Keeps(ns, mkdir(ns, path).ns, {}, {})
  <2>1. PICK r : r = Create(ns, path, EmptyDir)
    OBVIOUS
  <2>2. r.ns = ns \/ Made(ns, r.ns, path, r.id, EmptyDir)
    BY <1>1, <2>1, CreateResult
  <2>3. Keeps(ns, r.ns, {}, {})
    BY <1>1, <2>2, KeepsSame, MadeReads
  <2> QED
    BY <2>1, <2>3 DEF mkdir
<1> QED
  BY <1>2, <1>3

\* t is ns with directories added at paths of up to n names, and room for all
\* but n of the free nodes.
Grown(ns, t, n) ==
  /\ GoodTree(t) /\ SameNodes(ns, t, {}) /\ Cardinality(FreeIds(ns)) <= Cardinality(FreeIds(t)) + n
  /\ \A p \in Walks : \/ lookup(t, p) = lookup(ns, p)
                      \/ lookup(ns, p) = None /\ IsDir(t, lookup(t, p)) /\ Len(p) <= n

\* Free nodes can be counted.
LEMMA FreeFinite ==
  ASSUME NEW ns
  PROVE  IsFiniteSet(FreeIds(ns)) /\ Cardinality(FreeIds(ns)) \in Nat
<1>1. FreeIds(ns) \in SUBSET Ids
  BY DEF FreeIds
<1>2. IsFiniteSet(FreeIds(ns))
  BY <1>1, IdFacts, FS_Subset
<1> QED
  BY <1>2, FS_CardinalityType

\* A made node costs one free node.
LEMMA MadeTakesOne ==
  ASSUME NEW ns \in Trees, NEW t, NEW path \in Walks, NEW new, NEW node, Made(ns, t, path, new, node)
  PROVE  Cardinality(FreeIds(ns)) <= Cardinality(FreeIds(t)) + 1
<1>1. PICK F : F = FreeIds(ns)
  OBVIOUS
<1>2. new \in F /\ IsFiniteSet(F) /\ Cardinality(F) \in Nat
  BY <1>1, FreeFinite DEF Made, FreeIds
<1>3. IsFiniteSet(F \ {new}) /\ Cardinality(F \ {new}) = Cardinality(F) - 1
  BY <1>2, FS_RemoveElement
<1>4. F \ {new} \in SUBSET FreeIds(t)
  <2> SUFFICES ASSUME NEW e \in F, e # new PROVE e \in FreeIds(t)
    OBVIOUS
  <2>1. e \in Ids /\ ns[e] = Free /\ ns[e].kind # "dir"
    BY <1>1 DEF FreeIds, Free
  <2>2. t[e] = ns[e]
    BY <2>1 DEF Made
  <2> QED
    BY <2>1, <2>2 DEF FreeIds
<1>5. IsFiniteSet(FreeIds(t)) /\ Cardinality(FreeIds(t)) \in Nat
  BY FreeFinite
<1>6. Cardinality(F \ {new}) <= Cardinality(FreeIds(t))
  BY <1>4, <1>5, FS_Subset
<1> QED
  BY <1>1, <1>2, <1>3, <1>5, <1>6

\* One more directory on the way to a path.
LEMMA MadeGrows ==
  ASSUME NEW ns, GoodTree(ns), NEW n \in Nat, NEW t, Grown(ns, t, n), NEW dir \in Walks,
         Len(dir) = n + 1, NEW u, NEW new, Made(t, u, dir, new, EmptyDir)
  PROVE  Grown(ns, u, n + 1)
<1>1. GoodTree(t) /\ t \in Trees /\ SameNodes(ns, t, {}) /\ GoodTree(u) /\ ns \in Trees
  BY DEF Grown, GoodTree, Made
<1>2. SameNodes(ns, u, {})
  <2> SUFFICES ASSUME NEW id \in Ids, ns[id] # Free
               PROVE  u[id].kind = ns[id].kind /\ (ns[id].kind = "file" => u[id].data = ns[id].data)
    BY DEF SameNodes
  <2>1. t[id].kind = ns[id].kind /\ (ns[id].kind = "file" => t[id].data = ns[id].data)
    BY <1>1 DEF SameNodes
  <2>2. t[id] # Free
    BY <1>1, <2>1, FreeKind
  <2>3. u[id].kind = t[id].kind /\ (t[id].kind # "dir" => u[id] = t[id])
    BY <2>2 DEF Made
  <2> QED
    BY <2>1, <2>3
<1>3. Cardinality(FreeIds(ns)) <= Cardinality(FreeIds(u)) + (n + 1)
  <2>1. Cardinality(FreeIds(t)) <= Cardinality(FreeIds(u)) + 1
    BY <1>1, MadeTakesOne
  <2>2. Cardinality(FreeIds(ns)) <= Cardinality(FreeIds(t)) + n
    BY DEF Grown
  <2>3. Cardinality(FreeIds(ns)) \in Nat /\ Cardinality(FreeIds(t)) \in Nat /\ Cardinality(FreeIds(u)) \in Nat
    BY FreeFinite
  <2> QED
    BY <2>1, <2>2, <2>3
<1>4. ASSUME NEW p \in Walks
      PROVE  \/ lookup(u, p) = lookup(ns, p)
             \/ lookup(ns, p) = None /\ IsDir(u, lookup(u, p)) /\ Len(p) <= n + 1
  <2>1. \/ lookup(t, p) = lookup(ns, p)
        \/ lookup(ns, p) = None /\ IsDir(t, lookup(t, p)) /\ Len(p) <= n
    BY DEF Grown
  <2>2. CASE p = dir
    <3>1. lookup(t, p) = None /\ lookup(u, p) = new /\ u[new] = EmptyDir /\ new \in Ids
      BY <2>2 DEF Made
    <3>2. lookup(ns, p) = None
      BY <2>1, <3>1 DEF IsDir
    <3>3. IsDir(u, new)
      BY <3>1, IdFacts DEF IsDir, EmptyDir
    <3> QED
      BY <2>2, <3>1, <3>2, <3>3
  <2>3. CASE p # dir
    <3>1. lookup(u, p) = lookup(t, p)
      BY <2>3 DEF Made
    <3>2. ASSUME IsDir(t, lookup(t, p)) PROVE IsDir(u, lookup(t, p))
      <4>1. PICK e \in Ids : e = lookup(t, p) /\ t[e] # Free
        <5>1. lookup(t, p) # None
          BY <3>2 DEF IsDir
        <5>2. lookup(t, p) \in Ids /\ t[lookup(t, p)] # Free
          BY <1>1, <5>1, LookupAlive
        <5> QED
          BY <5>2
      <4>2. u[e].kind = t[e].kind
        BY <4>1 DEF Made
      <4> QED
        BY <3>2, <4>1, <4>2 DEF IsDir
    <3>3. Len(p) \in Nat
      BY DEF Walks
    <3> QED
      BY <2>1, <3>1, <3>2, <3>3
  <2> QED
    BY <2>2, <2>3
<1> QED
  BY <1>1, <1>2, <1>3, <1>4 DEF Grown

\* Directories made on the way change what no path reads.
LEMMA GrownReads ==
  ASSUME NEW ns, GoodTree(ns), NEW n, NEW t, Grown(ns, t, n), NEW p \in Walks
  PROVE  read_file(t, p) = read_file(ns, p)
<1>1. CASE lookup(t, p) = lookup(ns, p)
  BY <1>1, ReadsFollow DEF Grown
<1>2. CASE lookup(ns, p) = None /\ IsDir(t, lookup(t, p))
  BY <1>2 DEF read_file, IsFile, IsDir
<1> QED
  BY <1>1, <1>2 DEF Grown

\* One round of ensure_parent_dirs.
WithDir(t, dir) == IF lookup(t, dir) = None THEN mkdir(t, dir).ns ELSE t

\* A round of ensure_parent_dirs makes at most one directory.
LEMMA WithDirGrows ==
  ASSUME NEW ns, GoodTree(ns), NEW n \in Nat, NEW t, Grown(ns, t, n), NEW dir \in Walks,
         Len(dir) = n + 1, Cardinality(FreeIds(ns)) > n
  PROVE  Grown(ns, WithDir(t, dir), n + 1)
<1>1. GoodTree(t) /\ Cardinality(FreeIds(ns)) <= Cardinality(FreeIds(t)) + n
  BY DEF Grown
<1>2. Cardinality(FreeIds(ns)) \in Nat /\ Cardinality(FreeIds(t)) \in Nat
  BY FreeFinite
<1>3. Cardinality(FreeIds(t)) >= 1
  BY <1>1, <1>2
<1>4. dir # <<>>
  OBVIOUS
<1>5. Grown(ns, t, n + 1)
  <2>1. Cardinality(FreeIds(ns)) <= Cardinality(FreeIds(t)) + (n + 1)
    BY <1>1, <1>2
  <2>2. \A p \in Walks : Len(p) \in Nat /\ (Len(p) <= n => Len(p) <= n + 1)
    BY DEF Walks
  <2>3. \A p \in Walks : \/ lookup(t, p) = lookup(ns, p)
                         \/ lookup(ns, p) = None /\ IsDir(t, lookup(t, p)) /\ Len(p) <= n + 1
    BY <2>2 DEF Grown
  <2> QED
    BY <2>1, <2>3 DEF Grown
<1>6. PICK r : r = Create(t, dir, EmptyDir)
  OBVIOUS
<1>7. EmptyDir \in Blanks
  BY DEF Blanks
<1>8. r.ns = t \/ Made(t, r.ns, dir, r.id, EmptyDir)
  BY <1>1, <1>3, <1>4, <1>6, <1>7, CreateResult
<1>9. Grown(ns, r.ns, n + 1)
  BY <1>5, <1>8, MadeGrows
<1> QED
  BY <1>5, <1>6, <1>9 DEF WithDir, mkdir

\* ensure_parent_dirs makes only directories where nothing was.
LEMMA EnsureGrows ==
  ASSUME NEW ns, GoodTree(ns), NEW path \in Walks, path # <<>>, Cardinality(FreeIds(ns)) >= Len(path)
  PROVE  Grown(ns, ensure_parent_dirs(ns, path), Len(path) - 1)
<1> DEFINE after[n \in 0..(Len(path) - 1)] ==
             IF n = 0 THEN ns
             ELSE LET dir == SubSeq(path, 1, n)
                      t == after[n - 1]
                  IN  IF lookup(t, dir) = None THEN mkdir(t, dir).ns ELSE t
<1>1. ensure_parent_dirs(ns, path) = after[Len(path) - 1]
  BY DEF ensure_parent_dirs
<1>2. PICK N \in Nat : N = Len(path) - 1 /\ Len(path) = N + 1
  <2>1. Len(path) \in Nat /\ Len(path) # 0
    BY DEF Walks
  <2>2. Len(path) - 1 \in Nat /\ Len(path) = (Len(path) - 1) + 1
    BY <2>1
  <2> QED
    BY <2>2
<1> DEFINE Run(k, f) == /\ f = [i \in 0..k |-> f[i]] /\ f[0] = ns
                        /\ \A i \in 1..k : f[i] = WithDir(f[i - 1], SubSeq(path, 1, i))
           S == {k \in 0..N : \E f : Run(k, f)}
<1>3. 0 \in S
  <2> DEFINE f == [i \in 0..0 |-> ns]
  <2>1. f = [i \in 0..0 |-> f[i]] /\ f[0] = ns /\ \A i \in 1..0 : f[i] = WithDir(f[i - 1], SubSeq(path, 1, i))
    OBVIOUS
  <2> HIDE DEF f
  <2>2. Run(0, f)
    BY <2>1
  <2> QED
    BY <2>2
<1>4. ASSUME NEW k \in 0..(N - 1), k \in S PROVE k + 1 \in S
  <2>1. PICK f : Run(k, f)
    BY <1>4
  <2> DEFINE g == [i \in 0..(k + 1) |-> IF i = k + 1 THEN WithDir(f[k], SubSeq(path, 1, k + 1)) ELSE f[i]]
  <2>2. (\A i \in 0..k : g[i] = f[i]) /\ g[k + 1] = WithDir(f[k], SubSeq(path, 1, k + 1))
    OBVIOUS
  <2>3. g = [i \in 0..(k + 1) |-> g[i]]
    OBVIOUS
  <2> HIDE DEF g
  <2>4. \A i \in 1..(k + 1) : g[i] = WithDir(g[i - 1], SubSeq(path, 1, i))
    <3> SUFFICES ASSUME NEW i \in 1..(k + 1) PROVE g[i] = WithDir(g[i - 1], SubSeq(path, 1, i))
      OBVIOUS
    <3>1. i - 1 \in 0..k /\ g[i - 1] = f[i - 1]
      BY <2>2
    <3>2. CASE i = k + 1
      <4>1. i - 1 = k
        BY <3>2
      <4> QED
        BY <2>2, <3>1, <3>2, <4>1
    <3>3. CASE i # k + 1
      <4>1. i \in 1..k /\ i \in 0..k
        BY <3>3
      <4> QED
        BY <2>1, <2>2, <3>1, <4>1
    <3> QED
      BY <3>2, <3>3
  <2>5. g[0] = ns
    BY <2>1, <2>2
  <2>6. Run(k + 1, g)
    BY <2>3, <2>4, <2>5
  <2>7. k + 1 \in 0..N
    OBVIOUS
  <2> QED
    BY <2>6, <2>7
<1>5. N \in S
  <2> HIDE DEF S
  <2>1. 0..N \subseteq S
    BY <1>3, <1>4, UpTo
  <2> QED
    BY <2>1
<1>6. PICK f : Run(N, f)
  BY <1>5
<1>7. \E g : g = [n \in 0..(Len(path) - 1) |->
                   IF n = 0 THEN ns
                   ELSE LET dir == SubSeq(path, 1, n)
                            t == g[n - 1]
                        IN  IF lookup(t, dir) = None THEN mkdir(t, dir).ns ELSE t]
  <2>1. \A n \in 0..N : f[n] = IF n = 0 THEN ns ELSE WithDir(f[n - 1], SubSeq(path, 1, n))
    BY <1>6
  <2>2. f = [n \in 0..N |-> IF n = 0 THEN ns ELSE WithDir(f[n - 1], SubSeq(path, 1, n))]
    BY <1>6, <2>1
  <2> QED
    BY <1>2, <2>2 DEF WithDir
<1>8. after = [n \in 0..(Len(path) - 1) |->
                   IF n = 0 THEN ns
                   ELSE LET dir == SubSeq(path, 1, n)
                            t == after[n - 1]
                        IN  IF lookup(t, dir) = None THEN mkdir(t, dir).ns ELSE t]
  BY <1>7
<1> HIDE DEF after, Run, S
<1>9. after[0] = ns /\ \A n \in 1..N : after[n] = WithDir(after[n - 1], SubSeq(path, 1, n))
  BY <1>2, <1>8 DEF WithDir
<1> DEFINE G == {n \in 0..N : Grown(ns, after[n], n)}
<1>10. 0 \in G
  <2>1. Grown(ns, ns, 0)
    <3>1. Cardinality(FreeIds(ns)) <= Cardinality(FreeIds(ns)) + 0
      BY FreeFinite
    <3> QED
      BY <3>1 DEF Grown, SameNodes
  <2> QED
    BY <1>9, <2>1
<1>11. ASSUME NEW n \in 0..(N - 1), n \in G PROVE n + 1 \in G
  <2>1. PICK m \in 1..N : m = n + 1 /\ m - 1 = n
    OBVIOUS
  <2>2. after[m] = WithDir(after[n], SubSeq(path, 1, m))
    BY <1>9, <2>1
  <2>3. SubSeq(path, 1, m) \in Walks /\ Len(SubSeq(path, 1, m)) = n + 1
    BY <1>2, <2>1 DEF Walks
  <2>4. Cardinality(FreeIds(ns)) > n /\ n \in Nat
    BY <1>2, FreeFinite
  <2>5. Grown(ns, after[n], n)
    BY <1>11
  <2>9. PICK t : t = after[n]
    OBVIOUS
  <2>6. PICK dir \in Walks : dir = SubSeq(path, 1, m)
    BY <2>3
  <2>7. Grown(ns, WithDir(t, dir), n + 1)
    BY <2>3, <2>4, <2>5, <2>6, <2>9, WithDirGrows
  <2>8. n + 1 \in 0..N
    OBVIOUS
  <2> QED
    BY <2>1, <2>2, <2>6, <2>7, <2>8, <2>9
<1> HIDE DEF G
<1>12. 0..N \subseteq G
  BY <1>10, <1>11, UpTo
<1>13. Grown(ns, after[N], N)
  BY <1>12 DEF G
<1> QED
  BY <1>1, <1>2, <1>13

\* What opening for writing makes of a tree: nothing that a path or a node
\* held is lost, and w.id is the node that path now leads to.
Opened(ns, w, path) ==
  /\ GoodTree(w.ns) /\ SameNodes(ns, w.ns, {}) /\ w.id \in Ids \cup {None}
  /\ w.id # None => w.ns[w.id] # Free
  /\ \A p \in Walks : p # path => open_readonly(w.ns, p) = open_readonly(ns, p)
  /\ (w.id = None \/ open_readonly(ns, path) # <<>>) =>
        open_readonly(w.ns, path) = open_readonly(ns, path)
  /\ \A p \in Walks : p # path /\ w.id # None /\ lookup(w.ns, p) = w.id => lookup(ns, p) = w.id

\* A file with the directories above it, where there was none.
CreatedUnder(ns, m, path) ==
  /\ m = [ns |-> m.ns, id |-> m.id] /\ GoodTree(m.ns) /\ SameNodes(ns, m.ns, {})
  /\ \A p \in Walks : p # path => read_file(m.ns, p) = read_file(ns, p)
  /\ \/ m.id = None /\ read_file(m.ns, path) = read_file(ns, path)
     \/ /\ m.id \in Ids /\ ns[m.id] = Free /\ m.ns[m.id] = NewFile /\ lookup(m.ns, path) = m.id
        /\ \A p \in Walks : p # path => lookup(m.ns, p) # m.id

\* A file made after its directories.
LEMMA CreateUnder ==
  ASSUME NEW ns, GoodTree(ns), NEW path \in Walks, path # <<>>, Cardinality(FreeIds(ns)) >= Len(path),
         lookup(ns, path) = None, NEW m, m = create_file(ensure_parent_dirs(ns, path), path)
  PROVE  CreatedUnder(ns, m, path)
<1>1. PICK E : E = ensure_parent_dirs(ns, path)
  OBVIOUS
<1>2. PICK N \in Nat : N = Len(path) - 1 /\ Len(path) = N + 1
  <2>1. Len(path) \in Nat /\ Len(path) # 0
    BY DEF Walks
  <2>2. Len(path) - 1 \in Nat /\ Len(path) = (Len(path) - 1) + 1
    BY <2>1
  <2> QED
    BY <2>2
<1>3. Grown(ns, E, N)
  BY <1>1, <1>2, EnsureGrows
<1>4. GoodTree(E) /\ SameNodes(ns, E, {}) /\ E \in Trees /\ ns \in Trees
  BY <1>3 DEF Grown, GoodTree
<1>5. Cardinality(FreeIds(E)) >= 1
  <2>1. Cardinality(FreeIds(ns)) <= Cardinality(FreeIds(E)) + N
    BY <1>3 DEF Grown
  <2>2. Cardinality(FreeIds(ns)) \in Nat /\ Cardinality(FreeIds(E)) \in Nat
    BY FreeFinite
  <2> QED
    BY <1>2, <2>1, <2>2
<1>6. lookup(E, path) = None
  <2>1. ~(Len(path) <= N)
    BY <1>2
  <2> QED
    BY <1>3, <2>1 DEF Grown
<1>7. \A p \in Walks : read_file(E, p) = read_file(ns, p)
  BY <1>3, GrownReads
<1>8. m = Create(E, path, NewFile) /\ NewFile \in Blanks
  BY <1>1 DEF create_file, Blanks
<1>9. m = [ns |-> m.ns, id |-> m.id] /\ ((m.ns = E /\ m.id = lookup(E, path)) \/ Made(E, m.ns, path, m.id, NewFile))
  BY <1>4, <1>5, <1>8, CreateResult
<1>10. CASE m.ns = E /\ m.id = lookup(E, path)
  BY <1>4, <1>6, <1>7, <1>9, <1>10 DEF CreatedUnder
<1>11. CASE Made(E, m.ns, path, m.id, NewFile)
  <2>1. /\ GoodTree(m.ns) /\ m.id \in Ids /\ E[m.id] = Free /\ m.ns[m.id] = NewFile
        /\ lookup(m.ns, path) = m.id
    BY <1>11 DEF Made
  <2>2. SameNodes(E, m.ns, {})
    BY <1>4, <1>11, MadeNodes
  <2>3. SameNodes(ns, m.ns, {})
    <3> SUFFICES ASSUME NEW id \in Ids, ns[id] # Free
                 PROVE  m.ns[id].kind = ns[id].kind /\ (ns[id].kind = "file" => m.ns[id].data = ns[id].data)
      BY DEF SameNodes
    <3>1. E[id].kind = ns[id].kind /\ (ns[id].kind = "file" => E[id].data = ns[id].data)
      BY <1>4 DEF SameNodes
    <3>2. E[id] # Free
      BY <1>4, <3>1, FreeKind
    <3>3. m.ns[id].kind = E[id].kind /\ (E[id].kind = "file" => m.ns[id].data = E[id].data)
      BY <2>2, <3>2 DEF SameNodes
    <3> QED
      BY <3>1, <3>3
  <2>4. ns[m.id] = Free
    <3>1. SUFFICES ASSUME ns[m.id] # Free PROVE FALSE
      OBVIOUS
    <3>2. E[m.id].kind = ns[m.id].kind
      BY <1>4, <2>1, <3>1 DEF SameNodes
    <3> QED
      BY <1>4, <2>1, <3>1, <3>2, FreeKind
  <2>5. Keeps(E, m.ns, {}, {path})
    BY <1>4, <1>8, <1>11, MadeReads
  <2>6. ASSUME NEW p \in Walks, p # path
        PROVE  read_file(m.ns, p) = read_file(ns, p) /\ lookup(m.ns, p) # m.id
    <3>1. read_file(m.ns, p) = read_file(E, p)
      BY <2>5, <2>6 DEF Keeps, SameReads
    <3>2. lookup(m.ns, p) = lookup(E, p)
      BY <1>11, <2>6 DEF Made
    <3>3. lookup(E, p) # m.id
      BY <1>4, <2>1, LookupAlive, IdFacts
    <3> QED
      BY <1>7, <3>1, <3>2, <3>3
  <2> QED
    BY <1>9, <2>1, <2>3, <2>4, <2>6 DEF CreatedUnder
<1> QED
  BY <1>9, <1>10, <1>11

\* What an open for reading sees depends on what the path reads.
LEMMA ReadonlySame ==
  ASSUME NEW ns, NEW t, NEW p, read_file(t, p) = read_file(ns, p)
  PROVE  open_readonly(t, p) = open_readonly(ns, p)
BY DEF open_readonly

\* Where the tree has nothing, the image is read.
LEMMA NoFileRead ==
  ASSUME NEW ns, NEW p, lookup(ns, p) = None
  PROVE  read_file(ns, p) = <<>> /\ open_readonly(ns, p) = ext4_read_file(p)
<1>1. read_file(ns, p) = <<>>
  BY DEF read_file, IsFile
<1> QED
  BY <1>1 DEF open_readonly

\* An open that changes nothing.
LEMMA OpenedSame ==
  ASSUME NEW ns, GoodTree(ns), NEW path \in Walks, NEW w, w.ns = ns,
         w.id = lookup(ns, path) \/ w.id = None
  PROVE  Opened(ns, w, path)
<1>1. w.id \in Ids \cup {None} /\ (w.id # None => ns[w.id] # Free)
  BY LookupAlive
<1> QED
  BY <1>1 DEF Opened, SameNodes

\* A new file that the image has not.
LEMMA OpenedNew ==
  ASSUME NEW ns, GoodTree(ns), NEW path \in Walks, lookup(ns, path) = None, ext4_read_file(path) = <<>>,
         NEW m, CreatedUnder(ns, m, path)
  PROVE  Opened(ns, m, path)
<1>1. \A p \in Walks : p # path => open_readonly(m.ns, p) = open_readonly(ns, p)
  BY ReadonlySame DEF CreatedUnder
<1>2. open_readonly(ns, path) = <<>>
  BY NoFileRead
<1>3. m.id = None => open_readonly(m.ns, path) = open_readonly(ns, path)
  BY ReadonlySame, IdFacts DEF CreatedUnder
<1>4. m.id \in Ids \cup {None} /\ (m.id # None => m.ns[m.id] # Free)
  BY DEF CreatedUnder, NewFile, Free
<1>5. \A p \in Walks : p # path /\ m.id # None /\ lookup(m.ns, p) = m.id => lookup(ns, p) = m.id
  BY DEF CreatedUnder
<1> QED
  BY <1>1, <1>2, <1>3, <1>4, <1>5 DEF Opened, CreatedUnder

\* A file of the image, copied with its contents.
LEMMA OpenedCopy ==
  ASSUME NEW ns, GoodTree(ns), NEW path \in Walks, path # <<>>, Cardinality(FreeIds(ns)) >= Len(path),
         lookup(ns, path) = None
  PROVE  Opened(ns, copy_up(ns, path), path)
<1>1. PICK w : w = copy_up(ns, path)
  OBVIOUS
<1>2. PICK m : m = create_file(ensure_parent_dirs(ns, path), path)
  OBVIOUS
<1>3. CreatedUnder(ns, m, path)
  BY <1>2, CreateUnder
<1>4. CASE ext4_read_file(path) = <<>>
  <2>1. w = [ns |-> ns, id |-> None]
    BY <1>1, <1>4 DEF copy_up
  <2>2. w.ns = ns /\ w.id = None
    BY <2>1
  <2> QED
    BY <1>1, <2>2, OpenedSame
<1>5. CASE ext4_read_file(path) # <<>>
  <2>1. path \in DOMAIN Image /\ ext4_read_file(path) = <<Image[path]>>
    BY <1>5 DEF ext4_read_file
  <2>2. PICK c \in Content : c = Image[path] /\ ext4_read_file(path)[1] = c /\ ext4_read_file(path) = <<c>>
    BY <2>1, VfsAssumption
  <2>3. w = IF IsFile(m.ns, m.id) THEN [m EXCEPT !.ns[m.id].data = c] ELSE m
    BY <1>1, <1>2, <1>5, <2>2 DEF copy_up
  <2>4. open_readonly(ns, path) = <<c>> /\ read_file(ns, path) = <<>>
    BY <2>2, NoFileRead
  <2>5. CASE m.id = None
    <3>1. w = m
      BY <2>3, <2>5 DEF IsFile
    <3>2. /\ GoodTree(m.ns) /\ SameNodes(ns, m.ns, {})
          /\ \A p \in Walks : read_file(m.ns, p) = read_file(ns, p)
      BY <1>3, <2>5, IdFacts DEF CreatedUnder
    <3>3. \A p \in Walks : open_readonly(m.ns, p) = open_readonly(ns, p)
      BY <3>2, ReadonlySame
    <3> QED
      BY <1>1, <2>5, <3>1, <3>2, <3>3 DEF Opened
  <2>6. CASE m.id # None
    <3>1. /\ m = [ns |-> m.ns, id |-> m.id] /\ GoodTree(m.ns) /\ SameNodes(ns, m.ns, {})
          /\ \A p \in Walks : p # path => read_file(m.ns, p) = read_file(ns, p) /\ lookup(m.ns, p) # m.id
          /\ m.id \in Ids /\ ns[m.id] = Free /\ m.ns[m.id] = NewFile /\ lookup(m.ns, path) = m.id
      BY <1>3, <2>6 DEF CreatedUnder
    <3>2. PICK id \in Ids : id = m.id
      BY <3>1
    <3>3. PICK u : u = m.ns
      OBVIOUS
    <3>4. IsFile(u, id)
      BY <2>6, <3>1, <3>2, <3>3 DEF IsFile, NewFile
    <3>5. PICK t : t = [u EXCEPT ![id].data = c]
      OBVIOUS
    <3>6. w.ns = t /\ w.id = id
      <4>1. w = [m EXCEPT !.ns[m.id].data = c]
        BY <2>3, <3>2, <3>3, <3>4
      <4>2. m = [ns |-> u, id |-> id]
        BY <3>1, <3>2, <3>3
      <4>3. [m EXCEPT !.ns[id].data = c] = [ns |-> t, id |-> id]
        BY <3>5, <4>2
      <4>4. w = [ns |-> t, id |-> id]
        BY <3>2, <4>1, <4>3
      <4> QED
        BY <4>4
    <3>12. DataSet(u, t, id, c) /\ GoodTree(u)
      BY <3>1, <3>3, <3>5 DEF DataSet
    <3>7. /\ GoodTree(t) /\ SameNodes(u, t, {id})
          /\ \A p \in Walks : lookup(t, p) = lookup(u, p)
          /\ \A p \in Walks : lookup(u, p) # id => read_file(t, p) = read_file(u, p)
          /\ t[id].data = c /\ IsFile(t, id)
      BY <3>4, <3>12, DataPut
    <3>8. SameNodes(ns, t, {})
      <4> SUFFICES ASSUME NEW e \in Ids, ns[e] # Free
                   PROVE  t[e].kind = ns[e].kind /\ (ns[e].kind = "file" => t[e].data = ns[e].data)
        BY DEF SameNodes
      <4>1. u[e].kind = ns[e].kind /\ (ns[e].kind = "file" => u[e].data = ns[e].data) /\ e # id
        BY <3>1, <3>2, <3>3 DEF SameNodes
      <4>2. u[e] # Free
        <5>1. u \in Trees /\ ns \in Trees
          BY <3>1, <3>3 DEF GoodTree
        <5> QED
          BY <4>1, <5>1, FreeKind
      <4>3. t[e].kind = u[e].kind /\ (u[e].kind = "file" => t[e].data = u[e].data)
        BY <3>7, <4>1, <4>2 DEF SameNodes
      <4> QED
        BY <4>1, <4>3
    <3>9. ASSUME NEW p \in Walks, p # path
          PROVE  open_readonly(t, p) = open_readonly(ns, p) /\ lookup(t, p) # id
      <4>1. lookup(u, p) # id /\ read_file(u, p) = read_file(ns, p)
        BY <3>1, <3>2, <3>3, <3>9
      <4>2. read_file(t, p) = read_file(ns, p)
        BY <3>7, <4>1
      <4> QED
        BY <3>7, <4>1, <4>2, ReadonlySame
    <3>10. open_readonly(t, path) = <<c>>
      <4>1. lookup(t, path) = id
        BY <3>1, <3>2, <3>3, <3>7
      <4>2. read_file(t, path) = <<c>>
        BY <3>7, <4>1 DEF read_file
      <4> QED
        BY <4>2 DEF open_readonly
    <3>11. t[id] # Free
      BY <3>7 DEF IsFile, Free
    <3> QED
      BY <1>1, <2>4, <3>6, <3>7, <3>8, <3>9, <3>10, <3>11 DEF Opened
  <2> QED
    BY <2>5, <2>6
<1> QED
  BY <1>4, <1>5

\* An open for writing changes at most what its path reads.
LEMMA OpenWritable ==
  ASSUME NEW ns, GoodTree(ns), NEW path \in Walks, path # <<>>, Cardinality(FreeIds(ns)) >= Len(path),
         NEW o_creat \in BOOLEAN
  PROVE  Opened(ns, open_writable(ns, path, o_creat), path)
<1>1. CASE lookup(ns, path) # None
  <2>1. PICK w : w = open_writable(ns, path, o_creat)
    OBVIOUS
  <2>2. w = [ns |-> ns, id |-> lookup(ns, path)]
    BY <1>1, <2>1 DEF open_writable
  <2>3. w.ns = ns /\ w.id = lookup(ns, path)
    BY <2>2
  <2> QED
    BY <2>1, <2>3, OpenedSame
<1>2. CASE lookup(ns, path) = None /\ ext4_exists(path)
  <2>1. open_writable(ns, path, o_creat) = copy_up(ns, path)
    BY <1>2 DEF open_writable
  <2> QED
    BY <1>2, <2>1, OpenedCopy
<1>3. CASE lookup(ns, path) = None /\ ~ext4_exists(path) /\ o_creat
  <2>1. PICK w : w = open_writable(ns, path, o_creat)
    OBVIOUS
  <2>2. w = create_file(ensure_parent_dirs(ns, path), path)
    BY <1>3, <2>1 DEF open_writable
  <2>3. ext4_read_file(path) = <<>>
    BY <1>3 DEF ext4_exists, ext4_read_file
  <2>4. CreatedUnder(ns, w, path)
    BY <1>3, <2>2, CreateUnder
  <2> QED
    BY <1>3, <2>1, <2>3, <2>4, OpenedNew
<1>4. CASE lookup(ns, path) = None /\ ~ext4_exists(path) /\ ~o_creat
  <2>1. PICK w : w = open_writable(ns, path, o_creat)
    OBVIOUS
  <2>2. w = [ns |-> ns, id |-> None]
    BY <1>4, <2>1 DEF open_writable
  <2>3. w.ns = ns /\ w.id = None
    BY <2>2
  <2> QED
    BY <2>1, <2>3, OpenedSame
<1> QED
  BY <1>1, <1>2, <1>3, <1>4

\* What it is to be in a directory of a set.
LEMMA KidsIs ==
  ASSUME NEW ns, NEW S, NEW k
  PROVE  k \in Kids(ns, S) <=> k # None /\ \E d \in S, n \in Names : IsDir(ns, d) /\ k = ns[d].kids[n]
BY DEF Kids

\* Entries of directories are nodes.
LEMMA KidsType ==
  ASSUME NEW ns \in Trees, NEW S \in SUBSET Ids
  PROVE  Kids(ns, S) \in SUBSET Ids
<1> SUFFICES ASSUME NEW k \in Kids(ns, S) PROVE k \in Ids
  OBVIOUS
<1>1. PICK d \in S, n \in Names : k # None /\ IsDir(ns, d) /\ k = ns[d].kids[n]
  BY KidsIs
<1>2. d \in Ids
  OBVIOUS
<1>3. ns[d].kids[n] \in Ids \cup {None}
  BY <1>1, <1>2, KidType
<1> QED
  BY <1>1, <1>3

\* Below stops growing: every round but the last adds a node or none does.
LEMMA BelowFacts ==
  ASSUME NEW ns \in Trees, NEW S \in SUBSET Ids, S # {}
  PROVE  /\ Below(ns, S) \in SUBSET Ids /\ S \subseteq Below(ns, S)
         /\ Kids(ns, Below(ns, S)) \subseteq Below(ns, S)
<1> DEFINE level[n \in 0..MaxNodes] ==
             IF n = 0 THEN S ELSE LET above == level[n - 1] IN above \cup Kids(ns, above)
           D == SUBSET Ids
           F == [n \in 1..MaxNodes |-> [X \in D |-> X \cup Kids(ns, X)]]
<1>1. Below(ns, S) = level[MaxNodes]
  BY DEF Below
<1>2. MaxNodes \in Nat /\ IsFiniteSet(Ids) /\ Cardinality(Ids) = MaxNodes
  BY IdFacts
<1>3. LoopOver(MaxNodes, D, F)
  <2>1. \A X \in D : X \cup Kids(ns, X) \in D
    BY KidsType
  <2> HIDE DEF D
  <2> QED
    BY <2>1 DEF LoopOver
<1>4. PICK f : LoopRun(MaxNodes, D, F, S, f)
  <2> HIDE DEF F
  <2>1. S \in D
    OBVIOUS
  <2> HIDE DEF D
  <2>2. PICK b \in D : b = S
    BY <2>1
  <2>3. \E f : LoopRun(MaxNodes, D, F, b, f)
    BY <1>2, <1>3, LoopRuns
  <2> QED
    BY <2>2, <2>3
<1>5. f \in [0..MaxNodes -> D] /\ f[0] = S /\ \A n \in 1..MaxNodes : f[n] = F[n][f[n - 1]]
  <2> HIDE DEF D, F
  <2> QED
    BY <1>4 DEF LoopRun
<1>6. \A n \in 1..MaxNodes : f[n] = f[n - 1] \cup Kids(ns, f[n - 1])
  <2> SUFFICES ASSUME NEW n \in 1..MaxNodes PROVE f[n] = f[n - 1] \cup Kids(ns, f[n - 1])
    OBVIOUS
  <2>1. n - 1 \in 0..MaxNodes
    BY <1>2
  <2>2. f[n - 1] \in D
    BY <1>5, <2>1
  <2> HIDE DEF D
  <2>3. F[n][f[n - 1]] = f[n - 1] \cup Kids(ns, f[n - 1])
    BY <2>2
  <2> QED
    BY <1>5, <2>3
<1>7. \E g : g = [n \in 0..MaxNodes |-> IF n = 0 THEN S ELSE LET above == g[n - 1] IN above \cup Kids(ns, above)]
  <2>1. \A n \in 0..MaxNodes : f[n] = IF n = 0 THEN S ELSE f[n - 1] \cup Kids(ns, f[n - 1])
    BY <1>2, <1>5, <1>6
  <2>2. f = [n \in 0..MaxNodes |-> IF n = 0 THEN S ELSE f[n - 1] \cup Kids(ns, f[n - 1])]
    BY <1>5, <2>1
  <2> QED
    BY <2>2
<1>8. level = [n \in 0..MaxNodes |-> IF n = 0 THEN S ELSE LET above == level[n - 1] IN above \cup Kids(ns, above)]
  BY <1>7
<1> HIDE DEF level
<1>9. level[0] = S /\ \A n \in 1..MaxNodes : level[n] = level[n - 1] \cup Kids(ns, level[n - 1])
  <2>1. \A n \in 0..MaxNodes : level[n] = IF n = 0 THEN S ELSE level[n - 1] \cup Kids(ns, level[n - 1])
    BY <1>8, Zenon
  <2>2. 0 \in 0..MaxNodes /\ \A n \in 1..MaxNodes : n \in 0..MaxNodes /\ n # 0
    BY <1>2
  <2> QED
    BY <2>1, <2>2, Zenon
<1> DEFINE Good(n) == /\ level[n] \in SUBSET Ids /\ S \subseteq level[n]
                      /\ Kids(ns, level[n]) \subseteq level[n] \/ Cardinality(level[n]) >= n + 1
           G == {n \in 0..MaxNodes : Good(n)}
<1>10. 0 \in G
  <2>1. PICK x \in S : TRUE
    OBVIOUS
  <2>2. IsFiniteSet(S) /\ Cardinality(S) \in Nat
    BY <1>2, FS_Subset, FS_CardinalityType
  <2>3. {x} \in SUBSET S /\ Cardinality({x}) = 1
    BY FS_Singleton
  <2>4. Cardinality(S) >= 1
    <3>1. Cardinality({x}) <= Cardinality(S)
      BY <2>2, <2>3, FS_Subset
    <3> QED
      BY <2>2, <2>3, <3>1
  <2>5. Good(0)
    BY <1>9, <2>2, <2>4
  <2>6. 0 \in 0..MaxNodes
    BY <1>2
  <2> QED
    BY <2>5, <2>6
<1>11. ASSUME NEW n \in 0..(MaxNodes - 1), n \in G PROVE n + 1 \in G
  <2>1. PICK m \in 1..MaxNodes : m = n + 1 /\ m - 1 = n
    BY <1>2
  <2>2. PICK A \in SUBSET Ids : A = level[n] /\ S \subseteq A /\ (Kids(ns, A) \subseteq A \/ Cardinality(A) >= n + 1)
    BY <1>11
  <2>3. level[m] = A \cup Kids(ns, A)
    BY <1>9, <2>1, <2>2
  <2>4. Kids(ns, A) \in SUBSET Ids
    BY KidsType
  <2>5. PICK B \in SUBSET Ids : B = A \cup Kids(ns, A) /\ B = level[m] /\ A \subseteq B /\ S \subseteq B
    BY <2>2, <2>3, <2>4
  <2>6. Kids(ns, B) \subseteq B \/ Cardinality(B) >= m + 1
    <3>1. CASE Kids(ns, A) \subseteq A
      <4>1. B = A
        BY <2>5, <3>1
      <4> QED
        BY <3>1, <4>1
    <3>2. CASE ~(Kids(ns, A) \subseteq A)
      <4>1. PICK k \in Kids(ns, A) : k \notin A
        BY <3>2
      <4>2. IsFiniteSet(A) /\ Cardinality(A) \in Nat /\ IsFiniteSet(B) /\ Cardinality(B) \in Nat
        BY <1>2, FS_Subset, FS_CardinalityType
      <4>3. IsFiniteSet(A \cup {k}) /\ Cardinality(A \cup {k}) = Cardinality(A) + 1
        BY <4>1, <4>2, FS_AddElement
      <4>4. A \cup {k} \in SUBSET B
        BY <2>5, <4>1
      <4>5. Cardinality(A \cup {k}) <= Cardinality(B)
        BY <4>2, <4>4, FS_Subset
      <4>6. Cardinality(A) >= n + 1
        BY <2>2, <3>2
      <4> QED
        BY <2>1, <4>2, <4>3, <4>5, <4>6
    <3> QED
      BY <3>1, <3>2
  <2>7. Good(m)
    BY <2>5, <2>6
  <2>8. m \in 0..MaxNodes
    BY <1>2, <2>1
  <2> QED
    BY <2>1, <2>7, <2>8
<1>12. MaxNodes \in G
  <2> HIDE DEF G
  <2>1. 0..MaxNodes \subseteq G
    BY <1>2, <1>10, <1>11, UpTo
  <2> QED
    BY <1>2, <2>1
<1>13. PICK L : L = level[MaxNodes]
  OBVIOUS
<1>14. L \in SUBSET Ids /\ S \subseteq L /\ (Kids(ns, L) \subseteq L \/ Cardinality(L) >= MaxNodes + 1)
  BY <1>12, <1>13
<1>15. Cardinality(L) <= MaxNodes /\ Cardinality(L) \in Nat
  BY <1>2, <1>14, FS_Subset, FS_CardinalityType
<1> HIDE DEF Good, G, D, F
<1> QED
  BY <1>1, <1>2, <1>13, <1>14, <1>15

\* What Collect leaves: the nodes of a set with the root and the held ones,
\* and with every node one of it refers to.
Swept(ns, c, B) ==
  /\ Root \in B /\ B \in SUBSET Ids /\ Kids(ns, B) \subseteq B
  /\ c = [id \in Ids |-> IF id \in B THEN ns[id] ELSE Free]

\* Collect keeps a set with all its entries, and what is held.
LEMMA CollectSweeps ==
  ASSUME NEW ns \in Trees, NEW held \in SUBSET Ids
  PROVE  \E B : held \subseteq B /\ Swept(ns, Collect(ns, held), B)
<1>1. PICK S \in SUBSET Ids : S = held \cup {Root} /\ S # {}
  BY IdFacts
<1>2. PICK B : B = Below(ns, S)
  OBVIOUS
<1>3. B \in SUBSET Ids /\ S \subseteq B /\ Kids(ns, B) \subseteq B
  BY <1>1, <1>2, BelowFacts
<1>4. Collect(ns, held) = [id \in Ids |-> IF id \in B THEN ns[id] ELSE Free]
  BY <1>1, <1>2 DEF Collect
<1>5. Root \in B /\ held \subseteq B
  BY <1>1, <1>3
<1>6. Swept(ns, Collect(ns, held), B)
  BY <1>3, <1>4, <1>5 DEF Swept
<1> QED
  BY <1>5, <1>6

\* Sweeping what no name reaches keeps the tree and what paths read.
LEMMA SweptGood ==
  ASSUME NEW ns, GoodTree(ns), NEW c, NEW B, Swept(ns, c, B)
  PROVE  /\ GoodTree(c) /\ \A id \in B : c[id] = ns[id]
         /\ \A p \in Walks : read_file(c, p) = read_file(ns, p)
<1>1. ns \in Trees /\ B \in SUBSET Ids /\ OneName(ns) /\ Root \in B
  BY DEF GoodTree, Swept
<1>2. (\A id \in B : c[id] = ns[id]) /\ (\A id \in Ids \ B : c[id] = Free)
  BY <1>1 DEF Swept
<1>3. Free.kind = "free" /\ Free \in TreeNodes
  BY DEF Free, TreeNodes
<1>4. c \in Trees
  <2>1. \A id \in Ids : ns[id] \in TreeNodes
    BY <1>1 DEF Trees
  <2> QED
    BY <1>3, <2>1 DEF Swept, Trees
<1>5. ASSUME NEW e \in Ids, IsDir(c, e) PROVE e \in B /\ IsDir(ns, e) /\ c[e] = ns[e]
  BY <1>2, <1>3, <1>5 DEF IsDir
<1>6. ASSUME NEW e \in B, NEW m \in Names, IsDir(ns, e), ns[e].kids[m] # None PROVE ns[e].kids[m] \in B
  <2>1. ns[e].kids[m] \in Kids(ns, B)
    BY <1>6, KidsIs
  <2> QED
    BY <2>1 DEF Swept
<1>7. IsDir(c, Root)
  BY <1>1, <1>2 DEF IsDir, GoodTree
<1>8. NoDangling(c)
  <2> SUFFICES ASSUME NEW e \in Ids, NEW m \in Names, IsDir(c, e), c[e].kids[m] # None
               PROVE  c[c[e].kids[m]] # Free
    BY DEF NoDangling
  <2>1. e \in B /\ IsDir(ns, e) /\ c[e] = ns[e]
    BY <1>5
  <2>2. ns[e].kids[m] \in B /\ ns[ns[e].kids[m]] # Free
    BY <1>6, <2>1 DEF GoodTree, NoDangling
  <2>3. PICK k \in B : k = ns[e].kids[m] /\ ns[k] # Free
    BY <2>2
  <2>4. c[k] = ns[k]
    BY <1>2
  <2> QED
    BY <2>1, <2>3, <2>4
<1>9. RootNameless(c)
  BY <1>5 DEF RootNameless, GoodTree
<1>10. OneName(c)
  <2> SUFFICES ASSUME NEW a \in Ids, NEW b \in Ids, NEW m \in Names, NEW k \in Names,
                      IsDir(c, a), IsDir(c, b), c[a].kids[m] = c[b].kids[k], IsDir(c, c[a].kids[m])
               PROVE  a = b /\ m = k
    BY DEF OneName
  <2>1. /\ IsDir(ns, a) /\ c[a] = ns[a] /\ IsDir(ns, b) /\ c[b] = ns[b]
    BY <1>5
  <2>2. ns[a].kids[m] \in Ids
    <3>1. ns[a].kids[m] # None
      BY <2>1 DEF IsDir
    <3> QED
      BY <1>1, <2>1, <3>1, KidType
  <2>3. IsDir(ns, ns[a].kids[m]) /\ ns[a].kids[m] = ns[b].kids[k]
    BY <1>5, <2>1, <2>2
  <2> QED
    BY <1>1, <2>1, <2>3, OneNameUse
<1>11. LinksCover(c)
  <2> SUFFICES ASSUME NEW id \in Ids, IsFile(c, id)
               PROVE  Cardinality(EntriesIn(c, id)) <= c[id].nlink
    BY DEF LinksCover
  <2>1. IsFile(ns, id) /\ c[id] = ns[id]
    BY <1>2, <1>3 DEF IsFile
  <2>2. ns[id].nlink \in Nat
    BY <1>1, <2>1, NodeFacts DEF IsFile, Trees
  <2>3. EntriesIn(c, id) \in SUBSET EntriesIn(ns, id)
    <3> SUFFICES ASSUME NEW e \in EntriesIn(c, id) PROVE e \in EntriesIn(ns, id)
      OBVIOUS
    <3>1. PICK a \in Ids, m \in Names : e = <<a, m>>
      BY DEF EntriesIn
    <3>2. IsDir(c, a) /\ c[a].kids[m] = id
      BY <3>1 DEF EntriesIn
    <3>3. IsDir(ns, a) /\ ns[a].kids[m] = id
      BY <1>5, <3>2
    <3> QED
      BY <3>1, <3>3, EntryIs
  <2>4. /\ IsFiniteSet(EntriesIn(ns, id)) /\ Cardinality(EntriesIn(ns, id)) \in Nat
        /\ Cardinality(EntriesIn(c, id)) \in Nat
    BY EntriesFinite
  <2>5. Cardinality(EntriesIn(c, id)) <= Cardinality(EntriesIn(ns, id))
    BY <2>3, <2>4, FS_Subset
  <2>6. Cardinality(EntriesIn(ns, id)) <= ns[id].nlink
    BY <2>1 DEF GoodTree, LinksCover
  <2> QED
    BY <2>1, <2>2, <2>4, <2>5, <2>6
<1>12. GoodTree(c)
  BY <1>4, <1>7, <1>8, <1>9, <1>10, <1>11 DEF GoodTree
<1> DEFINE S == {p \in Walks : lookup(c, p) = lookup(ns, p) /\ lookup(ns, p) \in B \cup {None}}
<1>13. <<>> \in S
  BY <1>1, <1>4, LookupRoot DEF Walks
<1>14. ASSUME NEW q \in Walks, NEW n \in Names, q \in S PROVE Append(q, n) \in S
  <2>1. PICK w \in Walks : w = Append(q, n)
    BY WalkJoin
  <2>2. PICK d \in B \cup {None} : d = lookup(ns, q) /\ lookup(c, q) = d
    BY <1>14
  <2>3. lookup(ns, w) = StepDown(ns, d, n) /\ lookup(c, w) = StepDown(c, d, n)
    BY <1>1, <1>4, <2>1, <2>2, LookupStep
  <2>4. CASE d = None
    BY <2>1, <2>3, <2>4 DEF StepDown, IsDir
  <2>5. CASE d # None
    <3>1. d \in B /\ c[d] = ns[d]
      BY <1>2, <2>5
    <3>2. StepDown(c, d, n) = StepDown(ns, d, n)
      BY <3>1 DEF StepDown, IsDir
    <3>3. StepDown(ns, d, n) \in B \cup {None}
      <4>1. CASE IsDir(ns, d)
        BY <1>6, <3>1, <4>1 DEF StepDown
      <4>2. CASE ~IsDir(ns, d)
        BY <4>2 DEF StepDown
      <4> QED
        BY <4>1, <4>2
    <3> QED
      BY <2>1, <2>3, <3>2, <3>3
  <2> QED
    BY <2>4, <2>5
<1>15. Walks \subseteq S
  <2> HIDE DEF S
  <2> QED
    BY <1>13, <1>14, WalkInduction
<1>16. ASSUME NEW p \in Walks PROVE read_file(c, p) = read_file(ns, p)
  <2>1. PICK d \in B \cup {None} : d = lookup(ns, p) /\ lookup(c, p) = d
    BY <1>15
  <2>2. CASE d = None
    BY <2>1, <2>2 DEF read_file, IsFile
  <2>3. CASE d # None
    <3>1. c[d] = ns[d]
      BY <1>2, <2>3
    <3> QED
      BY <2>1, <3>1 DEF read_file, IsFile
  <2> QED
    BY <2>2, <2>3
<1> QED
  BY <1>2, <1>12, <1>16

\* The table of handles: resources, and no live file without its node.
FileRes == [type : {"file"}, node : Ids \cup {None}, data : Content, pos : Nat]
DirRes == [type : {"dir"}, path : Walks]
DevRes == [type : {"dev"}, kind : DevKinds]
AnyRes == FileRes \cup DirRes \cup DevRes
Table(hs) == hs = [f \in DOMAIN hs |-> hs[f]] /\ \A f \in DOMAIN hs : hs[f] \in AnyRes
HeldLive(ns, hs) == \A f \in DOMAIN hs : hs[f].type = "file" /\ hs[f].node # None => ns[hs[f].node] # Free

\* The inductive invariant of Files: a good tree, handles on live nodes with
\* numbers already given out, and no call that changed what it was not about.
FilesInv ==
  /\ GoodTree(nodes) /\ Table(handles) /\ HeldLive(nodes, handles)
  /\ next_id \in Nat /\ \A f \in DOMAIN handles : f \in Nat /\ f < next_id
  /\ strayPaths = {} /\ strayHandles = {}

\* The fields of a resource.
LEMMA ResFacts ==
  ASSUME NEW r \in AnyRes
  PROVE  /\ r.type = "file" => r \in FileRes /\ r.node \in Ids \cup {None} /\ r.pos \in Nat
         /\ r.type = "dir" => r.path \in Walks
<1>1. \A x \in FileRes : x.type = "file" /\ x.node \in Ids \cup {None} /\ x.pos \in Nat
  BY DEF FileRes
<1>2. \A x \in DirRes : x.type = "dir" /\ x.path \in Walks
  BY DEF DirRes
<1>3. \A x \in DevRes : x.type = "dev"
  BY DEF DevRes
<1> QED
  BY <1>1, <1>2, <1>3 DEF AnyRes

\* The paths of the model are walks of one to MaxDepth names.
LEMMA PathFacts ==
  ASSUME NEW p \in AllPaths
  PROVE  p \in Walks /\ p # <<>> /\ Len(p) \in 1..MaxDepth
<1>1. MaxDepth \in Nat
  BY VfsAssumption
<1>2. PICK n \in 1..MaxDepth : p \in [1..n -> Names]
  BY DEF AllPaths
<1>3. n \in Nat
  BY <1>1
<1>4. p \in Seq(Names) /\ Len(p) = n
  BY <1>2, <1>3
<1> QED
  BY <1>1, <1>2, <1>4 DEF Walks

\* The paths that calls are given are walks.
LEMMA PathIsWalk ==
  ASSUME NEW p \in Paths
  PROVE  p \in Walks /\ p # <<>> /\ Len(p) \in Nat /\ Len(p) <= MaxDepth
<1>1. p \in AllPaths
  BY VfsAssumption
<1>2. p \in Walks /\ p # <<>> /\ Len(p) \in 1..MaxDepth
  BY <1>1, PathFacts
<1> QED
  BY <1>2, VfsAssumption

\* Held nodes are nodes.
LEMMA HeldType ==
  ASSUME NEW hs, Table(hs)
  PROVE  Held(hs) \in SUBSET Ids
<1> SUFFICES ASSUME NEW id \in Held(hs) PROVE id \in Ids
  OBVIOUS
<1>1. PICK f \in DOMAIN hs : hs[f].type = "file" /\ id = hs[f].node /\ id # None
  BY DEF Held
<1>2. hs[f] \in AnyRes
  BY DEF Table
<1> QED
  BY <1>1, <1>2, ResFacts

\* The end of a call whose new tree and handles differ from the old only in
\* what the call is about.
LEMMA BecomeKeeps ==
  ASSUME GoodTree(nodes), Table(handles), HeldLive(nodes, handles),
         NEW t, GoodTree(t), NEW hs, Table(hs), HeldLive(t, hs), NEW X, SameNodes(nodes, t, X),
         NEW paths, \A p \in Paths \ paths : open_readonly(t, p) = open_readonly(nodes, p),
         NEW fds, \A f \in (DOMAIN handles \cap DOMAIN hs) \ fds :
                     hs[f] = handles[f] /\ (hs[f].type = "file" /\ hs[f].node # None => hs[f].node \notin X),
         Become(t, hs, paths, fds)
  PROVE  /\ GoodTree(nodes') /\ Table(handles') /\ HeldLive(nodes', handles') /\ handles' = hs
         /\ strayPaths' = {} /\ strayHandles' = {}
<1>1. /\ handles' = hs /\ nodes' = Collect(t, Held(hs))
      /\ strayPaths' = IF nodes' = nodes THEN {}
                       ELSE {p \in Paths \ paths : open_readonly(nodes', p) # View(p)}
      /\ strayHandles' = {f \in (DOMAIN handles \cap DOMAIN hs) \ fds :
                            \/ hs[f] # handles[f]
                            \/ IsFileFd(f) /\ DataIn(nodes', hs[f]) # DataOf(f)}
  BY DEF Become
<1>2. PICK c : c = nodes'
  OBVIOUS
<1>3. t \in Trees /\ nodes \in Trees
  BY DEF GoodTree
<1>4. PICK B : Held(hs) \subseteq B /\ Swept(t, c, B)
  <2>1. Held(hs) \in SUBSET Ids
    BY HeldType
  <2> QED
    BY <1>1, <1>2, <1>3, <2>1, CollectSweeps
<1>5. /\ GoodTree(c) /\ \A id \in B : c[id] = t[id]
      /\ \A p \in Walks : read_file(c, p) = read_file(t, p)
  BY <1>4, SweptGood
<1>6. ASSUME NEW f \in DOMAIN hs, hs[f].type = "file", hs[f].node # None
      PROVE  hs[f].node \in Ids /\ c[hs[f].node] = t[hs[f].node] /\ t[hs[f].node] # Free
  <2>1. hs[f].node \in Held(hs)
    BY <1>6 DEF Held
  <2>2. hs[f].node \in B /\ hs[f].node \in Ids
    BY <1>4, <2>1, HeldType
  <2> QED
    BY <1>5, <1>6, <2>2 DEF HeldLive
<1>7. HeldLive(c, hs)
  BY <1>6 DEF HeldLive
<1>8. strayPaths' = {}
  <2> SUFFICES ASSUME NEW p \in Paths \ paths PROVE open_readonly(nodes', p) = View(p)
    BY <1>1
  <2>1. read_file(c, p) = read_file(t, p)
    BY <1>5, PathIsWalk
  <2>2. open_readonly(c, p) = open_readonly(t, p)
    BY <2>1, ReadonlySame
  <2>3. open_readonly(t, p) = open_readonly(nodes, p)
    OBVIOUS
  <2> QED
    BY <1>2, <2>2, <2>3 DEF View
<1>9. strayHandles' = {}
  <2> SUFFICES ASSUME NEW f \in (DOMAIN handles \cap DOMAIN hs) \ fds
               PROVE  hs[f] = handles[f] /\ (IsFileFd(f) => DataIn(nodes', hs[f]) = DataOf(f))
    BY <1>1
  <2>1. hs[f] = handles[f] /\ (hs[f].type = "file" /\ hs[f].node # None => hs[f].node \notin X)
    OBVIOUS
  <2> SUFFICES ASSUME IsFileFd(f) PROVE DataIn(nodes', hs[f]) = DataOf(f)
    BY <2>1
  <2>2. PICK r : r = hs[f] /\ r = handles[f] /\ r.type = "file"
    BY <2>1 DEF IsFileFd
  <2>3. CASE r.node = None
    <3>1. DataIn(c, r) = DataIn(nodes, r)
      BY <2>3 DEF DataIn
    <3> QED
      BY <1>2, <2>2, <3>1 DEF DataOf
  <2>4. CASE r.node # None
    <3>1. PICK id \in Ids : id = r.node /\ c[id] = t[id] /\ id # None
      BY <1>6, <2>2, <2>4
    <3>2. id \notin X /\ nodes[id] # Free
      BY <2>1, <2>2, <2>4, <3>1 DEF HeldLive
    <3>3. t[id].kind = nodes[id].kind /\ (nodes[id].kind = "file" => t[id].data = nodes[id].data)
      BY <3>2 DEF SameNodes
    <3>4. DataIn(c, r) = DataIn(nodes, r)
      BY <3>1, <3>3 DEF DataIn, IsFile
    <3> QED
      BY <1>2, <2>2, <3>4 DEF DataOf
  <2> QED
    BY <2>3, <2>4
<1> QED
  BY <1>1, <1>2, <1>5, <1>7, <1>8, <1>9

\* What the invariant says of the sound tree: TreeIsSound.
LEMMA ImageDirIs ==
  ASSUME NEW r \in ImageLeaves, NEW k \in 1..(Len(r) - 1), NEW q, q = SubSeq(r, 1, k)
  PROVE  q \in DOMAIN Image \cup ImageDirs
<1>1. PICK U : U = UNION {{SubSeq(p, 1, n) : n \in 1..(Len(p) - 1)} : p \in ImageLeaves}
  OBVIOUS
<1>2. PICK D : D = {SubSeq(r, 1, n) : n \in 1..(Len(r) - 1)}
  OBVIOUS
<1>3. q \in D
  BY <1>2, Zenon
<1>4. D \in {{SubSeq(p, 1, n) : n \in 1..(Len(p) - 1)} : p \in ImageLeaves}
  BY <1>2, Zenon
<1>5. q \in U
  BY <1>1, <1>3, <1>4, Zenon
<1>6. ImageDirs = EmptyDirs \cup (U \ DOMAIN Image)
  BY <1>1, Zenon DEF ImageDirs
<1> QED
  BY <1>5, <1>6

\* The image lists a name exactly when it has something there, or an empty
\* directory.
LEMMA ImageListing ==
  ASSUME NEW p \in Walks, p # <<>>, NEW n \in Names
  PROVE  n \in ext4_list_dir(p) <=>
           \/ ext4_read_file(Append(p, n)) # <<>> \/ ext4_list_dir(Append(p, n)) # {}
           \/ Append(p, n) \in EmptyDirs
<1>1. PICK q \in Walks : q = Append(p, n) /\ Len(q) = Len(p) + 1 /\ Len(p) \in Nat /\ Len(p) # 0
  <2>1. Append(p, n) \in Walks /\ Len(Append(p, n)) = Len(p) + 1
    BY WalkJoin
  <2>2. Len(p) \in Nat /\ Len(p) # 0
    BY DEF Walks
  <2> QED
    BY <2>1, <2>2
<1>2. (ext4_read_file(q) # <<>>) <=> q \in DOMAIN Image
  BY DEF ext4_read_file
<1>3. n \in ext4_list_dir(p) <=> q \in DOMAIN Image \/ q \in ImageDirs
  BY <1>1 DEF ext4_list_dir
<1>4. \A r \in ImageLeaves : r \in Walks
  BY VfsAssumption, PathFacts DEF ImageLeaves
<1>5. ASSUME q \in ImageDirs, q \notin EmptyDirs PROVE ext4_list_dir(q) # {}
  <2>1. PICK r \in ImageLeaves : \E k \in 1..(Len(r) - 1) : q = SubSeq(r, 1, k)
    BY <1>5 DEF ImageDirs
  <2>2. PICK k \in 1..(Len(r) - 1) : q = SubSeq(r, 1, k)
    BY <2>1
  <2>3. r \in Walks /\ Len(r) \in Nat
    BY <1>4 DEF Walks
  <2>4. r[k + 1] \in Names /\ Append(q, r[k + 1]) = SubSeq(r, 1, k + 1)
    BY <2>2, <2>3 DEF Walks
  <2>5. SubSeq(r, 1, k + 1) \in DOMAIN Image \cup ImageDirs
    <3>1. CASE k + 1 = Len(r)
      <4>1. SubSeq(r, 1, k + 1) = r
        BY <2>3, <3>1 DEF Walks
      <4>2. r \in DOMAIN Image \cup ImageDirs
        BY DEF ImageLeaves, ImageDirs
      <4> QED
        BY <4>1, <4>2, Zenon
    <3>2. CASE k + 1 # Len(r)
      <4>1. k + 1 \in 1..(Len(r) - 1)
        BY <2>3, <3>2
      <4> QED
        BY <4>1, ImageDirIs
    <3> QED
      BY <3>1, <3>2
  <2>6. Append(q, r[k + 1]) \in DOMAIN Image \cup ImageDirs
    BY <2>4, <2>5, Zenon
  <2>7. r[k + 1] \in ext4_list_dir(q)
    BY <2>4, <2>6 DEF ext4_list_dir
  <2> QED
    BY <2>7
<1>6. ASSUME ext4_list_dir(q) # {} PROVE q \in DOMAIN Image \/ q \in ImageDirs
  <2>1. PICK m \in Names : Append(q, m) \in DOMAIN Image \cup ImageDirs
    BY <1>6 DEF ext4_list_dir
  <2>2. PICK w \in Walks : w = Append(q, m) /\ Len(w) = Len(q) + 1 /\ SubSeq(w, 1, Len(q)) = q
    <3>1. Append(q, m) \in Walks /\ Len(Append(q, m)) = Len(q) + 1 /\ SubSeq(Append(q, m), 1, Len(q)) = q
      BY DEF Walks
    <3> QED
      BY <3>1
  <2>3. PICK l \in Nat : l = Len(q) /\ l >= 1
    BY <1>1
  <2>4. CASE w \in ImageLeaves
    <3>1. l \in 1..(Len(w) - 1)
      BY <2>2, <2>3
    <3>2. SubSeq(w, 1, l) = q
      BY <2>2, <2>3
    <3> QED
      BY <2>4, <3>1, <3>2, ImageDirIs
  <2>5. CASE w \in ImageDirs /\ w \notin EmptyDirs
    <3>1. PICK r \in ImageLeaves : \E k \in 1..(Len(r) - 1) : w = SubSeq(r, 1, k)
      BY <2>5 DEF ImageDirs
    <3>2. PICK k \in 1..(Len(r) - 1) : w = SubSeq(r, 1, k)
      BY <3>1
    <3>3. r \in Walks /\ Len(r) \in Nat
      BY <1>4 DEF Walks
    <3>4. Len(w) = k
      BY <3>2, <3>3 DEF Walks
    <3>5. l < k /\ l \in 1..(Len(r) - 1)
      BY <2>2, <2>3, <3>3, <3>4
    <3>6. SubSeq(r, 1, l) = SubSeq(w, 1, l)
      BY <2>3, <3>2, <3>3, <3>5 DEF Walks
    <3>7. SubSeq(r, 1, l) = q
      BY <2>2, <2>3, <3>6
    <3> QED
      BY <3>5, <3>7, ImageDirIs
  <2> QED
    BY <2>1, <2>2, <2>4, <2>5 DEF ImageLeaves
<1>7. q \in EmptyDirs => q \in ImageDirs
  BY DEF ImageDirs
<1> QED
  BY <1>1, <1>2, <1>3, <1>5, <1>6, <1>7

\* The invariant gives the property.
LEMMA GoodIsSound == FilesInv => TreeIsSound
<1> SUFFICES ASSUME FilesInv PROVE TreeIsSound
  OBVIOUS
<1>1. GoodTree(nodes) /\ nodes \in Trees
  BY DEF FilesInv, GoodTree
<1>2. \A id : Entries(id) = EntriesIn(nodes, id)
  BY DEF Entries, EntriesIn
<1>3. Entries(Root) = {}
  <2> SUFFICES ASSUME NEW e \in EntriesIn(nodes, Root) PROVE FALSE
    BY <1>2
  <2>1. PICK d \in Ids, n \in Names : IsDir(nodes, d) /\ nodes[d].kids[n] = Root
    BY DEF EntriesIn
  <2> QED
    BY <1>1, <2>1 DEF GoodTree, RootNameless
<1>4. ASSUME NEW id \in Ids, IsDir(nodes, id) PROVE Cardinality(Entries(id)) <= 1
  <2>1. CASE EntriesIn(nodes, id) = {}
    BY <1>2, <2>1, FS_EmptySet
  <2>2. CASE EntriesIn(nodes, id) # {}
    <3>1. PICK e \in EntriesIn(nodes, id) : TRUE
      BY <2>2
    <3>2. ASSUME NEW x \in EntriesIn(nodes, id) PROVE x = e
      <4>1. PICK a \in Ids, m \in Names : x = <<a, m>> /\ IsDir(nodes, a) /\ nodes[a].kids[m] = id
        BY <3>2 DEF EntriesIn
      <4>2. PICK b \in Ids, k \in Names : e = <<b, k>> /\ IsDir(nodes, b) /\ nodes[b].kids[k] = id
        BY <3>1 DEF EntriesIn
      <4>3. OneName(nodes)
        BY <1>1 DEF GoodTree
      <4>4. nodes[a].kids[m] = nodes[b].kids[k] /\ IsDir(nodes, nodes[a].kids[m])
        BY <1>4, <4>1, <4>2
      <4>5. a = b /\ m = k
        BY <4>1, <4>2, <4>3, <4>4, OneNameUse
      <4> QED
        BY <4>1, <4>2, <4>5
    <3>3. EntriesIn(nodes, id) = {e}
      BY <3>1, <3>2
    <3>4. Cardinality({e}) = 1
      BY FS_Singleton
    <3> QED
      BY <1>2, <3>3, <3>4
  <2> QED
    BY <2>1, <2>2
<1>5. DirsFormATree
  BY <1>3, <1>4 DEF DirsFormATree
<1>6. NlinkCoversNames
  BY <1>1, <1>2 DEF NlinkCoversNames, GoodTree, LinksCover
<1>7. ListingAgreesWithAccess
  <2> SUFFICES ASSUME NEW p \in Paths, NEW n \in Names
               PROVE  n \in Listing(nodes, p) <=>
                        exists_any(nodes, Append(p, n)) \/ Append(p, n) \in EmptyDirs
    BY DEF ListingAgreesWithAccess
  <2>1. p \in Walks /\ p # <<>>
    BY PathIsWalk
  <2>2. lookup(nodes, Append(p, n)) = StepDown(nodes, lookup(nodes, p), n)
    BY <1>1, <2>1, LookupStep
  <2>3. n \in list_dir(nodes, p) <=> lookup(nodes, Append(p, n)) # None
    BY <2>2 DEF list_dir, StepDown
  <2>4. n \in ext4_list_dir(p) <=>
           \/ ext4_read_file(Append(p, n)) # <<>> \/ ext4_list_dir(Append(p, n)) # {}
           \/ Append(p, n) \in EmptyDirs
    BY <2>1, ImageListing
  <2> QED
    BY <2>3, <2>4 DEF Listing, exists_any
<1> QED
  BY <1>5, <1>6, <1>7 DEF TreeIsSound

Alive(ns, t) == \A id \in Ids : ns[id] # Free => t[id] # Free

\* A tree that keeps its nodes keeps them alive.
LEMMA KeepsAlive ==
  ASSUME NEW ns, GoodTree(ns), NEW t, GoodTree(t), SameNodes(ns, t, {})
  PROVE  Alive(ns, t)
<1> SUFFICES ASSUME NEW id \in Ids, ns[id] # Free PROVE t[id] # Free
  BY DEF Alive
<1>1. t[id].kind = ns[id].kind
  BY DEF SameNodes
<1>2. ns \in Trees /\ t \in Trees
  BY DEF GoodTree
<1> QED
  BY <1>1, <1>2, FreeKind

\* Handles still hold live nodes when no node dies.
LEMMA StayHeld ==
  ASSUME NEW ns, NEW t, Alive(ns, t), NEW hs, Table(hs), HeldLive(ns, hs)
  PROVE  HeldLive(t, hs)
<1> SUFFICES ASSUME NEW f \in DOMAIN hs, hs[f].type = "file", hs[f].node # None
             PROVE  t[hs[f].node] # Free
  BY DEF HeldLive
<1>1. hs[f] \in AnyRes
  BY DEF Table
<1>2. hs[f].node \in Ids
  BY <1>1, ResFacts
<1> QED
  BY <1>2 DEF HeldLive, Alive

\* A call that changes handles only.
LEMMA HandlesOnly ==
  ASSUME FilesInv, NEW hs, Table(hs), HeldLive(nodes, hs), NEW paths, NEW fds,
         \A f \in (DOMAIN handles \cap DOMAIN hs) \ fds : hs[f] = handles[f],
         Become(nodes, hs, paths, fds), next_id' \in Nat,
         \A f \in DOMAIN hs : f \in Nat /\ f < next_id'
  PROVE  FilesInv'
<1>1. GoodTree(nodes) /\ Table(handles) /\ HeldLive(nodes, handles)
  BY DEF FilesInv
<1>2. SameNodes(nodes, nodes, {})
  BY DEF SameNodes
<1>3. PICK t : t = nodes
  OBVIOUS
<1>4. /\ GoodTree(t) /\ HeldLive(t, hs) /\ SameNodes(nodes, t, {}) /\ Become(t, hs, paths, fds)
      /\ \A p \in Paths \ paths : open_readonly(t, p) = open_readonly(nodes, p)
      /\ \A f \in (DOMAIN handles \cap DOMAIN hs) \ fds :
            hs[f] = handles[f] /\ (hs[f].type = "file" /\ hs[f].node # None => hs[f].node \notin {})
  BY <1>1, <1>2, <1>3
<1>5. /\ GoodTree(nodes') /\ Table(handles') /\ HeldLive(nodes', handles') /\ handles' = hs
      /\ strayPaths' = {} /\ strayHandles' = {}
  BY <1>1, <1>4, BecomeKeeps
<1> QED
  BY <1>5 DEF FilesInv

\* A call that changes the tree only.
LEMMA TreeOnly ==
  ASSUME FilesInv, NEW t, NEW X, NEW P, Keeps(nodes, t, X, P), Alive(nodes, t), NEW paths,
         \A p \in Paths : p \in P => p \in paths, NEW fds,
         \A f \in DOMAIN handles : handles[f].type = "file" /\ handles[f].node # None
                                   /\ handles[f].node \in X => f \in fds,
         Become(t, handles, paths, fds), UNCHANGED next_id
  PROVE  FilesInv'
<1>1. GoodTree(nodes) /\ Table(handles) /\ HeldLive(nodes, handles) /\ GoodTree(t) /\ SameNodes(nodes, t, X)
  BY DEF FilesInv, Keeps
<1>2. HeldLive(t, handles)
  BY <1>1, StayHeld
<1>3. ASSUME NEW p \in Paths \ paths PROVE open_readonly(t, p) = open_readonly(nodes, p)
  <2>1. p \in Walks \ P
    BY <1>3, PathIsWalk
  <2>2. read_file(t, p) = read_file(nodes, p)
    BY <2>1 DEF Keeps, SameReads
  <2> QED
    BY <2>2, ReadonlySame
<1>4. PICK hs : hs = handles
  OBVIOUS
<1>5. /\ Table(hs) /\ HeldLive(t, hs) /\ Become(t, hs, paths, fds)
      /\ \A f \in (DOMAIN handles \cap DOMAIN hs) \ fds :
            hs[f] = handles[f] /\ (hs[f].type = "file" /\ hs[f].node # None => hs[f].node \notin X)
  BY <1>1, <1>2, <1>4
<1>6. /\ GoodTree(nodes') /\ Table(handles') /\ HeldLive(nodes', handles') /\ handles' = hs
      /\ strayPaths' = {} /\ strayHandles' = {}
  BY <1>1, <1>3, <1>5, BecomeKeeps
<1> QED
  BY <1>4, <1>6 DEF FilesInv

\* The table with one more handle, or one that moved.
HandleAdded(hs, f, r) == [g \in DOMAIN hs \cup {f} |-> IF g = f THEN r ELSE hs[g]]

ResLive(ns, r) == r.type = "file" /\ r.node # None => ns[r.node] # Free

\* A new handle on a live node.
LEMMA AddedTable ==
  ASSUME NEW hs, Table(hs), NEW f, NEW r \in AnyRes, NEW ns, HeldLive(ns, hs),
         ResLive(ns, r), NEW k, k = HandleAdded(hs, f, r)
  PROVE  Table(k) /\ HeldLive(ns, k) /\ DOMAIN k = DOMAIN hs \cup {f}
<1>1. DOMAIN k = DOMAIN hs \cup {f} /\ k[f] = r /\ \A g \in DOMAIN hs : g # f => k[g] = hs[g]
  BY DEF HandleAdded
<1>2. k = [g \in DOMAIN k |-> k[g]]
  BY DEF HandleAdded
<1>3. \A g \in DOMAIN k : k[g] \in AnyRes
  BY <1>1 DEF Table
<1>4. HeldLive(ns, k)
  BY <1>1 DEF HeldLive, ResLive
<1> QED
  BY <1>1, <1>2, <1>3, <1>4 DEF Table

\* A new handle that holds no node.
LEMMA InsertPlain ==
  ASSUME FilesInv, NEW r \in AnyRes, r.type = "file" => r.node = None, NEW paths, NEW fds,
         Insert(nodes, r, paths, fds)
  PROVE  FilesInv'
<1>1. PICK n \in Nat : n = next_id /\ next_id' = n + 1
  BY DEF FilesInv, Insert
<1>2. PICK k : k = HandleAdded(handles, n, r)
  OBVIOUS
<1>3. Become(nodes, k, paths, fds)
  BY <1>1, <1>2 DEF Insert, HandleAdded
<1>4. Table(handles) /\ HeldLive(nodes, handles) /\ \A f \in DOMAIN handles : f \in Nat /\ f < n
  BY <1>1 DEF FilesInv
<1>5. /\ Table(k) /\ HeldLive(nodes, k) /\ DOMAIN k = DOMAIN handles \cup {n}
      /\ \A g \in DOMAIN handles : g # n => k[g] = handles[g]
  <2>1. PICK ns, hs : ns = nodes /\ hs = handles
    OBVIOUS
  <2>2. /\ Table(hs) /\ HeldLive(ns, hs) /\ k = HandleAdded(hs, n, r)
        /\ ResLive(ns, r)
    BY <1>2, <1>4, <2>1 DEF ResLive
  <2>3. Table(k) /\ HeldLive(ns, k) /\ DOMAIN k = DOMAIN hs \cup {n}
    BY <2>2, AddedTable
  <2>4. \A g \in DOMAIN handles : g # n => k[g] = handles[g]
    BY <1>2 DEF HandleAdded
  <2> QED
    BY <2>1, <2>3, <2>4
<1>6. \A f \in (DOMAIN handles \cap DOMAIN k) \ fds : k[f] = handles[f]
  BY <1>4, <1>5
<1>7. next_id' \in Nat /\ \A f \in DOMAIN k : f \in Nat /\ f < next_id'
  BY <1>1, <1>4, <1>5
<1> QED
  BY <1>3, <1>5, <1>6, <1>7, HandlesOnly

\* Moving a handle's position changes that handle only.
LEMMA PosTable ==
  ASSUME NEW hs, Table(hs), NEW f \in DOMAIN hs, hs[f].type = "file", NEW pos \in Nat,
         NEW k, k = SetPos(hs, f, pos)
  PROVE  /\ Table(k) /\ DOMAIN k = DOMAIN hs /\ \A g \in DOMAIN hs : g # f => k[g] = hs[g]
         /\ k[f].node = hs[f].node /\ k[f].type = "file"
         /\ pos = hs[f].pos => k = hs
<1>1. PICK x \in FileRes : x = hs[f]
  <2>1. hs[f] \in AnyRes
    BY DEF Table
  <2>2. hs[f] \in FileRes
    BY <2>1, ResFacts
  <2> QED
    BY <2>2
<1>2. PICK y : y = [x EXCEPT !.pos = pos]
  OBVIOUS
<1>3. y \in FileRes /\ y.node = x.node /\ y.type = "file" /\ (pos = x.pos => y = x)
  BY <1>2 DEF FileRes
<1>4. k = [hs EXCEPT ![f] = y]
  BY <1>1, <1>2 DEF SetPos
<1>5. hs = [g \in DOMAIN hs |-> hs[g]] /\ \A g \in DOMAIN hs : hs[g] \in AnyRes
  BY DEF Table
<1>6. DOMAIN k = DOMAIN hs /\ k[f] = y /\ \A g \in DOMAIN hs : g # f => k[g] = hs[g]
  BY <1>4, <1>5
<1>7. k = [g \in DOMAIN k |-> k[g]]
  BY <1>4, <1>5
<1>8. y \in AnyRes
  BY <1>3 DEF AnyRes
<1>9. \A g \in DOMAIN k : k[g] \in AnyRes
  BY <1>5, <1>6, <1>8
<1>10. pos = hs[f].pos => k = hs
  BY <1>1, <1>3, <1>5, <1>6, <1>7
<1> QED
  BY <1>1, <1>3, <1>6, <1>7, <1>9, <1>10 DEF Table

\* Moving a handle's position keeps its node.
LEMMA PosHeld ==
  ASSUME NEW hs, Table(hs), NEW f \in DOMAIN hs, hs[f].type = "file", NEW pos \in Nat,
         NEW k, k = SetPos(hs, f, pos), NEW ns, HeldLive(ns, hs)
  PROVE  HeldLive(ns, k)
<1>1. /\ DOMAIN k = DOMAIN hs /\ \A g \in DOMAIN hs : g # f => k[g] = hs[g]
      /\ k[f].node = hs[f].node /\ k[f].type = "file"
  BY PosTable
<1> QED
  BY <1>1 DEF HeldLive

\* The largest and the least of two numbers.
LEMMA MaxTwo ==
  ASSUME NEW a \in Int, NEW b \in Int
  PROVE  Max({a, b}) = IF a >= b THEN a ELSE b
<1>1. \E x \in {a, b} : \A y \in {a, b} : x >= y
  OBVIOUS
<1>2. Max({a, b}) \in {a, b} /\ \A y \in {a, b} : Max({a, b}) >= y
  BY <1>1 DEF Max
<1> QED
  BY <1>2

\* The smaller of two numbers is a number.
LEMMA MinTwo ==
  ASSUME NEW a \in Int, NEW b \in Int
  PROVE  Min({a, b}) \in Int
<1>1. \E x \in {a, b} : \A y \in {a, b} : x <= y
  OBVIOUS
<1>2. Min({a, b}) \in {a, b}
  BY <1>1 DEF Min
<1> QED
  BY <1>2

\* The contents a handle reads.
LEMMA DataType ==
  ASSUME FilesInv, NEW f, IsFileFd(f)
  PROVE  DataOf(f) \in Content /\ Len(DataOf(f)) \in Nat
<1>1. PICK r \in FileRes : r = handles[f]
  <2>1. handles[f] \in AnyRes /\ handles[f].type = "file"
    BY DEF FilesInv, Table, IsFileFd
  <2>2. handles[f] \in FileRes
    BY <2>1, ResFacts
  <2> QED
    BY <2>2
<1>2. r.node \in Ids \cup {None} /\ r.data \in Content
  BY DEF FileRes
<1>3. DataIn(nodes, r) \in Content
  <2>1. CASE r.node = None
    BY <1>2, <2>1 DEF DataIn
  <2>2. CASE r.node # None /\ IsFile(nodes, r.node)
    <3>1. nodes[r.node] \in TreeNodes
      BY <1>2, <2>2 DEF FilesInv, GoodTree, Trees
    <3>2. nodes[r.node].data \in Content
      BY <2>2, <3>1, NodeFacts DEF IsFile
    <3> QED
      BY <2>2, <3>2 DEF DataIn
  <2>3. CASE r.node # None /\ ~IsFile(nodes, r.node)
    <3>1. <<>> \in Content
      BY DEF Content
    <3> QED
      BY <2>3, <3>1 DEF DataIn
  <2> QED
    BY <2>1, <2>2, <2>3
<1>4. DataOf(f) \in Content
  BY <1>1, <1>3 DEF DataOf
<1> QED
  BY <1>4 DEF Content

\* What there is to read is a number.
LEMMA AvailType ==
  ASSUME FilesInv, NEW f, IsFileFd(f), NEW pos \in Nat, NEW count \in Nat
  PROVE  Avail(f, pos, count) \in Nat
<1>1. PICK l \in Nat : l = Len(DataOf(f))
  BY DataType
<1>2. PICK m \in Int : m = Min({count, l - pos})
  <2>1. l - pos \in Int /\ count \in Int
    OBVIOUS
  <2> QED
    BY <2>1, MinTwo
<1>3. Max({0, m}) \in Nat
  BY MaxTwo
<1> QED
  BY <1>1, <1>2, <1>3 DEF Avail

\* Resizing and writing give contents.
LEMMA ContentFacts ==
  ASSUME NEW c \in Content, NEW size \in Nat, NEW pos \in Nat, NEW count \in Nat
  PROVE  Resize(c, size) \in Content /\ WriteAt(c, pos, count) \in Content
<1>1. PICK l \in Nat : l = Len(c)
  BY DEF Content
<1>2. \A i \in 1..l : c[i] \in {0, 1}
  BY <1>1 DEF Content
<1>3. Resize(c, size) \in Content
  <2>1. \A i \in 1..size : (IF i <= Len(c) THEN c[i] ELSE 0) \in {0, 1}
    BY <1>1, <1>2
  <2>2. Resize(c, size) \in [1..size -> {0, 1}]
    BY <2>1 DEF Resize
  <2> QED
    BY <2>2 DEF Content
<1>4. WriteAt(c, pos, count) \in Content
  <2>1. PICK m \in Nat : m = Max({Len(c), pos + count})
    <3>1. Max({l, pos + count}) \in Nat
      BY MaxTwo
    <3> QED
      BY <1>1, <3>1
  <2>2. \A i \in 1..m : (IF pos < i /\ i <= pos + count THEN 1 ELSE IF i <= Len(c) THEN c[i] ELSE 0) \in {0, 1}
    BY <1>1, <1>2
  <2>3. WriteAt(c, pos, count) \in [1..m -> {0, 1}]
    BY <2>1, <2>2 DEF WriteAt
  <2> QED
    BY <2>3 DEF Content
<1> QED
  BY <1>3, <1>4

\* Writing a file changes the paths that lead to it only.
LEMMA DataKeeps ==
  ASSUME NEW ns, GoodTree(ns), NEW id \in Ids, IsFile(ns, id), NEW c \in Content, NEW t,
         DataSet(ns, t, id, c)
  PROVE  Keeps(ns, t, {id}, {p \in Walks : lookup(ns, p) = id}) /\ Alive(ns, t)
<1>1. /\ GoodTree(t) /\ SameNodes(ns, t, {id})
      /\ \A p \in Walks : lookup(ns, p) # id => read_file(t, p) = read_file(ns, p)
      /\ IsFile(t, id)
  <2>1. /\ GoodTree(t) /\ SameNodes(ns, t, {id})
        /\ \A p \in Walks : lookup(t, p) = lookup(ns, p)
        /\ \A p \in Walks : lookup(ns, p) # id => read_file(t, p) = read_file(ns, p)
        /\ t[id].data = c /\ IsFile(t, id)
    BY DataPut
  <2> QED
    BY <2>1
<1>2. Keeps(ns, t, {id}, {p \in Walks : lookup(ns, p) = id})
  BY <1>1 DEF Keeps, SameReads
<1>3. ASSUME NEW e \in Ids, ns[e] # Free PROVE t[e] # Free
  <2>1. CASE e = id
    BY <1>1, <2>1 DEF IsFile, Free
  <2>2. CASE e # id
    <3>1. t[e].kind = ns[e].kind
      BY <1>1, <1>3, <2>2 DEF SameNodes
    <3>2. ns \in Trees /\ t \in Trees
      BY <1>1 DEF GoodTree
    <3> QED
      BY <1>3, <3>1, <3>2, FreeKind
  <2> QED
    BY <2>1, <2>2
<1> QED
  BY <1>2, <1>3 DEF Alive

\* An unchanged tree keeps its nodes alive.
LEMMA SameAlive ==
  ASSUME NEW ns
  PROVE  Alive(ns, ns)
BY DEF Alive

\* truncate changes the paths of its file only.
LEMMA TruncateKeeps ==
  ASSUME NEW ns, GoodTree(ns), NEW id \in Ids \cup {None}, NEW size \in Nat, NEW t,
         t = truncate_node(ns, id, size)
  PROVE  Keeps(ns, t, {id}, {p \in Walks : lookup(ns, p) = id}) /\ Alive(ns, t)
<1>1. CASE IsFile(ns, id)
  <2>1. id \in Ids
    BY <1>1 DEF IsFile
  <2>2. ns[id].data \in Content
    BY <1>1, <2>1, NodeFacts DEF GoodTree, Trees, IsFile
  <2>3. PICK c \in Content : c = Resize(ns[id].data, size)
    <3>1. Resize(ns[id].data, size) \in Content
      BY <2>2, ContentFacts
    <3> QED
      BY <3>1
  <2>4. DataSet(ns, t, id, c)
    BY <1>1, <2>3 DEF truncate_node, DataSet
  <2> QED
    BY <1>1, <2>1, <2>4, DataKeeps
<1>2. CASE ~IsFile(ns, id)
  <2>1. t = ns
    BY <1>2 DEF truncate_node
  <2> QED
    BY <2>1, KeepsSame, SameAlive
<1> QED
  BY <1>1, <1>2

\* The node of a file handle.
LEMMA HandleNode ==
  ASSUME FilesInv, NEW f, IsFileFd(f)
  PROVE  /\ handles[f].node \in Ids \cup {None} /\ handles[f].pos \in Nat /\ f \in DOMAIN handles
         /\ handles[f].type = "file"
<1>1. handles[f] \in AnyRes /\ handles[f].type = "file" /\ f \in DOMAIN handles
  BY DEF FilesInv, Table, IsFileFd
<1> QED
  BY <1>1, ResFacts

\* Writing through a handle changes the paths of its file only.
LEMMA WriteKeeps ==
  ASSUME FilesInv, NEW f, IsFileFd(f), NEW pos \in Nat, NEW count \in Nat, NEW t,
         t = write_fd(f, pos, count), NEW id, id = handles[f].node
  PROVE  Keeps(nodes, t, {id}, {p \in Walks : lookup(nodes, p) = id}) /\ Alive(nodes, t)
<1>1. GoodTree(nodes)
  BY DEF FilesInv
<1>2. CASE CanWrite(f)
  <2>1. IsFile(nodes, id) /\ id \in Ids
    BY <1>2, HandleNode DEF CanWrite, IsLiveFd
  <2>2. nodes[id].data \in Content
    BY <1>1, <2>1, NodeFacts DEF GoodTree, Trees, IsFile
  <2>3. PICK c \in Content : c = WriteAt(nodes[id].data, pos, count)
    <3>1. WriteAt(nodes[id].data, pos, count) \in Content
      BY <2>2, ContentFacts
    <3> QED
      BY <3>1
  <2>4. DataSet(nodes, t, id, c)
    BY <1>2, <2>3 DEF write_fd, DataSet
  <2>5. PICK ns : ns = nodes
    OBVIOUS
  <2>6. Keeps(ns, t, {id}, {p \in Walks : lookup(ns, p) = id}) /\ Alive(ns, t)
    <3>1. GoodTree(ns) /\ IsFile(ns, id) /\ DataSet(ns, t, id, c)
      BY <1>1, <2>1, <2>4, <2>5
    <3> QED
      BY <2>1, <3>1, DataKeeps
  <2> QED
    BY <2>5, <2>6
<1>3. CASE ~CanWrite(f)
  <2>1. t = nodes
    BY <1>3 DEF write_fd
  <2> QED
    BY <1>1, <2>1, KeepsSame, SameAlive
<1> QED
  BY <1>2, <1>3

\* A call that changes the contents of a node and moves one of its handles.
LEMMA DataCall ==
  ASSUME FilesInv, NEW id, NEW t, Keeps(nodes, t, {id}, {p \in Walks : lookup(nodes, p) = id}),
         Alive(nodes, t), NEW paths, PathsOf(id) \subseteq paths, id = None => t = nodes,
         NEW hs, Table(hs), HeldLive(nodes, hs), DOMAIN hs = DOMAIN handles, NEW fds,
         HandlesOf(id) \subseteq fds, \A g \in DOMAIN handles : g \notin fds => hs[g] = handles[g],
         Become(t, hs, paths, fds), UNCHANGED next_id
  PROVE  FilesInv'
<1>1. GoodTree(nodes) /\ Table(handles) /\ HeldLive(nodes, handles) /\ GoodTree(t) /\ SameNodes(nodes, t, {id})
  BY DEF FilesInv, Keeps
<1>2. HeldLive(t, hs)
  BY StayHeld
<1>3. ASSUME NEW p \in Paths \ paths PROVE open_readonly(t, p) = open_readonly(nodes, p)
  <2>1. CASE id = None
    BY <2>1
  <2>2. CASE id # None
    <3>1. lookup(nodes, p) # id /\ p \in Walks
      BY <1>3, <2>2, PathIsWalk DEF PathsOf
    <3>2. read_file(t, p) = read_file(nodes, p)
      BY <3>1 DEF Keeps, SameReads
    <3> QED
      BY <3>2, ReadonlySame
  <2> QED
    BY <2>1, <2>2
<1>4. ASSUME NEW f \in (DOMAIN handles \cap DOMAIN hs) \ fds
      PROVE  hs[f] = handles[f] /\ (hs[f].type = "file" /\ hs[f].node # None => hs[f].node \notin {id})
  <2>1. hs[f] = handles[f] /\ f \notin HandlesOf(id) /\ f \in DOMAIN handles
    BY <1>4
  <2> QED
    BY <2>1 DEF HandlesOf, IsFileFd
<1>5. /\ GoodTree(nodes') /\ Table(handles') /\ HeldLive(nodes', handles') /\ handles' = hs
      /\ strayPaths' = {} /\ strayHandles' = {}
  BY <1>1, <1>2, <1>3, <1>4, BecomeKeeps
<1> QED
  BY <1>5 DEF FilesInv

\* A write that finds no node writes nothing.
LEMMA WriteNone ==
  ASSUME NEW f, NEW pos, NEW count, handles[f].node = None
  PROVE  write_fd(f, pos, count) = nodes
BY DEF write_fd, CanWrite, IsLiveFd

\* write keeps the invariant.
LEMMA WriteCall ==
  ASSUME FilesInv, NEW f, NEW count \in Nat, sys_write(f, count)
  PROVE  FilesInv'
<1>1. IsFileFd(f) /\ UNCHANGED next_id
  BY DEF sys_write
<1>2. /\ handles[f].node \in Ids \cup {None} /\ handles[f].pos \in Nat /\ f \in DOMAIN handles
      /\ handles[f].type = "file"
  BY <1>1, HandleNode
<1>3. PICK pos \in Nat, np \in Nat : pos = handles[f].pos /\ np = pos + count
  BY <1>2
<1>4. PICK id : id = handles[f].node
  OBVIOUS
<1>5. PICK t : t = write_fd(f, pos, count)
  OBVIOUS
<1>6. PICK hs : hs = IF CanWrite(f) THEN SetPos(handles, f, np) ELSE handles
  OBVIOUS
<1>7. Become(t, hs, PathsOf(id), {f} \cup HandlesOf(id))
  BY <1>3, <1>4, <1>5, <1>6 DEF sys_write
<1>8. Table(handles) /\ HeldLive(nodes, handles)
  BY DEF FilesInv
<1>9. /\ Table(hs) /\ DOMAIN hs = DOMAIN handles /\ HeldLive(nodes, hs)
      /\ \A g \in DOMAIN handles : g # f => hs[g] = handles[g]
  <2>1. CASE CanWrite(f)
    <3>1. PICK k : k = SetPos(handles, f, np)
      OBVIOUS
    <3>2. Table(k) /\ DOMAIN k = DOMAIN handles /\ \A g \in DOMAIN handles : g # f => k[g] = handles[g]
      BY <1>2, <1>8, <3>1, PosTable
    <3>3. HeldLive(nodes, k)
      BY <1>2, <1>8, <3>1, PosHeld
    <3> QED
      BY <1>6, <2>1, <3>1, <3>2, <3>3
  <2>2. CASE ~CanWrite(f)
    BY <1>6, <1>8, <2>2
  <2> QED
    BY <2>1, <2>2
<1>10. Keeps(nodes, t, {id}, {p \in Walks : lookup(nodes, p) = id}) /\ Alive(nodes, t)
  BY <1>1, <1>4, <1>5, WriteKeeps
<1>11. id = None => t = nodes
  BY <1>4, <1>5, WriteNone
<1>12. PICK fds, paths : fds = {f} \cup HandlesOf(id) /\ paths = PathsOf(id)
  OBVIOUS
<1>13. /\ HandlesOf(id) \subseteq fds /\ PathsOf(id) \subseteq paths /\ Become(t, hs, paths, fds)
       /\ \A g \in DOMAIN handles : g \notin fds => hs[g] = handles[g]
  BY <1>7, <1>9, <1>12
<1> QED
  BY <1>1, <1>9, <1>10, <1>11, <1>13, DataCall

\* writev keeps the invariant.
LEMMA WritevCall ==
  ASSUME FilesInv, NEW f, sys_writev(f, <<0, 1>>)
  PROVE  FilesInv'
<1> DEFINE counts == <<0, 1>>
           total[i \in 0..Len(counts)] == IF i = 0 THEN 0 ELSE total[i - 1] + counts[i]
<1>1. sys_write(f, total[Len(counts)])
  BY DEF sys_writev
<1>2. Len(counts) = 2 /\ counts[1] = 0 /\ counts[2] = 1
  OBVIOUS
<1>3. \E g : g = [i \in 0..Len(counts) |-> IF i = 0 THEN 0 ELSE g[i - 1] + counts[i]]
  <2> DEFINE g == [i \in 0..2 |-> IF i = 2 THEN 1 ELSE 0]
  <2>1. \A i \in 0..2 : i = 0 \/ i = 1 \/ i = 2
    OBVIOUS
  <2>2. g[0] = 0 /\ g[1] = 0 /\ g[2] = 1
    OBVIOUS
  <2>3. \A i \in 0..2 : g[i] = IF i = 0 THEN 0 ELSE g[i - 1] + counts[i]
    BY <1>2, <2>1, <2>2
  <2>4. g = [i \in 0..2 |-> g[i]]
    OBVIOUS
  <2> HIDE DEF g, counts
  <2>5. g = [i \in 0..2 |-> IF i = 0 THEN 0 ELSE g[i - 1] + counts[i]]
    BY <2>3, <2>4
  <2> QED
    BY <1>2, <2>5
<1>4. total = [i \in 0..Len(counts) |-> IF i = 0 THEN 0 ELSE total[i - 1] + counts[i]]
  BY <1>3
<1> HIDE DEF total, counts
<1>5. total[0] = 0 /\ total[1] = total[0] + counts[1] /\ total[2] = total[1] + counts[2]
  BY <1>2, <1>4
<1>6. total[Len(counts)] \in Nat
  BY <1>2, <1>5
<1> QED
  BY <1>1, <1>6, WriteCall

\* pwrite keeps the invariant.
LEMMA PwriteCall ==
  ASSUME FilesInv, NEW f, NEW count \in Nat, NEW offset \in Nat, sys_pwrite64(f, count, offset)
  PROVE  FilesInv'
<1>1. IsFileFd(f) /\ UNCHANGED next_id
  BY DEF sys_pwrite64
<1>2. /\ handles[f].node \in Ids \cup {None} /\ handles[f].pos \in Nat /\ f \in DOMAIN handles
      /\ handles[f].type = "file"
  BY <1>1, HandleNode
<1>3. Table(handles) /\ HeldLive(nodes, handles)
  BY DEF FilesInv
<1>4. SeekBack(f, handles[f].pos) = handles
  <2>1. PICK pos \in Nat : pos = handles[f].pos
    BY <1>2
  <2>2. PICK k : k = SetPos(handles, f, pos)
    OBVIOUS
  <2>3. k = handles
    BY <1>2, <1>3, <2>1, <2>2, PosTable
  <2> QED
    BY <2>1, <2>2, <2>3 DEF SeekBack
<1>5. PICK id : id = handles[f].node
  OBVIOUS
<1>6. PICK t : t = write_fd(f, offset, count)
  OBVIOUS
<1>7. PICK fds, paths : fds = HandlesOf(id) /\ paths = PathsOf(id)
  OBVIOUS
<1>8. PICK hs : hs = handles
  OBVIOUS
<1>9. Become(t, hs, paths, fds)
  <2>1. {g \in HandlesOf(id) : SeekBack(f, handles[f].pos)[g] = handles[g]} = HandlesOf(id)
    BY <1>4
  <2> QED
    BY <1>4, <1>5, <1>6, <1>7, <1>8, <2>1 DEF sys_pwrite64
<1>10. Keeps(nodes, t, {id}, {p \in Walks : lookup(nodes, p) = id}) /\ Alive(nodes, t)
  BY <1>1, <1>5, <1>6, WriteKeeps
<1>11. id = None => t = nodes
  BY <1>5, <1>6, WriteNone
<1>12. /\ Table(hs) /\ HeldLive(nodes, hs) /\ DOMAIN hs = DOMAIN handles
       /\ HandlesOf(id) \subseteq fds /\ PathsOf(id) \subseteq paths
       /\ \A g \in DOMAIN handles : g \notin fds => hs[g] = handles[g]
  BY <1>3, <1>7, <1>8
<1> QED
  BY <1>1, <1>9, <1>10, <1>11, <1>12, DataCall

\* ftruncate keeps the invariant.
LEMMA FtruncateCall ==
  ASSUME FilesInv, NEW f, NEW size \in Nat, sys_ftruncate(f, size)
  PROVE  FilesInv'
<1>1. IsFileFd(f) /\ UNCHANGED next_id
  BY DEF sys_ftruncate, IsLiveFd
<1>2. PICK id \in Ids \cup {None} : id = handles[f].node
  BY <1>1, HandleNode
<1>3. PICK t : t = truncate_node(nodes, id, size)
  OBVIOUS
<1>4. PICK fds, paths : fds = HandlesOf(id) /\ paths = PathsOf(id)
  OBVIOUS
<1>5. PICK hs : hs = handles
  OBVIOUS
<1>6. Become(t, hs, paths, fds)
  BY <1>2, <1>3, <1>4, <1>5 DEF sys_ftruncate
<1>7. GoodTree(nodes) /\ Table(hs) /\ HeldLive(nodes, hs)
  BY <1>5 DEF FilesInv
<1>8. Keeps(nodes, t, {id}, {p \in Walks : lookup(nodes, p) = id}) /\ Alive(nodes, t)
  BY <1>3, <1>7, TruncateKeeps
<1>9. id = None => t = nodes
  BY <1>3 DEF truncate_node, IsFile
<1>10. /\ DOMAIN hs = DOMAIN handles
       /\ HandlesOf(id) \subseteq fds /\ PathsOf(id) \subseteq paths
       /\ \A g \in DOMAIN handles : g \notin fds => hs[g] = handles[g]
  BY <1>4, <1>5
<1> QED
  BY <1>1, <1>6, <1>7, <1>8, <1>9, <1>10, DataCall

\* A call about paths keeps the invariant when it keeps the rest.
LEMMA OnPathsCall ==
  ASSUME FilesInv, NEW t, NEW P, Keeps(nodes, t, {}, Under(P)), NEW fds, OnPaths(t, P, fds)
  PROVE  FilesInv'
<1>1. PICK paths : paths = {r \in Paths : \E p \in P : IsPrefix(p, r)}
  OBVIOUS
<1>2. Become(t, handles, paths, fds) /\ UNCHANGED next_id
  BY <1>1 DEF OnPaths
<1>3. \A p \in Paths : p \in Under(P) => p \in paths
  BY <1>1 DEF Under
<1>4. Alive(nodes, t)
  BY KeepsAlive DEF Keeps, FilesInv
<1>5. \A f \in DOMAIN handles : handles[f].type = "file" /\ handles[f].node # None
                                /\ handles[f].node \in {} => f \in fds
  OBVIOUS
<1>6. PICK X, Q : X = {} /\ Q = Under(P)
  OBVIOUS
<1>7. /\ Keeps(nodes, t, X, Q) /\ (\A p \in Paths : p \in Q => p \in paths)
      /\ \A f \in DOMAIN handles : handles[f].type = "file" /\ handles[f].node # None
                                   /\ handles[f].node \in X => f \in fds
  BY <1>3, <1>5, <1>6
<1> QED
  BY <1>2, <1>4, <1>7, TreeOnly

\* unlink and rmdir keep the invariant.
LEMMA RemoveCall ==
  ASSUME FilesInv, NEW path \in Paths, NEW allow_dir,
         OnPaths(remove_entry(nodes, path, allow_dir).ns, {path}, {})
  PROVE  FilesInv'
<1>1. GoodTree(nodes) /\ path \in Walks /\ path # <<>>
  BY PathIsWalk DEF FilesInv
<1>2. PICK t : t = remove_entry(nodes, path, allow_dir).ns
  OBVIOUS
<1>3. Keeps(nodes, t, {}, Under({path}))
  BY <1>1, <1>2, RemoveKeeps
<1> QED
  BY <1>2, <1>3, OnPathsCall

\* mkdir keeps the invariant.
LEMMA MkdirCall ==
  ASSUME FilesInv, NEW path \in Paths, sys_mkdir(path)
  PROVE  FilesInv'
<1>1. GoodTree(nodes) /\ path \in Walks /\ path # <<>>
  BY PathIsWalk DEF FilesInv
<1>2. Cardinality(FreeIds(nodes)) >= 1
  BY DEF sys_mkdir, Room
<1>3. PICK t : t = mkdir(nodes, path).ns
  OBVIOUS
<1>4. Keeps(nodes, t, {}, {})
  BY <1>1, <1>2, <1>3, CreateKeeps
<1>5. Under({}) = {}
  BY DEF Under
<1>6. Keeps(nodes, t, {}, Under({}))
  BY <1>4, <1>5, Zenon
<1> QED
  BY <1>3, <1>6, OnPathsCall DEF sys_mkdir

\* creat keeps the invariant.
LEMMA CreatCall ==
  ASSUME FilesInv, NEW path \in Paths, sys_creat(path)
  PROVE  FilesInv'
<1>1. GoodTree(nodes) /\ path \in Walks /\ path # <<>>
  BY PathIsWalk DEF FilesInv
<1>2. Cardinality(FreeIds(nodes)) >= 1
  BY DEF sys_creat, Room
<1>3. PICK t : t = create_file(nodes, path).ns
  OBVIOUS
<1>4. Keeps(nodes, t, {}, {path})
  BY <1>1, <1>2, <1>3, CreateKeeps
<1>5. Alive(nodes, t)
  BY <1>1, <1>4, KeepsAlive DEF Keeps
<1>6. PICK X, Q, fds : X = {} /\ Q = {path} /\ fds = {}
  OBVIOUS
<1>7. /\ Keeps(nodes, t, X, Q) /\ (\A p \in Paths : p \in Q => p \in Q)
      /\ \A f \in DOMAIN handles : handles[f].type = "file" /\ handles[f].node # None
                                   /\ handles[f].node \in X => f \in fds
  BY <1>4, <1>6
<1>8. Become(t, handles, Q, fds) /\ UNCHANGED next_id
  BY <1>3, <1>6 DEF sys_creat
<1> QED
  BY <1>5, <1>7, <1>8, TreeOnly

\* rename keeps the invariant.
LEMMA RenameCall ==
  ASSUME FilesInv, NEW old \in Paths, NEW new \in Paths, sys_rename(old, new)
  PROVE  FilesInv'
<1>1. GoodTree(nodes) /\ old \in Walks /\ old # <<>> /\ new \in Walks /\ new # <<>>
  BY PathIsWalk DEF FilesInv
<1>2. PICK t : t = rename(nodes, old, new).ns
  OBVIOUS
<1>3. Keeps(nodes, t, {}, Under({old, new}))
  BY <1>1, <1>2, RenameKeeps
<1> QED
  BY <1>2, <1>3, OnPathsCall DEF sys_rename

\* link keeps the invariant.
LEMMA LinkCall ==
  ASSUME FilesInv, NEW old \in Paths, NEW new \in Paths, sys_link(old, new)
  PROVE  FilesInv'
<1>1. GoodTree(nodes) /\ old \in Walks /\ old # <<>> /\ new \in Walks /\ new # <<>>
  BY PathIsWalk DEF FilesInv
<1>2. PICK t : t = link_vfs(nodes, old, new).ns
  OBVIOUS
<1>3. Keeps(nodes, t, {}, Under({new}))
  BY <1>1, <1>2, LinkKeeps
<1> QED
  BY <1>2, <1>3, OnPathsCall DEF sys_link

\* truncate keeps the invariant.
LEMMA TruncateCall ==
  ASSUME FilesInv, NEW path \in Paths, NEW size \in Nat, sys_truncate(path, size)
  PROVE  FilesInv'
<1>1. GoodTree(nodes) /\ path \in Walks /\ nodes \in Trees
  BY PathIsWalk DEF FilesInv, GoodTree
<1>2. PICK id \in Ids \cup {None} : id = lookup(nodes, path)
  BY <1>1, LookupType
<1>3. PICK t : t = truncate_node(nodes, id, size)
  OBVIOUS
<1>4. PICK fds, paths : fds = HandlesOf(id) /\ paths = {r \in Paths : \E p \in PathsOf(id) : IsPrefix(p, r)}
  OBVIOUS
<1>5. PICK hs : hs = handles
  OBVIOUS
<1>6. Become(t, hs, paths, fds) /\ UNCHANGED next_id
  BY <1>2, <1>3, <1>4, <1>5 DEF sys_truncate, OnPaths, truncate_vfs
<1>7. Table(hs) /\ HeldLive(nodes, hs)
  BY <1>5 DEF FilesInv
<1>8. Keeps(nodes, t, {id}, {p \in Walks : lookup(nodes, p) = id}) /\ Alive(nodes, t)
  BY <1>1, <1>3, TruncateKeeps
<1>9. id = None => t = nodes
  BY <1>3 DEF truncate_node, IsFile
<1>10. PathsOf(id) \subseteq paths
  <2> SUFFICES ASSUME NEW p \in PathsOf(id) PROVE p \in paths
    OBVIOUS
  <2>1. p \in Paths /\ IsPrefix(p, p)
    <3>1. p \in Paths
      BY DEF PathsOf
    <3>2. p \in Walks
      BY <3>1, PathIsWalk
    <3>3. IsPrefix(p, p)
      BY <3>2 DEF IsPrefix, Walks
    <3> QED
      BY <3>1, <3>3
  <2> QED
    BY <1>4, <2>1
<1>11. /\ DOMAIN hs = DOMAIN handles /\ HandlesOf(id) \subseteq fds
       /\ \A g \in DOMAIN handles : g \notin fds => hs[g] = handles[g]
  BY <1>4, <1>5
<1> QED
  BY <1>6, <1>7, <1>8, <1>9, <1>10, <1>11, DataCall

\* close keeps the invariant.
LEMMA CloseCall ==
  ASSUME FilesInv, NEW f, sys_close(f)
  PROVE  FilesInv'
<1>1. PICK hs : hs = [g \in DOMAIN handles \ {f} |-> handles[g]]
  OBVIOUS
<1>2. Become(nodes, hs, {}, {}) /\ UNCHANGED next_id
  BY <1>1 DEF sys_close
<1>3. DOMAIN hs = DOMAIN handles \ {f} /\ \A g \in DOMAIN hs : hs[g] = handles[g]
  BY <1>1
<1>4. Table(hs) /\ HeldLive(nodes, hs)
  <2>1. hs = [g \in DOMAIN hs |-> hs[g]]
    BY <1>1
  <2>2. \A g \in DOMAIN hs : hs[g] \in AnyRes
    BY <1>3 DEF FilesInv, Table
  <2>3. HeldLive(nodes, hs)
    BY <1>3 DEF FilesInv, HeldLive
  <2> QED
    BY <2>1, <2>2, <2>3 DEF Table
<1>5. next_id' \in Nat /\ \A g \in DOMAIN hs : g \in Nat /\ g < next_id'
  BY <1>2, <1>3 DEF FilesInv
<1>6. PICK none : none = {}
  OBVIOUS
<1>7. Become(nodes, hs, none, none) /\ \A g \in (DOMAIN handles \cap DOMAIN hs) \ none : hs[g] = handles[g]
  BY <1>2, <1>3, <1>6
<1> QED
  BY <1>4, <1>5, <1>7, HandlesOnly

\* The handles of a program that ends go with it.
LEMMA ResetCall ==
  ASSUME FilesInv, ResetTable
  PROVE  FilesInv'
<1>1. PICK hs : hs = [f \in {} |-> 0]
  OBVIOUS
<1>2. Become(nodes, hs, {}, {}) /\ next_id' = FirstFd /\ DOMAIN hs = {}
  BY <1>1 DEF ResetTable
<1>3. Table(hs) /\ HeldLive(nodes, hs)
  BY <1>1, <1>2 DEF Table, HeldLive
<1>4. PICK none : none = {}
  OBVIOUS
<1>5. /\ Become(nodes, hs, none, none) /\ next_id' \in Nat
      /\ (\A f \in DOMAIN hs : f \in Nat /\ f < next_id')
      /\ \A f \in (DOMAIN handles \cap DOMAIN hs) \ none : hs[f] = handles[f]
  BY <1>2, <1>4 DEF FirstFd
<1> QED
  BY <1>3, <1>5, HandlesOnly

\* A call that only moves the handle f.
LEMMA MoveCall ==
  ASSUME FilesInv, NEW f, IsFileFd(f), NEW pos \in Nat,
         Become(nodes, SetPos(handles, f, pos), {}, {f}), UNCHANGED next_id
  PROVE  FilesInv'
<1>1. f \in DOMAIN handles /\ handles[f].type = "file" /\ Table(handles) /\ HeldLive(nodes, handles)
  BY DEF FilesInv, IsFileFd
<1>2. PICK k : k = SetPos(handles, f, pos)
  OBVIOUS
<1>3. Table(k) /\ DOMAIN k = DOMAIN handles /\ \A g \in DOMAIN handles : g # f => k[g] = handles[g]
  BY <1>1, <1>2, PosTable
<1>4. HeldLive(nodes, k)
  BY <1>1, <1>2, PosHeld
<1>5. PICK none, fds : none = {} /\ fds = {f}
  OBVIOUS
<1>6. /\ Become(nodes, k, none, fds) /\ next_id' \in Nat
      /\ (\A g \in DOMAIN k : g \in Nat /\ g < next_id')
      /\ \A g \in (DOMAIN handles \cap DOMAIN k) \ fds : k[g] = handles[g]
  BY <1>2, <1>3, <1>5 DEF FilesInv
<1> QED
  BY <1>3, <1>4, <1>6, HandlesOnly

\* read keeps the invariant.
LEMMA ReadCall ==
  ASSUME FilesInv, NEW f, NEW count \in Nat, sys_read(f, count)
  PROVE  FilesInv'
<1>1. IsFileFd(f) /\ UNCHANGED next_id
  BY DEF sys_read
<1>2. PICK pos \in Nat : pos = handles[f].pos
  BY <1>1, HandleNode
<1>3. PICK av \in Nat : av = Avail(f, pos, count)
  BY <1>1, AvailType
<1>4. PICK np \in Nat : np = pos + av
  OBVIOUS
<1>5. Become(nodes, SetPos(handles, f, np), {}, {f})
  BY <1>2, <1>3, <1>4 DEF sys_read
<1> QED
  BY <1>1, <1>5, MoveCall

\* lseek keeps the invariant.
LEMMA SeekCall ==
  ASSUME FilesInv, NEW f, NEW offset \in Int, NEW whence \in 0..2, sys_lseek(f, offset, whence)
  PROVE  FilesInv'
<1>1. IsFileFd(f) /\ UNCHANGED next_id
  BY DEF sys_lseek
<1>2. PICK p \in Nat, l \in Nat : p = handles[f].pos /\ l = Len(DataOf(f))
  BY <1>1, HandleNode, DataType
<1>3. PICK pos \in Int : pos = offset + CASE whence = 0 -> 0 [] whence = 1 -> p [] whence = 2 -> l
  <2>1. whence = 0 \/ whence = 1 \/ whence = 2
    OBVIOUS
  <2> QED
    BY <2>1
<1>4. Become(nodes, IF pos < 0 THEN handles ELSE SetPos(handles, f, pos), {}, {f})
  BY <1>2, <1>3 DEF sys_lseek
<1>5. CASE pos >= 0
  <2>1. pos \in Nat /\ ~(pos < 0)
    BY <1>5
  <2>2. Become(nodes, SetPos(handles, f, pos), {}, {f})
    BY <1>4, <2>1
  <2> QED
    BY <1>1, <2>1, <2>2, MoveCall
<1>6. CASE pos < 0
  <2>1. PICK hs, none, fds : hs = handles /\ none = {} /\ fds = {f}
    OBVIOUS
  <2>2. Become(nodes, hs, none, fds)
    BY <1>4, <1>6, <2>1
  <2>3. Table(hs) /\ HeldLive(nodes, hs) /\ next_id' \in Nat /\ \A g \in DOMAIN hs : g \in Nat /\ g < next_id'
    BY <1>1, <2>1 DEF FilesInv
  <2>4. \A g \in (DOMAIN handles \cap DOMAIN hs) \ fds : hs[g] = handles[g]
    BY <2>1
  <2> QED
    BY <2>2, <2>3, <2>4, HandlesOnly
<1> QED
  BY <1>5, <1>6

\* What a path reads is content.
LEMMA ReadType ==
  ASSUME NEW ns, GoodTree(ns), NEW p \in Paths, open_readonly(ns, p) # <<>>
  PROVE  open_readonly(ns, p)[1] \in Content
<1>1. p \in Walks /\ ns \in Trees
  BY PathIsWalk DEF GoodTree
<1>2. CASE read_file(ns, p) # <<>>
  <2>1. PICK id \in Ids \cup {None} : id = lookup(ns, p)
    BY <1>1, LookupType
  <2>2. IsFile(ns, id) /\ read_file(ns, p) = <<ns[id].data>>
    BY <1>2, <2>1 DEF read_file
  <2>3. ns[id].data \in Content
    <3>1. id \in Ids
      BY <2>2 DEF IsFile
    <3> QED
      BY <1>1, <2>2, <3>1, NodeFacts DEF Trees, IsFile
  <2> QED
    BY <1>2, <2>2, <2>3 DEF open_readonly
<1>3. CASE read_file(ns, p) = <<>>
  <2>1. open_readonly(ns, p) = ext4_read_file(p)
    BY <1>3 DEF open_readonly
  <2>2. p \in DOMAIN Image /\ ext4_read_file(p) = <<Image[p]>>
    BY <2>1 DEF ext4_read_file
  <2>3. Image[p] \in Content
    BY <2>2, VfsAssumption
  <2> QED
    BY <2>1, <2>2, <2>3
<1> QED
  BY <1>2, <1>3

\* The resources that open makes.
LEMMA ResTypes ==
  /\ \A c \in Content : CopiedFile(c) \in AnyRes /\ CopiedFile(c).node = None
  /\ \A p \in Walks : OpenDir(p) \in AnyRes /\ OpenDir(p).type # "file"
  /\ \A k \in DevKinds : [type |-> "dev", kind |-> k] \in AnyRes /\ [type |-> "dev", kind |-> k].type # "file"
  /\ \A id \in Ids : LiveFile(id) \in AnyRes /\ LiveFile(id).node = id /\ LiveFile(id).type = "file"
<1>1. <<>> \in Content /\ 0 \in Nat
  BY DEF Content
<1>2. \A c \in Content : CopiedFile(c) \in FileRes /\ CopiedFile(c).node = None
  BY DEF CopiedFile, FileRes
<1>3. \A p \in Walks : OpenDir(p) \in DirRes /\ OpenDir(p).type = "dir"
  BY DEF OpenDir, DirRes
<1>4. \A k \in DevKinds : [type |-> "dev", kind |-> k] \in DevRes
  BY DEF DevRes
<1>5. \A id \in Ids : LiveFile(id) \in FileRes /\ LiveFile(id).node = id /\ LiveFile(id).type = "file"
  BY <1>1 DEF LiveFile, FileRes
<1> QED
  BY <1>2, <1>3, <1>4, <1>5 DEF AnyRes

\* A handle on a directory.
LEMMA InsertDir ==
  ASSUME FilesInv, NEW p \in Walks, Insert(nodes, OpenDir(p), {}, {})
  PROVE  FilesInv'
<1>1. PICK r \in AnyRes : r = OpenDir(p) /\ r.type # "file"
  BY ResTypes
<1>2. Insert(nodes, r, {}, {})
  BY <1>1
<1> QED
  BY <1>1, <1>2, InsertPlain

\* A handle on a copy of an image's file.
LEMMA InsertCopy ==
  ASSUME FilesInv, NEW c \in Content, Insert(nodes, CopiedFile(c), {}, {})
  PROVE  FilesInv'
<1>1. PICK r \in AnyRes : r = CopiedFile(c) /\ r.node = None
  BY ResTypes
<1>2. Insert(nodes, r, {}, {})
  BY <1>1
<1> QED
  BY <1>1, <1>2, InsertPlain

\* open for reading keeps the invariant.
LEMMA OpenReadCall ==
  ASSUME FilesInv, NEW path \in Paths, OpenForReading(path)
  PROVE  FilesInv'
<1>1. GoodTree(nodes) /\ path \in Walks
  BY PathIsWalk DEF FilesInv
<1>2. PICK data : data = open_readonly(nodes, path)
  OBVIOUS
<1>3. CASE data # <<>> /\ Insert(nodes, CopiedFile(data[1]), {}, {})
  <2>1. data[1] \in Content
    BY <1>1, <1>2, <1>3, ReadType
  <2> QED
    BY <1>3, <2>1, InsertCopy
<1>4. CASE Insert(nodes, OpenDir(path), {}, {})
  BY <1>1, <1>4, InsertDir
<1> QED
  BY <1>2, <1>3, <1>4 DEF OpenForReading

\* open for writing keeps the invariant.
LEMMA OpenWriteCall ==
  ASSUME FilesInv, NEW path \in Paths, NEW o_creat \in BOOLEAN, NEW o_trunc \in BOOLEAN,
         Room(MaxDepth), OpenForWriting(path, o_creat, o_trunc)
  PROVE  FilesInv'
<1>1. GoodTree(nodes) /\ Table(handles) /\ HeldLive(nodes, handles) /\ path \in Walks /\ path # <<>>
  BY PathIsWalk DEF FilesInv
<1>2. PICK w : w = open_writable(nodes, path, o_creat)
  OBVIOUS
<1>3. Opened(nodes, w, path)
  <2>1. Cardinality(FreeIds(nodes)) >= Len(path)
    <3>1. Cardinality(FreeIds(nodes)) >= MaxDepth /\ Cardinality(FreeIds(nodes)) \in Nat /\ MaxDepth \in Nat
      BY FreeFinite, VfsAssumption DEF Room
    <3>2. Len(path) \in Nat /\ Len(path) <= MaxDepth
      BY PathIsWalk
    <3> QED
      BY <3>1, <3>2
  <2> QED
    BY <1>1, <1>2, <2>1, OpenWritable
<1>4. /\ GoodTree(w.ns) /\ SameNodes(nodes, w.ns, {}) /\ w.id \in Ids \cup {None}
      /\ w.id # None => w.ns[w.id] # Free
      /\ \A p \in Walks : p # path => open_readonly(w.ns, p) = open_readonly(nodes, p)
      /\ (w.id = None \/ open_readonly(nodes, path) # <<>>) =>
            open_readonly(w.ns, path) = open_readonly(nodes, path)
      /\ \A p \in Walks : p # path /\ w.id # None /\ lookup(w.ns, p) = w.id => lookup(nodes, p) = w.id
  BY <1>3 DEF Opened
<1>5. Alive(nodes, w.ns)
  BY <1>1, <1>4, KeepsAlive
<1>6. CASE w.id = None /\ Become(w.ns, handles, {}, {}) /\ UNCHANGED next_id
  <2>1. PICK t, hs, none : t = w.ns /\ hs = handles /\ none = {}
    OBVIOUS
  <2>2. HeldLive(t, hs)
    BY <1>1, <1>5, <2>1, StayHeld
  <2>3. \A p \in Paths \ none : open_readonly(t, p) = open_readonly(nodes, p)
    <3> SUFFICES ASSUME NEW p \in Paths PROVE open_readonly(w.ns, p) = open_readonly(nodes, p)
      BY <2>1
    <3>1. p \in Walks
      BY PathIsWalk
    <3> QED
      BY <1>4, <1>6, <3>1
  <2>4. /\ GoodTree(t) /\ Table(hs) /\ SameNodes(nodes, t, none) /\ Become(t, hs, none, none)
        /\ \A f \in (DOMAIN handles \cap DOMAIN hs) \ none :
              hs[f] = handles[f] /\ (hs[f].type = "file" /\ hs[f].node # None => hs[f].node \notin none)
    BY <1>1, <1>4, <1>6, <2>1
  <2>5. /\ GoodTree(nodes') /\ Table(handles') /\ HeldLive(nodes', handles') /\ handles' = hs
        /\ strayPaths' = {} /\ strayHandles' = {}
    BY <1>1, <2>2, <2>3, <2>4, BecomeKeeps
  <2> QED
    BY <1>6, <2>1, <2>5 DEF FilesInv
<1>7. ASSUME w.id # None,
             Insert(IF o_trunc THEN truncate_node(w.ns, w.id, 0) ELSE w.ns, LiveFile(w.id),
                    (IF View(path) = <<>> \/ o_trunc THEN {path} ELSE {})
                       \cup (IF o_trunc THEN PathsOf(w.id) ELSE {}),
                    IF o_trunc THEN HandlesOf(w.id) ELSE {})
      PROVE  FilesInv'
  <2>1. PICK id \in Ids : id = w.id /\ id # None
    BY <1>4, <1>7
  <2>2. PICK u : u = w.ns
    OBVIOUS
  <2>3. PICK t : t = IF o_trunc THEN truncate_node(u, id, 0) ELSE u
    OBVIOUS
  <2>4. PICK paths, fds : /\ paths = (IF View(path) = <<>> \/ o_trunc THEN {path} ELSE {})
                                       \cup (IF o_trunc THEN PathsOf(id) ELSE {})
                          /\ fds = IF o_trunc THEN HandlesOf(id) ELSE {}
    OBVIOUS
  <2>5. PICK X : X = IF o_trunc THEN {id} ELSE {}
    OBVIOUS
  <2>6. PICK r \in AnyRes : r = LiveFile(id) /\ r.node = id /\ r.type = "file"
    BY ResTypes
  <2>7. Insert(t, r, paths, fds)
    BY <1>7, <2>1, <2>2, <2>3, <2>4, <2>6
  <2>8. PICK n \in Nat : n = next_id /\ next_id' = n + 1
    BY <2>7 DEF FilesInv, Insert
  <2>9. PICK k : k = HandleAdded(handles, n, r)
    OBVIOUS
  <2>10. Become(t, k, paths, fds)
    BY <2>7, <2>8, <2>9 DEF Insert, HandleAdded
  <2>11. /\ GoodTree(u) /\ SameNodes(nodes, u, {}) /\ u[id] # Free
         /\ \A p \in Walks : p # path => open_readonly(u, p) = open_readonly(nodes, p)
         /\ open_readonly(nodes, path) # <<>> => open_readonly(u, path) = open_readonly(nodes, path)
         /\ \A p \in Walks : p # path /\ lookup(u, p) = id => lookup(nodes, p) = id
    BY <1>4, <2>1, <2>2
  <2>12. /\ GoodTree(t) /\ SameNodes(nodes, t, X) /\ Alive(u, t)
         /\ \A p \in Paths \ paths : open_readonly(t, p) = open_readonly(nodes, p)
    <3>1. CASE ~o_trunc
      <4>1. t = u /\ X = {}
        BY <2>3, <2>5, <3>1
      <4>2. ASSUME NEW p \in Paths \ paths PROVE open_readonly(u, p) = open_readonly(nodes, p)
        <5>1. p \in Walks
          BY PathIsWalk
        <5>2. p = path => open_readonly(nodes, path) # <<>>
          BY <2>4, <4>2 DEF View
        <5> QED
          BY <2>11, <5>1, <5>2
      <4> QED
        BY <2>11, <4>1, <4>2, SameAlive
    <3>2. CASE o_trunc
      <4>1. t = truncate_node(u, id, 0) /\ X = {id} /\ id \in Ids \cup {None} /\ 0 \in Nat
        BY <2>3, <2>5, <3>2
      <4>2. Keeps(u, t, {id}, {p \in Walks : lookup(u, p) = id}) /\ Alive(u, t)
        BY <2>11, <4>1, TruncateKeeps
      <4>3. GoodTree(t) /\ SameNodes(u, t, {id})
        BY <4>2 DEF Keeps
      <4>4. SameNodes(nodes, t, {id})
        <5> SUFFICES ASSUME NEW e \in Ids, e # id, nodes[e] # Free
                     PROVE  t[e].kind = nodes[e].kind /\ (nodes[e].kind = "file" => t[e].data = nodes[e].data)
          BY DEF SameNodes
        <5>1. u[e].kind = nodes[e].kind /\ (nodes[e].kind = "file" => u[e].data = nodes[e].data)
          BY <2>11 DEF SameNodes
        <5>2. u[e] # Free
          BY <1>5, <2>2 DEF Alive
        <5>3. t[e].kind = u[e].kind /\ (u[e].kind = "file" => t[e].data = u[e].data)
          BY <4>3, <5>2 DEF SameNodes
        <5> QED
          BY <5>1, <5>3
      <4>5. ASSUME NEW p \in Paths \ paths PROVE open_readonly(t, p) = open_readonly(nodes, p)
        <5>1. p \in Walks
          BY PathIsWalk
        <5>2. p # path /\ lookup(nodes, p) # id
          BY <2>1, <2>4, <3>2, <4>5 DEF PathsOf
        <5>3. lookup(u, p) # id
          BY <2>11, <5>1, <5>2
        <5>4. read_file(t, p) = read_file(u, p)
          BY <4>2, <5>1, <5>3 DEF Keeps, SameReads
        <5>5. open_readonly(t, p) = open_readonly(u, p)
          BY <5>4, ReadonlySame
        <5> QED
          BY <2>11, <5>1, <5>2, <5>5
      <4> QED
        BY <4>1, <4>2, <4>3, <4>4, <4>5
    <3> QED
      BY <3>1, <3>2
  <2>13. t[id] # Free
    BY <2>11, <2>12 DEF Alive
  <2>14. HeldLive(t, handles)
    <3>1. Alive(nodes, t)
      BY <1>5, <2>2, <2>12 DEF Alive
    <3> QED
      BY <1>1, <3>1, StayHeld
  <2>15. \A f \in DOMAIN handles : f \in Nat /\ f < n
    BY <2>8 DEF FilesInv
  <2>16. Table(k) /\ HeldLive(t, k) /\ DOMAIN k = DOMAIN handles \cup {n}
    <3>1. ResLive(t, r)
      BY <2>6, <2>13 DEF ResLive
    <3>2. PICK hs : hs = handles
      OBVIOUS
    <3>3. Table(hs) /\ HeldLive(t, hs) /\ k = HandleAdded(hs, n, r)
      BY <1>1, <2>9, <2>14, <3>2
    <3>4. Table(k) /\ HeldLive(t, k) /\ DOMAIN k = DOMAIN hs \cup {n}
      BY <3>1, <3>3, AddedTable
    <3> QED
      BY <3>2, <3>4
  <2>17. \A f \in (DOMAIN handles \cap DOMAIN k) \ fds :
            k[f] = handles[f] /\ (k[f].type = "file" /\ k[f].node # None => k[f].node \notin X)
    <3> SUFFICES ASSUME NEW f \in (DOMAIN handles \cap DOMAIN k) \ fds
                 PROVE  k[f] = handles[f] /\ (k[f].type = "file" /\ k[f].node # None => k[f].node \notin X)
      OBVIOUS
    <3>1. f # n
      BY <2>15
    <3>2. k[f] = handles[f]
      BY <2>9, <3>1 DEF HandleAdded
    <3>3. handles[f].type = "file" => handles[f].node \notin X
      BY <2>1, <2>4, <2>5 DEF HandlesOf, IsFileFd
    <3> QED
      BY <3>2, <3>3
  <2>18. /\ GoodTree(nodes') /\ Table(handles') /\ HeldLive(nodes', handles') /\ handles' = k
         /\ strayPaths' = {} /\ strayHandles' = {}
    BY <1>1, <2>10, <2>12, <2>16, <2>17, BecomeKeeps
  <2>19. next_id' \in Nat /\ \A f \in DOMAIN k : f \in Nat /\ f < next_id'
    BY <2>8, <2>15, <2>16
  <2> QED
    BY <2>18, <2>19 DEF FilesInv
<1> QED
  BY <1>2, <1>6, <1>7 DEF OpenForWriting

\* open keeps the invariant.
LEMMA OpenCall ==
  ASSUME FilesInv, NEW path \in Paths, NEW fl \in OpenFlags, sys_open_impl(path, fl)
  PROVE  FilesInv'
<1>1. fl.creat \in BOOLEAN /\ fl.trunc \in BOOLEAN
  BY DEF OpenFlags
<1>2. CASE Insert(nodes, OpenDir(path), {}, {})
  BY <1>2, PathIsWalk, InsertDir
<1>3. CASE Room(MaxDepth) /\ OpenForWriting(path, fl.creat, fl.trunc)
  BY <1>1, <1>3, OpenWriteCall
<1>4. CASE OpenForReading(path)
  BY <1>4, OpenReadCall
<1> QED
  BY <1>2, <1>3, <1>4 DEF sys_open_impl

\* Every step keeps the invariant.
LEMMA FilesStep == FilesInv /\ [FilesNext]_filesVars => FilesInv'
<1> SUFFICES ASSUME FilesInv, [FilesNext]_filesVars PROVE FilesInv'
  OBVIOUS
<1>1. \A n \in 0..MaxLen : n \in Nat
  BY FilesAssumption
<1>2. ASSUME NEW p \in Paths, NEW fl \in OpenFlags, sys_open_impl(p, fl) PROVE FilesInv'
  BY <1>2, OpenCall
<1>3. CASE OpenRoot
  <2>1. <<>> \in Walks
    BY DEF Walks
  <2> QED
    BY <1>3, <2>1, InsertDir DEF OpenRoot
<1>4. CASE OpenProc
  <2>1. <<1>> \in Content
    BY DEF Content
  <2> QED
    BY <1>4, <2>1, InsertCopy DEF OpenProc
<1>5. CASE ResetTable
  BY <1>5, ResetCall
<1>6. ASSUME NEW k \in DevKinds, OpenDev(k) PROVE FilesInv'
  <2>1. PICK r \in AnyRes : r = [type |-> "dev", kind |-> k] /\ r.type # "file"
    BY ResTypes
  <2>2. Insert(nodes, r, {}, {})
    BY <1>6, <2>1 DEF OpenDev
  <2> QED
    BY <2>1, <2>2, InsertPlain
<1>7. ASSUME NEW p \in Paths, sys_creat(p) PROVE FilesInv'
  BY <1>7, CreatCall
<1>8. ASSUME NEW p \in Paths, sys_mkdir(p) PROVE FilesInv'
  BY <1>8, MkdirCall
<1>9. ASSUME NEW p \in Paths, sys_rmdir(p) \/ sys_unlink(p) PROVE FilesInv'
  BY <1>9, RemoveCall DEF sys_rmdir, sys_unlink
<1>10. ASSUME NEW p \in Paths, NEW size \in 0..MaxLen, sys_truncate(p, size) PROVE FilesInv'
  BY <1>1, <1>10, TruncateCall
<1>11. ASSUME NEW p \in Paths, NEW q \in Paths, sys_rename(p, q) \/ sys_link(p, q) PROVE FilesInv'
  BY <1>11, RenameCall, LinkCall
<1>12. ASSUME NEW f \in DOMAIN handles,
              \/ sys_close(f)
              \/ \E n \in 0..MaxLen : sys_read(f, n) \/ sys_write(f, n) \/ sys_ftruncate(f, n)
              \/ sys_writev(f, <<0, 1>>)
              \/ \E n, off \in 0..MaxLen : sys_pwrite64(f, n, off)
              \/ \E off \in -1..1, w \in 0..2 : sys_lseek(f, off, w)
              \/ \E n \in Names : sys_mkdirat(f, <<n>>) \/ \E a \in BOOLEAN : sys_unlinkat(f, <<n>>, a)
       PROVE  FilesInv'
  <2>1. CASE sys_close(f)
    BY <2>1, CloseCall
  <2>2. ASSUME NEW n \in 0..MaxLen, sys_read(f, n) \/ sys_write(f, n) \/ sys_ftruncate(f, n) PROVE FilesInv'
    BY <1>1, <2>2, ReadCall, WriteCall, FtruncateCall
  <2>3. CASE sys_writev(f, <<0, 1>>)
    BY <2>3, WritevCall
  <2>4. ASSUME NEW n \in 0..MaxLen, NEW off \in 0..MaxLen, sys_pwrite64(f, n, off) PROVE FilesInv'
    BY <1>1, <2>4, PwriteCall
  <2>5. ASSUME NEW off \in -1..1, NEW w \in 0..2, sys_lseek(f, off, w) PROVE FilesInv'
    <3>1. off \in Int
      OBVIOUS
    <3> QED
      BY <2>5, <3>1, SeekCall
  <2>6. ASSUME NEW n \in Names, sys_mkdirat(f, <<n>>) PROVE FilesInv'
    BY <2>6, MkdirCall DEF sys_mkdirat
  <2>7. ASSUME NEW n \in Names, NEW a \in BOOLEAN, sys_unlinkat(f, <<n>>, a) PROVE FilesInv'
    BY <2>7, RemoveCall DEF sys_unlinkat
  <2> QED
    BY <1>12, <2>1, <2>2, <2>3, <2>4, <2>5, <2>6, <2>7
<1>13. CASE UNCHANGED filesVars
  BY <1>13 DEF filesVars, FilesInv
<1> QED
  BY <1>2, <1>3, <1>4, <1>5, <1>6, <1>7, <1>8, <1>9, <1>10, <1>11, <1>12, <1>13 DEF FilesNext

\* The empty tree and table satisfy the invariant.
LEMMA FilesStart == FilesInit => FilesInv
<1> SUFFICES ASSUME FilesInit PROVE FilesInv
  OBVIOUS
<1>1. nodes = [id \in Ids |-> IF id = Root THEN EmptyDir ELSE Free]
  BY DEF FilesInit, VfsInit
<1>2. /\ EmptyDir \in DirNodes /\ EmptyDir.kind = "dir" /\ \A n \in Names : EmptyDir.kids[n] = None
      /\ Free.kind = "free"
  BY DEF EmptyDir, DirNodes, Free
<1>3. EmptyDir \in TreeNodes /\ Free \in TreeNodes
  BY <1>2 DEF TreeNodes
<1>4. nodes \in Trees
  BY <1>1, <1>3 DEF Trees
<1>5. IsDir(nodes, Root)
  BY <1>1, <1>2, IdFacts DEF IsDir
<1>6. \A d \in Ids, n \in Names : IsDir(nodes, d) => nodes[d].kids[n] = None
  BY <1>1, <1>2 DEF IsDir
<1>7. NoDangling(nodes)
  BY <1>6 DEF NoDangling
<1>8. RootNameless(nodes)
  BY <1>6, IdFacts DEF RootNameless
<1>9. OneName(nodes)
  BY <1>6 DEF OneName, IsDir
<1>10. LinksCover(nodes)
  BY <1>1, <1>2 DEF LinksCover, IsFile
<1>11. GoodTree(nodes)
  BY <1>4, <1>5, <1>7, <1>8, <1>9, <1>10 DEF GoodTree
<1>12. Table(handles) /\ HeldLive(nodes, handles) /\ DOMAIN handles = {}
  BY DEF FilesInit, Table, HeldLive
<1> QED
  BY <1>11, <1>12 DEF FilesInit, FilesInv, FirstFd

\* Whatever programs open, write, link, rename and remove, for every set of
\* names, depth, number of nodes and image: the directories form a tree, no
\* file has more names than its link count, and a listing and the existence
\* test agree.
THEOREM TreeStaysSound == FilesSpec => []TreeIsSound
<1>1. FilesSpec => []FilesInv
  BY FilesStart, FilesStep, PTL DEF FilesSpec
<1> QED
  BY <1>1, GoodIsSound, PTL

\* No call changes what a path or a handle reads that it is not about.
THEOREM CallsKeepContents == FilesSpec => []FilesKeepContents
<1>1. FilesInv => FilesKeepContents
  BY DEF FilesInv, FilesKeepContents
<1> QED
  BY <1>1, FilesStart, FilesStep, PTL DEF FilesSpec
=============================================================================
