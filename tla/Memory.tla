------------------------------- MODULE Memory --------------------------------
(* The memory of user programs: the table of areas (process/vma.rs), the     *)
(* mmap, munmap and brk system calls, demand paging, fork's deep copy, exec  *)
(* and the launch of the next program.  The area table and MMAP_TABLE are    *)
(* single globals shared by every program; page tables are per program.      *)
(*                                                                           *)
(* Addresses are page numbers 0 .. Stack: the image is loaded at page 0, the *)
(* bump allocator of mmap starts at MmapBase, and the stack is one page at   *)
(* the top.  What a page holds is abstracted to whose data it is: the program *)
(* that wrote it last, or Clean for zeros and file bytes.                    *)
EXTENDS Naturals, FiniteSets, FiniteSetsExt

CONSTANTS MAX_VMA,      \* slots of VMA_TABLE
          Frames,       \* physical frames, numbered from 1
          MmapBase,     \* mmap_next of a new program
          BrkStart,     \* end of a dynamic program's image
          Stack,        \* the stack page, above every mapping
          Stored,       \* bound: the pages stores are modelled for
          MaxPages,     \* bound: pages of one mapping
          MaxPrograms,  \* bound: programs started since boot
          MaxCalls      \* bound: system calls about memory or programs

ASSUME MemAssumption ==
    /\ MAX_VMA \in Nat \ {0} /\ MaxPages \in Nat \ {0}
    /\ MaxPrograms \in Nat \ {0} /\ MaxCalls \in Nat /\ Stack \in Nat
    /\ Stored \subseteq 0 .. Stack
    /\ BrkStart \in 1 .. Stack /\ MmapBase \in BrkStart .. Stack
    /\ IsFiniteSet(Frames) /\ Frames \subseteq Nat \ {0}
    /\ Cardinality(Frames) >= 2      \* the first program is loaded

VARIABLES vmas,      \* VMA_TABLE: sequence of slots
          mmaps,     \* MMAP_TABLE: base -> pages
          pt,        \* program -> its present pages -> [frame, writable]
          used,      \* frames the frame allocator has handed out
          data,      \* frame -> whose data it holds
          progs,     \* program -> [mmap_next, brk_base, brk_cur, parent]
          alive,     \* programs with a UserProc slot that may still run
          current,   \* the program whose page table is loaded
          halted,    \* the kernel panicked or faulted
          calls,     \* system calls made, capped by MaxCalls
          given,     \* history: pages the kernel granted and has not taken back
          lost,      \* history: <<program, page>> whose area is gone or shadowed since
                     \* the page was granted
          may        \* history: programs whose data a program inherited

memVars == <<vmas, mmaps, pt, used, data, progs, alive, current, halted,
             calls, given, lost, may>>

Programs == 1 .. MaxPrograms
Pages    == 0 .. Stack
VmaSlots    == 1 .. MAX_VMA
Clean    == 0
NoArea   == [base |-> 0, pages |-> 0, write |-> FALSE, lazy |-> FALSE, valid |-> FALSE]
Span(base, n) == base .. (base + n - 1)
AreaPages(e)  == IF e.valid THEN Span(e.base, e.pages) ELSE {}
AreaOf(base, n, w, lazy) ==
    [base |-> base, pages |-> n, write |-> w, lazy |-> lazy, valid |-> TRUE]

----------------------------------------------------------------------------
(* The area table.                                                          *)

\* A free slot, or the first of those with the fewest pages.
insert_slot(t, e) ==
    LET free == {i \in VmaSlots : ~t[i].valid}
        least == {i \in VmaSlots : \A j \in VmaSlots : t[i].pages <= t[j].pages}
    IN [t EXCEPT ![IF free # {} THEN Min(free) ELSE Min(least)] = e]

\* A plausible bug: the tail of the replaced area is forgotten.
insert_NoTail(t, new) ==
    LET same == {i \in VmaSlots : t[i].valid /\ t[i].base = new.base}
    IN IF same = {} THEN insert_slot(t, new) ELSE [t EXCEPT ![Min(same)] = new]

\* Replaces the area with the same base and keeps the tail of a longer one.
insert(t, new) ==
    LET same == {i \in VmaSlots : t[i].valid /\ t[i].base = new.base}
        old  == t[Min(same)]
        put  == [t EXCEPT ![Min(same)] = new]
    IN CASE same = {} -> insert_slot(t, new)
         [] same # {} /\ new.pages < old.pages ->
              insert_slot(put, [old EXCEPT !.base = new.base + new.pages,
                                           !.pages = old.pages - new.pages])
         [] OTHER -> put

\* The first area that contains the page.
find(t, v) ==
    LET hits == {i \in VmaSlots : v \in AreaPages(t[i])}
    IN IF hits = {} THEN NoArea ELSE t[Min(hits)]

update_prot(t, base, n, w) ==
    [i \in VmaSlots |-> IF AreaPages(t[i]) \cap Span(base, n) # {}
                     THEN [t[i] EXCEPT !.write = w] ELSE t[i]]

\* The slot whose area the insertion of new replaces: the first with its base.
Replaced(t, new, i) ==
    /\ t[i].valid /\ t[i].base = new.base
    /\ \A j \in VmaSlots : t[j].valid /\ t[j].base = new.base => i <= j

\* Pages whose area an insertion pushed out of a full table.
Evicted(t, t2, new) ==
    (UNION {AreaPages(t[i]) : i \in {j \in VmaSlots : ~Replaced(t, new, j) /\ t2[j] # t[j]}})
      \cup (IF \E i \in VmaSlots : t2[i] = new THEN {} ELSE AreaPages(new))

\* Pages of a new lazy area that the table also has in an area that is not
\* lazy and stays: `find` may meet that one first.
Shadowed(t, new) ==
    AreaPages(new) \cap
      UNION {AreaPages(t[i]) : i \in {j \in VmaSlots : ~t[j].lazy /\ ~Replaced(t, new, j)}}

----------------------------------------------------------------------------
(* Frames and page tables.                                                  *)

Free == Frames \ used
CanAlloc(n) == Cardinality(Free) >= n
\* alloc_frame, once for each page of ps in ascending order.
FrameFor(ps) ==
    [v \in ps |-> CHOOSE f \in Free :
        Cardinality({g \in Free : g < f}) = Cardinality({u \in ps : u < v})]

\* Maps new frames at ps, cleared; a page that was present is overwritten.
MapNew(s, ps, w) ==
    LET f == FrameFor(ps)
    IN /\ pt' = [pt EXCEPT ![s] =
                   [v \in ps \cup DOMAIN pt[s] |->
                       IF v \in ps THEN [frame |-> f[v], writable |-> w] ELSE pt[s][v]]]
       /\ used' = used \cup {f[v] : v \in ps}
       /\ data' = [g \in Frames |-> IF \E v \in ps : f[v] = g THEN Clean ELSE data[g]]

\* An allocation that fails is an expect() in the kernel: panic.
Panic == halted' = TRUE /\ UNCHANGED <<vmas, mmaps, pt, used, data, progs, alive,
                                       current, given, lost, may>>

Present(s, v)  == v \in DOMAIN pt[s]
Writable(s, v) == Present(s, v) /\ pt[s][v].writable

----------------------------------------------------------------------------
(* What user code and faults do.                                            *)

\* A store to a present, writable page.
UserWrite(v) ==
    /\ Writable(current, v)
    /\ data' = [data EXCEPT ![pt[current][v].frame] = current]
    /\ UNCHANGED <<vmas, mmaps, pt, used, progs, alive, current, halted, given, lost, may>>

\* demand_alloc_page: the new frame is cleared.
demand_alloc_page(v, w) ==
    /\ CanAlloc(1) /\ MapNew(current, {v}, w)
    /\ UNCHANGED <<vmas, mmaps, progs, alive, current, halted, given, lost, may>>

\* A not-present fault in a lazy area maps one page; the access is retried.
try_demand_page(v) ==
    /\ ~Present(current, v) /\ find(vmas, v).lazy
    /\ demand_alloc_page(v, find(vmas, v).write) \/ (~CanAlloc(1) /\ Panic)

\* A system call stores its result in a user page: a fault in kernel mode is
\* never demand paged, it halts the machine.
KernelStore(v) ==
    \/ /\ Writable(current, v)
       /\ data' = [data EXCEPT ![pt[current][v].frame] = current]
       /\ UNCHANGED <<vmas, mmaps, pt, used, progs, alive, current, halted, given, lost, may>>
    \/ ~Writable(current, v) /\ Panic

----------------------------------------------------------------------------
(* mmap, munmap, brk.                                                       *)

\* vma::insert by the current program.  Its own pages are granted anew; an area
\* that is not lazy takes its pages from the others, a lazy one does not reach
\* the pages it is shadowed on, and a full table takes pages from anyone.
InsertArea(e) ==
    LET t2 == insert(vmas, e)
    IN /\ vmas' = t2
       /\ lost' = (lost \ ({current} \X AreaPages(e)))
                    \cup (IF e.lazy THEN {current} \X Shadowed(vmas, e)
                                    ELSE (alive \ {current}) \X AreaPages(e))
                    \cup (alive \X (Evicted(vmas, t2, e) \cap Pages))
Grant(ps) == given' = [given EXCEPT ![current] = @ \cup ps]
SetMmap(base, n) ==
    mmaps' = [b \in DOMAIN mmaps \cup {base} |-> IF b = base THEN n ELSE mmaps[b]]

\* alloc_mmap_vaddr
Bump(n) == progs' = [progs EXCEPT ![current].mmap_next = @ + n]
FitsAbove(n) == progs[current].mmap_next + n <= Stack

\* mmap(MAP_ANONYMOUS): only the area is recorded.
mmap_anonymous(n, w) ==
    LET base == progs[current].mmap_next
    IN /\ FitsAbove(n) /\ Bump(n)
       /\ InsertArea(AreaOf(base, n, w, TRUE)) /\ SetMmap(base, n)
       /\ Grant(Span(base, n))
       /\ UNCHANGED <<pt, used, data, alive, current, halted, may>>

\* The file has bytes for `filled` of the n pages; at least one page is mapped.
FilePages(base, filled) == Span(base, IF filled = 0 THEN 1 ELSE filled)

\* The tail past the file has an area that is not lazy and no page.
MapFile(base, n, w, filled) ==
    LET ps == FilePages(base, filled)
    IN /\ CanAlloc(Cardinality(ps))
       /\ MapNew(current, ps, TRUE)
       /\ InsertArea(AreaOf(base, n, w, FALSE)) /\ SetMmap(base, n)
       /\ given' = [given EXCEPT ![current] = (@ \ Span(base, n)) \cup ps]

mmap_file(n, w, filled) ==
    LET base == progs[current].mmap_next
    IN /\ FitsAbove(n)
       /\ \/ /\ MapFile(base, n, w, filled) /\ Bump(n)
             /\ UNCHANGED <<alive, current, halted, may>>
          \/ ~CanAlloc(Cardinality(FilePages(base, filled))) /\ Panic

\* The last mapping at or below addr contains the whole range.
in_existing(addr, n) ==
    LET below == {b \in DOMAIN mmaps : b <= addr}
    IN below # {} /\ addr + n <= Max(below) + mmaps[Max(below)]

\* mmap(MAP_FIXED | MAP_ANONYMOUS): inside a mapping only a lazy area is recorded.
mmap_fixed_anon(addr, n, w) ==
    \/ /\ in_existing(addr, n)
       /\ InsertArea(AreaOf(addr, n, w, TRUE))
       /\ Grant(Span(addr, n))
       /\ UNCHANGED <<mmaps, pt, used, data, progs, alive, current, halted, may>>
    \/ /\ ~in_existing(addr, n) /\ CanAlloc(n)
       /\ MapNew(current, Span(addr, n), TRUE)
       /\ InsertArea(AreaOf(addr, n, w, FALSE)) /\ SetMmap(addr, n)
       /\ Grant(Span(addr, n))
       /\ UNCHANGED <<progs, alive, current, halted, may>>
    \/ ~in_existing(addr, n) /\ ~CanAlloc(n) /\ Panic

\* mmap(MAP_FIXED, fd): inside a mapping the kernel itself copies the bytes.
mmap_fixed_file(addr, n, w, filled) ==
    \/ /\ in_existing(addr, n)
       /\ \A v \in Span(addr, filled) : Writable(current, v)
       /\ data' = [g \in Frames |-> IF \E v \in Span(addr, filled) : pt[current][v].frame = g
                                    THEN Clean ELSE data[g]]
       /\ vmas' = update_prot(vmas, addr, n, w)
       /\ Grant(Span(addr, filled)) /\ lost' = lost \ ({current} \X Span(addr, filled))
       /\ UNCHANGED <<mmaps, pt, used, progs, alive, current, halted, may>>
    \/ /\ in_existing(addr, n)
       /\ \E v \in Span(addr, filled) : ~Writable(current, v)
       /\ Panic
    \/ /\ ~in_existing(addr, n) /\ MapFile(addr, n, w, filled)
       /\ UNCHANGED <<progs, alive, current, halted, may>>
    \/ /\ ~in_existing(addr, n) /\ ~CanAlloc(Cardinality(FilePages(addr, filled)))
       /\ Panic

\* munmap_pages: frees the frame of every present page and clears its entry.
munmap_pages(ps) ==
    /\ pt' = [pt EXCEPT ![current] = [v \in DOMAIN pt[current] \ ps |-> pt[current][v]]]
    /\ used' = used \ {pt[current][v].frame : v \in DOMAIN pt[current] \cap ps}

\* The whole mapping that starts at addr, else the pages asked for.  The area
\* stays in the table.
sys_munmap(addr, n) ==
    LET ps == Span(addr, IF addr \in DOMAIN mmaps THEN mmaps[addr] ELSE n)
    IN /\ mmaps' = [b \in DOMAIN mmaps \ {addr} |-> mmaps[b]]
       /\ munmap_pages(ps)
       /\ given' = [given EXCEPT ![current] = @ \ ps]
       /\ UNCHANGED <<vmas, data, progs, alive, current, halted, lost, may>>

\* Growing records a lazy area from the old break; shrinking frees nothing.
sys_brk(new) ==
    LET p == progs[current]
        n == new - p.brk_cur
    IN /\ new # 0 /\ new >= p.brk_base /\ new <= Stack
       /\ progs' = [progs EXCEPT ![current].brk_cur = new]
       /\ \/ /\ new > p.brk_cur
             /\ InsertArea(AreaOf(p.brk_cur, n, TRUE, TRUE))
             /\ Grant(Span(p.brk_cur, n))
          \/ /\ new <= p.brk_cur
             /\ given' = [given EXCEPT ![current] = @ \ (new .. p.brk_cur - 1)]
             /\ UNCHANGED <<vmas, lost>>
       /\ UNCHANGED <<mmaps, pt, used, data, alive, current, halted, may>>

----------------------------------------------------------------------------
(* Programs come and go.                                                    *)

Started == DOMAIN progs
NextProgram == Cardinality(Started) + 1
CanStart == NextProgram \in Programs
With(f, s, x) == [q \in DOMAIN f \cup {s} |-> IF q = s THEN x ELSE f[q]]

\* A plausible bug: the copy shares the frames of the parent.
clone_user_space_Shares ==
    pt' = With(pt, NextProgram, pt[current]) /\ UNCHANGED <<used, data>>

\* clone_user_space: every present page is copied into a new frame.
clone_user_space ==
    LET src == pt[current]
        ps  == DOMAIN src
        f   == FrameFor(ps)
    IN /\ pt' = With(pt, NextProgram, [v \in ps |-> [src[v] EXCEPT !.frame = f[v]]])
       /\ used' = used \cup {f[v] : v \in ps}
       /\ data' = [g \in Frames |-> IF \E v \in ps : f[v] = g
                     THEN data[src[CHOOSE v \in ps : f[v] = g].frame] ELSE data[g]]

fork_current ==
    /\ CanStart
    /\ \/ /\ CanAlloc(Cardinality(DOMAIN pt[current]))
          /\ clone_user_space
          /\ progs' = With(progs, NextProgram, [progs[current] EXCEPT !.parent = current])
          /\ alive' = alive \cup {NextProgram}
          /\ given' = With(given, NextProgram, given[current])
          /\ lost' = lost \cup {<<NextProgram, v>> : v \in {u \in Pages : <<current, u>> \in lost}}
          /\ may' = With(may, NextProgram, may[current] \cup {NextProgram})
          /\ UNCHANGED <<vmas, mmaps, current, halted>>
       \/ ~CanAlloc(Cardinality(DOMAIN pt[current])) /\ Panic

\* load_elf_into_space / DynLinker and setup_user_stack: an empty page table,
\* then the image and the stack.  Stack frames are not cleared.
LoadImage(s) ==
    LET f == FrameFor({0, Stack})
    IN /\ pt' = With(pt, s, [v \in {0, Stack} |-> [frame |-> f[v], writable |-> TRUE]])
       /\ used' = used \cup {f[0], f[Stack]}
       /\ data' = [data EXCEPT ![f[0]] = Clean]

\* exec in a forked child.  Both global tables are emptied, whoever they served;
\* the frames of the old page table are never freed.
exec_replace(dynamic) ==
    /\ progs[current].parent # 0
    /\ \/ /\ CanAlloc(2) /\ LoadImage(current)
          /\ vmas' = [i \in VmaSlots |-> NoArea] /\ mmaps' = << >>
          /\ progs' = IF dynamic
                      THEN [progs EXCEPT ![current].brk_base = BrkStart,
                                         ![current].brk_cur = BrkStart]
                      ELSE progs
          /\ given' = [given EXCEPT ![current] = {}]
          /\ lost' = {l \in lost : l[1] # current}
                       \cup {l \in (alive \ {current}) \X Pages : l[2] \in given[l[1]]}
          /\ may' = [may EXCEPT ![current] = {current}]
          /\ UNCHANGED <<alive, current, halted>>
       \/ ~CanAlloc(2) /\ Panic

\* after_user_demo and enter_elf: the next program in a slot of its own.  Only a
\* dynamic one empties the tables the last program filled.
enter_elf(dynamic) ==
    /\ CanStart /\ CanAlloc(2) /\ current' = NextProgram
    /\ alive' = (alive \ {current}) \cup {NextProgram}
    /\ LoadImage(NextProgram)
    /\ progs' = With(progs, NextProgram,
                  [mmap_next |-> MmapBase, parent |-> 0,
                   brk_base |-> IF dynamic THEN BrkStart ELSE 0,
                   brk_cur  |-> IF dynamic THEN BrkStart ELSE 0])
    /\ given' = With(given, NextProgram, {})
    /\ may' = With(may, NextProgram, {NextProgram})
    /\ \/ /\ dynamic
          /\ vmas' = [i \in VmaSlots |-> NoArea] /\ mmaps' = << >>
          /\ lost' = lost \cup {l \in alive \X Pages : l[2] \in given[l[1]]}
       \/ ~dynamic /\ UNCHANGED <<vmas, mmaps, lost>>
    /\ UNCHANGED halted

\* exit, and the end of a program that faults: a parent in wait4 resumes, else
\* the next program is entered.  The frames of the program are never freed.
sys_exit_impl(dynamic) ==
    \/ /\ progs[current].parent \in alive
       /\ current' = progs[current].parent /\ alive' = alive \ {current}
       /\ pt' = [pt EXCEPT ![current] = << >>]
       /\ UNCHANGED <<vmas, mmaps, used, data, progs, halted, given, lost, may>>
    \/ enter_elf(dynamic)

\* sched_yield, wait4 and futex waits load another program's page table.
Resume(s) ==
    /\ s \in alive \ {current} /\ current' = s
    /\ UNCHANGED <<vmas, mmaps, pt, used, data, progs, alive, halted, given, lost, may>>

----------------------------------------------------------------------------
MemInit ==
    /\ vmas = [i \in VmaSlots |-> NoArea] /\ mmaps = << >>
    /\ alive = {1} /\ current = 1 /\ halted = FALSE /\ calls = 0
    /\ progs = [s \in {1} |-> [mmap_next |-> MmapBase, brk_base |-> 0, brk_cur |-> 0,
                               parent |-> 0]]
    /\ \E f, g \in Frames :
          /\ f = Min(Frames) /\ g = Min(Frames \ {f})
          /\ pt = [s \in {1} |-> [v \in {0, Stack} |->
                      [frame |-> IF v = 0 THEN f ELSE g, writable |-> TRUE]]]
          /\ used = {f, g}
          /\ data = [h \in Frames |-> Clean]
    /\ given = [s \in {1} |-> {}] /\ lost = {} /\ may = [s \in {1} |-> {1}]

Touches ==
    \/ \E v \in Pages : try_demand_page(v)
    \/ \E v \in Stored : UserWrite(v) \/ KernelStore(v)

MemoryCalls ==
    \/ \E n \in 1 .. MaxPages, w \in BOOLEAN :
          \/ mmap_anonymous(n, w)
          \/ \E filled \in 0 .. n : mmap_file(n, w, filled)
          \/ \E addr \in 1 .. Stack - n :
                \/ mmap_fixed_anon(addr, n, w)
                \/ \E filled \in 0 .. n : mmap_fixed_file(addr, n, w, filled)
    \/ \E addr \in 1 .. Stack - 1 : \E n \in 1 .. Stack - addr : sys_munmap(addr, n)
    \/ \E new \in 1 .. MmapBase : sys_brk(new)
    \/ fork_current
    \/ \E dynamic \in BOOLEAN : exec_replace(dynamic) \/ sys_exit_impl(dynamic)

MemNext ==
    \/ ~halted /\ calls < MaxCalls /\ calls' = calls + 1 /\ MemoryCalls
    \/ ~halted /\ UNCHANGED calls /\ (Touches \/ \E s \in alive : Resume(s))

MemSpec == MemInit /\ [][MemNext]_memVars

----------------------------------------------------------------------------
MemTypeOK ==
    /\ \A i \in VmaSlots : vmas[i].pages <= Stack + 1
    /\ DOMAIN mmaps \subseteq Pages
    /\ used \subseteq Frames /\ data \in [Frames -> Programs \cup {Clean}]
    /\ Started = 1 .. Cardinality(Started)
    /\ alive \subseteq Started /\ current \in alive
    /\ DOMAIN pt = Started /\ DOMAIN given = Started /\ DOMAIN may = Started
    /\ \A s \in Started : DOMAIN pt[s] \subseteq Pages /\ given[s] \subseteq Pages

(* A physical frame is mapped by at most one page of one program, and only   *)
(* while the allocator counts it as used: fork's copy, munmap's free and the *)
(* overwriting MAP_FIXED never leave two programs with one frame, nor a page *)
(* over a frame that may be handed out again.                                *)
FramesArePrivate ==
    \A s, r \in Started : \A v \in DOMAIN pt[s], u \in DOMAIN pt[r] :
        /\ pt[s][v].frame \in used
        /\ pt[s][v].frame = pt[r][u].frame => s = r /\ v = u

(* A page that mmap or brk granted last, MAP_FIXED over an earlier mapping    *)
(* included, stays usable until munmap or a smaller brk takes it back: it is  *)
(* mapped or an access demand-pages it, whatever is mapped, unmapped and      *)
(* regranted around it.  What takes pages in the code is exempt (`lost`): a   *)
(* file or fixed mapping of another program, an exec, a full area table, and  *)
(* an anonymous MAP_FIXED over pages that have a file's or a fixed mapping's  *)
(* area already, of which `find` returns the older.                           *)
GrantedPagesUsable ==
    ~halted => \A s \in alive : \A v \in given[s] :
        Present(s, v) \/ <<s, v>> \in lost \/ find(vmas, v).lazy

(* Except on its stack, a program only sees zeros, file bytes, what it wrote *)
(* and what it inherited by fork: a frame another program freed is cleared   *)
(* before it is mapped.                                                      *)
NoForeignData ==
    \A s \in alive : \A v \in DOMAIN pt[s] \ {Stack} :
        data[pt[s][v].frame] \in {Clean} \cup may[s]

(* Programs are isolated: neither a frame nor what was in it is shared.      *)
ProgramsIsolated == FramesArePrivate /\ NoForeignData
=============================================================================
