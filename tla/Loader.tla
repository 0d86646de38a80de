------------------------------- MODULE Loader --------------------------------
(***************************************************************************)
(* exec_replace from the bytes of a program to its first instruction: the  *)
(* loader of static programs (paging/mod.rs), the dynamic linker           *)
(* (dynlink.rs over the parser elf.rs) and dlopen.                         *)
(*                                                                         *)
(* Memory is words: a page has PageWords of them, a frame is one page, and *)
(* an address, a symbol and a file word are natural numbers.  A file is a  *)
(* record of what elf.rs reads out of it; `needed` names libraries with or *)
(* without a directory in front.                                           *)
(***************************************************************************)
EXTENDS Naturals, FiniteSets, SequencesExt

CONSTANTS PageWords,     \* words of a page
          EXEC_LOAD_BASE, SO_LOAD_BASE, SO_SLOT_SIZE, INTERP_LOAD_BASE,
          DlBase,        \* mmap_next of the program, where dlopen loads
          Executables,   \* programs exec is given
          LibNames,      \* names of files in /lib
          LibDirs,       \* what /lib may hold: name -> file, Missing or corrupt
          Symbols,       \* names of symbols
          MaxModules,    \* bound: modules exec loads
          MaxOpened,     \* bound: slots dlopen takes
          FreeFrames     \* frames the allocator may have left

ASSUME LoaderAssumption ==
    /\ PageWords \in Nat \ {0} /\ SO_SLOT_SIZE \in Nat \ {0}
    /\ {EXEC_LOAD_BASE, SO_LOAD_BASE, INTERP_LOAD_BASE, DlBase} \subseteq Nat
    /\ MaxModules \in Nat /\ MaxOpened \in Nat /\ FreeFrames \subseteq Nat

NoInterp == "none"
\* A name in a list of needed libraries, with or without a directory.
Entries == [dir: BOOLEAN, base: LibNames]

\* Every library a file names is a name in /lib, where it may be missing; the
\* name the linker gives the program itself is none of them.
ASSUME FilesAssumption ==
    /\ {"(exec)", NoInterp} \cap LibNames = {}
    /\ \A x \in Executables : x.interp \in LibNames \cup {NoInterp} /\ x.needed \in Seq(Entries)
    /\ \A d \in LibDirs, n \in LibNames :
          d[n].here /\ d[n].elf => d[n].needed \in Seq(Entries)

VARIABLES exe,        \* the program
          lib,        \* name -> the file in /lib
          step,       \* where exec_replace is
          libs,       \* DynLinker.libs: sequence of [name, load_base, file]
          pending,    \* the calls of load_deps in progress: stack of lists
          next_slot,  \* DynLinker.next_slot
          mem,        \* address -> word, for every mapped page
          frames,     \* frames left
          failed,     \* relocations whose target is not mapped
          entry,      \* where the program starts
          aux,        \* AT_ENTRY, AT_PHDR and AT_BASE on its stack; Unset before
          opened,     \* modules dlopen loaded
          dl_slots    \* slots of the mmap area dlopen took

loaderVars == <<exe, lib, step, libs, pending, next_slot, mem, frames, failed, entry, aux,
                opened, dl_slots>>

Missing == [here |-> FALSE, elf |-> FALSE]
Unset == [at_entry |-> 0, at_phdr |-> 0, at_base |-> 0]
LoaderSteps == {"exec", "interp", "deps", "resolve", "ready", "panicked"}

PageOf(va) == va - (va % PageWords)
PageStarts(lo, hi) == {p \in lo .. hi : p % PageWords = 0 /\ p < hi}
\* The pages of a segment loaded at `base`.
SegPages(base, s) == PageStarts(PageOf(base + s.vaddr), base + s.vaddr + s.memsz)
WordsOf(p) == p .. (p + PageWords - 1)
Overlay(m, f) == [va \in DOMAIN m \cup DOMAIN f |-> IF va \in DOMAIN f THEN f[va] ELSE m[va]]

----------------------------------------------------------------------------
(* Segments.                                                                *)

\* A page of a shared object: zeros, and the part of the file that falls in it.
SoPage(file, base, s, p) ==
    [va \in WordsOf(p) |->
        IF va \in (base + s.vaddr) .. (base + s.vaddr + s.filesz - 1)
        THEN file.words[s.offset + (va - (base + s.vaddr)) + 1] ELSE 0]

\* A page of a static program.  The file position counts from the start of the
\* page, not of the segment, and what does not fit the frame lands outside it.
StaticPage(file, s, p) ==
    LET page_off == p - PageOf(s.vaddr)
        dst_off == IF p < s.vaddr THEN s.vaddr - p ELSE 0
        n == IF page_off + PageWords <= s.filesz THEN PageWords
             ELSE IF page_off < s.filesz THEN s.filesz - page_off ELSE 0
    IN [va \in WordsOf(p) |->
           IF va - p \in dst_off .. (dst_off + n - 1)
           THEN file.words[s.offset + page_off + (va - p - dst_off) + 1] ELSE 0]

\* Every page is a new frame, so a page two segments share keeps the later one.
MapSegments(m, file, pages(_), page(_, _)) ==
    FoldLeft(LAMBDA acc, s :
                 Overlay(acc, [va \in UNION {WordsOf(p) : p \in pages(s)} |->
                                  page(s, PageOf(va))[va]]),
             m, file.segs)
FramesNeeded(file, pages(_)) ==
    FoldLeft(LAMBDA acc, s : acc + Cardinality(pages(s)), 0, file.segs)

\* load_so_at, and the panic of its expect() when the frames run out.
load_so_at(file, base) ==
    LET pages(s) == SegPages(base, s)
        page(s, p) == SoPage(file, base, s, p)
    IN /\ FramesNeeded(file, pages) <= frames
       /\ frames' = frames - FramesNeeded(file, pages)
       /\ mem' = MapSegments(mem, file, pages, page)
NoFrames(file, base) ==
    LET pages(s) == SegPages(base, s)
    IN /\ FramesNeeded(file, pages) > frames
       /\ step' = "panicked"
       /\ UNCHANGED <<exe, lib, libs, pending, next_slot, mem, frames, failed, entry, aux, opened, dl_slots>>

----------------------------------------------------------------------------
(* The modules.                                                             *)

needs_dynlink(file) == file.interp # NoInterp
ExecBase == IF exe.dyn THEN EXEC_LOAD_BASE ELSE 0
Module(name, base, file) == [name |-> name, load_base |-> base, file |-> file]
SharedObject(n) == lib[n].here /\ lib[n].elf

\* Where the program headers are in memory.  A PIE is taken to have its first
\* segment at file position 0 and address 0; else the segment is looked up.
PhdrVa ==
    LET holds == {i \in DOMAIN exe.segs :
                     exe.phoff \in exe.segs[i].offset .. (exe.segs[i].offset + exe.segs[i].filesz - 1)}
    IN CASE exe.dyn -> EXEC_LOAD_BASE + exe.phoff
         [] ~exe.dyn /\ holds # {} ->
              exe.segs[Min(holds)].vaddr + exe.phoff - exe.segs[Min(holds)].offset
         [] OTHER -> exe.phoff

\* load_elf_into_space
load_elf_into_space ==
    /\ step = "exec" /\ ~needs_dynlink(exe)
    /\ LET pages(s) == SegPages(0, s)
           page(s, p) == StaticPage(exe, s, p)
       IN \/ /\ FramesNeeded(exe, pages) <= frames
             /\ frames' = frames - FramesNeeded(exe, pages)
             /\ mem' = MapSegments(mem, exe, pages, page)
             /\ entry' = exe.entry /\ step' = "ready"
             /\ UNCHANGED <<exe, lib, libs, pending, next_slot, failed, aux, opened, dl_slots>>
          \/ NoFrames(exe, 0)

\* load_exec: the program itself.
load_exec ==
    /\ step = "exec" /\ needs_dynlink(exe)
    /\ \/ /\ load_so_at(exe, ExecBase)
          /\ libs' = <<Module("(exec)", ExecBase, exe)>>
          /\ entry' = ExecBase + exe.entry
          /\ aux' = [at_entry |-> ExecBase + exe.entry, at_phdr |-> PhdrVa, at_base |-> ExecBase]
          /\ step' = "interp"
          /\ UNCHANGED <<exe, lib, pending, next_slot, failed, opened, dl_slots>>
       \/ NoFrames(exe, ExecBase)

\* load_exec: PT_INTERP.  A missing interpreter is passed over; one that is not
\* an ELF file ends load_exec, and exec_replace falls back to EXEC_LOAD_BASE
\* with no library loaded.
load_interp ==
    /\ step = "interp"
    /\ LET n == exe.interp
       IN \/ /\ SharedObject(n) /\ load_so_at(lib[n], INTERP_LOAD_BASE)
             /\ libs' = Append(libs, Module(n, INTERP_LOAD_BASE, lib[n]))
             /\ entry' = INTERP_LOAD_BASE + lib[n].entry
             /\ aux' = [aux EXCEPT !.at_base = INTERP_LOAD_BASE]
             /\ pending' = <<exe.needed>> /\ step' = "deps"
             /\ UNCHANGED <<exe, lib, next_slot, failed, opened, dl_slots>>
          \/ SharedObject(n) /\ NoFrames(lib[n], INTERP_LOAD_BASE)
          \/ /\ ~lib[n].here
             /\ pending' = <<exe.needed>> /\ step' = "deps"
             /\ UNCHANGED <<exe, lib, libs, next_slot, mem, frames, failed, entry, aux, opened, dl_slots>>
          \/ /\ lib[n].here /\ ~lib[n].elf
             /\ entry' = EXEC_LOAD_BASE /\ step' = "resolve"
             /\ UNCHANGED <<exe, lib, libs, pending, next_slot, mem, frames, failed, aux, opened, dl_slots>>

\* A plausible bug: nothing counts as loaded.
AlreadyLoaded_Never(d) == FALSE

\* The test of load_deps compares the whole name with the names of the loaded
\* modules, which have no directory.
AlreadyLoaded(d) == ~d.dir /\ \E i \in DOMAIN libs : libs[i].name = d.base

\* load_deps returns to its caller, or to load_exec.
load_deps_return ==
    /\ step = "deps" /\ pending # << >> /\ Head(pending) = << >>
    /\ pending' = Tail(pending)
    /\ step' = IF Len(pending) = 1 THEN "resolve" ELSE "deps"
    /\ UNCHANGED <<exe, lib, libs, next_slot, mem, frames, failed, entry, aux, opened, dl_slots>>

SlotAfter(slot) == slot + SO_SLOT_SIZE

\* One name of the list: skipped, missing, or loaded into the next slot, with
\* its own list first.  A file that is not ELF uses up its slot.
load_deps ==
    /\ step = "deps" /\ pending # << >> /\ Head(pending) # << >>
    /\ LET d == Head(Head(pending))
           rest == <<Tail(Head(pending))>> \o Tail(pending)
           skip == AlreadyLoaded(d) \/ ~lib[d.base].here
           file == lib[d.base]
       IN \/ /\ skip \/ ~file.elf
             /\ next_slot' = IF skip THEN next_slot ELSE SlotAfter(next_slot)
             /\ pending' = rest
             /\ UNCHANGED <<exe, lib, step, libs, mem, frames, failed, entry, aux, opened, dl_slots>>
          \/ /\ ~skip /\ SharedObject(d.base) /\ Len(libs) < MaxModules
             /\ load_so_at(file, next_slot)
             /\ libs' = Append(libs, Module(d.base, next_slot, file))
             /\ next_slot' = SlotAfter(next_slot)
             /\ pending' = <<file.needed>> \o rest
             /\ UNCHANGED <<exe, lib, step, failed, entry, aux, opened, dl_slots>>
          \/ ~skip /\ SharedObject(d.base) /\ NoFrames(file, next_slot)

----------------------------------------------------------------------------
(* Symbols and relocations.                                                 *)

\* add_lib puts in the defined symbols of a module whose value is not 0.
Defines(m, name) ==
    {j \in DOMAIN m.file.syms : /\ m.file.syms[j].name = name
                                /\ m.file.syms[j].defined /\ m.file.syms[j].value # 0}

\* A plausible bug: modules loaded later are not in the map.
lookup_symbol_FirstOnly(name) ==
    LET m == libs[1]
    IN IF Defines(m, name) = {} THEN 0
       ELSE m.load_base + m.file.syms[Min(Defines(m, name))].value

\* SymbolMap after add_lib of every module: the first definition in load order.
lookup_symbol(name) ==
    LET who == {i \in DOMAIN libs : Defines(libs[i], name) # {}}
    IN IF who = {} THEN 0
       ELSE LET m == libs[Min(who)]
            IN m.load_base + m.file.syms[Min(Defines(m, name))].value

\* A module's own definition first, then the map.
resolve_sym_inner(m, sym) ==
    IF sym \notin DOMAIN m.file.syms THEN 0
    ELSE IF m.file.syms[sym].defined THEN m.load_base + m.file.syms[sym].value
    ELSE lookup_symbol(m.file.syms[sym].name)

\* One relocation applied to memory.  A COPY of a symbol the program itself
\* defines resolves to the program's own copy.
Relocate(m, w, r) ==
    LET target == m.load_base + r.offset
        sym == resolve_sym_inner(m, r.sym)
        put(x) == [w EXCEPT ![target] = x]
    IN IF target \notin DOMAIN w THEN w
       ELSE CASE r.type = "RELATIVE" -> put(m.load_base + r.addend)
              [] r.type = "64" -> put(sym + r.addend)
              [] r.type \in {"GLOB_DAT", "JUMP_SLOT"} -> put(sym)
              [] r.type = "COPY" ->
                   IF sym = 0 \/ r.sym \notin DOMAIN m.file.syms THEN w
                   ELSE IF m.file.syms[r.sym].size = 0 \/ sym \notin DOMAIN w THEN w
                   ELSE put(w[sym])
              [] OTHER -> w

\* resolve_all: apply_rela_with_map for every module in load order.
apply_rela_impl(w, m) == FoldLeft(LAMBDA acc, r : Relocate(m, acc, r), w, m.file.relas)
Unmapped(m) == {j \in DOMAIN m.file.relas :
                   m.load_base + m.file.relas[j].offset \notin DOMAIN mem}

resolve_all ==
    /\ step = "resolve"
    /\ mem' = FoldLeft(apply_rela_impl, mem, libs)
    /\ failed' = FoldLeft(LAMBDA acc, m : acc + Cardinality(Unmapped(m)), 0, libs)
    /\ step' = "ready"
    /\ UNCHANGED <<exe, lib, libs, pending, next_slot, frames, entry, aux, opened, dl_slots>>

\* alloc_mmap_vaddr of a slot, the n-th that dlopen takes.
DlNext(n) == DlBase + n * SO_SLOT_SIZE

\* dlopen in the running program: a slot of the mmap area, no relocation.  A
\* file that is not ELF uses up its slot.
sys_dlopen(n) ==
    /\ step = "ready" /\ lib[n].here /\ dl_slots < MaxOpened
    /\ LET base == DlNext(dl_slots)
       IN \/ /\ lib[n].elf /\ load_so_at(lib[n], base)
             /\ opened' = Append(opened, Module(n, base, lib[n])) /\ dl_slots' = dl_slots + 1
             /\ UNCHANGED <<exe, lib, step, libs, pending, next_slot, failed, entry, aux>>
          \/ lib[n].elf /\ NoFrames(lib[n], base)
          \/ /\ ~lib[n].elf /\ dl_slots' = dl_slots + 1
             /\ UNCHANGED <<exe, lib, step, libs, pending, next_slot, mem, frames, failed,
                            entry, aux, opened>>

----------------------------------------------------------------------------
LoaderInit ==
    /\ exe \in Executables
    /\ lib \in LibDirs
    /\ step = "exec" /\ libs = << >> /\ pending = << >> /\ opened = << >> /\ dl_slots = 0
    /\ next_slot = SO_LOAD_BASE /\ mem = << >> /\ frames \in FreeFrames
    /\ failed = 0 /\ entry = 0 /\ aux = Unset

ExecSteps == load_elf_into_space \/ load_exec \/ load_interp
             \/ load_deps \/ load_deps_return \/ resolve_all
LoaderNext == ExecSteps \/ \E n \in LibNames : sys_dlopen(n)

LoaderSpec == LoaderInit /\ [][LoaderNext]_loaderVars /\ WF_loaderVars(ExecSteps)

----------------------------------------------------------------------------
(* Properties.                                                              *)

Modules == libs \o opened
Extent(m) == UNION {SegPages(m.load_base, m.file.segs[i]) : i \in DOMAIN m.file.segs}
RelocTargets(m) == {m.load_base + m.file.relas[j].offset : j \in DOMAIN m.file.relas}
Relocated == UNION {RelocTargets(libs[i]) : i \in DOMAIN libs}
Imports(m, name) ==
    {j \in DOMAIN m.file.relas :
        /\ m.file.relas[j].type \in {"GLOB_DAT", "JUMP_SLOT"}
        /\ m.file.syms[m.file.relas[j].sym].name = name
        /\ ~m.file.syms[m.file.relas[j].sym].defined}
Holds(va, w) == va \in DOMAIN mem /\ mem[va] = w
\* The file bytes of every segment are where the segment says.
Intact(file, base) ==
    \A i \in DOMAIN file.segs : \A k \in 0 .. file.segs[i].filesz - 1 :
        LET va == base + file.segs[i].vaddr + k
        IN va \in Relocated \/ Holds(va, file.words[file.segs[i].offset + k + 1])
PageAligned(file) == \A i \in DOMAIN file.segs : file.segs[i].vaddr % PageWords = 0

LoaderTypeOK ==
    /\ step \in LoaderSteps /\ frames \in Nat
    /\ DOMAIN mem \subseteq Nat /\ \A va \in DOMAIN mem : mem[va] \in Nat
    /\ Len(libs) <= MaxModules /\ Len(opened) <= dl_slots /\ dl_slots <= MaxOpened
    /\ \A va \in DOMAIN mem : WordsOf(PageOf(va)) \subseteq DOMAIN mem

(* Modules lie apart: no page of the program, the interpreter, a library or  *)
(* a module opened later holds another module's bytes.                       *)
ModulesApart ==
    \A i, j \in DOMAIN Modules : i < j => Extent(Modules[i]) \cap Extent(Modules[j]) = {}

\* The list of the library that d names is followed: not that of the
\* interpreter, which is loaded before the lists, unless a directory in front
\* of its name has it loaded again.
Followed(d) == SharedObject(d.base) /\ (d.dir \/ d.base # exe.interp)
Closed(S) == \A d \in S : Followed(d) => Range(lib[d.base].needed) \subseteq S
\* What the lists reach from the program's own.
Reached == {d \in Entries : \A S \in SUBSET Entries :
                              Range(exe.needed) \subseteq S /\ Closed(S) => d \in S}

(* When the lists of needed libraries are done, every library they reach and *)
(* /lib has is loaded, none that they do not reach, and each once: cycles    *)
(* and diamonds end.  Only a name with a directory loads a second copy, and  *)
(* only that makes the linker follow the interpreter's own list.             *)
LoadsTheClosure ==
    LET copies(n) == Cardinality({i \in DOMAIN libs : libs[i].name = n})
        whole == step \in {"resolve", "ready"} /\ needs_dynlink(exe)
                   /\ (lib[exe.interp].here => lib[exe.interp].elf)
    IN whole =>
          LET wanted == Reached IN
          \A n \in LibNames :
             /\ SharedObject(n) /\ (\E d \in wanted : d.base = n) => copies(n) >= 1
             /\ copies(n) >= 1 => n = exe.interp \/ \E d \in wanted : d.base = n
             /\ copies(n) > 1 => [dir |-> TRUE, base |-> n] \in wanted

(* Once relocated, every module that imports a symbol sees one and the same  *)
(* address, it is that of a definition in a loaded module, and it is null    *)
(* only when no loaded module defines the symbol.                            *)
ImportsAgree ==
    step = "ready" => \A name \in Symbols :
        LET got == UNION {{mem[libs[i].load_base + libs[i].file.relas[j].offset] :
                              j \in Imports(libs[i], name)} : i \in DOMAIN libs}
            defs == UNION {{libs[i].load_base + libs[i].file.syms[j].value :
                              j \in Defines(libs[i], name)} : i \in DOMAIN libs}
        IN /\ Cardinality(got) <= 1
           /\ got \subseteq (IF defs = {} THEN {0} ELSE defs)

(* The file's bytes arrive: but for relocated words, every module has them   *)
(* where its segments put them, across page boundaries and unaligned starts. *)
(* A static program has them when its segments start on page boundaries.     *)
ImageIntact ==
    step = "ready" =>
        /\ \A i \in DOMAIN libs : Intact(libs[i].file, libs[i].load_base)
        /\ \A i \in DOMAIN opened : Intact(opened[i].file, opened[i].load_base)
        /\ ~needs_dynlink(exe) /\ PageAligned(exe) => Intact(exe, 0)

(* What the comment in load_elf_into_space promises of every static program, *)
(* unaligned segments included.                                              *)
StaticImageIntact == step = "ready" /\ ~needs_dynlink(exe) => Intact(exe, 0)

(* The program starts at the entry word of its interpreter, or at its own    *)
(* when there is none, and the interpreter finds the program's entry and     *)
(* its program headers where the stack says.  Exempt is an interpreter that  *)
(* is not an ELF file.                                                       *)
StartsAtTheEntry ==
    LET atEntry(file) == Holds(entry, file.words[file.entryOff + 1])
    IN step = "ready" =>
        \/ ~needs_dynlink(exe) /\ (PageAligned(exe) => atEntry(exe))
        \/ needs_dynlink(exe) /\ lib[exe.interp].here /\ ~lib[exe.interp].elf
        \/ /\ needs_dynlink(exe)
           /\ atEntry(IF SharedObject(exe.interp) THEN lib[exe.interp] ELSE exe)
           /\ Holds(aux.at_entry, exe.words[exe.entryOff + 1])
           /\ Holds(aux.at_phdr, exe.words[exe.phoff + 1])
           /\ SharedObject(exe.interp) => aux.at_base = libs[2].load_base

(* What starts is the program that the files describe: modules apart, each   *)
(* with its file's bytes, bound to each other and entered where they say.    *)
LinkedImage == ModulesApart /\ ImageIntact /\ ImportsAgree /\ StartsAtTheEntry
=============================================================================
