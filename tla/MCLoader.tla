------------------------------ MODULE MCLoader -------------------------------
(* Programs and libraries of five file words: a text segment of three at      *)
(* address 0 and a data segment of two that starts inside a page and crosses  *)
(* into the next, with one word of bss.                                       *)
EXTENDS Loader

FileWords(id) == [i \in 1 .. 5 |-> 1000 * id + i]
Segment(v, off, f, m) == [vaddr |-> v, offset |-> off, filesz |-> f, memsz |-> m]
Segs(v) == <<Segment(v, 0, 3, 3), Segment(v + 5, 3, 2, 3)>>
Plain(n) == [dir |-> FALSE, base |-> n]
InLib(n) == [dir |-> TRUE, base |-> n]
Rela(type, off, sym, add) == [type |-> type, offset |-> off, sym |-> sym, addend |-> add]

\* The symbol "s", its own or imported, at text word 1.
SymS(v, defined) == <<[name |-> "s", defined |-> defined, value |-> IF defined THEN v + 1 ELSE 0,
                       size |-> 1]>>
Relas(v) == <<Rela("RELATIVE", v + 5, 0, 2), Rela("JUMP_SLOT", v + 7, 1, 0)>>

File(id, v, needed, defined) ==
    [here |-> TRUE, elf |-> TRUE, words |-> FileWords(id), segs |-> Segs(v), needed |-> needed,
     syms |-> SymS(v, defined), relas |-> Relas(v), entry |-> v + 1, entryOff |-> 1]
Corrupt == [here |-> TRUE, elf |-> FALSE]

SoFiles == {File(1, 0, l, d) : l \in {<< >>, <<Plain("a")>>, <<Plain("ld"), Plain("b")>>},
                               d \in BOOLEAN}
Dirs == {d \in [{"a", "b", "ld"} -> SoFiles \cup {Corrupt, Missing}] :
            d["ld"] \in {Missing, Corrupt, File(1, 0, << >>, TRUE), File(1, 0, <<Plain("a")>>, FALSE)}}

ExecFile(dyn, interp, needed, syms, relas) ==
    LET v == IF dyn THEN 0 ELSE 2
    IN [here |-> TRUE, elf |-> TRUE, dyn |-> dyn, interp |-> interp, words |-> FileWords(2),
        segs |-> Segs(v), needed |-> needed, syms |-> syms, relas |-> relas,
        entry |-> v + 1, entryOff |-> 1, phoff |-> 0]
ExecLists == {<< >>, <<Plain("b")>>, <<Plain("a"), Plain("b")>>, <<Plain("b"), Plain("a")>>,
              <<Plain("a"), InLib("a")>>, <<InLib("ld"), Plain("b")>>}
DynamicExecs ==
    {ExecFile(dyn, "ld", l, SymS(IF dyn THEN 0 ELSE 2, d), Relas(IF dyn THEN 0 ELSE 2)) :
        dyn \in BOOLEAN, d \in BOOLEAN, l \in ExecLists}
\* A program that copies the library's "s" into its bss, and calls it.
CopyExec == ExecFile(TRUE, "ld", <<Plain("a")>>,
               <<[name |-> "s", defined |-> TRUE, value |-> 7, size |-> 1]>>,
               <<Rela("COPY", 7, 1, 0), Rela("64", 5, 1, 1), Rela("GLOB_DAT", 9, 1, 0),
                 Rela("other", 6, 1, 0)>>)
StaticExec(segs) ==
    [ExecFile(FALSE, NoInterp, << >>, << >>, << >>) EXCEPT !.segs = segs]
StaticExecs == {StaticExec(Segs(2)),
                StaticExec(<<Segment(2, 0, 3, 3), Segment(6, 3, 2, 3)>>)}
Programs_ == DynamicExecs \cup StaticExecs \cup {CopyExec}
=============================================================================
