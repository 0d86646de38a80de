----------------------------- MODULE MCPrograms ------------------------------
(***************************************************************************)
(* What user programs ask of the kernel: processes with their signals, and *)
(* files.  `focus` is chosen in the initial state and every step belongs   *)
(* to the part in focus, so the two state spaces add up.                   *)
(***************************************************************************)
EXTENDS UserProc, Files, TLC

VARIABLE focus

\* pthread_create of musl, and a handler for the end of a child.
Pthread == [vm |-> TRUE, thread |-> TRUE, tls |-> 2, childSettid |-> TRUE,
            childCleartid |-> TRUE]
Clones == {Pthread}
Catch == [handler |-> "fn", nodefer |-> FALSE, resethand |-> FALSE, mask |-> {}]
Handlers == {Catch}
SignalSets == {{17}}

\* Two names, paths of two components, one file in a directory of the image
\* and beside it an empty directory.
ShortPaths == {<<"a">>, <<"b">>, <<"a", "a">>, <<"b", "a">>}
OneFile == <<"a", "a">> :> <<1>>
LostFound == {<<"a", "b">>}

programVars == <<upVars, filesVars, focus>>

ProgramsInit == focus \in {"processes", "files"} /\ UPInit /\ FilesInit

ProgramsNext ==
    /\ UNCHANGED focus
    /\ \/ focus = "processes" /\ UPNext /\ UNCHANGED filesVars
       \/ focus = "files" /\ FilesNext /\ UNCHANGED upVars

ProgramsSpec == ProgramsInit /\ [][ProgramsNext]_programVars

\* The state of the two parts keeps its shape.
ProgramsTypeOK == UPTypeOK /\ FilesTypeOK
=============================================================================
