------------------------------ MODULE MCMemory -------------------------------
(***************************************************************************)
(* What hands out and fills memory: the frame allocator, the policy engine *)
(* that opens and reclaims channel frames, the memory of user programs and *)
(* the loading of a program with its libraries.  `focus` is chosen in the  *)
(* initial state; every step belongs to the part in focus, so the four     *)
(* state spaces add up.                                                    *)
(***************************************************************************)
EXTENDS FrameAllocator, ChannelPolicy, Memory, MCLoader

CONSTANTS thread, isr

VARIABLE focus

\* Two pairs of processes that share their sender.
FanOut == {<<1, 2>>, <<1, 3>>}

memoryVars == <<vars, policyVars, memVars, loaderVars, focus>>

MemoryInit ==
    /\ Init /\ PolicyInit /\ MemInit /\ LoaderInit
    /\ focus \in {"frames", "policy", "programs", "loader"}
    /\ focus # "loader" =>
          exe = CopyExec /\ lib = [n \in LibNames |-> Missing] /\ frames = Max(FreeFrames)

MemoryNext ==
    /\ UNCHANGED focus
    /\ \/ focus = "frames" /\ Next /\ UNCHANGED <<policyVars, memVars, loaderVars>>
       \/ focus = "policy" /\ PolicyNext /\ UNCHANGED <<vars, memVars, loaderVars>>
       \/ focus = "programs" /\ MemNext /\ UNCHANGED <<vars, policyVars, loaderVars>>
       \/ focus = "loader" /\ LoaderNext /\ UNCHANGED <<vars, policyVars, memVars>>

MemorySpec == MemoryInit /\ [][MemoryNext]_memoryVars

\* The state of the four parts keeps its shape.
MemoryTypeOK == TypeOK /\ PolicyTypeOK /\ MemTypeOK /\ LoaderTypeOK
=============================================================================
