------------------------------ MODULE WatchList ------------------------------
(***************************************************************************)
(* What epoll_ctl does, seen from outside: a set of watched descriptors    *)
(* with the entry last set for each, of at most Limit entries; an addition *)
(* past the limit changes nothing.                                         *)
(***************************************************************************)
EXTENDS FiniteSets, Integers

CONSTANTS WatchFds, Entries, Limit

VARIABLE watched   \* descriptor -> entry

Update(fd, e) == [f \in DOMAIN watched \cup {fd} |-> IF f = fd THEN e ELSE watched[f]]

Create == watched' = [f \in {} |-> 0]

Set(fd, e) ==
    /\ fd \in DOMAIN watched \/ Cardinality(DOMAIN watched) < Limit
    /\ watched' = Update(fd, e)

Remove(fd) == watched' = [f \in DOMAIN watched \ {fd} |-> watched[f]]

Next == Create \/ \E fd \in WatchFds : Remove(fd) \/ \E e \in Entries : Set(fd, e)

Spec == watched = [f \in {} |-> 0] /\ [][Next]_watched
=============================================================================
