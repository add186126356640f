--------------------------- MODULE MCConnectivity ---------------------------
(* Small instances of Connectivity: terminals 1, 2 and 3 in one structure,   *)
(* terminal 4 on a device housed in a site; 1 and 3 are the front and the    *)
(* back of one DIO port.                                                     *)
EXTENDS Connectivity, TLC

CONSTANTS box, hut

MCLocationOf == [x \in Terminal |-> IF x = 4 THEN hut ELSE box]
MCAdapter == {{1, 3}}

create(x, y, s) ==
    [kind |-> "create", structure |-> s, conn |-> None,
     ops |-> <<[act |-> "create", a |-> x, b |-> y]>>]
deactivate(c) ==
    [kind |-> "deactivate", structure |-> None, conn |-> c,
     ops |-> <<[act |-> "deactivate", a |-> None, b |-> None]>>]
batch(ops) == [kind |-> "batch", structure |-> box, conn |-> None, ops |-> ops]
do(act, x, y) == [act |-> act, a |-> x, b |-> y]

Deactivations == {deactivate(c) : c \in ConnId}

(* Batches move a fusion, reserve, release and reconnect, undo themselves;   *)
(* the last two are refused (a port's front to its back, another location).  *)
Batches == {batch(<<do("disconnect", 1, 2), do("connect", 3, 2)>>),
            batch(<<do("reserve", 3, None), do("disconnect", 2, 1)>>),
            batch(<<do("release", 3, None), do("release", 3, None), do("connect", 2, 3)>>),
            batch(<<do("connect", 1, 2), do("disconnect", 1, 2), do("reserve", 2, None)>>),
            batch(<<do("reserve", 3, None)>>),
            batch(<<do("connect", 1, 3)>>),
            batch(<<do("reserve", 4, None)>>)}

CoreRequests == {create(1, 2, None), create(3, 2, box), create(3, 4, None)}
                \cup Deactivations \cup Batches

(* Single creations and deactivations, without batches. *)
LockRequests == {create(1, 2, None), create(3, 2, box)} \cup Deactivations

Symmetry == Permutations(Txn) \cup Permutations(ConnId)
=============================================================================
