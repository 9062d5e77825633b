--------------------------- MODULE ConnectionPool ---------------------------
(***************************************************************************)
(* What a pool of connections promises: it has at most Capacity of them,   *)
(* and each is either free or lent to one user, who alone may use it until *)
(* it is given back or discarded.                                          *)
(***************************************************************************)
EXTENDS Integers, FiniteSets

CONSTANTS Users, Connections, Capacity, None

VARIABLES
  free,       \* connections in the pool
  lent        \* the connection each user has, or None

vars == <<free, lent>>

Lent == {lent[u] : u \in Users} \ {None}

Init == free = {} /\ lent = [u \in Users |-> None]

Create ==
  /\ Cardinality(free \cup Lent) < Capacity
  /\ \E c \in Connections \ (free \cup Lent) : free' = free \cup {c}
  /\ UNCHANGED lent

Lend(u) ==
  /\ lent[u] = None
  /\ \E c \in free : /\ lent' = [lent EXCEPT ![u] = c]
                     /\ free' = free \ {c}

GiveBack(u) ==
  /\ lent[u] # None
  /\ free' = free \cup {lent[u]}
  /\ lent' = [lent EXCEPT ![u] = None]

\* The user found the connection broken: it is closed.
Discard(u) ==
  /\ lent[u] # None
  /\ lent' = [lent EXCEPT ![u] = None]
  /\ UNCHANGED free

\* The pool closes some of the connections nobody uses.
Close == free' \in SUBSET free /\ UNCHANGED lent

Next ==
  \/ Create \/ Close
  \/ \E u \in Users : Lend(u) \/ GiveBack(u) \/ Discard(u)

Spec == Init /\ [][Next]_vars

=============================================================================
