---------------------------- MODULE ResourcePool ----------------------------
(***************************************************************************)
(* What class ConnectionPool promises its callers, without queues, locks,   *)
(* counters or threads: a set of connections, each either idle or lent to   *)
(* exactly one holder, which grows only when nothing is idle and up to      *)
(* MaxSize, and which shrinks only by idle connections and down to          *)
(* InitSize.  ConnectionPool implements it (see Refines there).             *)
(***************************************************************************)
EXTENDS Integers, FiniteSets, Functions

CONSTANTS
  Conn,      \* the connections
  Holders,   \* who may hold a connection, one at a time
  NULL,      \* no connection
  InitSize,
  MaxSize

VARIABLES
  idle,    \* the connections nobody holds
  holds    \* the connection of each holder, or NULL

poolVars == <<idle, holds>>

Lent == Range(holds) \ {NULL}
Size == Cardinality(idle \cup Lent)

Init ==
  /\ idle \in SUBSET Conn
  /\ Cardinality(idle) = InitSize
  /\ holds = [h \in Holders |-> NULL]

Borrow(h) ==
  /\ holds[h] = NULL
  /\ \E c \in idle :
       /\ idle' = idle \ {c}
       /\ holds' = [holds EXCEPT ![h] = c]

Return(h) ==
  /\ holds[h] # NULL
  /\ idle' = idle \cup {holds[h]}
  /\ holds' = [holds EXCEPT ![h] = NULL]

Grow ==
  /\ idle = {}
  /\ Size < MaxSize
  /\ \E c \in Conn \ Lent : idle' = {c}
  /\ UNCHANGED holds

Shrink ==
  /\ Size > InitSize
  /\ \E c \in idle : idle' = idle \ {c}
  /\ UNCHANGED holds

Next ==
  \/ \E h \in Holders : Borrow(h) \/ Return(h)
  \/ Grow
  \/ Shrink

Spec == Init /\ [][Next]_poolVars
=============================================================================
