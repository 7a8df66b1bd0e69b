------------------------------- MODULE Accounts -------------------------------
(***************************************************************************)
(* What logging in promises for the accounts whose state is kept, without   *)
(* tables, maps, statements or handlers: who is let in is online from then  *)
(* on, the clients of one loop share no account, and an account that is     *)
(* online becomes free by a reset only: not when its client leaves, and not *)
(* when the server ends.  Sessions implements it as long as its statements  *)
(* succeed (see KeepsAccounts there).                                       *)
(***************************************************************************)
CONSTANTS
  Account,  \* accounts whose state is kept
  Client,   \* connections
  LoopOf    \* the event loop of each connection

VARIABLES
  online,    \* the accounts that are online
  using,     \* the accounts each client is logged in to
  resetting  \* has a reset begun?

accountVars == <<online, using, resetting>>

Init ==
  /\ online = {}
  /\ using = [c \in Client |-> {}]
  /\ resetting = FALSE

\* Nobody whom the loop of c serves is logged in to account a.
FreeFor(c, a) == \A d \in Client : LoopOf[d] = LoopOf[c] => a \notin using[d]

Occupy(a) ==
  /\ a \notin online
  /\ online' = online \cup {a}
  /\ UNCHANGED <<using, resetting>>

\* A reset that has begun may free the account before its client is told.
LetIn(c, a) ==
  /\ resetting \/ (a \in online /\ FreeFor(c, a))
  /\ using' = [using EXCEPT ![c] = @ \cup {a}]
  /\ UNCHANGED <<online, resetting>>

Leave(c) ==
  /\ using' = [using EXCEPT ![c] = {}]
  /\ UNCHANGED <<online, resetting>>

BeginReset ==
  /\ ~resetting
  /\ resetting' = TRUE
  /\ UNCHANGED <<online, using>>

Free ==
  /\ resetting
  /\ online' \in SUBSET online
  /\ UNCHANGED <<using, resetting>>

\* The server ends, after a reset or without one.
End ==
  /\ using' = [c \in Client |-> {}]
  /\ resetting' = FALSE
  /\ UNCHANGED online

Next ==
  \/ \E a \in Account : Occupy(a)
  \/ \E c \in Client : Leave(c) \/ \E a \in Account : LetIn(c, a)
  \/ BeginReset \/ Free \/ End

Spec == Init /\ [][Next]_accountVars
=============================================================================
