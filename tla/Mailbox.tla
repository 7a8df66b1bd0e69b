------------------------------- MODULE Mailbox -------------------------------
(***************************************************************************)
(* What the network front end promises the clients of one server, without   *)
(* bytes, event loops or a process that can end: a client's requests are    *)
(* taken in the order in which they were sent, each at most once, only what *)
(* was taken is answered, and a request is passed over only if its client   *)
(* was hasty: sent it before it had the answer to the one before.           *)
(* Wire implements it (see Implements there).                               *)
(***************************************************************************)
EXTENDS Integers, Sequences, Functions

CONSTANT Client

VARIABLES
  sent,       \* how many requests each client has sent
  taken,      \* the requests that were taken, in that order
  answered,   \* those that were answered
  hasty       \* those that were sent before the one before was answered

mailVars == <<sent, taken, answered, hasty>>

Init ==
  /\ sent = [c \in Client |-> 0]
  /\ taken = [c \in Client |-> <<>>]
  /\ answered = [c \in Client |-> {}]
  /\ hasty = [c \in Client |-> {}]

Send(c) ==
  /\ sent' = [sent EXCEPT ![c] = @ + 1]
  /\ hasty' = [hasty EXCEPT ![c] =
                 IF sent[c] \in answered[c] \cup {0} THEN @ ELSE @ \cup {sent[c] + 1}]
  /\ UNCHANGED <<taken, answered>>

Take(c) ==
  /\ \E i \in 1..sent[c] :
       /\ \A j \in Range(taken[c]) : j < i
       /\ \A j \in 1..(i - 1) : j \in Range(taken[c]) \cup hasty[c]
       /\ taken' = [taken EXCEPT ![c] = Append(@, i)]
  /\ UNCHANGED <<sent, answered, hasty>>

Answer(c) ==
  /\ \E i \in Range(taken[c]) : answered' = [answered EXCEPT ![c] = @ \cup {i}]
  /\ UNCHANGED <<sent, taken, hasty>>

Next == \E c \in Client : Send(c) \/ Take(c) \/ Answer(c)

Spec == Init /\ [][Next]_mailVars
=============================================================================
