--------------------------------- MODULE Wire ---------------------------------
(***************************************************************************)
(* From the bytes of a connection to the handler of a request: SQLServer    *)
(* (src/server/SQLServer.cpp), getHandler of SQLService, and the way the    *)
(* client (src/client/main.cpp) sends.                                      *)
(*                                                                          *)
(* A request is a text followed by a NUL byte.  onMessage takes all bytes   *)
(* that have arrived for one text.  The parser stops at a NUL as at the end *)
(* of its input, so what follows the first request is thrown away, and what *)
(* begins with a NUL, or in the middle of a text, or ends there, is no      *)
(* text at all: the parser throws, nobody catches, the process ends.        *)
(*                                                                          *)
(* A stream of bytes is a counter.  Each request is Parts = 3 of them: two  *)
(* halves of its text and the NUL, so position p of a stream is the start   *)
(* of a request if p % Parts = 0, inside its text if 1, before its NUL if 2.*)
(***************************************************************************)
EXTENDS Integers, Sequences, FiniteSets, Functions

CONSTANTS
  Client,   \* connections accepted one after the other; none is used twice
  Loop,     \* the event loops of setThreadNum
  LoopOf,   \* the loop a connection was given
  Asks,     \* the requests of each client, as kinds, see Kind
  Patient,  \* clients that wait for an answer before they send again
  Whole     \* clients whose requests the network never breaks in parts

(***************************************************************************)
(* A request whose msgid has a handler, one whose msgid has none, and one   *)
(* that lacks what is read of it: the msgid (as what the menus of the       *)
(* client send to log out does), or a field its handler begins with (as the *)
(* registrations do, whose "name" the server calls "StudentName").          *)
(***************************************************************************)
Kind == {"known", "unknown", "unreadable"}

ASSUME WireAssumption ==
  /\ LoopOf \in [Client -> Loop]
  /\ Asks \in [Client -> Seq(Kind)]
  /\ Patient \subseteq Client
  /\ Whole \subseteq Client

VARIABLES
  link,      \* each connection, see LinkState
  sent,      \* how many requests each client has sent
  read,      \* the position each stream has been read to
  taken,     \* the requests that reached their handler
  answered,  \* those that were answered
  hasty,     \* those that were sent before the one before was answered
  task,      \* the client and the request each loop is at
  up         \* is the server process running?

vars == <<link, sent, read, taken, answered, hasty, task, up>>

\* A client that has "left" has closed; what it sent before can still be read.
LinkState == {"new", "open", "left", "gone"}

Parts == 3
Idle == <<>>

Init ==
  /\ link = [c \in Client |-> "new"]
  /\ sent = [c \in Client |-> 0]
  /\ read = [c \in Client |-> 0]
  /\ taken = [c \in Client |-> <<>>]
  /\ answered = [c \in Client |-> {}]
  /\ hasty = [c \in Client |-> {}]
  /\ task = [l \in Loop |-> Idle]
  /\ up = TRUE

-----------------------------------------------------------------------------
(* Clients.  A definition whose name ends in an underscore is a mutant of   *)
(* the one that follows it.                                                 *)

Connect(c) ==
  /\ up
  /\ link[c] = "new"
  /\ link' = [link EXCEPT ![c] = "open"]
  /\ UNCHANGED <<sent, read, taken, answered, hasty, task, up>>

(***************************************************************************)
(* send.  At its first menu the client waits for the answer (sem_wait); at  *)
(* the menus of students, teachers and administrators it goes on at once.   *)
(***************************************************************************)
HasAnswer(c) == sent[c] \in answered[c] \cup {0}

Send(c) ==
  /\ link[c] = "open"
  /\ sent[c] < Len(Asks[c])
  /\ c \in Patient => HasAnswer(c)
  /\ sent' = [sent EXCEPT ![c] = @ + 1]
  /\ hasty' = [hasty EXCEPT ![c] = IF HasAnswer(c) THEN @ ELSE @ \cup {sent[c] + 1}]
  /\ UNCHANGED <<link, read, taken, answered, task, up>>

Disconnect(c) ==
  /\ link[c] = "open"
  /\ link' = [link EXCEPT ![c] = "left"]
  /\ UNCHANGED <<sent, read, taken, answered, hasty, task, up>>

-----------------------------------------------------------------------------
(* The server. *)

\* The bytes up to position k have arrived where the loop of c can read them.
Arrived(c, k) ==
  /\ k \in (read[c] + 1)..(Parts * sent[c])
  /\ c \in Whole => k % Parts = 0

Readable(c) == link[c] \in {"open", "left"} /\ task[LoopOf[c]] = Idle

\* retrieveAllAsString (two mutants).
Retrieved_(c, k) == read
Retrieved__(c, k) == [read EXCEPT ![c] = k + 1]
Retrieved(c, k) == [read EXCEPT ![c] = k]

\* json::parse finds a text: it begins at its beginning, and is there.
Parses_(from, k) == k >= from + 2
Parses(from, k) == from % Parts = 0 /\ k >= from + 2

\* The request whose text begins at the position c is read to.
NextRequest(c) == (read[c] \div Parts) + 1
KindOfNext(c) == Asks[c][NextRequest(c)]

\* getHandler: an unknown msgid is given a handler that only logs.
HasHandler_(kind) == FALSE
HasHandler(kind) == kind = "known"

(***************************************************************************)
(* onMessage finds a request and calls its handler, which keeps the loop    *)
(* busy.  Requests that arrived behind it are gone with the buffer.         *)
(***************************************************************************)
Dispatch(c) ==
  /\ Readable(c)
  /\ \E k \in (read[c] + 1)..(Parts * sent[c]) :
       /\ Arrived(c, k)
       /\ Parses(read[c], k)
       /\ read' = Retrieved(c, k)
  /\ KindOfNext(c) # "unreadable"
  /\ taken' = [taken EXCEPT ![c] = Append(@, NextRequest(c))]
  /\ task' = [task EXCEPT ![LoopOf[c]] =
                IF HasHandler(KindOfNext(c)) THEN <<c, NextRequest(c)>> ELSE Idle]
  /\ UNCHANGED <<link, sent, answered, hasty, up>>

\* However the process ends, every connection and every handler ends with it.
EndProcess ==
  /\ up' = FALSE
  /\ link' = [c \in Client |-> IF link[c] = "new" THEN "new" ELSE "gone"]
  /\ task' = [l \in Loop |-> Idle]
  /\ UNCHANGED read

(***************************************************************************)
(* SIGINT: resetHandler frees the accounts (see Sessions) and calls exit.   *)
(***************************************************************************)
Exit ==
  /\ up
  /\ EndProcess
  /\ UNCHANGED <<sent, taken, answered, hasty>>

\* What the code does about an exception, and a catch that ignores the text.
Uncaught_(c, k) == read' = Retrieved(c, k) /\ UNCHANGED <<up, link, task>>
Uncaught(c, k) == EndProcess

(***************************************************************************)
(* onMessage throws: json::parse finds no text, or what js["msgid"] or a    *)
(* field at the head of the handler gives is null and cannot be converted.  *)
(***************************************************************************)
Fails(c, k) == ~Parses(read[c], k) \/ KindOfNext(c) = "unreadable"

Throw(c) ==
  /\ Readable(c)
  /\ \E k \in (read[c] + 1)..(Parts * sent[c]) :
       /\ Arrived(c, k)
       /\ Fails(c, k)
       /\ Uncaught(c, k)
  /\ UNCHANGED <<sent, taken, answered, hasty>>

\* The handler has sent its answer; a client that has closed does not get it.
Answer(l) ==
  /\ task[l] # Idle
  /\ answered' = [answered EXCEPT ![task[l][1]] =
                    IF link[task[l][1]] = "open" THEN @ \cup {task[l][2]} ELSE @]
  /\ task' = [task EXCEPT ![l] = Idle]
  /\ UNCHANGED <<link, sent, read, taken, hasty, up>>

(***************************************************************************)
(* The handler throws before it has sent its answer, whatever it was asked: *)
(* response.dump() of a column that is no UTF-8 (the tables are read in gbk)*)
(* is one case.  Nobody catches here either.                                *)
(***************************************************************************)
HandlerThrows(l) ==
  /\ task[l] # Idle
  /\ EndProcess
  /\ UNCHANGED <<sent, taken, answered, hasty>>

(***************************************************************************)
(* onConnection of a connection that is closed; its shutdown does nothing   *)
(* any more.  If the client reset it, unread bytes are lost.                *)
(***************************************************************************)
Close(c) ==
  /\ link[c] = "left"
  /\ link' = [link EXCEPT ![c] = "gone"]
  /\ UNCHANGED <<sent, read, taken, answered, hasty, task, up>>

Restart ==
  /\ ~up
  /\ up' = TRUE
  /\ UNCHANGED <<link, sent, read, taken, answered, hasty, task>>

-----------------------------------------------------------------------------
Next ==
  \/ \E c \in Client : \/ Connect(c) \/ Send(c) \/ Disconnect(c)
                       \/ Dispatch(c) \/ Throw(c) \/ Close(c)
  \/ \E l \in Loop : Answer(l) \/ HandlerThrows(l)
  \/ Exit
  \/ Restart

Spec == Init /\ [][Next]_vars

(***************************************************************************)
(* Fairness.  The network delivers, and a loop reads every connection that  *)
(* has something to read before it polls again; it can do so only between   *)
(* handlers, hence strong fairness.  A handler comes to its end (Answered   *)
(* of Records) or throws.  Nothing is assumed of clients, nor of who        *)
(* interrupts the server or starts it again.                                *)
(***************************************************************************)
FairSpec ==
  /\ Spec
  /\ \A c \in Client : SF_vars(Dispatch(c) \/ Throw(c))
  /\ \A l \in Loop : WF_vars(Answer(l) \/ HandlerThrows(l))

-----------------------------------------------------------------------------
(* Properties. *)

\* Every variable keeps its type; nothing is read that was not sent.
TypeOK ==
  /\ link \in [Client -> LinkState]
  /\ sent \in [Client -> Nat]
  /\ read \in [Client -> Nat]
  /\ \A c \in Client : sent[c] <= Len(Asks[c]) /\ read[c] <= Parts * sent[c]
  /\ taken \in [Client -> Seq(Nat)]
  /\ answered \in [Client -> SUBSET Nat]
  /\ hasty \in [Client -> SUBSET Nat]
  /\ task \in [Loop -> (Client \X Nat) \cup {Idle}]
  /\ up \in BOOLEAN

(***************************************************************************)
(* As long as a connection lasts, a request of it is passed over only if it *)
(* was sent before the one before was answered, however the network breaks  *)
(* and joins what is sent: a text that arrives in parts is not quietly      *)
(* lost, since it ends the process and every connection.                    *)
(***************************************************************************)
Begun(c) == {i \in 1..sent[c] : Parts * (i - 1) < read[c]}

LostOnlyIfHasty ==
  \A c \in Client :
    link[c] # "gone" => Begun(c) \ Range(taken[c]) \subseteq hasty[c]

(***************************************************************************)
(* Why it holds.  What was taken has been read and what was answered has    *)
(* been taken, so a request whose predecessor is still unread is hasty.     *)
(***************************************************************************)
UnreadBehindUnread(c) == {i \in 2..sent[c] : Parts * (i - 2) >= read[c]}

InOrder ==
  \A c \in Client : /\ Range(taken[c]) \subseteq Begun(c)
                    /\ answered[c] \subseteq Range(taken[c])
                    /\ UnreadBehindUnread(c) \subseteq hasty[c]

TaskTaken ==
  \A l \in Loop : task[l] # Idle => task[l][2] \in Range(taken[task[l][1]])

WireInv == TypeOK /\ InOrder /\ TaskTaken /\ LostOnlyIfHasty

(***************************************************************************)
(* What a client sends makes onMessage throw only if that client is at      *)
(* fault: it has sent something nobody can read, or the network breaks its  *)
(* requests in parts.  Haste alone, requests that arrive joined and thrown  *)
(* away, and clients that close before their answers never lead to it,      *)
(* although what is thrown away is never parsed.                            *)
(***************************************************************************)
AtFault(c) ==
  \/ c \notin Whole
  \/ \E i \in 1..sent[c] : Asks[c][i] = "unreadable"

CanThrow(c) ==
  Readable(c) /\ \E k \in (read[c] + 1)..(Parts * sent[c]) : Arrived(c, k) /\ Fails(c, k)

ThrowsOnlyAtFault == \A c \in Client : CanThrow(c) => AtFault(c)

\* Why: what arrives whole is read up to the end of a request.
FaultInv == \A c \in Whole : read[c] % Parts = 0

\* The front end implements the mailbox.
Service == INSTANCE Mailbox
Implements == Service!Spec

(***************************************************************************)
(* A client that waits for its answers, and whose requests arrive whole,    *)
(* has every request with a handler answered unless it closes or the server *)
(* ends, whatever other clients of its loop send.                           *)
(***************************************************************************)
PatientServed ==
  \A c \in Patient \cap Whole : \A i \in DOMAIN Asks[c] :
    (link[c] = "open" /\ sent[c] = i /\ Asks[c][i] = "known")
       ~> (i \in answered[c] \/ link[c] # "open")
=============================================================================
