------------------------------ MODULE Sessions ------------------------------
(***************************************************************************)
(* Who is logged in: the login and registration handlers of SQLService      *)
(* (src/server/SQLService.cpp), the state column of the three account       *)
(* tables (src/server/model/), the maps from account to TcpConnection, and  *)
(* the life of the server process with its SIGINT handler                   *)
(* (src/server/main.cpp).                                                   *)
(*                                                                          *)
(* The server runs several event loops.  A connection belongs to one loop   *)
(* for its whole life and a loop runs one handler at a time, so handlers of *)
(* the same loop never overlap and handlers of different loops do.  A login *)
(* is a query, a test of what it returned, an insertion into a map and an   *)
(* UPDATE: nothing is held from one of them to the next.  The three login   *)
(* handlers differ only in their table.                                     *)
(***************************************************************************)
EXTENDS Integers, FiniteSets

CONSTANTS
  Account,   \* rows the three account tables can have, and Blank
  Blank,     \* the empty id with the empty password, once for each table
  RoleOf,    \* whose table an account is in
  Client,    \* connections accepted one after the other; none is used twice
  Loop,      \* the event loops of setThreadNum
  LoopOf,    \* the loop a connection was given
  NONE,      \* no connection
  DbFails,   \* may a statement fail, or getConnection return nullptr?
  Crashes    \* may the process end other than through SIGINT?

Role == {"student", "teacher", "admin"}

ASSUME SessionAssumption ==
  /\ Blank \subseteq Account
  /\ RoleOf \in [Account -> Role]
  /\ LoopOf \in [Client -> Loop]
  /\ NONE \notin Client
  /\ DbFails \in BOOLEAN
  /\ Crashes \in BOOLEAN

VARIABLES
  dbState,   \* the state column of each account, "absent" if it has no row
  connMap,   \* _stuConnMap, _teaConnMap and _adminConnMap
  link,      \* the TCP connection of each client
  granted,   \* the accounts each client has been told it is logged in to
  task,      \* what each event loop is doing
  up,        \* is the server process running?
  sig        \* how far the SIGINT handler is

vars == <<dbState, connMap, link, granted, task, up, sig>>

\* The statement a login handler comes to next, and for whom.
LoginStep == {"query", "insert", "update", "reply"}
Idle == [pc |-> "idle"]
Login == [pc : LoginStep, client : Client, account : Account]

\* Accounts whose updateState finds its row and names a column of its table.
Updatable == {a \in Account \ Blank : RoleOf[a] # "student"}

Init ==
  /\ dbState \in [Account -> {"absent", "offline"}]
  /\ \A a \in Blank : dbState[a] = "absent"
  /\ connMap = [a \in Account |-> NONE]
  /\ link = [c \in Client |-> "new"]
  /\ granted = [c \in Client |-> {}]
  /\ task = [l \in Loop |-> Idle]
  /\ up = TRUE
  /\ sig = "none"

-----------------------------------------------------------------------------
(* Clients. *)

Connect(c) ==
  /\ up
  /\ link[c] = "new"
  /\ link' = [link EXCEPT ![c] = "up"]
  /\ UNCHANGED <<dbState, connMap, granted, task, up, sig>>

(***************************************************************************)
(* The client closes its connection or dies.  All the server does about it  *)
(* is onConnection, which shuts down a connection that is closed already:   *)
(* no map and no table hears of it.                                         *)
(***************************************************************************)
Disconnect(c) ==
  /\ link[c] = "up"
  /\ link' = [link EXCEPT ![c] = "closed"]
  /\ granted' = [granted EXCEPT ![c] = {}]
  /\ UNCHANGED <<dbState, connMap, task, up, sig>>

-----------------------------------------------------------------------------
(* stuLogin, teaLogin and adminLogin.  A definition whose name ends in an   *)
(* underscore is a mutant of the one that follows it: what a plausible      *)
(* mistake would make of it, to show which property notices.                *)

At(l, pc) == task[l].pc = pc
Goto(l, pc) == task' = [task EXCEPT ![l].pc = pc]

\* A connection's messages arrive in the loop it was given.
Serves_(l, c) == TRUE
Serves(l, c) == LoopOf[c] = l

\* onMessage hands a login request to its handler.
Receive(l) ==
  /\ up
  /\ At(l, "idle")
  /\ \E c \in Client, a \in Account :
       /\ Serves(l, c)
       /\ link[c] = "up"
       /\ task' = [task EXCEPT ![l] = [pc |-> "query", client |-> c, account |-> a]]
  /\ UNCHANGED <<dbState, connMap, link, granted, up, sig>>

(***************************************************************************)
(* The tests of id, password and state.  Where there is no row, or the      *)
(* query has failed, they are made of the default object query returns: its *)
(* id and password are empty and it is offline, so an empty login passes.   *)
(***************************************************************************)
MayEnter_(a) == dbState[a] # "absent"
MayEnter(a) == a \in Blank \/ dbState[a] = "offline"

\* The id and the password are right, and it is not online.
Admit(l) ==
  /\ At(l, "query")
  /\ MayEnter(task[l].account)
  /\ Goto(l, "insert")
  /\ UNCHANGED <<dbState, connMap, link, granted, up, sig>>

(***************************************************************************)
(* The row says online, or the password is wrong, or there is no row or the *)
(* query has failed and the id is not empty: the client is told so, and     *)
(* nothing else happens.                                                    *)
(***************************************************************************)
Refuse(l) ==
  /\ At(l, "query")
  /\ task[l].account \notin Blank
  /\ task' = [task EXCEPT ![l] = Idle]
  /\ UNCHANGED <<dbState, connMap, link, granted, up, sig>>

\* unordered_map::insert: an entry that exists stays.
Inserted_(a, c) == connMap
Inserted(a, c) == [connMap EXCEPT ![a] = IF @ = NONE THEN c ELSE @]

\* The insertion, under _connMutex.
InsertConn(l) ==
  /\ At(l, "insert")
  /\ connMap' = Inserted(task[l].account, task[l].client)
  /\ Goto(l, "update")
  /\ UNCHANGED <<dbState, link, granted, up, sig>>

(***************************************************************************)
(* updateState; its result is ignored.  The statement for students tests a  *)
(* column "id" where every other statement calls it StudentID, so it fails. *)
(* No row has the empty id.                                                 *)
(***************************************************************************)
UpdateState(l) ==
  /\ At(l, "update")
  /\ \/ /\ task[l].account \in Updatable
        /\ dbState' = [dbState EXCEPT ![task[l].account] = "online"]
     \/ /\ task[l].account \notin Updatable \/ DbFails
        /\ UNCHANGED dbState
  /\ Goto(l, "reply")
  /\ UNCHANGED <<connMap, link, granted, up, sig>>

\* send: the client, if it is still there, learns that it is logged in.
Reply(l) ==
  /\ At(l, "reply")
  /\ granted' = [granted EXCEPT ![task[l].client] =
                   IF link[task[l].client] = "up"
                     THEN @ \cup {task[l].account} ELSE @]
  /\ task' = [task EXCEPT ![l] = Idle]
  /\ UNCHANGED <<dbState, connMap, link, up, sig>>

(***************************************************************************)
(* stuReg, teaReg, adminReg: one INSERT makes an account that is offline.   *)
(* (If it fails the client is told so, and nothing has happened.)           *)
(***************************************************************************)
Register(l) ==
  /\ up
  /\ At(l, "idle")
  /\ \E c \in Client : Serves(l, c) /\ link[c] = "up"
  /\ \E a \in Account :
       /\ a \notin Blank /\ dbState[a] = "absent"
       /\ dbState' = [dbState EXCEPT ![a] = "offline"]
  /\ UNCHANGED <<connMap, link, granted, task, up, sig>>

-----------------------------------------------------------------------------
(***************************************************************************)
(* The process.  SIGINT runs resetHandler on the main thread: reset() with  *)
(* one UPDATE for each table, then exit(0).  The event loops go on all the  *)
(* while.  Nothing is reset when the process starts.                        *)
(***************************************************************************)
Interrupt ==
  /\ up
  /\ sig = "none"
  /\ sig' = "student"
  /\ UNCHANGED <<dbState, connMap, link, granted, task, up>>

\* The order of the three statements, and exit(0).
AfterReset_ == [student |-> "admin", teacher |-> "admin", admin |-> "exit"]
AfterReset == [student |-> "teacher", teacher |-> "admin", admin |-> "exit"]

\* resetState: the rows of one table that are online.
Offline_(role) == dbState
Offline(role) ==
  [a \in Account |-> IF RoleOf[a] = role /\ dbState[a] = "online"
                       THEN "offline" ELSE dbState[a]]

ResetState ==
  /\ sig \in Role
  /\ \/ dbState' = Offline(sig)
     \/ DbFails /\ UNCHANGED dbState
  /\ sig' = AfterReset[sig]
  /\ UNCHANGED <<connMap, link, granted, task, up>>

\* What goes with the process, and what does not: the tables.
StopProcess ==
  /\ up' = FALSE
  /\ sig' = "none"
  /\ connMap' = [a \in Account |-> NONE]
  /\ link' = [c \in Client |-> IF link[c] = "up" THEN "closed" ELSE link[c]]
  /\ granted' = [c \in Client |-> {}]
  /\ task' = [l \in Loop |-> Idle]
  /\ UNCHANGED dbState

Exit == sig = "exit" /\ StopProcess

\* For instance a message that is not JSON, or an answer that dump() does not
\* take for UTF-8: nobody catches the exception.
Crash == Crashes /\ up /\ StopProcess

Restart ==
  /\ ~up
  /\ up' = TRUE
  /\ UNCHANGED <<dbState, connMap, link, granted, task, sig>>

-----------------------------------------------------------------------------
Handler(l) ==
  Admit(l) \/ Refuse(l) \/ InsertConn(l) \/ UpdateState(l) \/ Reply(l)

Next ==
  \/ \E c \in Client : Connect(c) \/ Disconnect(c)
  \/ \E l \in Loop : Receive(l) \/ Handler(l) \/ Register(l)
  \/ Interrupt \/ ResetState \/ Exit
  \/ Crash \/ Restart

Spec == Init /\ [][Next]_vars

(***************************************************************************)
(* Fairness.  A loop goes on with the handler it is in, and the main thread *)
(* with the signal handler: each statement comes back, with or without      *)
(* success.  Nothing is assumed of clients, of signals, of crashes, of      *)
(* exit (which destroys a condition variable somebody waits for, and may    *)
(* hang there) or of whoever starts the server again.                       *)
(***************************************************************************)
FairSpec ==
  /\ Spec
  /\ \A l \in Loop : WF_vars(Handler(l))
  /\ WF_vars(ResetState)

-----------------------------------------------------------------------------
(* Properties. *)

\* Every variable keeps its type; a loop works for its own connections.
TypeOK ==
  /\ dbState \in [Account -> {"absent", "offline", "online"}]
  /\ connMap \in [Account -> Client \cup {NONE}]
  /\ link \in [Client -> {"new", "up", "closed"}]
  /\ granted \in [Client -> SUBSET Account]
  /\ task \in [Loop -> Login \cup {Idle}]
  /\ \A l \in Loop : ~At(l, "idle") => LoopOf[task[l].client] = l
  /\ up \in BOOLEAN
  /\ sig \in Role \cup {"none", "exit"}

(***************************************************************************)
(* Two connections served by the same event loop are never logged in to the *)
(* same teacher or administrator.  The test of the state column and the     *)
(* UPDATE that makes it true are two statements, and what keeps a second    *)
(* login from getting between them is only that its loop is busy.  It needs *)
(* every UPDATE to succeed, and ends when reset() begins: that makes        *)
(* accounts free again while their clients are still served.                *)
(***************************************************************************)
OnePerLoop ==
  sig = "none" =>
    \A c, d \in Client :
      /\ LoopOf[c] = LoopOf[d]
      /\ granted[c] \cap granted[d] \cap Updatable # {}
      => c = d

(***************************************************************************)
(* The maps and the clients agree on who is logged in, although they are    *)
(* changed at different times by different loops: whoever has been let in   *)
(* is in a map under its account, if only through an earlier connection,    *)
(* and a connection that is in a map and still open has been let in, or is  *)
(* about to be.                                                             *)
(***************************************************************************)
LettingIn(c, a) ==
  \E l \in Loop : /\ At(l, "update") \/ At(l, "reply")
                  /\ task[l].client = c
                  /\ task[l].account = a

RegisteredSessions ==
  /\ \A c \in Client : \A a \in granted[c] : connMap[a] # NONE
  /\ \A a \in Account :
       connMap[a] # NONE /\ link[connMap[a]] = "up"
         => a \in granted[connMap[a]] \/ LettingIn(connMap[a], a)

(***************************************************************************)
(* When reset() has passed the table of an account, the account is online   *)
(* only if somebody logged in to it since the process started: what earlier *)
(* crashes have left online is gone.                                        *)
(***************************************************************************)
ResetPassed(a) ==
  \/ sig = "teacher" /\ RoleOf[a] = "student"
  \/ sig = "admin" /\ RoleOf[a] \in {"student", "teacher"}
  \/ sig = "exit"

ResetClears ==
  \A a \in Account :
    ResetPassed(a) /\ dbState[a] = "online" => connMap[a] # NONE

(***************************************************************************)
(* Why these hold.  An account somebody is logged in to, or about to be, is *)
(* online; so while a loop lets a client in, no other connection of that    *)
(* loop is logged in to the account.  A login is in a map before it is      *)
(* anywhere else, and what is in a map has been connected.                  *)
(***************************************************************************)
LoggedInIsOnline ==
  \A c \in Client : \A a \in granted[c] \cap Updatable : dbState[a] = "online"

AdmittedIsNew ==
  \A l \in Loop :
    task[l].pc \in {"insert", "update", "reply"} /\ task[l].account \in Updatable =>
      /\ At(l, "reply") => dbState[task[l].account] = "online"
      /\ \A d \in Client : LoopOf[d] = l => task[l].account \notin granted[d]

LoopInv == sig = "none" => LoggedInIsOnline /\ AdmittedIsNew /\ OnePerLoop

MapInv ==
  /\ \A l \in Loop : task[l].pc # "idle" => link[task[l].client] # "new"
  /\ \A a \in Account : connMap[a] # NONE => link[connMap[a]] # "new"
  /\ \A l \in Loop : task[l].pc \in {"update", "reply"} => connMap[task[l].account] # NONE
  /\ RegisteredSessions

(***************************************************************************)
(* Seen from the accounts, the handlers implement Accounts.                 *)
(***************************************************************************)
Kept == INSTANCE Accounts WITH
  Account   <- Updatable,
  online    <- {a \in Updatable : dbState[a] = "online"},
  using     <- [c \in Client |-> granted[c] \cap Updatable],
  resetting <- sig # "none"

KeepsAccounts == Kept!Spec

(***************************************************************************)
(* An interrupt makes every account free that was online, for instance      *)
(* since a crash long ago, unless the process crashes first.                *)
(***************************************************************************)
InterruptFrees ==
  \A a \in Account :
    (sig = "student" /\ dbState[a] = "online") ~> (dbState[a] # "online" \/ ~up)

\* A teacher or administrator who is logged in is not let in a second time.
OneSession ==
  sig = "none" =>
    \A c, d \in Client : granted[c] \cap granted[d] \cap Updatable # {} => c = d

\* A student who is logged in is not let in a second time.
OneStudentSession ==
  sig = "none" =>
    \A c, d \in Client : granted[c] \cap granted[d] \subseteq Updatable \cup Blank \/ c = d

\* A server that has stopped leaves no account online.
StoppedAllOffline == ~up => \A a \in Account : dbState[a] # "online"
=============================================================================
