-------------------------------- MODULE Client --------------------------------
(***************************************************************************)
(* The console client (src/client/main.cpp): the main thread with its       *)
(* menus, the reader thread, and the semaphore on which the one waits for   *)
(* the other.  The server answers or closes the connection.                 *)
(*                                                                          *)
(* The blocks "login:" and "reg:" stand in the while loop, behind the       *)
(* switch, so the break at their end leaves the while loop.                 *)
(***************************************************************************)
EXTENDS Integers, Sequences

CONSTANTS
  Nobody,   \* type of the current user before the first login
  MaxSent   \* bound of the model: requests sent in one session

VARIABLES
  main,            \* where the main thread is, see MainState
  js,              \* the request that is filled in
  requests,        \* all that has been sent
  served,          \* how many of them the server has seen to
  answers,         \* what the server has sent and nobody has read
  isLoginSuccess,  \* g_isLoginSuccess
  currentUser,     \* g_currentUser.type
  rwsem,           \* the semaphore
  exitCode         \* how the process ended, see ExitCode

vars == <<main, js, requests, served, answers, isLoginSuccess, currentUser,
          rwsem, exitCode>>

MainState == {"connect", "menu", "fill", "send", "await", "mainMenu", "ended"}

\* "quit" is exit(0) at the menu, "return" the end of main.
ExitCode == {"none", "quit", "return", "failure"}

UserType == {"student", "teacher", "admin"}

\* Requests of the first menu, and those of the menu of each type of user.
FirstRequest == [op : {"login", "registration"}, type : UserType]
Operations(type) == {"query", "logout"} \cup (IF type = "student" THEN {} ELSE {"change"})
MenuRequest(type) == [op : Operations(type), type : {type}]

Empty == <<>>

Init ==
  /\ main = "connect"
  /\ js = Empty
  /\ requests = <<>>
  /\ served = 0
  /\ answers = <<>>
  /\ isLoginSuccess = FALSE
  /\ currentUser = Nobody
  /\ rwsem = 0
  /\ exitCode = "none"

End(code) == main' = "ended" /\ exitCode' = code

-----------------------------------------------------------------------------
(* The main thread. *)

Connect ==
  /\ main = "connect"
  /\ \/ main' = "menu" /\ UNCHANGED exitCode
     \/ End("failure")
  /\ UNCHANGED <<js, requests, served, answers, isLoginSuccess, currentUser,
                 rwsem>>

\* goto login or goto reg.  (Any other number: the menu again.)
Choose ==
  /\ main = "menu"
  /\ js' \in FirstRequest
  /\ main' = "fill"
  /\ UNCHANGED <<requests, served, answers, isLoginSuccess, currentUser,
                 rwsem, exitCode>>

Quit ==
  /\ main = "menu"
  /\ End("quit")
  /\ UNCHANGED <<js, requests, served, answers, isLoginSuccess, currentUser,
                 rwsem>>

(***************************************************************************)
(* The questions have been answered; break.  A student's age and year go    *)
(* through stoi, which throws at what is no number, and nobody catches.     *)
(***************************************************************************)
Break ==
  /\ main = "fill"
  /\ \/ End("return")
     \/ js = [op |-> "registration", type |-> "student"] /\ End("failure")
  /\ UNCHANGED <<js, requests, served, answers, isLoginSuccess, currentUser,
                 rwsem>>

\* What follows the two blocks in the loop; nothing leads here.
Send ==
  /\ main = "send"
  /\ Len(requests) < MaxSent
  /\ isLoginSuccess' = FALSE
  /\ requests' = Append(requests, js)
  /\ main' = "await"
  /\ UNCHANGED <<js, served, answers, currentUser, rwsem, exitCode>>

\* sem_wait returns.
Await ==
  /\ main = "await"
  /\ rwsem > 0
  /\ rwsem' = rwsem - 1
  /\ main' = IF isLoginSuccess THEN "mainMenu" ELSE "menu"
  /\ UNCHANGED <<js, requests, served, answers, isLoginSuccess, currentUser,
                 exitCode>>

\* The menus of students, teachers and administrators, for ever.  (No login
\* answer would lead here either, see Read.)
MainMenu ==
  /\ main = "mainMenu"
  /\ Len(requests) < MaxSent
  /\ \E r \in MenuRequest(currentUser) : requests' = Append(requests, r)
  /\ UNCHANGED <<main, js, served, answers, isLoginSuccess, currentUser,
                 rwsem, exitCode>>

-----------------------------------------------------------------------------
(* The server, and the reader thread. *)

\* The server answers the next request; a logout has no msgid, so no answer.
Serve ==
  /\ served < Len(requests)
  /\ served' = served + 1
  /\ LET r == requests[served + 1]
     IN  answers' \in IF r.op = "logout" THEN {answers}
                      ELSE {Append(answers, [to |-> r, ok |-> ok]) : ok \in BOOLEAN}
  /\ UNCHANGED <<main, js, requests, isLoginSuccess, currentUser, rwsem,
                 exitCode>>

(***************************************************************************)
(* recv returns a message, readTaskHandler.  Of a login that succeeds it    *)
(* reads js["id"], where the server has put "studentId", "teacherId" or     *)
(* "adminId": get throws at null, before g_currentUser or g_isLoginSuccess  *)
(* is assigned, and nobody catches.                                         *)
(***************************************************************************)
LacksId(a) == a.to.op = "login" /\ a.ok

Read ==
  /\ main # "ended"
  /\ answers # <<>>
  /\ \/ /\ LacksId(Head(answers))
        /\ End("failure")
        /\ UNCHANGED <<answers, rwsem>>
     \/ /\ ~LacksId(Head(answers))
        /\ rwsem' = IF Head(answers).to \in FirstRequest THEN rwsem + 1 ELSE rwsem
        /\ answers' = Tail(answers)
        /\ UNCHANGED <<main, exitCode>>
  /\ UNCHANGED <<js, requests, served, isLoginSuccess, currentUser>>

(***************************************************************************)
(* recv fails, or finds that the server has closed: exit(-1).  Or json      *)
(* throws: answers carry no NUL, and the buffer is never cleared, so it may *)
(* hold something behind an answer that makes the whole no text.            *)
(***************************************************************************)
ServerGone ==
  /\ main \notin {"connect", "ended"}
  /\ End("failure")
  /\ UNCHANGED <<js, requests, served, answers, isLoginSuccess, currentUser,
                 rwsem>>

Next ==
  \/ Connect \/ Choose \/ Quit \/ Break \/ Send \/ Await \/ MainMenu
  \/ Serve \/ Read \/ ServerGone

Spec == Init /\ [][Next]_vars

-----------------------------------------------------------------------------
(***************************************************************************)
(* The program comes to the end of main only when the request that was      *)
(* filled in has been sent.                                                 *)
(***************************************************************************)
FilledIsSent ==
  exitCode = "return" => \E i \in DOMAIN requests : requests[i] = js
=============================================================================
