--------------------------- MODULE Sessions_proofs ---------------------------
(***************************************************************************)
(* Theorems about Sessions, for any accounts, connections and event loops.  *)
(***************************************************************************)
EXTENDS Sessions, FiniteSetTheorems, TLAPS

(* The one-line tests and assignments are always expanded. *)
USE DEF Serves, MayEnter, Inserted, Offline

LEMMA InitTypeOK ==
  ASSUME Init
  PROVE  TypeOK
BY DEF Init, TypeOK, Idle, Login, LoginStep, At, Role

\* A loop in a handler works on a login.
LEMMA TaskIsLogin ==
  ASSUME TypeOK, NEW l \in Loop, task[l].pc # "idle"
  PROVE  /\ task[l] \in Login
         /\ task[l].pc \in LoginStep
         /\ task[l].client \in Client
         /\ task[l].account \in Account
         /\ LoopOf[task[l].client] = l
BY DEF TypeOK, Idle, Login, LoginStep, At

LEMMA NextTypeOK ==
  ASSUME TypeOK, [Next]_vars
  PROVE  TypeOK'
<1>1. ASSUME NEW c \in Client, Connect(c) PROVE TypeOK'
  BY <1>1 DEF TypeOK, Connect, At
<1>2. ASSUME NEW c \in Client, Disconnect(c) PROVE TypeOK'
  BY <1>2 DEF TypeOK, Disconnect, At
<1>3. ASSUME NEW l \in Loop, Receive(l) PROVE TypeOK'
  <2>1. PICK c \in Client, a \in Account :
          /\ LoopOf[c] = l
          /\ task' = [task EXCEPT ![l] = [pc |-> "query", client |-> c, account |-> a]]
    BY <1>3 DEF Receive
  <2>2. [pc |-> "query", client |-> c, account |-> a] \in Login
    BY DEF Login, LoginStep
  <2>3. QED
    BY <1>3, <2>1, <2>2 DEF TypeOK, Receive, At
<1>4. ASSUME NEW l \in Loop, NEW pc \in LoginStep, Goto(l, pc),
             task[l].pc # "idle", UNCHANGED <<link, up, sig>>,
             dbState' \in [Account -> {"absent", "offline", "online"}],
             connMap' \in [Account -> Client \cup {NONE}],
             granted' = granted
      PROVE  TypeOK'
  <2>1. task[l] \in Login /\ LoopOf[task[l].client] = l
    BY <1>4, TaskIsLogin
  <2>2. [task[l] EXCEPT !.pc = pc] \in Login
    BY <2>1 DEF Login
  <2>3. task' = [task EXCEPT ![l] = [task[l] EXCEPT !.pc = pc]]
    BY <1>4 DEF Goto
  <2>4. [task[l] EXCEPT !.pc = pc].client = task[l].client
    BY <2>1 DEF Login
  <2>5. QED
    BY <1>4, <2>1, <2>2, <2>3, <2>4 DEF TypeOK, At
<1>5. ASSUME NEW l \in Loop, Admit(l) PROVE TypeOK'
  BY <1>4, <1>5 DEF TypeOK, Admit, At, LoginStep
<1>6. ASSUME NEW l \in Loop, Refuse(l) PROVE TypeOK'
  BY <1>6 DEF TypeOK, Refuse, At, Idle
<1>7. ASSUME NEW l \in Loop, InsertConn(l) PROVE TypeOK'
  <2>1. task[l].client \in Client
    BY <1>7, TaskIsLogin DEF InsertConn, At
  <2>2. QED
    BY <1>4, <1>7, <2>1 DEF TypeOK, InsertConn, At, LoginStep
<1>8. ASSUME NEW l \in Loop, UpdateState(l) PROVE TypeOK'
  BY <1>4, <1>8 DEF TypeOK, UpdateState, At, LoginStep
<1>9. ASSUME NEW l \in Loop, Reply(l) PROVE TypeOK'
  <2>1. task[l].account \in Account
    BY <1>9, TaskIsLogin DEF Reply, At
  <2>2. granted' \in [Client -> SUBSET Account]
    BY <1>9, <2>1 DEF TypeOK, Reply
  <2>3. QED
    BY <1>9, <2>2 DEF TypeOK, Reply, At, Idle
<1>10. ASSUME NEW l \in Loop, Register(l) PROVE TypeOK'
  BY <1>10 DEF TypeOK, Register, At
<1>11. CASE Interrupt
  BY <1>11 DEF TypeOK, Interrupt, At, Role
<1>12. CASE ResetState
  BY <1>12 DEF TypeOK, ResetState, At, Role, AfterReset
<1>13. CASE StopProcess
  BY <1>13 DEF TypeOK, StopProcess, At, Idle, Role
<1>14. CASE Restart
  BY <1>14 DEF TypeOK, Restart, At
<1>15. CASE UNCHANGED vars
  BY <1>15 DEF TypeOK, vars, At
<1>16. QED
  BY <1>1, <1>2, <1>3, <1>5, <1>6, <1>7, <1>8, <1>9, <1>10, <1>11, <1>12,
     <1>13, <1>14, <1>15
  DEF Next, Handler, Exit, Crash

\* Every variable keeps its type, and a loop works for its own connections.
THEOREM TypeCorrect == Spec => []TypeOK
BY InitTypeOK, NextTypeOK, PTL DEF Spec

-----------------------------------------------------------------------------
(* One session of an account on each loop. *)

LEMMA NextLoopInv ==
  ASSUME ~DbFails, TypeOK, LoopInv, [Next]_vars
  PROVE  LoopInv'
<1> SUFFICES ASSUME sig' = "none"
             PROVE  LoggedInIsOnline' /\ AdmittedIsNew' /\ OnePerLoop'
  BY DEF LoopInv
<1>1. CASE StopProcess
  BY <1>1 DEF StopProcess, LoggedInIsOnline, AdmittedIsNew, OnePerLoop, Idle, At
<1>2. ASSUME ~StopProcess
      PROVE  sig = "none" /\ LoggedInIsOnline /\ AdmittedIsNew /\ OnePerLoop
  <2>1. ASSUME NEW c \in Client, Connect(c) \/ Disconnect(c) PROVE sig' = sig
    BY <2>1 DEF Connect, Disconnect
  <2>2. ASSUME NEW l \in Loop, Receive(l) \/ Handler(l) \/ Register(l)
        PROVE  sig' = sig
    BY <2>2
    DEF Receive, Handler, Admit, Refuse, InsertConn, UpdateState, Reply, Register
  <2>3. ~Interrupt /\ ~ResetState
    BY DEF Interrupt, ResetState, AfterReset, Role
  <2>4. sig = "none"
    BY <1>2, <2>1, <2>2, <2>3 DEF Next, Exit, Crash, Restart, vars
  <2>5. QED
    BY <2>4 DEF LoopInv
<1>3. ASSUME NEW c \in Client, Connect(c), ~StopProcess
      PROVE  LoggedInIsOnline' /\ AdmittedIsNew' /\ OnePerLoop'
  BY <1>2, <1>3 DEF Connect, LoggedInIsOnline, AdmittedIsNew, OnePerLoop, At
<1>4. ASSUME NEW c \in Client, Disconnect(c), ~StopProcess
      PROVE  LoggedInIsOnline' /\ AdmittedIsNew' /\ OnePerLoop'
  BY <1>2, <1>4
  DEF TypeOK, Disconnect, LoggedInIsOnline, AdmittedIsNew, OnePerLoop, At
<1>5. ASSUME NEW l \in Loop, Receive(l), ~StopProcess
      PROVE  LoggedInIsOnline' /\ AdmittedIsNew' /\ OnePerLoop'
  BY <1>2, <1>5
  DEF TypeOK, Receive, LoggedInIsOnline, AdmittedIsNew, OnePerLoop, At
<1>6. ASSUME NEW l \in Loop, Admit(l), ~StopProcess
      PROVE  LoggedInIsOnline' /\ AdmittedIsNew' /\ OnePerLoop'
  <2>1. LoggedInIsOnline' /\ OnePerLoop'
    BY <1>2, <1>6 DEF Admit, LoggedInIsOnline, OnePerLoop
  <2>2. \A d \in Client : task[l].account \in Updatable =>
                            task[l].account \notin granted[d]
    <3>1. task[l].account \in Updatable => dbState[task[l].account] = "offline"
      BY <1>6 DEF Admit, Updatable
    <3> QED
      BY <1>2, <1>6, <3>1 DEF LoggedInIsOnline
  <2>3. task[l] \in Login
    BY <1>6, TaskIsLogin DEF Admit, At
  <2>4. /\ task'[l].pc = "insert"
        /\ task'[l].account = task[l].account
        /\ \A k \in Loop \ {l} : task'[k] = task[k]
    BY <1>6, <2>3 DEF TypeOK, Admit, Goto, Login
  <2>5. AdmittedIsNew'
    BY <1>2, <1>6, <2>2, <2>4 DEF Admit, AdmittedIsNew, At
  <2>6. QED
    BY <2>1, <2>5
<1>7. ASSUME NEW l \in Loop, Refuse(l), ~StopProcess
      PROVE  LoggedInIsOnline' /\ AdmittedIsNew' /\ OnePerLoop'
  BY <1>2, <1>7
  DEF TypeOK, Refuse, LoggedInIsOnline, AdmittedIsNew, OnePerLoop, At, Idle
<1>8. ASSUME NEW l \in Loop, InsertConn(l), ~StopProcess
      PROVE  LoggedInIsOnline' /\ AdmittedIsNew' /\ OnePerLoop'
  <2>1. task[l] \in Login
    BY <1>8, TaskIsLogin DEF InsertConn, At
  <2>2. /\ task'[l].pc = "update"
        /\ task'[l].account = task[l].account
        /\ \A k \in Loop \ {l} : task'[k] = task[k]
    BY <1>8, <2>1 DEF TypeOK, InsertConn, Goto, Login
  <2>3. QED
    BY <1>2, <1>8, <2>2
    DEF InsertConn, LoggedInIsOnline, AdmittedIsNew, OnePerLoop, At
<1>9. ASSUME NEW l \in Loop, UpdateState(l), ~StopProcess
      PROVE  LoggedInIsOnline' /\ AdmittedIsNew' /\ OnePerLoop'
  <2>1. task[l] \in Login
    BY <1>9, TaskIsLogin DEF UpdateState, At
  <2>2. /\ task'[l].pc = "reply"
        /\ task'[l].account = task[l].account
        /\ \A k \in Loop \ {l} : task'[k] = task[k]
    BY <1>9, <2>1 DEF TypeOK, UpdateState, Goto, Login
  <2>3. /\ task[l].account \in Updatable => dbState'[task[l].account] = "online"
        /\ \A a \in Account : dbState[a] = "online" => dbState'[a] = "online"
    BY <1>9, <2>1 DEF TypeOK, UpdateState, Login
  <2>4. LoggedInIsOnline' /\ OnePerLoop'
    BY <1>2, <1>9, <2>3
    DEF UpdateState, LoggedInIsOnline, OnePerLoop, Updatable
  <2>5. AdmittedIsNew'
    BY <1>2, <1>9, <2>2, <2>3 DEF UpdateState, AdmittedIsNew, At, Updatable
  <2>6. QED
    BY <2>4, <2>5
<1>10. ASSUME NEW l \in Loop, Reply(l), ~StopProcess
       PROVE  LoggedInIsOnline' /\ AdmittedIsNew' /\ OnePerLoop'
  <2>inv. sig = "none" /\ LoggedInIsOnline /\ AdmittedIsNew /\ OnePerLoop
    BY <1>2, <1>10
  <2>1. PICK c \in Client, a \in Account :
          /\ c = task[l].client
          /\ a = task[l].account
          /\ LoopOf[c] = l
    BY <1>10, TaskIsLogin DEF Reply, At
  <2>2. a \in Updatable => /\ dbState[a] = "online"
                           /\ \A d \in Client : LoopOf[d] = l => a \notin granted[d]
    BY <2>inv, <1>10, <2>1 DEF Reply, AdmittedIsNew, At
  <2>3. /\ task'[l].pc = "idle"
        /\ \A k \in Loop \ {l} : task'[k] = task[k]
        /\ dbState' = dbState
    BY <1>10 DEF TypeOK, Reply, Idle
  <2>4. /\ \A d \in Client : d # c => granted'[d] = granted[d]
        /\ \A e \in granted'[c] : e = a \/ e \in granted[c]
    BY <1>10, <2>1 DEF TypeOK, Reply
  <2>5. LoggedInIsOnline'
    BY <2>inv, <2>1, <2>2, <2>3, <2>4 DEF LoggedInIsOnline
  <2>6. AdmittedIsNew'
    <3>1. SUFFICES ASSUME NEW k \in Loop \ {l},
                          task[k].pc \in {"insert", "update", "reply"},
                          task[k].account \in Updatable
                   PROVE  /\ task[k].pc = "reply" => dbState[task[k].account] = "online"
                          /\ \A d \in Client : LoopOf[d] = k =>
                                                 task[k].account \notin granted'[d]
      BY <2>3 DEF AdmittedIsNew, At
    <3>2. \A d \in Client : LoopOf[d] = k => granted'[d] = granted[d]
      BY <2>1, <2>4
    <3>3. QED
      BY <2>inv, <3>1, <3>2 DEF AdmittedIsNew, At
  <2>7. OnePerLoop'
    <3>1. SUFFICES ASSUME NEW d \in Client, NEW e \in Client, LoopOf[d] = LoopOf[e],
                          NEW x \in Updatable, x \in granted'[d], x \in granted'[e]
                   PROVE  d = e
      BY DEF OnePerLoop
    <3>2. \/ x \in granted[d] /\ x \in granted[e]
          \/ x = a /\ (d = c \/ e = c)
      BY <2>4, <3>1
    <3>3. CASE x \in granted[d] /\ x \in granted[e]
      BY <2>inv, <3>1, <3>3 DEF OnePerLoop
    <3>4. CASE x = a /\ (d = c \/ e = c)
      BY <2>1, <2>2, <2>4, <3>1, <3>4
    <3>5. QED
      BY <3>2, <3>3, <3>4
  <2>8. QED
    BY <2>5, <2>6, <2>7
<1>11. ASSUME NEW l \in Loop, Register(l), ~StopProcess
       PROVE  LoggedInIsOnline' /\ AdmittedIsNew' /\ OnePerLoop'
  <2>1. \A a \in Account : dbState[a] = "online" => dbState'[a] = "online"
    BY <1>11 DEF TypeOK, Register
  <2>2. QED
    BY <1>2, <1>11, <2>1
    DEF Register, LoggedInIsOnline, AdmittedIsNew, OnePerLoop, At, Updatable
<1>12. CASE Interrupt \/ ResetState
  BY <1>12 DEF Interrupt, ResetState, AfterReset, Role
<1>13. ASSUME Restart \/ UNCHANGED vars, ~StopProcess
       PROVE  LoggedInIsOnline' /\ AdmittedIsNew' /\ OnePerLoop'
  BY <1>2, <1>13
  DEF Restart, vars, LoggedInIsOnline, AdmittedIsNew, OnePerLoop, At
<1>14. QED
  BY <1>1, <1>3, <1>4, <1>5, <1>6, <1>7, <1>8, <1>9, <1>10, <1>11, <1>12, <1>13
  DEF Next, Handler, Exit, Crash

(***************************************************************************)
(* With statements that succeed, and until reset(): whoever is logged in to *)
(* a teacher or administrator is online in its table, and what a loop is    *)
(* letting in is nobody else's session in that loop.                        *)
(***************************************************************************)
THEOREM LoginsKeepApart ==
  ASSUME ~DbFails
  PROVE  Spec => []LoopInv
<1>1. Init => LoopInv
  BY DEF Init, LoopInv, LoggedInIsOnline, AdmittedIsNew, OnePerLoop, Idle
<1>2. QED
  BY <1>1, TypeCorrect, NextLoopInv, PTL DEF Spec

(***************************************************************************)
(* With statements that succeed, two connections of the same event loop are *)
(* never logged in to the same teacher or administrator, until reset():     *)
(* however many loops there are and however often the process crashes.      *)
(***************************************************************************)
THEOREM SessionPerLoop ==
  ASSUME ~DbFails
  PROVE  Spec => []OnePerLoop
<1>1. LoopInv => OnePerLoop
  BY DEF LoopInv, OnePerLoop
<1>2. QED
  BY <1>1, LoginsKeepApart, PTL

\* The connections that are logged in to an account, and a bound for them.
SessionsOf(a) == {c \in Client : a \in granted[c]}

AtMostOnePerLoop ==
  sig = "none" =>
    \A a \in Updatable : /\ IsFiniteSet(SessionsOf(a))
                         /\ Cardinality(SessionsOf(a)) <= Cardinality(Loop)

(***************************************************************************)
(* So a teacher or administrator has at most as many sessions as there are  *)
(* event loops: what the test of the state column promises is weaker than   *)
(* one session, but it does not degrade with the number of connections.     *)
(***************************************************************************)
THEOREM SessionsBounded ==
  ASSUME ~DbFails, IsFiniteSet(Loop)
  PROVE  Spec => []AtMostOnePerLoop
<1>1. ASSUME OnePerLoop, sig = "none", NEW a \in Updatable
      PROVE  /\ IsFiniteSet(SessionsOf(a))
             /\ Cardinality(SessionsOf(a)) <= Cardinality(Loop)
  <2> DEFINE f == [c \in SessionsOf(a) |-> LoopOf[c]]
  <2>1. f \in [SessionsOf(a) -> Loop]
    BY SessionAssumption DEF SessionsOf
  <2>2. ASSUME NEW c \in SessionsOf(a), NEW d \in SessionsOf(a), f[c] = f[d]
        PROVE  c = d
    <3>1. c \in Client /\ d \in Client /\ LoopOf[c] = LoopOf[d]
      BY <2>2 DEF SessionsOf
    <3>2. a \in granted[c] \cap granted[d] \cap Updatable
      BY <1>1 DEF SessionsOf
    <3> QED
      BY <1>1, <3>1, <3>2 DEF OnePerLoop
  <2>3. f \in Injection(SessionsOf(a), Loop)
    <3> HIDE DEF f
    <3> QED
      BY <2>1, <2>2 DEF Injection, IsInjective
  <2> QED
    BY <2>3, FS_Injection
<1>2. OnePerLoop => AtMostOnePerLoop
  BY <1>1 DEF AtMostOnePerLoop
<1>3. QED
  BY <1>2, SessionPerLoop, PTL

(***************************************************************************)
(* With a single event loop the test does what it is there for: nobody who  *)
(* is logged in to a teacher or administrator is joined by a second login.  *)
(* For them, sessions on two loops are all that goes wrong without failures.*)
(***************************************************************************)
THEOREM OneLoopSuffices ==
  ASSUME ~DbFails, \A c, d \in Client : LoopOf[c] = LoopOf[d]
  PROVE  Spec => []OneSession
<1>1. OnePerLoop => OneSession
  BY DEF OnePerLoop, OneSession
<1>2. QED
  BY <1>1, SessionPerLoop, PTL

-----------------------------------------------------------------------------
(* The maps and the sessions. *)

LEMMA InitMapInv ==
  ASSUME Init
  PROVE  MapInv
BY SessionAssumption DEF Init, MapInv, RegisteredSessions, Idle

LEMMA NextMapInv ==
  ASSUME TypeOK, MapInv, [Next]_vars
  PROVE  MapInv'
<1> USE SessionAssumption
<1>1. ASSUME NEW c \in Client, Connect(c) PROVE MapInv'
  <2>1. \A d \in Client : /\ d # c => link'[d] = link[d]
                          /\ link'[d] = "new" => link[d] = "new"
    BY <1>1 DEF TypeOK, Connect
  <2>2. link[c] = "new"
    BY <1>1 DEF Connect
  <2>3. \A l \in Loop : task[l].pc # "idle" => link'[task[l].client] # "new"
    BY <2>1, TaskIsLogin DEF MapInv
  <2>4. \A a \in Account : connMap[a] # NONE =>
           connMap[a] \in Client /\ connMap[a] # c
    BY <2>2 DEF TypeOK, MapInv
  <2>5. QED
    BY <1>1, <2>1, <2>3, <2>4
    DEF Connect, MapInv, RegisteredSessions, LettingIn, At
<1>2. ASSUME NEW c \in Client, Disconnect(c) PROVE MapInv'
  <2>1. /\ \A d \in Client : d # c => link'[d] = link[d] /\ granted'[d] = granted[d]
        /\ link'[c] = "closed"
        /\ granted'[c] = {}
    BY <1>2 DEF TypeOK, Disconnect
  <2>2. \A l \in Loop : task[l].pc # "idle" => link'[task[l].client] # "new"
    BY <2>1, TaskIsLogin DEF MapInv
  <2>3. \A a \in Account : connMap[a] # NONE => connMap[a] \in Client
    BY DEF TypeOK
  <2>4. QED
    BY <1>2, <2>1, <2>2, <2>3
    DEF Disconnect, MapInv, RegisteredSessions, LettingIn, At
<1>3. ASSUME NEW l \in Loop, Receive(l) PROVE MapInv'
  <2>1. PICK c \in Client, a \in Account :
          /\ link[c] = "up"
          /\ task' = [task EXCEPT ![l] = [pc |-> "query", client |-> c, account |-> a]]
    BY <1>3 DEF Receive
  <2>2. /\ task'[l] = [pc |-> "query", client |-> c, account |-> a]
        /\ task[l].pc = "idle"
        /\ \A k \in Loop \ {l} : task'[k] = task[k]
    BY <1>3, <2>1 DEF TypeOK, Receive, At
  <2>3. \A d \in Client, b \in Account : LettingIn(d, b) => LettingIn(d, b)'
    BY <2>2 DEF LettingIn, At
  <2>4. QED
    BY <1>3, <2>1, <2>2, <2>3 DEF TypeOK, Receive, MapInv, RegisteredSessions
<1>4. ASSUME NEW l \in Loop, Admit(l) \/ Refuse(l) PROVE MapInv'
  <2>1. /\ task[l].pc = "query"
        /\ task'[l].pc \in {"insert", "idle"}
        /\ task'[l].pc = "insert" => task'[l].client = task[l].client
        /\ \A k \in Loop \ {l} : task'[k] = task[k]
    BY <1>4, TaskIsLogin DEF TypeOK, Admit, Refuse, At, Goto, Login, Idle
  <2>2. \A d \in Client, b \in Account : LettingIn(d, b) => LettingIn(d, b)'
    BY <2>1 DEF LettingIn, At
  <2>3. QED
    BY <1>4, <2>1, <2>2
    DEF TypeOK, Admit, Refuse, MapInv, RegisteredSessions
<1>5. ASSUME NEW l \in Loop, InsertConn(l) PROVE MapInv'
  <2>1. PICK c \in Client, a \in Account : c = task[l].client /\ a = task[l].account
    BY <1>5, TaskIsLogin DEF InsertConn, At
  <2>2. /\ task[l].pc = "insert"
        /\ task'[l] = [pc |-> "update", client |-> c, account |-> a]
        /\ \A k \in Loop \ {l} : task'[k] = task[k]
    BY <1>5, <2>1, TaskIsLogin DEF TypeOK, InsertConn, At, Goto, Login
  <2>3. /\ connMap'[a] = IF connMap[a] = NONE THEN c ELSE connMap[a]
        /\ \A b \in Account : b # a => connMap'[b] = connMap[b]
    BY <1>5, <2>1 DEF TypeOK, InsertConn
  <2>4. \A d \in Client, b \in Account : LettingIn(d, b) => LettingIn(d, b)'
    BY <2>2 DEF LettingIn, At
  <2>5. LettingIn(c, a)' /\ link[c] # "new"
    BY <2>1, <2>2 DEF LettingIn, At, MapInv
  <2>6. \A k \in Loop : task'[k].pc \in {"update", "reply"} => connMap'[task'[k].account] # NONE
    BY <2>1, <2>2, <2>3, TaskIsLogin DEF MapInv
  <2>7. RegisteredSessions'
    BY <1>5, <2>3, <2>4, <2>5 DEF TypeOK, InsertConn, MapInv, RegisteredSessions
  <2>8. QED
    BY <1>5, <2>1, <2>2, <2>3, <2>5, <2>6, <2>7 DEF InsertConn, MapInv
<1>6. ASSUME NEW l \in Loop, UpdateState(l) PROVE MapInv'
  <2>1. /\ task[l].pc = "update"
        /\ task'[l].pc = "reply"
        /\ task'[l].client = task[l].client
        /\ task'[l].account = task[l].account
        /\ \A k \in Loop \ {l} : task'[k] = task[k]
    BY <1>6, TaskIsLogin DEF TypeOK, UpdateState, At, Goto, Login
  <2>2. \A d \in Client, b \in Account : LettingIn(d, b) => LettingIn(d, b)'
    BY <2>1 DEF LettingIn, At
  <2>3. QED
    BY <1>6, <2>1, <2>2 DEF TypeOK, UpdateState, MapInv, RegisteredSessions
<1>7. ASSUME NEW l \in Loop, Reply(l) PROVE MapInv'
  <2>1. PICK c \in Client, a \in Account : c = task[l].client /\ a = task[l].account
    BY <1>7, TaskIsLogin DEF Reply, At
  <2>2. /\ task[l].pc = "reply"
        /\ task'[l].pc = "idle"
        /\ \A k \in Loop \ {l} : task'[k] = task[k]
    BY <1>7 DEF TypeOK, Reply, At, Idle
  <2>3. /\ \A d \in Client : d # c => granted'[d] = granted[d]
        /\ link[c] = "up" => granted'[c] = granted[c] \cup {a}
        /\ link[c] # "up" => granted'[c] = granted[c]
    BY <1>7, <2>1 DEF TypeOK, Reply
  <2>4. connMap[a] # NONE
    BY <2>1, <2>2 DEF MapInv
  <2>5. ASSUME NEW b \in Account, connMap[b] # NONE, link[connMap[b]] = "up"
        PROVE  b \in granted'[connMap[b]] \/ LettingIn(connMap[b], b)'
    <3>1. CASE b \in granted[connMap[b]]
      BY <2>3, <2>5, <3>1 DEF TypeOK
    <3>2. CASE connMap[b] = c /\ b = a
      BY <2>3, <2>5, <3>2
    <3>3. CASE LettingIn(connMap[b], b) /\ ~(connMap[b] = c /\ b = a)
      BY <1>7, <2>1, <2>2, <3>3 DEF LettingIn, At, Reply
    <3>4. QED
      BY <2>5, <3>1, <3>2, <3>3 DEF MapInv, RegisteredSessions
  <2>6. \A d \in Client : \A b \in granted'[d] : connMap[b] # NONE
    BY <2>3, <2>4 DEF MapInv, RegisteredSessions
  <2>7. QED
    BY <1>7, <2>2, <2>5, <2>6 DEF Reply, MapInv, RegisteredSessions
<1>8. ASSUME NEW l \in Loop, Register(l) PROVE MapInv'
  BY <1>8 DEF Register, MapInv, RegisteredSessions, LettingIn, At
<1>9. CASE Interrupt \/ ResetState \/ Restart \/ UNCHANGED vars
  BY <1>9
  DEF Interrupt, ResetState, Restart, vars, MapInv, RegisteredSessions,
      LettingIn, At
<1>10. CASE StopProcess
  BY <1>10 DEF StopProcess, MapInv, RegisteredSessions, Idle
<1>11. QED
  BY <1>1, <1>2, <1>3, <1>4, <1>5, <1>6, <1>7, <1>8, <1>9, <1>10
  DEF Next, Handler, Exit, Crash

(***************************************************************************)
(* A login is in a map before its row or its client hears of it, and what   *)
(* is in a map, or has a request in a loop, has been connected: in every    *)
(* execution, whether statements fail or not.                               *)
(***************************************************************************)
THEOREM MapFirst == Spec => []MapInv
BY InitMapInv, NextMapInv, TypeCorrect, PTL DEF Spec

(***************************************************************************)
(* The maps and the sessions agree in every execution, whether statements   *)
(* fail or not.                                                             *)
(***************************************************************************)
THEOREM MapsAgree == Spec => []RegisteredSessions
<1>1. MapInv => RegisteredSessions
  BY DEF MapInv
<1>2. QED
  BY <1>1, MapFirst, PTL

-----------------------------------------------------------------------------
(* What reset() clears. *)

LEMMA NextResetClears ==
  ASSUME ~DbFails, TypeOK, MapInv, ResetClears, [Next]_vars
  PROVE  ResetClears'
<1>1. ASSUME NEW c \in Client, Connect(c) \/ Disconnect(c) PROVE ResetClears'
  BY <1>1 DEF Connect, Disconnect, ResetClears, ResetPassed
<1>2. ASSUME NEW l \in Loop, Receive(l) \/ Admit(l) \/ Refuse(l) \/ Reply(l)
      PROVE  ResetClears'
  BY <1>2 DEF Receive, Admit, Refuse, Reply, ResetClears, ResetPassed
<1>3. ASSUME NEW l \in Loop, InsertConn(l) PROVE ResetClears'
  <2>1. \A a \in Account : connMap[a] # NONE => connMap'[a] # NONE
    BY <1>3 DEF TypeOK, InsertConn
  <2>2. QED
    BY <1>3, <2>1 DEF InsertConn, ResetClears, ResetPassed
<1>4. ASSUME NEW l \in Loop, UpdateState(l) PROVE ResetClears'
  <2>1. connMap[task[l].account] # NONE
    BY <1>4 DEF UpdateState, At, MapInv
  <2>2. \A a \in Account : dbState'[a] = "online" =>
                             dbState[a] = "online" \/ a = task[l].account
    BY <1>4 DEF TypeOK, UpdateState
  <2>3. QED
    BY <1>4, <2>1, <2>2 DEF UpdateState, ResetClears, ResetPassed
<1>5. ASSUME NEW l \in Loop, Register(l) PROVE ResetClears'
  <2>1. \A a \in Account : dbState'[a] = "online" => dbState[a] = "online"
    BY <1>5 DEF TypeOK, Register
  <2>2. QED
    BY <1>5, <2>1 DEF Register, ResetClears, ResetPassed
<1>6. CASE Interrupt \/ StopProcess
  BY <1>6 DEF Interrupt, StopProcess, ResetClears, ResetPassed
<1>7. CASE ResetState
  <2>1. \A a \in Account : dbState'[a] = "online" =>
                             dbState[a] = "online" /\ RoleOf[a] # sig
    BY <1>7 DEF TypeOK, ResetState
  <2>2. \A a \in Account : RoleOf[a] \in Role
    BY SessionAssumption
  <2>3. \A a \in Account : ResetPassed(a)' /\ RoleOf[a] # sig => ResetPassed(a)
    BY <1>7, <2>2 DEF ResetState, AfterReset, ResetPassed, Role
  <2>4. QED
    BY <1>7, <2>1, <2>3 DEF ResetState, ResetClears
<1>8. CASE Restart \/ UNCHANGED vars
  BY <1>8 DEF Restart, vars, ResetClears, ResetPassed
<1>9. QED
  BY <1>1, <1>2, <1>3, <1>4, <1>5, <1>6, <1>7, <1>8
  DEF Next, Handler, Exit, Crash

(***************************************************************************)
(* With statements that succeed, an account that is online after reset()    *)
(* has passed its table has been logged in to since the process started.    *)
(***************************************************************************)
THEOREM ResetLeavesOnlyNewLogins ==
  ASSUME ~DbFails
  PROVE  Spec => []ResetClears
<1>1. Init => ResetClears
  BY DEF Init, ResetClears, ResetPassed
<1>2. QED
  BY <1>1, InitMapInv, NextMapInv, NextResetClears, TypeCorrect, PTL DEF Spec

-----------------------------------------------------------------------------
(* The refinement of Accounts. *)

\* The mapping, for short.
Online == {a \in Updatable : dbState[a] = "online"}
Using  == [c \in Client |-> granted[c] \cap Updatable]

\* Steps that the accounts do not see.
LEMMA UnseenStep ==
  ASSUME UNCHANGED <<dbState, granted>>, (sig # "none") = (sig' # "none")
  PROVE  UNCHANGED Kept!accountVars
BY DEF Kept!accountVars, Updatable

LEMMA LetInStep ==
  ASSUME TypeOK, LoopInv, NEW l \in Loop, Reply(l)
  PROVE  [Kept!Next]_Kept!accountVars
<1>1. PICK c \in Client, a \in Account :
        /\ c = task[l].client
        /\ a = task[l].account
        /\ LoopOf[c] = l
  BY TaskIsLogin DEF Reply, At
<1>2. /\ dbState' = dbState /\ sig' = sig
      /\ Updatable' = Updatable
  BY DEF Reply, Updatable
<1>3. CASE granted' = granted \/ a \notin Updatable
  <2>1. \A d \in Client : granted'[d] \cap Updatable = granted[d] \cap Updatable
    BY <1>1, <1>3 DEF Reply, TypeOK
  <2> QED
    BY <1>2, <2>1 DEF Kept!accountVars
<1>4. CASE granted' # granted /\ a \in Updatable
  <2>1. granted' = [granted EXCEPT ![c] = @ \cup {a}]
    BY <1>1, <1>4 DEF Reply, TypeOK
  <2>2. sig = "none" =>
          dbState[a] = "online" /\ \A d \in Client : LoopOf[d] = l => a \notin granted[d]
    BY <1>1, <1>4 DEF Reply, LoopInv, AdmittedIsNew, At
  <2>3. Using' = [Using EXCEPT ![c] = @ \cup {a}]
    BY <1>2, <1>4, <2>1 DEF Using, TypeOK
  <2>4. sig # "none" \/ (a \in Online /\ \A d \in Client : LoopOf[d] = LoopOf[c] => a \notin Using[d])
    BY <1>1, <1>4, <2>2 DEF Online, Using
  <2>5. Kept!LetIn(c, a)
    BY <1>2, <2>3, <2>4 DEF Kept!LetIn, Kept!FreeFor, Online, Using
  <2> QED
    BY <1>4, <2>5 DEF Kept!Next
<1> QED
  BY <1>3, <1>4

LEMMA AccountStep ==
  ASSUME TypeOK, LoopInv, [Next]_vars
  PROVE  [Kept!Next]_Kept!accountVars
<1>1. ASSUME NEW c \in Client, Connect(c) PROVE UNCHANGED Kept!accountVars
  BY <1>1, UnseenStep DEF Connect
<1>2. ASSUME NEW c \in Client, Disconnect(c) PROVE Kept!Leave(c)
  <2>1. Using' = [Using EXCEPT ![c] = {}]
    BY <1>2 DEF Disconnect, TypeOK, Using, Updatable
  <2> QED
    BY <1>2, <2>1 DEF Kept!Leave, Disconnect, Using, Updatable
<1>3. ASSUME NEW l \in Loop, Receive(l) \/ Admit(l) \/ Refuse(l) \/ InsertConn(l)
      PROVE  UNCHANGED Kept!accountVars
  BY <1>3, UnseenStep DEF Receive, Admit, Refuse, InsertConn
<1>4. ASSUME NEW l \in Loop, UpdateState(l) PROVE [Kept!Next]_Kept!accountVars
  <2>1. PICK a \in Account : a = task[l].account
    BY <1>4, TaskIsLogin DEF UpdateState, At
  <2>2. granted' = granted /\ sig' = sig /\ Updatable' = Updatable
    BY <1>4 DEF UpdateState, Updatable
  <2>3. CASE dbState' = dbState
    BY <2>2, <2>3, UnseenStep
  <2>4. CASE dbState' # dbState
    <3>1. a \in Updatable /\ dbState' = [dbState EXCEPT ![a] = "online"]
      BY <1>4, <2>1, <2>4 DEF UpdateState
    <3>2. dbState[a] # "online" /\ Online' = Online \cup {a}
      BY <2>2, <2>4, <3>1 DEF TypeOK, Online, Updatable
    <3>3. Kept!Occupy(a)
      BY <2>2, <3>1, <3>2 DEF Kept!Occupy, Online
    <3> QED
      BY <3>1, <3>3 DEF Kept!Next
  <2> QED
    BY <2>3, <2>4
<1>5. ASSUME NEW l \in Loop, Register(l) PROVE UNCHANGED Kept!accountVars
  <2>1. Online' = Online
    BY <1>5 DEF Register, TypeOK, Online, Updatable
  <2> QED
    BY <1>5, <2>1 DEF Register, Kept!accountVars, Online, Updatable
<1>6. CASE Interrupt
  BY <1>6 DEF Interrupt, Kept!Next, Kept!BeginReset, Updatable
<1>7. CASE ResetState
  <2>1. sig # "none" /\ sig' # "none" /\ granted' = granted
    BY <1>7 DEF ResetState, Role, AfterReset
  <2>2. Online' \subseteq Online
    BY <1>7 DEF ResetState, Online, Updatable, TypeOK
  <2>3. Kept!Free
    BY <2>1, <2>2 DEF Kept!Free, Online, Updatable
  <2> QED
    BY <2>3 DEF Kept!Next
<1>8. CASE StopProcess
  <2>1. Using' = [c \in Client |-> {}]
    BY <1>8 DEF StopProcess, Using, Updatable
  <2> QED
    BY <1>8, <2>1 DEF StopProcess, Kept!Next, Kept!End, Using, Updatable
<1>9. CASE Restart \/ UNCHANGED vars
  BY <1>9, UnseenStep DEF Restart, vars
<1> QED
  BY <1>1, <1>2, <1>3, <1>4, <1>5, <1>6, <1>7, <1>8, <1>9, LetInStep
  DEF Next, Handler, Exit, Crash, Kept!Next

(***************************************************************************)
(* With statements that succeed the handlers implement Accounts: whoever is *)
(* let in is online, alone in its loop, and what is online is freed by      *)
(* reset() only.                                                            *)
(***************************************************************************)
THEOREM Implementation ==
  ASSUME ~DbFails
  PROVE  Spec => KeepsAccounts
<1>1. Init => Kept!Init
  BY DEF Init, Kept!Init, Updatable
<1>2. Spec => []TypeOK
  BY TypeCorrect
<1>3. Spec => []LoopInv
  BY LoginsKeepApart
<1> QED
  BY <1>1, <1>2, <1>3, AccountStep, PTL DEF Spec, KeepsAccounts, Kept!Spec
=============================================================================
