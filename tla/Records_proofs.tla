--------------------------- MODULE Records_proofs ---------------------------
(***************************************************************************)
(* Theorems about Records, for any number of event loops, connections,      *)
(* rows and requests: types, what a handler holds, and that an answer about *)
(* an insertion and the names of a report are true.                         *)
(***************************************************************************)
EXTENDS Records, FiniteSetTheorems, SequenceTheorems, TLAPS

(* The tests and helpers that most steps need are always expanded. *)
USE DEF Frames, NoTask, At, Runs, Goto, Answer, GivesUp, AfterNested

-----------------------------------------------------------------------------
(* Tasks. *)

\* A loop that is not idle has a complete task.
LEMMA TaskType ==
  ASSUME TypeOK, NEW l \in Loop, ~At(l, "idle")
  PROVE  task[l] \in Task
BY DEF TypeOK

\* What changing one field does to a task.
LEMMA TaskFields ==
  ASSUME NEW t \in Task
  PROVE  /\ t.pc \in PC \ {"idle"} /\ t.req \in Request /\ t.own \in Nat
         /\ t.id \in Nat /\ t.ok \in BOOLEAN /\ t.todo \in SUBSET (Nat \ {0})
         /\ t.report \in SUBSET [course : Nat, name : Content \cup {NoName}]
         /\ \A p \in PC \ {"idle"} : [t EXCEPT !.pc = p] \in Task
         /\ \A p \in PC \ {"idle"}, b \in BOOLEAN :
              [t EXCEPT !.ok = b, !.pc = p] \in Task
BY DEF Task, PC

\* Requests of each kind have the fields their handlers read.
LEMMA RequestFields ==
  ASSUME NEW q \in Request
  PROVE  /\ q.op = "insert" => q.table \in Table /\ q.content \in Content
         /\ q.op # "insert" => q.choice \in Choice /\ q.class \in Content
BY DEF Request, Change, Query

-----------------------------------------------------------------------------
(* Types. *)

\* Borrowing moves one connection from the pool to a frame.
LEMMA BorrowType ==
  ASSUME TypeOK, NEW f \in Frames, Pool!Borrow(f)
  PROVE  idle' \in SUBSET Conn /\ holds' \in [Frames -> Conn \cup {NULL}]
BY DEF TypeOK, Pool!Borrow

LEMMA InitType == ASSUME Init PROVE TypeOK
<1>1. \A t \in Table : StoredRow[t] \in Seq(Content \cup {NULL})
  <2>1. SUFFICES ASSUME NEW t \in Table PROVE StoredRow[t] \in Seq(Content \cup {NULL})
    OBVIOUS
  <2>2. StoredRow[t] \in Seq(Content)
    BY RecordsAssumption
  <2> QED
    BY <2>2
<1> QED
  BY <1>1, RecordsAssumption DEF Init, TypeOK, Pool!Init

LEMMA TypeStep ==
  ASSUME TypeOK, Holding, [Next]_vars
  PROVE  TypeOK'
<1> USE DEF TypeOK
<1>a. \A l \in Loop : ~At(l, "idle") => task[l] \in Task
  BY TaskType
<1>1. ASSUME NEW l \in Loop, Receive(l) PROVE TypeOK'
  BY <1>1, RecordsAssumption DEF Receive, Task, PC
<1>2. ASSUME NEW l \in Loop, GetConnection(l) PROVE TypeOK'
  <2>1. task[l] \in Task
    BY <1>2, <1>a DEF GetConnection
  <2>2. \A p \in PC \ {"idle"} : [task[l] EXCEPT !.pc = p] \in Task
    BY <2>1, TaskFields
  <2>3. \A p \in PC \ {"idle"} : Goto(l, p) => task' \in [Loop -> Task \cup {NoTask}]
    BY <2>2
  <2>4. task' \in [Loop -> Task \cup {NoTask}]
    BY <1>2, <2>3 DEF GetConnection, PC
  <2>5. idle' \in SUBSET Conn /\ holds' \in [Frames -> Conn \cup {NULL}]
    BY <1>2, BorrowType DEF GetConnection
  <2> QED
    BY <1>2, <2>4, <2>5 DEF GetConnection
<1>3. ASSUME NEW l \in Loop, FailStatement(l) PROVE TypeOK'
  BY <1>3, <1>a, TaskFields DEF FailStatement, PC
<1>4. ASSUME NEW l \in Loop, Insert(l) PROVE TypeOK'
  <2>1. task[l] \in Task /\ task[l].req.table \in Table /\ task[l].req.content \in Content
    BY <1>4, <1>a, TaskFields, RequestFields DEF Insert
  <2>2. row' \in [Table -> Seq(Content \cup {NULL})]
    BY <1>4, <2>1 DEF Insert
  <2>3. insertId' \in [Conn -> Nat]
    <3>1. Len(row[task[l].req.table]) + 1 \in Nat
      BY <2>1
    <3> QED
      BY <1>4, <3>1 DEF Insert
  <2>4. task' \in [Loop -> Task \cup {NoTask}]
    <3> DEFINE i == Len(row[task[l].req.table]) + 1
    <3>1. i \in Nat
      BY <2>1
    <3>2. [task[l] EXCEPT !.own = i, !.pc = "readId"] \in Task
      BY <3>1, <2>1 DEF Task, PC
    <3>3. task' = [task EXCEPT ![l] = [task[l] EXCEPT !.own = i, !.pc = "readId"]]
      BY <1>4 DEF Insert
    <3> QED
      BY <3>2, <3>3
  <2> QED
    BY <1>4, <2>2, <2>3, <2>4 DEF Insert
<1>5. ASSUME NEW l \in Loop, ReadId(l) PROVE TypeOK'
  <2>1. task[l] \in Task /\ holds[<<l, 1>>] \in Conn
    BY <1>5, <1>a DEF ReadId, Holding
  <2>2. LastId(l) \in Nat
    BY <2>1 DEF LastId
  <2>3. \A p \in PC \ {"idle"} :
          [task[l] EXCEPT !.id = LastId(l), !.ok = TRUE, !.pc = p] \in Task
    BY <2>1, <2>2 DEF Task, PC
  <2> QED
    BY <1>5, <2>3 DEF ReadId, PC
<1>6. ASSUME NEW l \in Loop, RemoveCourse(l) PROVE TypeOK'
  <2>1. row' \in [Table -> Seq(Content \cup {NULL})]
    <3> DEFINE old == row["Courses"]
               new == [i \in DOMAIN old |-> IF i = task[l].req.choice.course THEN NULL ELSE old[i]]
    <3>1. old \in Seq(Content \cup {NULL})
      BY DEF Table
    <3>2. new \in Seq(Content \cup {NULL})
      <4>1. Len(old) \in Nat /\ DOMAIN old = 1..Len(old)
        BY <3>1
      <4>2. new \in [1..Len(old) -> Content \cup {NULL}]
        BY <3>1, <4>1
      <4> QED
        BY <4>1, <4>2, SeqDef
    <3>3. row' = [row EXCEPT !["Courses"] = new]
      BY <1>6 DEF RemoveCourse, Table
    <3> QED
      BY <3>2, <3>3
  <2>2. task' \in [Loop -> Task \cup {NoTask}]
    BY <1>6, <1>a, TaskFields DEF RemoveCourse, PC
  <2> QED
    BY <1>6, <2>1, <2>2 DEF RemoveCourse
<1>7. ASSUME NEW l \in Loop, GetNested(l) PROVE TypeOK'
  <2>1. task[l] \in Task
    BY <1>7, <1>a DEF GetNested
  <2>2. \A p \in PC \ {"idle"} : [task[l] EXCEPT !.pc = p] \in Task
    BY <2>1, TaskFields
  <2>3. \A p \in PC \ {"idle"} : Goto(l, p) => task' \in [Loop -> Task \cup {NoTask}]
    BY <2>2
  <2>4. task' \in [Loop -> Task \cup {NoTask}]
    BY <1>7, <2>3 DEF GetNested, PC
  <2>5. idle' \in SUBSET Conn /\ holds' \in [Frames -> Conn \cup {NULL}]
    BY <1>7, BorrowType DEF GetNested
  <2> QED
    BY <1>7, <2>4, <2>5 DEF GetNested
<1>8. ASSUME NEW l \in Loop, LeaveNested(l) PROVE TypeOK'
  BY <1>8, <1>a, TaskFields DEF LeaveNested, Pool!Return, PC
<1>9. ASSUME NEW l \in Loop, ChangeChoosing(l) PROVE TypeOK'
  <2>1. task[l] \in Task /\ task[l].req.choice \in Choice
    BY <1>9, <1>a, TaskFields, RequestFields DEF ChangeChoosing, Change
  <2>2. choosing' \in SUBSET Choice
    <3>1. CASE task[l].req.op = "insertChoosing"
      BY <1>9, <2>1, <3>1 DEF ChangeChoosing, Changed
    <3>2. CASE task[l].req.op = "removeChoosing"
      BY <1>9, <2>1, <3>2 DEF ChangeChoosing, Changed
    <3>3. CASE task[l].req.op = "updateScore"
      <4>1. \A r \in Choice : [r EXCEPT !.score = task[l].req.choice.score] \in Choice
        BY <2>1 DEF Choice
      <4> QED
        BY <1>9, <3>3, <4>1 DEF ChangeChoosing, Changed
    <3> QED
      BY <1>9, <3>1, <3>2, <3>3 DEF ChangeChoosing, Change
  <2>3. task' \in [Loop -> Task \cup {NoTask}]
    BY <1>9, <2>1, TaskFields DEF ChangeChoosing, PC
  <2> QED
    BY <1>9, <2>2, <2>3 DEF ChangeChoosing
<1>10. ASSUME NEW l \in Loop, RunQuery(l) PROVE TypeOK'
  <2>1. task[l] \in Task
    BY <1>10, <1>a DEF RunQuery
  <2>2. Finds(task[l].req) \in BOOLEAN
    BY DEF Finds
  <2> QED
    BY <1>10, <2>1, <2>2, TaskFields DEF RunQuery, PC
<1>11. ASSUME NEW l \in Loop, QueryAverages(l) PROVE TypeOK'
  <2> DEFINE found == ClassCoursesAverage(task[l].req.class)
  <2>1. task[l] \in Task
    BY <1>11, <1>a DEF QueryAverages
  <2>2. found \in SUBSET (Nat \ {0})
    <3>1. \A x \in choosing : x.course \in Nat \ {0}
      BY RecordsAssumption DEF Choice
    <3> QED
      BY <3>1 DEF ClassCoursesAverage
  <2>3. [task[l] EXCEPT !.todo = found, !.ok = found # {}, !.pc = "leave"] \in Task
    BY <2>1, <2>2 DEF Task, PC
  <2> QED
    BY <1>11, <2>3 DEF QueryAverages
<1>12. ASSUME NEW t \in Task, NEW c \in t.todo, NEW n \in Content \cup {NoName},
              NEW p \in PC \ {"idle"}
       PROVE  [t EXCEPT !.todo = @ \ {c}, !.report = @ \cup {[course |-> c, name |-> n]},
                 !.pc = p] \in Task
  <2>1. t.todo \ {c} \in SUBSET (Nat \ {0})
    BY DEF Task
  <2>2. c \in Nat
    BY DEF Task
  <2>3. t.report \cup {[course |-> c, name |-> n]}
          \in SUBSET [course : Nat, name : Content \cup {NoName}]
    BY <2>2 DEF Task
  <2>4. \A d \in SUBSET (Nat \ {0}) :
          \A e \in SUBSET [course : Nat, name : Content \cup {NoName}] :
            [t EXCEPT !.todo = d, !.report = e, !.pc = p] \in Task
    BY DEF Task
  <2> QED
    BY <2>1, <2>3, <2>4
<1>13. ASSUME NEW l \in Loop, GetNameConnection(l) PROVE TypeOK'
  <2>1. task[l] \in Task
    BY <1>13, <1>a DEF GetNameConnection
  <2>2. CASE Pool!Borrow(<<l, 1>>) /\ Goto(l, "name")
    <3>1. task' \in [Loop -> Task \cup {NoTask}]
      BY <2>1, <2>2, TaskFields DEF PC
    <3> QED
      BY <1>13, <2>2, <3>1, BorrowType DEF GetNameConnection
  <2>3. ASSUME NEW c \in task[l].todo, NEW p \in PC \ {"idle"},
               List(l, c, NoName, p), UNCHANGED <<idle, holds>>
        PROVE  TypeOK'
    BY <1>13, <2>1, <2>3, <1>12 DEF GetNameConnection, List
  <2> QED
    BY <1>13, <2>2, <2>3 DEF GetNameConnection, PC
<1>14. ASSUME NEW l \in Loop, QueryName(l) PROVE TypeOK'
  <2>1. task[l] \in Task
    BY <1>14, <1>a DEF QueryName
  <2>2. PICK c \in task[l].todo, n \in Content \cup {NoName} : List(l, c, n, "leave")
    BY <1>14 DEF QueryName, Exists, Table
  <2> QED
    BY <1>14, <2>1, <2>2, <1>12 DEF QueryName, List, PC
<1>15. ASSUME NEW l \in Loop, Leave(l) PROVE TypeOK'
  BY <1>15, <1>a, TaskFields DEF Leave, Pool!Return, PC
<1>16. ASSUME NEW l \in Loop, Reply(l) PROVE TypeOK'
  BY <1>16 DEF Reply
<1>17. ASSUME Grow PROVE TypeOK'
  BY <1>17 DEF Grow, Pool!Grow
<1>18. ASSUME Shrink PROVE TypeOK'
  BY <1>18 DEF Shrink, Pool!Shrink
<1>19. ASSUME UNCHANGED vars PROVE TypeOK'
  BY <1>19 DEF vars
<1> QED
  BY <1>1, <1>2, <1>3, <1>4, <1>5, <1>6, <1>7, <1>8, <1>9, <1>10, <1>11, <1>13,
     <1>14, <1>15, <1>16, <1>17, <1>18, <1>19 DEF Next, Handler

-----------------------------------------------------------------------------
(* Connections. *)

LEMMA Borrowed ==
  ASSUME TypeOK, NEW f \in Frames, Pool!Borrow(f)
  PROVE  /\ holds[f] = NULL /\ holds'[f] # NULL
         /\ \A g \in Frames : g # f => holds'[g] = holds[g]
BY RecordsAssumption DEF TypeOK, Pool!Borrow

LEMMA Returned ==
  ASSUME TypeOK, NEW f \in Frames, Pool!Return(f)
  PROVE  /\ holds[f] # NULL /\ holds'[f] = NULL
         /\ \A g \in Frames : g # f => holds'[g] = holds[g]
BY DEF TypeOK, Pool!Return

\* Where a handler is after a step, and that the others stay where they are.
LEMMA PcAfter ==
  ASSUME TypeOK, NEW l \in Loop, task[l] \in Task, NEW p,
         Goto(l, p) \/ \E c, n : List(l, c, n, p)
  PROVE  task'[l].pc = p /\ \A m \in Loop : m # l => task'[m] = task[m]
BY DEF TypeOK, Task, List

\* It is enough to look at the loop that takes the step.
LEMMA HoldingOf ==
  ASSUME Holding, NEW l \in Loop,
         \A m \in Loop : m # l => task'[m] = task[m],
         \A m \in Loop : m # l => /\ holds'[<<m, 1>>] = holds[<<m, 1>>]
                                 /\ holds'[<<m, 2>>] = holds[<<m, 2>>],
         holds'[<<l, 1>>] = NULL <=> task'[l].pc \in {"idle", "ask", "askName", "reply"},
         holds'[<<l, 2>>] = NULL <=> task'[l].pc \notin {"inCourse", "inTeacher"}
  PROVE  Holding'
BY DEF Holding

LEMMA HoldingStep ==
  ASSUME TypeOK, Holding, [Next]_vars
  PROVE  Holding'
<1>a. \A l \in Loop : ~At(l, "idle") => task[l] \in Task
  BY TaskType
<1>b. \A l, m \in Loop : /\ <<l, 1>> \in Frames /\ <<l, 2>> \in Frames
                         /\ <<l, 1>> # <<m, 2>>
                         /\ l # m => <<l, 1>> # <<m, 1>> /\ <<l, 2>> # <<m, 2>>
  OBVIOUS
\* The connection of the handler, the nested one, or none changes hands.
<1>c. ASSUME NEW l \in Loop, task[l] \in Task, NEW p \in {"askCourse", "run", "name"},
             Pool!Borrow(<<l, 1>>), task[l].pc \in {"ask", "askName"}, Goto(l, p)
      PROVE  Holding'
  <2>1. task'[l].pc = p /\ \A m \in Loop : m # l => task'[m] = task[m]
    BY <1>c, PcAfter
  <2>2. holds'[<<l, 1>>] # NULL /\ \A g \in Frames : g # <<l, 1>> => holds'[g] = holds[g]
    BY <1>c, <1>b, Borrowed
  <2>3. holds[<<l, 2>>] = NULL
    BY <1>c DEF Holding
  <2> QED
    BY <1>b, <1>c, <2>1, <2>2, <2>3, HoldingOf
<1>d. ASSUME NEW l \in Loop, task[l] \in Task, NEW p \in {"reply", "askName"},
             Pool!Return(<<l, 1>>), task[l].pc = "leave", Goto(l, p)
      PROVE  Holding'
  <2>1. task'[l].pc = p /\ \A m \in Loop : m # l => task'[m] = task[m]
    BY <1>d, PcAfter
  <2>2. holds'[<<l, 1>>] = NULL /\ \A g \in Frames : g # <<l, 1>> => holds'[g] = holds[g]
    BY <1>d, <1>b, Returned
  <2>3. holds[<<l, 2>>] = NULL
    BY <1>d DEF Holding
  <2> QED
    BY <1>b, <1>d, <2>1, <2>2, <2>3, HoldingOf
<1>e. ASSUME NEW l \in Loop, task[l] \in Task, NEW p \in {"inCourse", "inTeacher"},
             Pool!Borrow(<<l, 2>>), task[l].pc \in {"askCourse", "askTeacher"}, Goto(l, p)
      PROVE  Holding'
  <2>1. task'[l].pc = p /\ \A m \in Loop : m # l => task'[m] = task[m]
    BY <1>e, PcAfter
  <2>2. holds'[<<l, 2>>] # NULL /\ \A g \in Frames : g # <<l, 2>> => holds'[g] = holds[g]
    BY <1>e, <1>b, Borrowed
  <2>3. holds[<<l, 1>>] # NULL
    BY <1>e DEF Holding
  <2> QED
    BY <1>b, <1>e, <2>1, <2>2, <2>3, HoldingOf
<1>f. ASSUME NEW l \in Loop, task[l] \in Task, NEW p \in {"run", "leave"},
             Pool!Return(<<l, 2>>), task[l].pc \in {"inCourse", "inTeacher"}, Goto(l, p)
      PROVE  Holding'
  <2>1. task'[l].pc = p /\ \A m \in Loop : m # l => task'[m] = task[m]
    BY <1>f, PcAfter
  <2>2. holds'[<<l, 2>>] = NULL /\ \A g \in Frames : g # <<l, 2>> => holds'[g] = holds[g]
    BY <1>f, <1>b, Returned
  <2>3. holds[<<l, 1>>] # NULL
    BY <1>f DEF Holding
  <2> QED
    BY <1>b, <1>f, <2>1, <2>2, <2>3, HoldingOf
<1>1. ASSUME NEW l \in Loop, Receive(l) PROVE Holding'
  <2>1. task'[l].pc = "ask" /\ \A m \in Loop : m # l => task'[m] = task[m]
    BY <1>1 DEF Receive, TypeOK
  <2>2. holds[<<l, 1>>] = NULL /\ holds[<<l, 2>>] = NULL /\ UNCHANGED holds
    BY <1>1 DEF Receive, Holding
  <2> QED
    BY <2>1, <2>2, HoldingOf
<1>2. ASSUME NEW l \in Loop, GetConnection(l) PROVE Holding'
  <2>1. task[l] \in Task
    BY <1>2, <1>a DEF GetConnection
  <2>2. CASE Goto(l, "reply") /\ UNCHANGED holds
    BY <2>1, <2>2, <1>2 DEF GetConnection, Task, TypeOK, Holding
  <2> QED
    BY <1>2, <1>c, <2>1, <2>2 DEF GetConnection
<1>3. ASSUME NEW l \in Loop, FailStatement(l) PROVE Holding'
  BY <1>3, <1>a DEF FailStatement, Task, TypeOK, Holding
<1>4. ASSUME NEW l \in Loop, Insert(l) PROVE Holding'
  BY <1>4, <1>a DEF Insert, Task, TypeOK, Holding
<1>5. ASSUME NEW l \in Loop, ReadId(l) PROVE Holding'
  BY <1>5, <1>a DEF ReadId, Task, TypeOK, Holding
<1>6. ASSUME NEW l \in Loop, RemoveCourse(l) PROVE Holding'
  BY <1>6, <1>a DEF RemoveCourse, Task, TypeOK, Holding
<1>7. ASSUME NEW l \in Loop, GetNested(l) PROVE Holding'
  <2>1. task[l] \in Task
    BY <1>7, <1>a DEF GetNested
  <2>2. ASSUME NEW p \in {"run", "leave"}, Goto(l, p), UNCHANGED holds
        PROVE  Holding'
    BY <2>1, <2>2, <1>7 DEF GetNested, Task, TypeOK, Holding
  <2> QED
    BY <1>7, <1>e, <2>1, <2>2 DEF GetNested
<1>8. ASSUME NEW l \in Loop, LeaveNested(l) PROVE Holding'
  BY <1>8, <1>a, <1>f DEF LeaveNested
<1>9. ASSUME NEW l \in Loop, ChangeChoosing(l) PROVE Holding'
  BY <1>9, <1>a DEF ChangeChoosing, Task, TypeOK, Holding
<1>10. ASSUME NEW l \in Loop, RunQuery(l) PROVE Holding'
  BY <1>10, <1>a DEF RunQuery, Task, TypeOK, Holding
<1>11. ASSUME NEW l \in Loop, QueryAverages(l) PROVE Holding'
  BY <1>11, <1>a DEF QueryAverages, Task, TypeOK, Holding
\* Looking a name up, with or without a connection.
<1>g. ASSUME NEW l \in Loop, task[l] \in Task, NEW c, NEW n, NEW p \in PC \ {"idle"},
             List(l, c, n, p), UNCHANGED holds,
             \/ task[l].pc = "askName" /\ p \in {"reply", "askName"}
             \/ task[l].pc = "name" /\ p = "leave"
      PROVE  Holding'
  <2>1. task'[l].pc = p /\ \A m \in Loop : m # l => task'[m] = task[m]
    BY <1>g, PcAfter
  <2> QED
    BY <1>g, <2>1, HoldingOf DEF Holding
<1>12. ASSUME NEW l \in Loop, GetNameConnection(l) PROVE Holding'
  <2>1. task[l] \in Task /\ task[l].pc = "askName"
    BY <1>12, <1>a DEF GetNameConnection
  <2>2. CASE Pool!Borrow(<<l, 1>>) /\ Goto(l, "name")
    BY <1>c, <2>1, <2>2
  <2>3. ASSUME NEW c, NEW p \in {"reply", "askName"}, List(l, c, NoName, p), UNCHANGED holds
        PROVE  Holding'
    BY <1>g, <2>1, <2>3 DEF PC
  <2> QED
    BY <1>12, <2>2, <2>3 DEF GetNameConnection
<1>13. ASSUME NEW l \in Loop, QueryName(l) PROVE Holding'
  <2>1. task[l] \in Task /\ task[l].pc = "name" /\ UNCHANGED holds
    BY <1>13, <1>a DEF QueryName
  <2>2. PICK c, n : List(l, c, n, "leave")
    BY <1>13 DEF QueryName
  <2> QED
    BY <1>g, <2>1, <2>2 DEF PC
<1>14. ASSUME NEW l \in Loop, Leave(l) PROVE Holding'
  BY <1>14, <1>a, <1>d DEF Leave
<1>15. ASSUME NEW l \in Loop, Reply(l) PROVE Holding'
  BY <1>15 DEF Reply, TypeOK, Holding
<1>16. ASSUME Grow PROVE Holding'
  BY <1>16 DEF Grow, Pool!Grow, Holding
<1>17. ASSUME Shrink PROVE Holding'
  BY <1>17 DEF Shrink, Pool!Shrink, Holding
<1>18. ASSUME UNCHANGED vars PROVE Holding'
  BY <1>18 DEF vars, Holding
<1> QED
  BY <1>1, <1>2, <1>3, <1>4, <1>5, <1>6, <1>7, <1>8, <1>9, <1>10, <1>11, <1>12,
     <1>13, <1>14, <1>15, <1>16, <1>17, <1>18 DEF Next, Handler

\* Every step of Next is a step of the pool, or leaves the pool alone.
LEMMA PoolStep ==
  ASSUME [Next]_vars
  PROVE  \/ \E f \in Frames : Pool!Borrow(f) \/ Pool!Return(f)
         \/ Pool!Grow
         \/ Pool!Shrink
         \/ UNCHANGED <<idle, holds>>
<1>1. ASSUME NEW l \in Loop, Receive(l) \/ Handler(l)
      PROVE  \/ \E f \in Frames : Pool!Borrow(f) \/ Pool!Return(f)
             \/ UNCHANGED <<idle, holds>>
  <2>1. <<l, 1>> \in Frames /\ <<l, 2>> \in Frames
    OBVIOUS
  <2> QED
    BY <1>1, <2>1
    DEF Handler, Receive, GetConnection, FailStatement, Insert, ReadId, RemoveCourse,
        GetNested, LeaveNested, ChangeChoosing, RunQuery, QueryAverages,
        GetNameConnection, QueryName, Leave, Reply
<1> QED
  BY <1>1 DEF Next, Grow, Shrink, vars

\* HeldOnce, connection by connection.
LEMMA LentOf ==
  ASSUME TypeOK
  PROVE  HeldOnce <=> /\ \A g \in Frames : holds[g] # NULL => holds[g] \notin idle
                      /\ \A f, g \in Frames : holds[f] = holds[g] /\ holds[f] # NULL => f = g
<1>1. DOMAIN holds = Frames
  BY DEF TypeOK
<1>2. Pool!Lent = {holds[g] : g \in Frames} \ {NULL}
  BY <1>1 DEF Pool!Lent, Pool!Range
<1>3. idle \cap Pool!Lent = {} <=> \A g \in Frames : holds[g] # NULL => holds[g] \notin idle
  BY <1>2
<1> QED
  BY <1>3 DEF HeldOnce

\* After a step, too.
LEMMA LentIsNotIdle ==
  ASSUME TypeOK', HeldOnce', NEW f \in Frames, holds'[f] # NULL
  PROVE  holds'[f] \notin idle'
<1> DEFINE Apart == \A g \in Frames : holds[g] # NULL => holds[g] \notin idle
<1>1. TypeOK' /\ HeldOnce' => Apart'
  BY LentOf, PTL
<1> QED
  BY <1>1

LEMMA HeldOnceStep ==
  ASSUME TypeOK, TypeOK', HeldOnce, [Next]_vars
  PROVE  HeldOnce'
<1> DEFINE Apart == /\ \A g \in Frames : holds[g] # NULL => holds[g] \notin idle
                    /\ \A f, g \in Frames : holds[f] = holds[g] /\ holds[f] # NULL => f = g
<1>a. (HeldOnce <=> Apart) /\ (HeldOnce' <=> Apart')
  BY LentOf, PTL
<1>b. NULL \notin Conn /\ idle \subseteq Conn /\ DOMAIN holds = Frames
  BY RecordsAssumption DEF TypeOK
<1>c. Apart
  BY <1>a
<1> HIDE DEF Apart
<1>1. ASSUME NEW f \in Frames, Pool!Borrow(f) PROVE Apart'
  <2>1. PICK c \in idle : idle' = idle \ {c} /\ holds' = [holds EXCEPT ![f] = c]
    BY <1>1 DEF Pool!Borrow
  <2>2. \A g \in Frames : holds'[g] = IF g = f THEN c ELSE holds[g]
    BY <1>b, <2>1
  <2>3. \A g \in Frames : holds[g] # c
    BY <1>b, <1>c, <2>1 DEF Apart
  <2> QED
    BY <1>b, <1>c, <2>1, <2>2, <2>3 DEF Apart
<1>2. ASSUME NEW f \in Frames, Pool!Return(f) PROVE Apart'
  <2>1. \A g \in Frames : holds'[g] = IF g = f THEN NULL ELSE holds[g]
    BY <1>b, <1>2 DEF Pool!Return
  <2>2. holds[f] # NULL /\ idle' = idle \cup {holds[f]}
    BY <1>2 DEF Pool!Return
  <2> QED
    BY <1>c, <2>1, <2>2 DEF Apart
<1>3. ASSUME Pool!Grow PROVE Apart'
  <2>1. PICK c \in Conn \ Pool!Lent : idle' = {c} /\ UNCHANGED holds
    BY <1>3 DEF Pool!Grow
  <2>2. \A g \in Frames : holds[g] # NULL => holds[g] \in Pool!Lent
    BY <1>b DEF Pool!Lent, Pool!Range
  <2>3. \A g \in Frames : holds[g] # NULL => holds[g] # c
    BY <2>1, <2>2
  <2> QED
    BY <1>c, <2>1, <2>3, SMT DEF Apart
<1>4. ASSUME Pool!Shrink PROVE Apart'
  <2>1. idle' \subseteq idle /\ holds' = holds
    BY <1>4 DEF Pool!Shrink
  <2> QED
    BY <2>1, <1>c, SMT DEF Apart
<1>5. ASSUME UNCHANGED <<idle, holds>> PROVE Apart'
  BY <1>5, <1>c, SMT DEF Apart
<1> QED
  BY <1>a, <1>1, <1>2, <1>3, <1>4, <1>5, PoolStep

-----------------------------------------------------------------------------
(* Insertions. *)

\* A row stays what it is until it is deleted.
RowsKept ==
  \A t \in Table : \A i \in DOMAIN row[t] :
    i \in DOMAIN row'[t] /\ row'[t][i] \in {row[t][i], NULL}

LEMMA RowsKeptStep ==
  ASSUME TypeOK, [Next]_vars
  PROVE  RowsKept
<1>1. ASSUME NEW l \in Loop, Insert(l) PROVE RowsKept
  <2>1. task[l].req.table \in Table
    BY <1>1, TaskType, TaskFields, RequestFields DEF Insert
  <2>2. \A t \in Table : row[t] \in Seq(Content \cup {NULL})
    BY DEF TypeOK
  <2>3. \A t \in Table : row'[t] = IF t = task[l].req.table
                                   THEN Append(row[t], task[l].req.content) ELSE row[t]
    BY <1>1, <2>1 DEF Insert, TypeOK
  <2>4. SUFFICES ASSUME NEW t \in Table, NEW i \in DOMAIN row[t]
                 PROVE  i \in DOMAIN row'[t] /\ row'[t][i] = row[t][i]
    BY DEF RowsKept
  <2>5. i \in 1..Len(row[t])
    BY <2>2
  <2>6. CASE t = task[l].req.table
    <3>1. row'[t] = Append(row[t], task[l].req.content)
      BY <2>3, <2>6
    <3> QED
      BY <2>2, <2>5, <3>1
  <2> QED
    BY <2>3, <2>6
<1>2. ASSUME NEW l \in Loop, RemoveCourse(l) PROVE RowsKept
  <2>1. \A t \in Table :
          row'[t] = IF t = "Courses"
                    THEN [i \in DOMAIN row[t] |->
                            IF i = task[l].req.choice.course THEN NULL ELSE row[t][i]]
                    ELSE row[t]
    BY <1>2 DEF RemoveCourse, TypeOK
  <2> QED
    BY <2>1 DEF RowsKept
<1>3. ASSUME UNCHANGED row PROVE RowsKept
  BY <1>3 DEF RowsKept
<1> QED
  BY <1>1, <1>2, <1>3
  DEF Next, Handler, Receive, GetConnection, FailStatement, ReadId, GetNested,
      LeaveNested, ChangeChoosing, RunQuery, QueryAverages, GetNameConnection,
      QueryName, Leave, Reply, Grow, Shrink, vars

\* A loop that takes no step has its insertion remembered.
LEMMA RememberedStays ==
  ASSUME TypeOK, RowsKept, NEW l \in Loop, Remembered(l), task'[l] = task[l],
         task[l].pc = "readId" => insertId'[holds'[<<l, 1>>]] = insertId[holds[<<l, 1>>]]
  PROVE  Remembered(l)'
<1>1. CASE ~Handles(l, {"insert"})
  BY <1>1 DEF Remembered, Handles
<1>2. CASE Handles(l, {"insert"})
  <2>1. task[l].req.table \in Table
    BY <1>2, TaskType, TaskFields, RequestFields DEF Handles
  <2>2. task[l].own # 0 =>
          /\ task[l].own \in DOMAIN row'[task[l].req.table]
          /\ row'[task[l].req.table][task[l].own] \in {task[l].req.content, NULL}
    BY <1>2, <2>1 DEF Remembered, RowsKept
  <2> QED
    BY <1>2, <2>2 DEF Remembered, Handles
<1> QED
  BY <1>1, <1>2

\* Nor does it lose it by a step that leaves its insertion alone.
LEMMA RememberedGoes ==
  ASSUME TypeOK, RowsKept, NEW l \in Loop, Remembered(l), Handles(l, {"insert"}),
         task'[l].req = task[l].req, task'[l].own = task[l].own,
         task'[l].todo = task[l].todo, task'[l].id = task[l].id,
         task'[l].ok = task[l].ok,
         \/ task[l].pc = "ask" /\ task'[l].pc \in {"run", "reply"}
         \/ /\ task[l].pc \notin {"ask", "run", "readId"}
            /\ task'[l].pc \notin {"ask", "run", "readId", "askCourse", "inCourse"}
  PROVE  Remembered(l)'
<1>1. task[l].req.table \in Table
  BY TaskType, TaskFields, RequestFields DEF Handles
<1>2. task[l].own # 0 =>
        /\ task[l].own \in DOMAIN row'[task[l].req.table]
        /\ row'[task[l].req.table][task[l].own] \in {task[l].req.content, NULL}
  BY <1>1 DEF Remembered, RowsKept
<1> QED
  BY <1>2 DEF Remembered, Handles

\* What another loop does, the pool's threads included, does not touch the id
\* that the loop's connection keeps.
LEMMA IdKept ==
  ASSUME RecordsInv, TypeOK', Holding', HeldOnce', [Next]_vars, NEW l \in Loop,
         task'[l] = task[l], task[l].pc = "readId"
  PROVE  insertId'[holds'[<<l, 1>>]] = insertId[holds[<<l, 1>>]]
<1> DEFINE c == holds[<<l, 1>>]
<1>1. <<l, 1>> \in Frames /\ c \in Conn
  BY DEF RecordsInv, Holding, TypeOK
<1>2. c # NULL /\ holds'[<<l, 1>>] # NULL
  BY DEF RecordsInv, Holding
<1>3. c \notin idle
  BY <1>1, <1>2, LentOf DEF RecordsInv
<1>4. holds'[<<l, 1>>] = c
  <2>1. ASSUME NEW f \in Frames, Pool!Borrow(f) PROVE holds'[<<l, 1>>] = c
    <3>1. f # <<l, 1>>
      BY <1>2, <2>1 DEF Pool!Borrow
    <3> QED
      BY <1>1, <2>1, <3>1, Borrowed DEF RecordsInv
  <2>2. ASSUME NEW f \in Frames, Pool!Return(f) PROVE holds'[<<l, 1>>] = c
    <3>1. f # <<l, 1>>
      BY <1>1, <1>2, <2>2, Returned DEF RecordsInv
    <3> QED
      BY <1>1, <2>2, <3>1, Returned DEF RecordsInv
  <2>3. Pool!Grow \/ Pool!Shrink \/ UNCHANGED <<idle, holds>> => holds'[<<l, 1>>] = c
    BY DEF Pool!Grow, Pool!Shrink
  <2> QED
    BY <2>1, <2>2, <2>3, PoolStep
<1>5. ASSUME NEW m \in Loop, Insert(m) PROVE insertId'[c] = insertId[c]
  <2>1. m # l
    BY <1>5 DEF Insert
  <2>2. <<m, 1>> \in Frames /\ <<m, 1>> # <<l, 1>>
    BY <2>1
  <2>3. holds[<<m, 1>>] # c
    BY <1>1, <1>2, <2>2 DEF RecordsInv, HeldOnce
  <2> QED
    BY <1>1, <1>5, <2>3 DEF Insert, RecordsInv, TypeOK
<1>6. ASSUME Grow PROVE insertId'[c] = insertId[c]
  <2>1. c \notin idle'
    BY <1>1, <1>2, <1>4, LentIsNotIdle
  <2> QED
    BY <1>1, <1>6, <2>1 DEF Grow
<1>7. UNCHANGED insertId => insertId'[c] = insertId[c]
  OBVIOUS
<1>8. insertId'[c] = insertId[c]
  BY <1>5, <1>6, <1>7
  DEF Next, Handler, Receive, GetConnection, FailStatement, ReadId, RemoveCourse,
      GetNested, LeaveNested, ChangeChoosing, RunQuery, QueryAverages,
      GetNameConnection, QueryName, Leave, Reply, Shrink, vars
<1> QED
  BY <1>4, <1>8

\* The loop that takes the step.
LEMMA RememberedStep ==
  ASSUME RecordsInv, RowsKept, NEW l \in Loop, Receive(l) \/ Handler(l)
  PROVE  Remembered(l)'
<1>a. TypeOK /\ Remembered(l) /\ (~At(l, "idle") => task[l] \in Task)
  BY TaskType DEF RecordsInv, InsertRemembered
\* A handler keeps its request.
<1>b. ASSUME Handler(l), ~Reply(l)
      PROVE  task[l] \in Task /\ task[l].pc # "idle" /\ task'[l].req = task[l].req
  <2>1. task[l].pc # "idle"
    BY <1>b
    DEF Handler, GetConnection, FailStatement, Insert, ReadId, RemoveCourse, GetNested,
        LeaveNested, ChangeChoosing, RunQuery, QueryAverages, GetNameConnection,
        QueryName, Leave
  <2>2. task[l] \in Task
    BY <2>1, <1>a
  <2>3. GetConnection(l) \/ FailStatement(l) => task'[l].req = task[l].req
    BY <1>a, <2>2 DEF GetConnection, FailStatement, TypeOK, Task
  <2>4. Insert(l) => task'[l].req = task[l].req
    BY <1>a, <2>2 DEF Insert, TypeOK, Task
  <2>8. ReadId(l) => task'[l].req = task[l].req
    BY <1>a, <2>2 DEF ReadId, TypeOK, Task
  <2>9. QueryAverages(l) => task'[l].req = task[l].req
    <3>1. \A found, b :
            task' = [task EXCEPT ![l].todo = found, ![l].ok = b, ![l].pc = "leave"]
              => task'[l].req = task[l].req
      BY <1>a, <2>2 DEF TypeOK, Task
    <3> QED
      BY <3>1 DEF QueryAverages
  <2>5. RemoveCourse(l) \/ GetNested(l) \/ LeaveNested(l) => task'[l].req = task[l].req
    BY <1>a, <2>2 DEF RemoveCourse, GetNested, LeaveNested, TypeOK, Task
  <2>6. ChangeChoosing(l) \/ RunQuery(l) \/ Leave(l) => task'[l].req = task[l].req
    BY <1>a, <2>2 DEF ChangeChoosing, RunQuery, Leave, TypeOK, Task
  <2>7. \A c, n, p : List(l, c, n, p) => task'[l].req = task[l].req
    BY <1>a, <2>2 DEF List, TypeOK, Task
  <2>10. Goto(l, "name") => task'[l].req = task[l].req
    BY <1>a, <2>2 DEF TypeOK, Task
  <2>11. QueryName(l) => \E c, n, p : List(l, c, n, p)
    BY DEF QueryName
  <2>12. GetNameConnection(l) => Goto(l, "name") \/ \E c, n, p : List(l, c, n, p)
    BY DEF GetNameConnection
  <2> QED
    BY <1>b, <2>1, <2>2, <2>3, <2>4, <2>5, <2>6, <2>7, <2>8, <2>9, <2>10, <2>11, <2>12
    DEF Handler
\* What a step that only moves on does.
<1>c. ASSUME NEW p, Goto(l, p), task[l] \in Task
      PROVE  /\ task'[l].pc = p /\ task'[l].req = task[l].req
             /\ task'[l].own = task[l].own /\ task'[l].todo = task[l].todo
             /\ task'[l].id = task[l].id /\ task'[l].ok = task[l].ok
  BY <1>a, <1>c DEF TypeOK, Task
<1>1. CASE Receive(l)
  <2>1. task'[l].pc = "ask" /\ task'[l].own = 0 /\ ~task'[l].ok /\ task'[l].todo = {}
    BY <1>1, <1>a DEF Receive, TypeOK
  <2> QED
    BY <2>1 DEF Remembered
<1>2. CASE Reply(l)
  BY <1>2, <1>a DEF Reply, TypeOK, Remembered, Handles
<1>3. CASE Handler(l) /\ ~Reply(l) /\ task[l].req.op # "insert"
  BY <1>3, <1>b DEF Remembered, Handles
<1>4. CASE Handler(l) /\ ~Reply(l) /\ task[l].req.op = "insert"
  <2>1. task[l] \in Task /\ Handles(l, {"insert"}) /\ task'[l].req = task[l].req
    BY <1>4, <1>b DEF Handles
  <2>2. task[l].req.table \in Table /\ task[l].req.content \in Content
    BY <1>4, <2>1, TaskFields, RequestFields
  <2>3. task[l].todo = {} /\ task[l].pc \notin {"askCourse", "inCourse"}
    BY <2>1, <1>a DEF Remembered
  <2>4. CASE GetConnection(l)
    <3>1. task[l].pc = "ask" /\ (Goto(l, "run") \/ Goto(l, "reply"))
      BY <2>4, <1>4 DEF GetConnection
    <3>2. CASE Goto(l, "run")
      BY <3>1, <3>2, <1>a, <1>c, <2>1, RememberedGoes
    <3>3. CASE Goto(l, "reply")
      BY <3>1, <3>3, <1>a, <1>c, <2>1, RememberedGoes
    <3> QED
      BY <3>1, <3>2, <3>3
  <2>5. CASE FailStatement(l)
    <3>1. /\ task[l].pc = "run" /\ task'[l].pc = "leave" /\ task'[l].ok = FALSE
          /\ task'[l].own = task[l].own /\ task'[l].todo = task[l].todo
      BY <2>5, <1>a, <2>1 DEF FailStatement, TypeOK, Task
    <3>2. task[l].own = 0
      BY <3>1, <1>a, <2>1 DEF Remembered
    <3> QED
      BY <3>1, <3>2, <2>3 DEF Remembered
  <2>6. CASE Insert(l)
    <3> DEFINE t == task[l].req.table
               i == Len(row[t]) + 1
    <3>1. /\ task'[l].pc = "readId" /\ task'[l].own = i /\ task'[l].todo = task[l].todo
      BY <2>6, <1>a, <2>1 DEF Insert, TypeOK, Task
    <3>2. row'[t] = Append(row[t], task[l].req.content)
      BY <2>6, <2>2, <1>a DEF Insert, TypeOK
    <3>3. i # 0 /\ i \in DOMAIN row'[t] /\ row'[t][i] = task[l].req.content
      <4>1. row[t] \in Seq(Content \cup {NULL})
        BY <2>2, <1>a DEF TypeOK
      <4> HIDE DEF t
      <4>2. i \in Nat /\ i # 0 /\ Len(row'[t]) = i
        BY <4>1, <3>2, <2>2
      <4> QED
        BY <4>1, <4>2, <3>2, <2>2
    <3>4. holds'[<<l, 1>>] = holds[<<l, 1>>] /\ holds[<<l, 1>>] \in Conn
      BY <2>6 DEF Insert, RecordsInv, Holding, TypeOK
    <3>5. insertId'[holds'[<<l, 1>>]] = i
      BY <2>6, <3>4, <1>a DEF Insert, TypeOK
    <3> QED
      BY <3>1, <3>3, <3>5, <2>1, <2>3 DEF Remembered
  <2>7. CASE ReadId(l)
    <3>1. /\ task[l].pc = "readId" /\ task'[l].pc \in {"askTeacher", "leave"}
          /\ task'[l].ok = TRUE /\ task'[l].id = insertId[holds[<<l, 1>>]]
          /\ task'[l].own = task[l].own /\ task'[l].todo = task[l].todo
      BY <2>7, <1>a, <2>1 DEF ReadId, LastId, TypeOK, Task
    <3>2. /\ task[l].own # 0 /\ insertId[holds[<<l, 1>>]] = task[l].own
          /\ task[l].own \in DOMAIN row[task[l].req.table]
          /\ row[task[l].req.table][task[l].own] \in {task[l].req.content, NULL}
      BY <3>1, <1>a, <2>1 DEF Remembered
    <3>3. row' = row
      BY <2>7 DEF ReadId
    <3> QED
      BY <3>1, <3>2, <3>3, <2>1, <2>3 DEF Remembered
  <2>8. CASE GetNested(l)
    <3>1. task[l].pc = "askTeacher" /\ (Goto(l, "inTeacher") \/ Goto(l, "leave"))
      BY <2>8, <2>3 DEF GetNested
    <3> QED
      BY <3>1, <1>a, <1>c, <2>1, RememberedGoes
  <2>9. CASE LeaveNested(l)
    <3>1. task[l].pc = "inTeacher" /\ Goto(l, "leave")
      BY <2>9, <2>3 DEF LeaveNested
    <3> QED
      BY <3>1, <1>a, <1>c, <2>1, RememberedGoes
  <2>10. CASE Leave(l)
    <3>1. task[l].pc = "leave" /\ Goto(l, "reply")
      BY <2>10, <2>3 DEF Leave
    <3> QED
      BY <3>1, <1>a, <1>c, <2>1, RememberedGoes
  <2>11. CASE GetNameConnection(l)
    <3>1. task[l].pc = "askName" /\ Goto(l, "name")
      BY <2>11, <2>3 DEF GetNameConnection
    <3> QED
      BY <3>1, <1>a, <1>c, <2>1, RememberedGoes
  <2>12. ~(RemoveCourse(l) \/ ChangeChoosing(l) \/ RunQuery(l) \/ QueryAverages(l)
             \/ QueryName(l))
    BY <1>4, <2>3
    DEF RemoveCourse, ChangeChoosing, RunQuery, QueryAverages, QueryName, Change, Query
  <2> QED
    BY <1>4, <2>4, <2>5, <2>6, <2>7, <2>8, <2>9, <2>10, <2>11, <2>12 DEF Handler
<1> QED
  BY <1>1, <1>2, <1>3, <1>4

\* A step of one loop leaves the other loops' tasks alone.
LEMMA OthersStay ==
  ASSUME TypeOK, NEW l \in Loop, Receive(l) \/ Handler(l)
  PROVE  \A m \in Loop : m # l => task'[m] = task[m]
BY DEF TypeOK, Handler, Receive, GetConnection, FailStatement, Insert, ReadId,
       RemoveCourse, GetNested, LeaveNested, ChangeChoosing, RunQuery, QueryAverages,
       GetNameConnection, QueryName, List, Leave, Reply

\* A task changes by a step of its loop.
LEMMA OwnStep ==
  ASSUME TypeOK, [Next]_vars, NEW m \in Loop
  PROVE  Receive(m) \/ Handler(m) \/ task'[m] = task[m]
<1>1. Grow \/ Shrink \/ UNCHANGED vars => task'[m] = task[m]
  BY DEF Grow, Shrink, vars
<1> QED
  BY <1>1, OthersStay DEF Next

LEMMA InvInit == Init => RecordsInv
<1> SUFFICES ASSUME Init PROVE RecordsInv
  OBVIOUS
<1>1. TypeOK
  BY InitType
<1>2. \A l \in Loop : task[l].pc = "idle" /\ holds[<<l, 1>>] = NULL /\ holds[<<l, 2>>] = NULL
  BY DEF Init, Pool!Init
<1>3. Holding
  BY <1>2 DEF Holding
<1>4. HeldOnce
  <2>1. \A g \in Frames : holds[g] = NULL
    BY DEF Init, Pool!Init
  <2> QED
    BY <1>1, <2>1, LentOf
<1>5. InsertRemembered
  BY <1>2 DEF InsertRemembered, Remembered, Handles
<1> QED
  BY <1>1, <1>3, <1>4, <1>5 DEF RecordsInv

LEMMA InvStep == RecordsInv /\ [Next]_vars => RecordsInv'
<1> SUFFICES ASSUME RecordsInv, [Next]_vars PROVE RecordsInv'
  OBVIOUS
<1>1. TypeOK' /\ Holding' /\ HeldOnce'
  BY TypeStep, HoldingStep, HeldOnceStep DEF RecordsInv
<1>2. RowsKept
  BY RowsKeptStep DEF RecordsInv
<1>3. InsertRemembered'
  <2>1. SUFFICES ASSUME NEW m \in Loop PROVE Remembered(m)'
    BY DEF InsertRemembered
  <2>2. CASE task'[m] = task[m]
    <3>1. task[m].pc = "readId" => insertId'[holds'[<<m, 1>>]] = insertId[holds[<<m, 1>>]]
      BY <1>1, <2>2, IdKept
    <3> QED
      BY <1>2, <2>2, <3>1, RememberedStays DEF RecordsInv, InsertRemembered
  <2>3. CASE task'[m] # task[m]
    BY <1>2, <2>3, OwnStep, RememberedStep DEF RecordsInv
  <2> QED
    BY <2>2, <2>3
<1> QED
  BY <1>1, <1>3 DEF RecordsInv

(***************************************************************************)
(* The invariant: what handlers hold is what their places in the code say,  *)
(* no connection is lent twice, and an INSERT is remembered by the          *)
(* connection until mysql_insert_id has read its id.                        *)
(***************************************************************************)
THEOREM Invariance == Spec => []RecordsInv
<1>1. Init => RecordsInv
  BY InvInit
<1>2. RecordsInv /\ [Next]_vars => RecordsInv'
  BY InvStep
<1> QED
  BY <1>1, <1>2, PTL DEF Spec

(***************************************************************************)
(* Type correctness: ids, tables, choices, what handlers hold and where     *)
(* they are.  It needs Holding: mysql_insert_id is called on a connection.  *)
(***************************************************************************)
THEOREM TypeCorrect == Spec => []TypeOK
<1>1. RecordsInv => TypeOK
  BY DEF RecordsInv
<1> QED
  BY <1>1, Invariance, PTL

(***************************************************************************)
(* Whoever registers an account or adds a course is told of success exactly *)
(* if the row has been inserted, with the id of that row, whatever other    *)
(* handlers do meanwhile and whichever statements fail.                     *)
(***************************************************************************)
THEOREM InsertionsTold == Spec => []AnswerMatchesInsert
<1>1. RecordsInv => AnswerMatchesInsert
  <2> SUFFICES ASSUME RecordsInv, NEW l \in Loop, Answers(l, {"insert"})
               PROVE  /\ task[l].ok <=> task[l].own # 0
                      /\ task[l].ok =>
                           /\ task[l].id = task[l].own
                           /\ task[l].id \in DOMAIN row[task[l].req.table]
                           /\ row[task[l].req.table][task[l].id]
                                \in {task[l].req.content, NULL}
    BY DEF AnswerMatchesInsert
  <2> QED
    BY DEF RecordsInv, InsertRemembered, Remembered, Handles, Answers
<1> QED
  BY <1>1, Invariance, PTL

-----------------------------------------------------------------------------
(* Reports. *)

\* The connections there are, in the pool and with handlers.
All == {holds[f] : f \in Frames} \cup idle

\* The pool never shrinks below its initial size.
SizeKept == Cardinality(All \ {NULL}) >= InitSize

LEMMA AllIsFinite ==
  ASSUME TypeOK
  PROVE  /\ All \ {NULL} = idle \cup Pool!Lent
         /\ IsFiniteSet(All \ {NULL}) /\ Cardinality(All \ {NULL}) \in Nat
<1>1. Pool!Lent = {holds[f] : f \in Frames} \ {NULL}
  BY DEF TypeOK, Pool!Lent, Pool!Range
<1>2. NULL \notin idle
  BY RecordsAssumption DEF TypeOK
<1>3. All \ {NULL} \subseteq Conn
  BY DEF TypeOK, All
<1> QED
  BY <1>1, <1>2, <1>3, RecordsAssumption, FS_Subset, FS_CardinalityType DEF All

\* ResourcePool counts as this module does.
LEMMA SameCount == \A S : Pool!Cardinality(S) = Cardinality(S)
BY DEF Pool!Cardinality, Cardinality

LEMMA SizeStep ==
  ASSUME TypeOK, TypeOK', SizeKept, [Next]_vars
  PROVE  SizeKept'
<1> DEFINE S == All \ {NULL}
<1>a. /\ IsFiniteSet(S) /\ Cardinality(S) \in Nat
      /\ IsFiniteSet(S') /\ Cardinality(S') \in Nat
      /\ S = idle \cup Pool!Lent
  <2> DEFINE Finite == IsFiniteSet(S) /\ Cardinality(S) \in Nat
  <2>1. TypeOK => Finite
    BY AllIsFinite
  <2>2. TypeOK' => Finite'
    BY <2>1, AllIsFinite, PTL
  <2> QED
    BY <2>1, <2>2, AllIsFinite
<1>b. /\ DOMAIN holds = Frames /\ NULL \notin Conn /\ idle \subseteq Conn
      /\ InitSize \in Nat
  BY RecordsAssumption DEF TypeOK
<1>c. ASSUME S \subseteq S' PROVE SizeKept'
  <2>1. Cardinality(S) <= Cardinality(S')
    BY <1>a, <1>c, FS_Subset
  <2> QED
    BY <1>a, <1>b, <2>1 DEF SizeKept
<1>1. ASSUME NEW f \in Frames, Pool!Borrow(f) PROVE S \subseteq S'
  <2>1. PICK c \in idle : idle' = idle \ {c} /\ holds' = [holds EXCEPT ![f] = c]
    BY <1>1 DEF Pool!Borrow
  <2>2. holds[f] = NULL /\ \A g \in Frames : holds'[g] = IF g = f THEN c ELSE holds[g]
    BY <1>1, <1>b, <2>1 DEF Pool!Borrow
  <2>3. SUFFICES ASSUME NEW x \in S PROVE x \in All' /\ x # NULL
    OBVIOUS
  <2>4. CASE x \in idle
    BY <2>1, <2>2, <2>3, <2>4 DEF All
  <2>5. CASE x \notin idle
    <3>1. PICK g \in Frames : x = holds[g]
      BY <2>3, <2>5 DEF All
    <3>2. x = holds'[g]
      BY <2>2, <2>3, <3>1
    <3> QED
      BY <2>3, <3>2 DEF All
  <2> QED
    BY <2>4, <2>5
<1>2. ASSUME NEW f \in Frames, Pool!Return(f) PROVE S \subseteq S'
  <2>1. \A g \in Frames : holds'[g] = IF g = f THEN NULL ELSE holds[g]
    BY <1>b, <1>2 DEF Pool!Return
  <2>2. idle' = idle \cup {holds[f]}
    BY <1>2 DEF Pool!Return
  <2>3. SUFFICES ASSUME NEW x \in S PROVE x \in All' /\ x # NULL
    OBVIOUS
  <2>4. CASE x \in idle
    BY <2>2, <2>3, <2>4 DEF All
  <2>5. CASE x \notin idle
    <3>1. PICK g \in Frames : x = holds[g]
      BY <2>3, <2>5 DEF All
    <3>2. x \in idle' \/ x = holds'[g]
      BY <2>1, <2>2, <3>1
    <3> QED
      BY <2>3, <3>2 DEF All
  <2> QED
    BY <2>4, <2>5
<1>3. ASSUME Pool!Grow PROVE S \subseteq S'
  BY <1>3 DEF Pool!Grow, All
<1>4. ASSUME Pool!Shrink PROVE SizeKept'
  <2>1. PICK c \in idle : idle' = idle \ {c} /\ UNCHANGED holds
    BY <1>4 DEF Pool!Shrink
  <2>2. Cardinality(S) > InitSize
    BY <1>4, <1>a, SameCount DEF Pool!Shrink, Pool!Size
  <2>3. c \in S /\ S \ {c} \subseteq S'
    BY <1>a, <2>1 DEF All
  <2>4. IsFiniteSet(S \ {c}) /\ Cardinality(S \ {c}) = Cardinality(S) - 1
    BY <1>a, <2>3, FS_RemoveElement
  <2>5. Cardinality(S \ {c}) <= Cardinality(S')
    BY <1>a, <2>3, <2>4, FS_Subset
  <2>6. InitSize <= Cardinality(S')
    BY <1>a, <1>b, <2>2, <2>4, <2>5
  <2> QED
    BY <2>6 DEF SizeKept
<1>5. ASSUME UNCHANGED <<idle, holds>> PROVE S \subseteq S'
  BY <1>5 DEF All
<1> QED
  BY <1>c, <1>1, <1>2, <1>3, <1>4, <1>5, PoolStep

\* With more connections than frames the pool is never empty.
LEMMA SomeIdle ==
  ASSUME IsFiniteSet(Loop), 2 * Cardinality(Loop) < InitSize, TypeOK, SizeKept
  PROVE  idle # {}
<1>1. SUFFICES ASSUME idle = {} PROVE FALSE
  OBVIOUS
<1>2. IsFiniteSet({1, 2}) /\ Cardinality({1, 2}) = 2
  <2>1. {1, 2} = {1} \cup {2}
    OBVIOUS
  <2>2. IsFiniteSet({1}) /\ Cardinality({1}) = 1
    BY FS_Singleton
  <2>3. Cardinality({1} \cup {2}) = Cardinality({1}) + 1 /\ IsFiniteSet({1} \cup {2})
    BY <2>2, FS_AddElement, 2 \notin {1}
  <2> QED
    BY <2>1, <2>2, <2>3
<1>3. IsFiniteSet(Frames) /\ Cardinality(Frames) = Cardinality(Loop) * 2
  BY <1>2, FS_Product DEF Frames
<1> DEFINE Used == {holds[f] : f \in Frames}
<1>4. holds \in Surjection(Frames, Used)
  BY DEF TypeOK, Surjection
<1>5. IsFiniteSet(Used) /\ Cardinality(Used) <= Cardinality(Frames)
  BY <1>3, <1>4, FS_Surjection
<1>6. All \ {NULL} \subseteq Used
  BY <1>1 DEF All
<1>7. Cardinality(All \ {NULL}) <= Cardinality(Used)
  BY <1>5, <1>6, FS_Subset
<1>8. /\ Cardinality(Used) \in Nat /\ Cardinality(Loop) \in Nat
      /\ Cardinality(All \ {NULL}) \in Nat
  BY <1>5, AllIsFinite, FS_CardinalityType
<1> QED
  BY <1>3, <1>5, <1>7, <1>8, RecordsAssumption DEF SizeKept

\* What a report says is true, and what it has still to say can be.
Named(t, courses) ==
  t.pc # "idle" /\ t.req.op \in {"classAverages"} =>
    /\ t.todo \subseteq DOMAIN courses
    /\ \A e \in t.report : /\ e.course \in DOMAIN courses
                           /\ courses[e.course] \in {e.name, NULL}

NamesInv == \A l \in Loop : Named(task[l], row["Courses"])

\* A step that adds nothing to a report leaves it true.
LEMMA NamedStays ==
  ASSUME RowsKept, NEW t, NEW u, Named(t, row["Courses"]),
         u.pc # "idle" => t.pc # "idle" /\ u.req = t.req /\ u.todo \subseteq t.todo
                          /\ u.report \subseteq t.report
  PROVE  Named(u, row'["Courses"])
<1>1. \A i \in DOMAIN row["Courses"] :
        i \in DOMAIN row'["Courses"] /\ row'["Courses"][i] \in {row["Courses"][i], NULL}
  BY DEF RowsKept, Table
<1> QED
  BY <1>1 DEF Named

LEMMA NamesStep ==
  ASSUME ~DbFails, idle # {}, TypeOK, RowsKept, NamesInv, [Next]_vars
  PROVE  NamesInv'
<1> USE DEF TypeOK
<1> SUFFICES ASSUME NEW l \in Loop PROVE Named(task'[l], row'["Courses"])
  BY DEF NamesInv
<1>a. Named(task[l], row["Courses"]) /\ (~At(l, "idle") => task[l] \in Task)
  BY TaskType DEF NamesInv
<1>b. \A p : Goto(l, p) /\ task[l] \in Task =>
        /\ task'[l].req = task[l].req /\ task'[l].todo = task[l].todo
        /\ task'[l].report = task[l].report
  BY DEF Task
<1>1. CASE task'[l] = task[l]
  BY <1>a, <1>1, NamedStays
<1>2. CASE Receive(l)
  <2>1. task'[l].todo = {} /\ task'[l].report = {}
    BY <1>2 DEF Receive
  <2> QED
    BY <2>1 DEF Named
<1>3. CASE \E p : Goto(l, p) /\ ~At(l, "idle")
  BY <1>3, <1>a, <1>b, NamedStays
<1>4. CASE FailStatement(l) \/ RemoveCourse(l) \/ ChangeChoosing(l) \/ RunQuery(l)
  <2>1. \E b, p : Answer(l, b, p) /\ ~At(l, "idle")
    BY <1>4 DEF FailStatement, RemoveCourse, ChangeChoosing, RunQuery
  <2>2. /\ task'[l].req = task[l].req /\ task'[l].todo = task[l].todo
        /\ task'[l].report = task[l].report /\ task[l].pc # "idle"
    BY <2>1, <1>a DEF Task
  <2> QED
    BY <2>2, <1>a, NamedStays
<1>5. CASE Insert(l) \/ ReadId(l)
  <2>1. /\ task'[l].req = task[l].req /\ task'[l].todo = task[l].todo
        /\ task'[l].report = task[l].report /\ task[l].pc # "idle"
    BY <1>5, <1>a DEF Insert, ReadId, Task
  <2> QED
    BY <2>1, <1>a, NamedStays
<1>6. CASE QueryAverages(l)
  <2> DEFINE found == ClassCoursesAverage(task[l].req.class)
  <2>1. /\ task[l].pc # "idle" /\ task[l].req.op = "classAverages"
        /\ task'[l].todo = found /\ task'[l].report = task[l].report
        /\ row' = row
    <3>1. task[l] \in Task
      BY <1>6, <1>a DEF QueryAverages
    <3>2. \A d, b : task' = [task EXCEPT ![l].todo = d, ![l].ok = b, ![l].pc = "leave"]
            => task'[l].todo = d /\ task'[l].report = task[l].report
      BY <3>1 DEF Task
    <3> QED
      BY <1>6, <3>2 DEF QueryAverages
  <2>2. found \subseteq DOMAIN row["Courses"]
    BY DEF ClassCoursesAverage, Existing
  <2> QED
    BY <1>a, <2>1, <2>2 DEF Named
<1>7. CASE QueryName(l)
  <2>0. PICK c \in task[l].todo : \E n :
          /\ List(l, c, n, "leave")
          /\ \/ Exists("Courses", c) /\ n = row["Courses"][c]
             \/ ~Exists("Courses", c)
    BY <1>7 DEF QueryName
  <2>1. PICK n :
          /\ List(l, c, n, "leave")
          /\ \/ Exists("Courses", c) /\ n = row["Courses"][c]
             \/ ~Exists("Courses", c)
    BY <2>0
  <2>2. task[l] \in Task /\ row' = row
    BY <1>7, <1>a DEF QueryName
  <2>3. /\ task'[l].req = task[l].req /\ task'[l].todo = task[l].todo \ {c}
        /\ task'[l].report = task[l].report \cup {[course |-> c, name |-> n]}
    BY <2>1, <2>2 DEF List, Task
  <2>4. task[l].pc # "idle"
    BY <1>7 DEF QueryName
  <2>5. \/ c \in DOMAIN row["Courses"] /\ n = row["Courses"][c]
        \/ row["Courses"][c] = NULL
        \/ task[l].req.op # "classAverages"
    BY <1>a, <2>1, <2>4 DEF Named, Exists
  <2> QED
    BY <1>a, <2>1, <2>2, <2>3, <2>4, <2>5 DEF Named
<1>8. CASE Reply(l)
  BY <1>8 DEF Reply, Named
<1> QED
  BY <1>1, <1>2, <1>3, <1>4, <1>5, <1>6, <1>7, <1>8, OwnStep
  DEF Handler, GetConnection, GetNested, LeaveNested, GetNameConnection, Leave

(***************************************************************************)
(* No course is reported under a name that is not its own, whatever is      *)
(* added, removed and changed while the report is put together, if          *)
(* statements succeed and the pool begins with more connections than the    *)
(* handlers of all loops can hold, as it does when it is shipped.           *)
(***************************************************************************)
THEOREM NamesAreTrue ==
  ASSUME ~DbFails, IsFiniteSet(Loop), 2 * Cardinality(Loop) < InitSize
  PROVE  Spec => []NamesTrue
<1>1. Init => SizeKept /\ NamesInv
  <2>1. Init => TypeOK
    BY InitType
  <2>2. ASSUME Init PROVE SizeKept
    <3>1. All \ {NULL} = idle
      BY <2>1, <2>2, RecordsAssumption DEF Init, Pool!Init, All, TypeOK
    <3>2. Cardinality(idle) = InitSize
      BY <2>2, SameCount DEF Init, Pool!Init
    <3>3. Cardinality(All \ {NULL}) = InitSize
      BY <3>1, <3>2, Zenon
    <3> QED
      BY <3>3, RecordsAssumption DEF SizeKept
  <2>3. Init => NamesInv
    BY DEF Init, NamesInv, Named
  <2> QED
    BY <2>2, <2>3
<1>2. RecordsInv /\ RecordsInv' /\ SizeKept /\ NamesInv /\ [Next]_vars
        => SizeKept' /\ NamesInv'
  BY SizeStep, NamesStep, SomeIdle, RowsKeptStep DEF RecordsInv
<1>3. NamesInv => NamesTrue
  BY DEF NamesInv, Named, NamesTrue, Handles
<1> QED
  BY <1>1, <1>2, <1>3, Invariance, PTL DEF Spec
=============================================================================
