------------------------------- MODULE Records -------------------------------
(***************************************************************************)
(* What the server does between a request and its answer: the handlers of   *)
(* SQLService that register accounts and that read and change courses,      *)
(* choices and scores, the model functions they call (src/server/model/),   *)
(* the tables, and the connections they borrow from the pool, of which      *)
(* ResourcePool says what it promises.                                      *)
(*                                                                          *)
(* An event loop runs one handler at a time.  Each statement is one step on *)
(* a borrowed connection, there are no transactions, and statements of      *)
(* handlers in different loops come in any order.  getConnection returns    *)
(* nullptr exactly if it has found the queue empty, as it does with the     *)
(* timeout the server runs with.                                            *)
(***************************************************************************)
EXTENDS Integers, Sequences, FiniteSets

CONSTANTS
  Loop,            \* the event loops
  Conn,            \* MySQL connections
  NULL,            \* nullptr, and a row that has been deleted
  InitSize,        \* _initSize of the pool
  MaxSize,         \* _maxSize of the pool
  Content,         \* what a row holds besides its id, see row
  NoName,          \* the name of a default Course, an empty string
  Id,              \* ids a request can name
  Score,           \* scores
  Asked,           \* the requests that clients send
  StoredRow,       \* rows when the server starts
  StoredChoosing,  \* choices when the server starts
  MaxRows,         \* bound of the model: a table with so many rows is full
  DbFails          \* may statements fail?

\* Three account tables and Courses count their ids up.
Table == {"Students", "Teachers", "Admins", "Courses"}

\* A row of CourseChoosing (the year is left out).
Choice == [student : Id, course : Id, teacher : Id, score : Score]

(***************************************************************************)
(* Requests.  Registration and insertCourse are an INSERT of some content   *)
(* into one of the tables; what the others name is in a choice and a class. *)
(***************************************************************************)
Change == {"insertChoosing", "removeChoosing", "updateScore"}

Query ==
  {"course", "allCourses", "choicesOfStudent", "grade", "choicesOfTeacher",
   "allChoices", "studentGrades", "allGrades", "classGrades", "courseAverages"}

Request ==
  [op : {"insert"}, table : Table, content : Content] \cup
  [op : {"removeCourse", "classAverages"} \cup Change \cup Query,
   choice : Choice, class : Content]

ASSUME RecordsAssumption ==
  /\ IsFiniteSet(Conn)
  /\ NULL \notin Conn
  /\ NULL \notin Content
  /\ NoName \notin Content
  /\ InitSize \in Nat
  /\ MaxSize \in Nat
  /\ Id \subseteq Nat \ {0}
  /\ Asked \subseteq Request
  /\ StoredRow \in [Table -> Seq(Content)]
  /\ StoredChoosing \subseteq Choice
  /\ MaxRows \in Nat
  /\ DbFails \in BOOLEAN

VARIABLES
  idle,      \* connections in the pool
  holds,     \* the shared_ptr locals of the handlers
  insertId,  \* mysql_insert_id of each connection
  row,       \* the tables: the row with id i is row[table][i]
  choosing,  \* CourseChoosing
  task       \* what each event loop is doing

vars == <<idle, holds, insertId, row, choosing, task>>

\* A handler's connection, and the one a nested model function takes.
Frames == Loop \X {1, 2}

Pool == INSTANCE ResourcePool WITH Holders <- Frames

(***************************************************************************)
(* A handler: where it is, what it is about, the id of the row it has       *)
(* inserted (0: none) and the id it will tell, whether it will tell of      *)
(* success, the courses whose names it still looks up, and what it found.   *)
(***************************************************************************)
PC == {"idle", "ask", "run", "readId", "askCourse", "inCourse", "askTeacher",
       "inTeacher", "leave", "askName", "name", "reply"}

NoTask == [pc |-> "idle"]

Task ==
  [pc : PC \ {"idle"}, req : Request, own : Nat, id : Nat, ok : BOOLEAN,
   todo : SUBSET (Nat \ {0}), report : SUBSET [course : Nat, name : Content \cup {NoName}]]

Init ==
  /\ Pool!Init
  /\ insertId = [c \in Conn |-> 0]
  /\ row = StoredRow
  /\ choosing = StoredChoosing
  /\ task = [l \in Loop |-> NoTask]

-----------------------------------------------------------------------------
(* What the statements find.  Scores are averaged by MySQL; a report lists  *)
(* what it has an average for.  A definition whose name ends in an          *)
(* underscore is a mutant of the one that follows it.                       *)

Exists_(t, i) == i \in DOMAIN row[t]
Exists(t, i) == i \in DOMAIN row[t] /\ row[t][i] # NULL
Existing(t) == {i \in DOMAIN row[t] : Exists(t, i)}

\* SELECT ... FROM CourseChoosing: queryByStudent and the others.
ByStudent(s) == {r \in choosing : r.student = s}
ByStudentAndCourse(s, c) == {r \in choosing : r.student = s /\ r.course = c}
ByTeacherAndCourse(t, c) == {r \in choosing : r.teacher = t /\ r.course = c}

\* Students JOIN CourseChoosing.
Graded(students) ==
  {s \in students \cap Existing("Students") : ByStudent(s) # {}}

OfClass(k) == {s \in Existing("Students") : row["Students"][s] = k}

\* CourseChoosing JOIN Courses, and the same of one class.
CoursesAverage == {r.course : r \in choosing} \cap Existing("Courses")

ClassCoursesAverage_(k) == {r.course : r \in {x \in choosing : x.student \in OfClass(k)}}
ClassCoursesAverage(k) ==
  {r.course : r \in {x \in choosing : x.student \in OfClass(k)}}
     \cap Existing("Courses")

(***************************************************************************)
(* What the handlers with one query test before they answer: did it find    *)
(* anything?  (adminQueryCourse and adminQueryAllCourse are as the first    *)
(* two.)                                                                    *)
(***************************************************************************)
stuQueryCourse(q) == q.op = "course" /\ Exists("Courses", q.choice.course)
stuQueryAllCourse(q) == q.op = "allCourses" /\ Existing("Courses") # {}
stuQueryCourseChoosing(q) ==
  q.op = "choicesOfStudent" /\ ByStudent(q.choice.student) # {}
stuQueryGrade(q) ==
  q.op = "grade" /\ ByStudentAndCourse(q.choice.student, q.choice.course) # {}
teaQueryCourseChoosing(q) ==
  q.op = "choicesOfTeacher" /\ ByTeacherAndCourse(q.choice.teacher, q.choice.course) # {}
adminQueryAllCourseChoosing(q) == q.op = "allChoices" /\ choosing # {}
adminQueryStudentGrades(q) == q.op = "studentGrades" /\ Graded({q.choice.student}) # {}
adminQueryAllStudentGrades(q) == q.op = "allGrades" /\ Graded(Existing("Students")) # {}
adminQueryClassStudentsGrades(q) == q.op = "classGrades" /\ Graded(OfClass(q.class)) # {}
adminQueryCoursesAverageScores(q) == q.op = "courseAverages" /\ CoursesAverage # {}

Finds(q) ==
  \/ stuQueryCourse(q) \/ stuQueryAllCourse(q)
  \/ stuQueryCourseChoosing(q) \/ stuQueryGrade(q)
  \/ teaQueryCourseChoosing(q) \/ adminQueryAllCourseChoosing(q)
  \/ adminQueryStudentGrades(q) \/ adminQueryAllStudentGrades(q)
  \/ adminQueryClassStudentsGrades(q) \/ adminQueryCoursesAverageScores(q)

\* CourseChoosing after the statement of request q.
Changed(q) ==
  CASE q.op = "insertChoosing" -> choosing \cup {q.choice}
    [] q.op = "removeChoosing" ->
         choosing \ ByStudentAndCourse(q.choice.student, q.choice.course)
    [] q.op = "updateScore" ->
         {IF r.teacher = q.choice.teacher
               /\ r \in ByStudentAndCourse(q.choice.student, q.choice.course)
            THEN [r EXCEPT !.score = q.choice.score] ELSE r : r \in choosing}
    [] OTHER -> choosing

-----------------------------------------------------------------------------
(* Handlers. *)

At(l, pc) == task[l].pc = pc
Runs(l, ops) == At(l, "run") /\ task[l].req.op \in ops
Goto(l, pc) == task' = [task EXCEPT ![l].pc = pc]
Answer(l, ok, pc) == task' = [task EXCEPT ![l].ok = ok, ![l].pc = pc]

\* getConnection gives up on an empty pool.
GivesUp_ == FALSE
GivesUp == idle = {}

\* onMessage calls a handler.
Receive(l) ==
  /\ At(l, "idle")
  /\ \E q \in Asked :
       task' = [task EXCEPT ![l] =
                  [pc |-> "ask", req |-> q, own |-> 0, id |-> 0, ok |-> FALSE,
                   todo |-> {}, report |-> {}]]
  /\ UNCHANGED <<idle, holds, insertId, row, choosing>>

\* The handler's own connection; without one it answers that it failed.
GetConnection(l) ==
  /\ At(l, "ask")
  /\ \/ /\ Pool!Borrow(<<l, 1>>)
        /\ Goto(l, IF task[l].req.op = "removeCourse" THEN "askCourse" ELSE "run")
     \/ /\ GivesUp
        /\ Goto(l, "reply")
        /\ UNCHANGED <<idle, holds>>
  /\ UNCHANGED <<insertId, row, choosing>>

\* A statement fails; every handler then gives its connection back and says so.
FailStatement(l) ==
  /\ At(l, "run")
  /\ DbFails \/ (Runs(l, {"insert"}) /\ Len(row[task[l].req.table]) >= MaxRows)
  /\ Answer(l, FALSE, "leave")
  /\ UNCHANGED <<idle, holds, insertId, row, choosing>>

(***************************************************************************)
(* INSERT: the next id of the table; MySQL keeps it for the connection the  *)
(* statement came on, until mysql_insert_id reads it there.                 *)
(***************************************************************************)
Insert(l) ==
  /\ Runs(l, {"insert"})
  /\ LET t == task[l].req.table
         i == Len(row[t]) + 1
     IN  /\ i <= MaxRows
         /\ row' = [row EXCEPT ![t] = Append(@, task[l].req.content)]
         /\ insertId' = [insertId EXCEPT ![holds[<<l, 1>>]] = i]
         /\ task' = [task EXCEPT ![l].own = i, ![l].pc = "readId"]
  /\ UNCHANGED <<idle, holds, choosing>>

LastId_(l) == Len(row[task[l].req.table])
LastId(l) == insertId[holds[<<l, 1>>]]

\* insertCourse goes on to query the teacher.
ReadId(l) ==
  /\ At(l, "readId")
  /\ task' = [task EXCEPT ![l].id = LastId(l), ![l].ok = TRUE,
                ![l].pc = IF task[l].req.table = "Courses" THEN "askTeacher" ELSE "leave"]
  /\ UNCHANGED <<idle, holds, insertId, row, choosing>>

\* DELETE FROM Courses: it succeeds whether or not there is such a course.
RemoveCourse(l) ==
  /\ Runs(l, {"removeCourse"})
  /\ row' = [row EXCEPT !["Courses"] =
               [i \in DOMAIN @ |-> IF i = task[l].req.choice.course THEN NULL ELSE @[i]]]
  /\ Answer(l, TRUE, "askTeacher")
  /\ UNCHANGED <<idle, holds, insertId, choosing>>

(***************************************************************************)
(* The nested queries of insertCourse and removeCourse, on a second         *)
(* connection.  What they find goes into a local Teacher, is changed there  *)
(* and thrown away; that they fail goes unnoticed.                          *)
(***************************************************************************)
AfterNested_(pc) == "run"
AfterNested(pc) == IF pc \in {"askCourse", "inCourse"} THEN "run" ELSE "leave"

GetNested(l) ==
  /\ At(l, "askCourse") \/ At(l, "askTeacher")
  /\ \/ /\ Pool!Borrow(<<l, 2>>)
        /\ Goto(l, IF At(l, "askCourse") THEN "inCourse" ELSE "inTeacher")
     \/ /\ GivesUp
        /\ Goto(l, AfterNested(task[l].pc))
        /\ UNCHANGED <<idle, holds>>
  /\ UNCHANGED <<insertId, row, choosing>>

LeaveNested(l) ==
  /\ At(l, "inCourse") \/ At(l, "inTeacher")
  /\ Pool!Return(<<l, 2>>)
  /\ Goto(l, AfterNested(task[l].pc))
  /\ UNCHANGED <<insertId, row, choosing>>

\* insertCourseChoosing, removeCourseChoosing and updateScore.
ChangeChoosing(l) ==
  /\ Runs(l, Change)
  /\ choosing' = Changed(task[l].req)
  /\ Answer(l, TRUE, "leave")
  /\ UNCHANGED <<idle, holds, insertId, row>>

\* The handlers with one SELECT: they succeed if they find something.
RunQuery(l) ==
  /\ Runs(l, Query)
  /\ Answer(l, Finds(task[l].req), "leave")
  /\ UNCHANGED <<idle, holds, insertId, row, choosing>>

\* adminQueryClassCoursesAverage: one SELECT, then one for each course's name.
QueryAverages(l) ==
  /\ Runs(l, {"classAverages"})
  /\ task' = [task EXCEPT ![l].todo = ClassCoursesAverage(task[l].req.class),
                ![l].ok = ClassCoursesAverage(task[l].req.class) # {},
                ![l].pc = "leave"]
  /\ UNCHANGED <<idle, holds, insertId, row, choosing>>

\* The answer lists course c under name n, and goes on with the next course.
List(l, c, n, pc) ==
  task' = [task EXCEPT ![l].todo = @ \ {c},
             ![l].report = @ \cup {[course |-> c, name |-> n]}, ![l].pc = pc]

GetNameConnection(l) ==
  /\ At(l, "askName")
  /\ \/ /\ Pool!Borrow(<<l, 1>>)
        /\ Goto(l, "name")
     \/ /\ GivesUp
        /\ \E c \in task[l].todo :
             List(l, c, NoName, IF task[l].todo = {c} THEN "reply" ELSE "askName")
        /\ UNCHANGED <<idle, holds>>
  /\ UNCHANGED <<insertId, row, choosing>>

\* With one Course for all the names, that keeps what the last query found.
QueryName_(l) ==
  /\ At(l, "name")
  /\ \E c \in task[l].todo :
       \/ Exists("Courses", c) /\ List(l, c, row["Courses"][c], "leave")
       \/ /\ ~Exists("Courses", c) \/ DbFails
          /\ \/ \E e \in task[l].report : List(l, c, e.name, "leave")
             \/ task[l].report = {} /\ List(l, c, NoName, "leave")
  /\ UNCHANGED <<idle, holds, insertId, row, choosing>>

QueryName(l) ==
  /\ At(l, "name")
  /\ \E c \in task[l].todo :
       \/ Exists("Courses", c) /\ List(l, c, row["Courses"][c], "leave")
       \/ /\ ~Exists("Courses", c) \/ DbFails
          /\ List(l, c, NoName, "leave")
  /\ UNCHANGED <<idle, holds, insertId, row, choosing>>

\* The handler's own connection goes back.
Leave(l) ==
  /\ At(l, "leave")
  /\ Pool!Return(<<l, 1>>)
  /\ Goto(l, IF task[l].todo = {} THEN "reply" ELSE "askName")
  /\ UNCHANGED <<insertId, row, choosing>>

\* send.
Reply(l) ==
  /\ At(l, "reply")
  /\ task' = [task EXCEPT ![l] = NoTask]
  /\ UNCHANGED <<idle, holds, insertId, row, choosing>>

-----------------------------------------------------------------------------
(* The threads of the pool; a new handle has inserted nothing. *)
Grow ==
  /\ Pool!Grow
  /\ insertId' = [c \in Conn |-> IF c \in idle' THEN 0 ELSE insertId[c]]
  /\ UNCHANGED <<row, choosing, task>>

Shrink ==
  /\ Pool!Shrink
  /\ UNCHANGED <<insertId, row, choosing, task>>

Handler(l) ==
  \/ GetConnection(l) \/ FailStatement(l) \/ Insert(l) \/ ReadId(l)
  \/ RemoveCourse(l) \/ GetNested(l) \/ LeaveNested(l) \/ ChangeChoosing(l)
  \/ RunQuery(l) \/ QueryAverages(l) \/ GetNameConnection(l) \/ QueryName(l)
  \/ Leave(l) \/ Reply(l)

Next ==
  \/ \E l \in Loop : Receive(l) \/ Handler(l)
  \/ Grow
  \/ Shrink

Spec == Init /\ [][Next]_vars

(***************************************************************************)
(* Fairness.  A loop goes on with its handler: getConnection returns        *)
(* (GetReturns of ConnectionPool), and a statement comes back.  Nothing is  *)
(* assumed of clients and of the pool's threads.                            *)
(***************************************************************************)
FairSpec == Spec /\ \A l \in Loop : WF_vars(Handler(l))

-----------------------------------------------------------------------------
(* Properties. *)

\* Every variable keeps its type.
TypeOK ==
  /\ idle \in SUBSET Conn
  /\ holds \in [Frames -> Conn \cup {NULL}]
  /\ insertId \in [Conn -> Nat]
  /\ row \in [Table -> Seq(Content \cup {NULL})]
  /\ choosing \in SUBSET Choice
  /\ task \in [Loop -> Task \cup {NoTask}]

Handles(l, ops) == ~At(l, "idle") /\ task[l].req.op \in ops
Answers(l, ops) == At(l, "reply") /\ task[l].req.op \in ops

(***************************************************************************)
(* Whoever registers an account or adds a course is told of success if and  *)
(* only if the row is there, and is told the id of that row, although the   *)
(* id is read by a second call, other handlers insert into the same table   *)
(* on other connections meanwhile, and insertCourse goes on with a nested   *)
(* query that may fail.  (Another administrator may have removed the course *)
(* again.)                                                                  *)
(***************************************************************************)
AnswerMatchesInsert ==
  \A l \in Loop : Answers(l, {"insert"}) =>
    /\ task[l].ok <=> task[l].own # 0
    /\ task[l].ok =>
         /\ task[l].id = task[l].own
         /\ task[l].id \in DOMAIN row[task[l].req.table]
         /\ row[task[l].req.table][task[l].id] \in {task[l].req.content, NULL}

(***************************************************************************)
(* What a class report of course averages says of a course is its name, or  *)
(* nothing if the course has been removed since the report was begun.  The  *)
(* averages and the names come from different statements, with insertions   *)
(* and removals of other handlers between them; choices may name courses    *)
(* that do not exist, or not yet.  It needs statements that succeed and a   *)
(* pool that is never empty.                                                *)
(***************************************************************************)
NamesTrue ==
  \A l \in Loop : Handles(l, {"classAverages"}) =>
    \A e \in task[l].report :
      /\ e.course \in DOMAIN row["Courses"]
      /\ row["Courses"][e.course] \in {e.name, NULL}

(***************************************************************************)
(* The same of every report, also when statements fail and there is no      *)
(* connection to look a name up with: what a report says of a course is its *)
(* name, or it names none.  A class report begins with an average for       *)
(* courses that there are, and goes on with the names of just these.        *)
(***************************************************************************)
Truthful(l) ==
  Handles(l, {"classAverages"}) =>
    /\ task[l].todo \subseteq DOMAIN row["Courses"]
    /\ \A e \in task[l].report :
         /\ e.course \in DOMAIN row["Courses"]
         /\ row["Courses"][e.course] \in {e.name, NULL} \/ e.name = NoName

NeverMisnamed == \A l \in Loop : Truthful(l)

(***************************************************************************)
(* Why the answers are right.  No connection is with two handlers, or with  *)
(* one and in the pool.  A handler holds what its place in the code says,   *)
(* so nothing is left over when it answers.  Between an INSERT and the call *)
(* of mysql_insert_id the connection still remembers that INSERT.           *)
(***************************************************************************)
Holding ==
  \A l \in Loop :
    /\ holds[<<l, 1>>] = NULL <=> task[l].pc \in {"idle", "ask", "askName", "reply"}
    /\ holds[<<l, 2>>] = NULL <=> task[l].pc \notin {"inCourse", "inTeacher"}

HeldOnce ==
  /\ idle \cap Pool!Lent = {}
  /\ \A f, g \in Frames : holds[f] = holds[g] /\ holds[f] # NULL => f = g

Remembered(l) ==
  Handles(l, {"insert"}) =>
    /\ task[l].own # 0 =>
         /\ task[l].own \in DOMAIN row[task[l].req.table]
         /\ row[task[l].req.table][task[l].own] \in {task[l].req.content, NULL}
    /\ task[l].todo = {} /\ task[l].pc \notin {"askCourse", "inCourse"}
    /\ CASE task[l].pc \in {"ask", "run"} -> task[l].own = 0 /\ ~task[l].ok
         [] task[l].pc = "readId" ->
              task[l].own # 0 /\ insertId[holds[<<l, 1>>]] = task[l].own
         [] OTHER -> /\ task[l].ok <=> task[l].own # 0
                     /\ task[l].ok => task[l].id = task[l].own

InsertRemembered == \A l \in Loop : Remembered(l)

RecordsInv ==
  /\ TypeOK
  /\ Holding
  /\ HeldOnce
  /\ InsertRemembered

(***************************************************************************)
(* Handlers are what they promise (see Registry): each request takes effect *)
(* at one statement or is refused and changes nothing, although it is made  *)
(* of several, is interleaved with others and may fail at any of them.  The *)
(* answer is settled at that statement: after an INSERT it is the id the    *)
(* connection still remembers, before mysql_insert_id has read it.          *)
(***************************************************************************)
Pending(l) == task[l].pc \in {"ask", "askCourse", "inCourse", "run"}

Success(l) == At(l, "readId") \/ task[l].ok

IdTold(l) ==
  IF At(l, "readId") THEN LastId(l)
  ELSE IF task[l].ok /\ task[l].req.op = "insert" THEN task[l].id ELSE 0

Call(l) ==
  CASE At(l, "idle") -> [stage |-> "free"]
    [] Pending(l) -> [stage |-> "asked", req |-> task[l].req]
    [] OTHER -> [stage |-> "done", req |-> task[l].req, ok |-> Success(l),
                 id |-> IdTold(l), report |-> task[l].report]

Calls == [l \in Loop |-> Call(l)]

Promise ==
  INSTANCE Registry WITH Reading <- Query \cup {"classAverages"}, call <- Calls

Implements == Promise!Spec

\* Until the effect nothing is settled, insertions read ids, and only class
\* reports look up names.
Unsettled(l) ==
  /\ Pending(l) => ~task[l].ok /\ task[l].todo = {} /\ task[l].report = {}
  /\ At(l, "readId") => task[l].req.op = "insert" /\ task[l].report = {}
  /\ ~At(l, "idle") /\ task[l].req.op # "classAverages" => task[l].todo = {}

ReportInv == \A l \in Loop : Unsettled(l) /\ Truthful(l)

(***************************************************************************)
(* Every request is answered, although handlers ask for a second connection *)
(* while they hold one and nothing orders them: with a pool of as many      *)
(* connections as loops all of them may be held that way.                   *)
(***************************************************************************)
Answered == \A l \in Loop : ~At(l, "idle") ~> At(l, "idle")
=============================================================================
