--------------------------- MODULE Registry_proofs ---------------------------
(***************************************************************************)
(* Theorems about what the handlers of Records answer, whatever fails and   *)
(* however few connections there are: no report misnames a course, and the  *)
(* handlers implement Registry.                                             *)
(***************************************************************************)
EXTENDS Records_proofs

(* The tests and helpers that most steps need are always expanded. *)
USE DEF Frames, NoTask, At, Runs, Goto, Answer, GivesUp, AfterNested

-----------------------------------------------------------------------------
(* What a step makes of a task. *)

\* Moving on leaves everything else.
LEMMA GotoFields ==
  ASSUME TypeOK, NEW l \in Loop, task[l] \in Task, NEW p, Goto(l, p)
  PROVE  /\ task'[l].pc = p /\ task'[l].req = task[l].req
         /\ task'[l].own = task[l].own /\ task'[l].id = task[l].id
         /\ task'[l].ok = task[l].ok /\ task'[l].todo = task[l].todo
         /\ task'[l].report = task[l].report
BY DEF TypeOK, Task

LEMMA AnswerFields ==
  ASSUME TypeOK, NEW l \in Loop, task[l] \in Task, NEW b, NEW p, Answer(l, b, p)
  PROVE  /\ task'[l].pc = p /\ task'[l].req = task[l].req
         /\ task'[l].own = task[l].own /\ task'[l].id = task[l].id
         /\ task'[l].ok = b /\ task'[l].todo = task[l].todo
         /\ task'[l].report = task[l].report
BY DEF TypeOK, Task

LEMMA ListFields ==
  ASSUME TypeOK, NEW l \in Loop, task[l] \in Task, NEW c, NEW n, NEW p, List(l, c, n, p)
  PROVE  /\ task'[l].pc = p /\ task'[l].req = task[l].req
         /\ task'[l].own = task[l].own /\ task'[l].id = task[l].id
         /\ task'[l].ok = task[l].ok /\ task'[l].todo = task[l].todo \ {c}
         /\ task'[l].report = task[l].report \cup {[course |-> c, name |-> n]}
BY DEF TypeOK, Task, List

LEMMA InsertFields ==
  ASSUME TypeOK, NEW l \in Loop, task[l] \in Task, Insert(l)
  PROVE  /\ task'[l].pc = "readId" /\ task'[l].req = task[l].req
         /\ task'[l].own = Len(row[task[l].req.table]) + 1
         /\ task'[l].ok = task[l].ok /\ task'[l].todo = task[l].todo
         /\ task'[l].report = task[l].report
BY DEF TypeOK, Task, Insert

LEMMA ReadIdFields ==
  ASSUME TypeOK, NEW l \in Loop, task[l] \in Task, ReadId(l)
  PROVE  /\ task'[l].pc \in {"askTeacher", "leave"} /\ task'[l].req = task[l].req
         /\ task'[l].id = LastId(l) /\ task'[l].ok = TRUE
         /\ task'[l].todo = task[l].todo /\ task'[l].report = task[l].report
BY DEF TypeOK, Task, ReadId

LEMMA AveragesFields ==
  ASSUME TypeOK, NEW l \in Loop, task[l] \in Task, QueryAverages(l)
  PROVE  /\ task'[l].pc = "leave" /\ task'[l].req = task[l].req
         /\ task'[l].ok = (ClassCoursesAverage(task[l].req.class) # {})
         /\ task'[l].todo = ClassCoursesAverage(task[l].req.class)
         /\ task'[l].report = task[l].report
<1>1. \A found, b :
        task' = [task EXCEPT ![l].todo = found, ![l].ok = b, ![l].pc = "leave"]
          => /\ task'[l].pc = "leave" /\ task'[l].req = task[l].req
             /\ task'[l].ok = b /\ task'[l].todo = found
             /\ task'[l].report = task[l].report
  BY DEF TypeOK, Task
<1> QED
  BY <1>1 DEF QueryAverages

\* The courses of a report have rows.
LEMMA AveragesExist == \A k : ClassCoursesAverage(k) \subseteq DOMAIN row["Courses"]
BY DEF ClassCoursesAverage, Existing

-----------------------------------------------------------------------------
(* Reports. *)

\* A step that settles nothing and adds nothing to a report leaves it true.
LEMMA ReportStays ==
  ASSUME RowsKept, NEW l \in Loop, Unsettled(l), Truthful(l),
         ~At(l, "idle")' =>
           /\ ~At(l, "idle") /\ task'[l].req = task[l].req
           /\ task'[l].todo = task[l].todo /\ task'[l].report = task[l].report
           /\ Pending(l)' => Pending(l) /\ task'[l].ok = task[l].ok
           /\ At(l, "readId")' =>
                At(l, "readId") \/ (task[l].req.op = "insert" /\ Pending(l))
  PROVE  Unsettled(l)' /\ Truthful(l)'
<1>1. \A i \in DOMAIN row["Courses"] :
        i \in DOMAIN row'["Courses"] /\ row'["Courses"][i] \in {row["Courses"][i], NULL}
  BY DEF RowsKept, Table
<1>2. Unsettled(l)'
  BY DEF Unsettled, Pending
<1>3. Truthful(l)'
  BY <1>1 DEF Truthful, Handles
<1> QED
  BY <1>2, <1>3

\* Nor does it become untrue by an entry without a name, or with the present one.
LEMMA ReportGrows ==
  ASSUME TypeOK, NEW l \in Loop, task[l] \in Task, Unsettled(l), Truthful(l),
         NEW c \in task[l].todo, NEW n, NEW p \in {"reply", "askName", "leave"},
         List(l, c, n, p), row' = row,
         n = NoName \/ n = row["Courses"][c]
  PROVE  Unsettled(l)' /\ Truthful(l)'
<1>1. /\ task'[l].pc = p /\ task'[l].req = task[l].req
      /\ task'[l].todo = task[l].todo \ {c}
      /\ task'[l].report = task[l].report \cup {[course |-> c, name |-> n]}
  BY ListFields
<1>2. task[l].pc # "idle"
  BY DEF Task
<1>3. Unsettled(l)'
  BY <1>1, <1>2 DEF Unsettled, Pending
<1>4. Truthful(l)'
  BY <1>1, <1>2 DEF Truthful, Handles
<1> QED
  BY <1>3, <1>4

LEMMA ReportStep ==
  ASSUME TypeOK, RowsKept, ReportInv, [Next]_vars
  PROVE  ReportInv'
<1> SUFFICES ASSUME NEW l \in Loop PROVE Unsettled(l)' /\ Truthful(l)'
  BY DEF ReportInv
<1>a. Unsettled(l) /\ Truthful(l) /\ (~At(l, "idle") => task[l] \in Task)
  BY TaskType DEF ReportInv
<1>1. CASE task'[l] = task[l]
  BY <1>1, <1>a, ReportStays DEF Pending
<1>2. CASE Receive(l)
  <2>1. /\ task'[l].pc = "ask" /\ ~task'[l].ok /\ task'[l].todo = {}
        /\ task'[l].report = {}
    BY <1>2 DEF Receive, TypeOK
  <2> QED
    BY <2>1 DEF Unsettled, Truthful, Handles, Pending
<1>3. ASSUME NEW p, Goto(l, p), ~At(l, "idle"),
             p \in {"ask", "askCourse", "inCourse", "run"} => Pending(l), p # "readId"
      PROVE  Unsettled(l)' /\ Truthful(l)'
  <2>1. task[l] \in Task
    BY <1>3, <1>a
  <2> QED
    BY <1>3, <1>a, <2>1, GotoFields, ReportStays DEF Pending
<1>4. CASE GetConnection(l)
  BY <1>3, <1>4 DEF GetConnection, Pending
<1>5. CASE FailStatement(l) \/ RemoveCourse(l) \/ ChangeChoosing(l) \/ RunQuery(l)
  <2>1. PICK b, p : Answer(l, b, p) /\ p \in {"leave", "askTeacher"} /\ At(l, "run")
    BY <1>5 DEF FailStatement, RemoveCourse, ChangeChoosing, RunQuery
  <2>2. task[l] \in Task
    BY <2>1, <1>a
  <2>3. /\ task'[l].pc = p /\ task'[l].req = task[l].req
        /\ task'[l].todo = task[l].todo /\ task'[l].report = task[l].report
    BY <1>a, <2>1, <2>2 DEF TypeOK, Task
  <2> QED
    BY <1>a, <2>1, <2>3, ReportStays DEF Pending
<1>6. CASE Insert(l)
  <2>1. task[l] \in Task /\ At(l, "run") /\ task[l].req.op = "insert"
    BY <1>6, <1>a DEF Insert
  <2>2. /\ task'[l].pc = "readId" /\ task'[l].req = task[l].req
        /\ task'[l].todo = task[l].todo /\ task'[l].report = task[l].report
    BY <1>6, <2>1, InsertFields
  <2> QED
    BY <1>a, <2>1, <2>2, ReportStays DEF Pending
<1>7. CASE ReadId(l)
  <2>1. task[l] \in Task /\ ~At(l, "idle")
    BY <1>7, <1>a DEF ReadId
  <2> QED
    BY <1>7, <1>a, <2>1, ReadIdFields, ReportStays DEF Pending
<1>8. CASE GetNested(l) \/ LeaveNested(l)
  BY <1>3, <1>8 DEF GetNested, LeaveNested, Pending
<1>9. CASE QueryAverages(l)
  <2>1. task[l] \in Task /\ At(l, "run") /\ task[l].req.op = "classAverages"
    BY <1>9, <1>a DEF QueryAverages
  <2>2. /\ task'[l].pc = "leave" /\ task'[l].req = task[l].req
        /\ task'[l].todo \subseteq DOMAIN row["Courses"]
        /\ task'[l].report = task[l].report
    BY <1>9, <2>1, AveragesFields, AveragesExist
  <2>3. task[l].report = {} /\ row' = row
    BY <1>9, <1>a, <2>1 DEF Unsettled, Pending, QueryAverages
  <2> QED
    BY <2>1, <2>2, <2>3 DEF Unsettled, Truthful, Handles, Pending
<1>10. CASE GetNameConnection(l)
  <2>1. task[l] \in Task /\ ~At(l, "idle") /\ row' = row
    BY <1>10, <1>a DEF GetNameConnection
  <2>2. CASE Goto(l, "name")
    BY <1>3, <2>1, <2>2
  <2>3. ASSUME NEW c \in task[l].todo, NEW p \in {"reply", "askName"},
               List(l, c, NoName, p)
        PROVE  Unsettled(l)' /\ Truthful(l)'
    BY <1>a, <2>1, <2>3, ReportGrows
  <2> QED
    BY <1>10, <2>2, <2>3 DEF GetNameConnection
<1>11. CASE QueryName(l)
  <2>1. task[l] \in Task /\ row' = row
    BY <1>11, <1>a DEF QueryName
  <2>2. ASSUME NEW c \in task[l].todo, NEW n, n = NoName \/ n = row["Courses"][c],
               List(l, c, n, "leave")
        PROVE  Unsettled(l)' /\ Truthful(l)'
    BY <1>a, <2>1, <2>2, ReportGrows
  <2> QED
    BY <1>11, <2>2 DEF QueryName
<1>12. CASE Leave(l)
  BY <1>3, <1>12 DEF Leave
<1>13. CASE Reply(l)
  <2>1. task'[l].pc = "idle"
    BY <1>13 DEF Reply, TypeOK
  <2> QED
    BY <2>1, <1>a, ReportStays
<1> QED
  BY <1>1, <1>2, <1>4, <1>5, <1>6, <1>7, <1>8, <1>9, <1>10, <1>11, <1>12, <1>13,
     OwnStep DEF Handler

\* Reports are about courses there are, and nothing is settled too early.
THEOREM Reporting == Spec => []ReportInv
<1>1. Init => ReportInv
  BY DEF Init, ReportInv, Unsettled, Truthful, Handles, Pending
<1>2. RecordsInv /\ ReportInv /\ [Next]_vars => ReportInv'
  BY ReportStep, RowsKeptStep DEF RecordsInv
<1> QED
  BY <1>1, <1>2, Invariance, PTL DEF Spec

(***************************************************************************)
(* No report gives a course a name that is not its own, whatever is added   *)
(* and removed meanwhile, whichever statements fail and however small the   *)
(* pool is: a name that cannot be looked up is left out.                    *)
(***************************************************************************)
THEOREM NothingMisnamed == Spec => []NeverMisnamed
<1>1. ReportInv => NeverMisnamed
  BY DEF ReportInv, NeverMisnamed
<1> QED
  BY <1>1, Reporting, PTL
-----------------------------------------------------------------------------
(* The registry. *)

\* A loop that takes no step has told nothing else.
LEMMA CallStays ==
  ASSUME RecordsInv, RecordsInv', [Next]_vars, NEW m \in Loop, task'[m] = task[m]
  PROVE  Call(m)' = Call(m)
<1>1. task[m].pc = "readId" => insertId'[holds'[<<m, 1>>]] = insertId[holds[<<m, 1>>]]
  BY IdKept DEF RecordsInv
<1> QED
  BY <1>1 DEF Call, Pending, Success, IdTold, LastId

\* A step of one loop changes the call of this loop.
LEMMA CallsOf ==
  ASSUME RecordsInv, RecordsInv', [Next]_vars, NEW l \in Loop, Receive(l) \/ Handler(l)
  PROVE  Calls[l] = Call(l) /\ Calls' = [Calls EXCEPT ![l] = Call(l)']
<1>1. \A m \in Loop : m # l => Call(m)' = Call(m)
  BY OthersStay, CallStays DEF RecordsInv
<1>2. /\ Calls = [m \in Loop |-> Call(m)]
      /\ Calls' = [m \in Loop |-> Call(m)']
  BY DEF Calls
<1> HIDE DEF Calls, Call
<1> QED
  BY <1>1, <1>2

\* The steps that the registry does not see.
LEMMA CallUnseen ==
  ASSUME NEW l \in Loop, ~At(l, "idle"), ~At(l, "idle")',
         Pending(l)' <=> Pending(l),
         task'[l].req = task[l].req, task'[l].report = task[l].report,
         Success(l)' = Success(l), IdTold(l)' = IdTold(l)
  PROVE  Call(l)' = Call(l)
BY DEF Call, Pending

LEMMA Unseen ==
  ASSUME RecordsInv, RecordsInv', [Next]_vars, NEW l \in Loop, Receive(l) \/ Handler(l),
         Call(l)' = Call(l), UNCHANGED <<row, choosing>>
  PROVE  UNCHANGED Promise!registryVars
<1>1. Calls' = [Calls EXCEPT ![l] = Calls[l]]
  BY CallsOf
<1>2. Calls' = Calls
  BY <1>1 DEF Calls
<1> QED
  BY <1>2 DEF Promise!registryVars

\* A request that is settled.
LEMMA Settled ==
  ASSUME RecordsInv, RecordsInv', [Next]_vars, NEW l \in Loop, Handler(l),
         Pending(l), ~At(l, "idle")', ~Pending(l)',
         task'[l].req = task[l].req, task'[l].report = {},
         NEW ok, Success(l)' = ok, NEW i, IdTold(l)' = i
  PROVE  /\ Promise!Is(l, "asked") /\ Calls[l].req = task[l].req
         /\ Promise!Done(l, ok, i)
<1>1. Call(l) = [stage |-> "asked", req |-> task[l].req]
  BY DEF Call, Pending
<1>2. Call(l)' = [stage |-> "done", req |-> task[l].req, ok |-> ok, id |-> i,
                  report |-> {}]
  BY DEF Call, Pending
<1>3. Calls[l] = Call(l) /\ Calls' = [Calls EXCEPT ![l] = Call(l)']
  BY CallsOf
<1> QED
  BY <1>1, <1>2, <1>3 DEF Promise!Is, Promise!Done

\* An entry of a report.
LEMMA Listed ==
  ASSUME RecordsInv, RecordsInv', ReportInv, [Next]_vars, NEW l \in Loop, Handler(l),
         task[l].pc \in {"askName", "name"}, NEW c \in task[l].todo,
         NEW n \in {NoName} \cup ({row["Courses"][c]} \ {NULL}),
         NEW p \in {"reply", "askName", "leave"}, List(l, c, n, p),
         UNCHANGED <<row, choosing>>
  PROVE  Promise!List(l)
<1>1. /\ task[l] \in Task /\ TypeOK
      /\ task[l].req.op = "classAverages" /\ task[l].todo \subseteq DOMAIN row["Courses"]
  BY TaskType DEF RecordsInv, ReportInv, Unsettled, Truthful, Handles
<1>2. /\ task'[l].pc = p /\ task'[l].req = task[l].req
      /\ task'[l].id = task[l].id /\ task'[l].ok = task[l].ok
      /\ task'[l].report = task[l].report \cup {[course |-> c, name |-> n]}
  BY <1>1, ListFields
<1>3. /\ IdTold(l) = 0 /\ IdTold(l)' = 0
      /\ Success(l) = task[l].ok /\ Success(l)' = task[l].ok
  <2>1. task[l].ok \in BOOLEAN
    BY <1>1, TaskFields
  <2>2. Success(l) = task[l].ok /\ Success(l)' = task[l].ok
    BY <1>2, <2>1 DEF Success
  <2>3. IdTold(l) = 0 /\ IdTold(l)' = 0
    BY <1>1, <1>2 DEF IdTold
  <2> QED
    BY <2>2, <2>3
<1>4. Call(l) = [stage |-> "done", req |-> task[l].req, ok |-> task[l].ok,
                 id |-> 0, report |-> task[l].report]
  BY <1>3 DEF Call, Pending
<1>5. Call(l)' = [Call(l) EXCEPT !.report = @ \cup {[course |-> c, name |-> n]}]
  <2>1. Call(l)' = [stage |-> "done", req |-> task[l].req, ok |-> task[l].ok, id |-> 0,
                    report |-> task[l].report \cup {[course |-> c, name |-> n]}]
    BY <1>2, <1>3 DEF Call, Pending
  <2> QED
    BY <1>4, <2>1
<1>6. Calls[l] = Call(l) /\ Calls' = [Calls EXCEPT ![l] = Call(l)']
  BY CallsOf
<1>7. Calls' = [Calls EXCEPT ![l].report = @ \cup {[course |-> c, name |-> n]}]
  BY <1>5, <1>6
<1>8. Promise!Is(l, "done") /\ Calls[l].req.op = "classAverages"
  BY <1>1, <1>4, <1>6 DEF Promise!Is
<1> QED
  BY <1>1, <1>7, <1>8 DEF Promise!List

\* Requests about choices change no choice of another student or course.
LEMMA ChangedPromised ==
  ASSUME NEW q, q.op \in Change, q.choice \in Choice, choosing' = Changed(q),
         choosing \in SUBSET Choice
  PROVE  /\ \A r \in Choice :
              r.student # q.choice.student \/ r.course # q.choice.course
                => (r \in choosing' <=> r \in choosing)
         /\ choosing' \in SUBSET Choice
         /\ q.op = "insertChoosing" => choosing \subseteq choosing'
         /\ q.op = "removeChoosing" => \A r \in choosing' :
              r.student # q.choice.student \/ r.course # q.choice.course
         /\ q.op = "updateScore" => \A r \in choosing :
              r.teacher # q.choice.teacher => r \in choosing'
<1> USE DEF ByStudentAndCourse
<1>1. CASE q.op = "insertChoosing"
  BY <1>1 DEF Changed
<1>2. CASE q.op = "removeChoosing"
  BY <1>2 DEF Changed
<1>3. CASE q.op = "updateScore"
  <2> DEFINE new(r) == IF r.teacher = q.choice.teacher
                            /\ r \in ByStudentAndCourse(q.choice.student, q.choice.course)
                       THEN [r EXCEPT !.score = q.choice.score] ELSE r
  <2>1. choosing' = {new(r) : r \in choosing}
    BY <1>3 DEF Changed
  <2>2. ASSUME NEW r \in choosing
        PROVE  /\ new(r) \in Choice
               /\ new(r).student = r.student /\ new(r).course = r.course
               /\ \/ r.student # q.choice.student
                  \/ r.course # q.choice.course
                  \/ r.teacher # q.choice.teacher
                  => new(r) = r
    BY DEF Choice
  <2>3. ASSUME NEW r \in Choice,
               r.student # q.choice.student \/ r.course # q.choice.course
        PROVE  r \in choosing' <=> r \in choosing
    <3>1. r \in choosing => r \in choosing'
      BY <2>1, <2>2, <2>3
    <3>2. ASSUME r \in choosing' PROVE r \in choosing
      <4>1. PICK x \in choosing : r = new(x)
        BY <2>1, <3>2
      <4>2. new(x) = x
        BY <2>2, <2>3, <4>1
      <4> QED
        BY <4>1, <4>2
    <3> QED
      BY <3>1, <3>2
  <2>4. choosing' \in SUBSET Choice
    BY <2>1, <2>2
  <2>5. \A r \in choosing : r.teacher # q.choice.teacher => r \in choosing'
    BY <2>1, <2>2
  <2> QED
    BY <1>3, <2>3, <2>4, <2>5
<1> QED
  BY <1>1, <1>2, <1>3 DEF Change

\* Each step of a handler is one of the registry, or unseen.
LEMMA HandlerImplements ==
  ASSUME RecordsInv, RecordsInv', ReportInv, [Next]_vars, NEW l \in Loop,
         Receive(l) \/ Handler(l)
  PROVE  [Promise!Next]_(Promise!registryVars)
<1>a. /\ TypeOK /\ Unsettled(l) /\ (~At(l, "idle") => task[l] \in Task)
      /\ Pending(l) => ~At(l, "idle")
  BY TaskType DEF RecordsInv, ReportInv, Pending
<1>n. ASSUME \/ Promise!Ask(l) \/ Promise!Refuse(l) \/ Promise!Insert(l)
             \/ Promise!Remove(l) \/ Promise!Change(l) \/ Promise!Find(l)
             \/ Promise!List(l) \/ Promise!Reply(l)
      PROVE  Promise!Next
  BY <1>n DEF Promise!Next
\* Moving on is not seen.
<1>g. ASSUME NEW p \in PC \ {"idle", "readId"}, Goto(l, p), Handler(l),
             task[l].pc \notin {"idle", "readId"},
             Pending(l) <=> p \in {"ask", "askCourse", "inCourse", "run"},
             UNCHANGED <<row, choosing>>
      PROVE  UNCHANGED Promise!registryVars
  <2>1. /\ task'[l].pc = p /\ task'[l].req = task[l].req /\ task'[l].id = task[l].id
        /\ task'[l].ok = task[l].ok /\ task'[l].report = task[l].report
    BY <1>a, <1>g, GotoFields
  <2>2. Success(l)' = Success(l)
    BY <1>g, <2>1 DEF Success
  <2>3. IdTold(l)' = IdTold(l)
    BY <1>g, <2>1, <2>2 DEF IdTold
  <2>4. Call(l)' = Call(l)
    BY <1>g, <2>1, <2>2, <2>3, CallUnseen DEF Pending
  <2> QED
    BY <1>g, <2>4, Unseen
\* An answer that tells no id.
<1>s. ASSUME NEW b \in BOOLEAN, NEW p \in {"leave", "askTeacher"}, Handler(l),
             Answer(l, b, p), At(l, "run"), b => task[l].req.op # "insert"
      PROVE  /\ Promise!Is(l, "asked") /\ Calls[l].req = task[l].req
             /\ Promise!Done(l, b, 0)
  <2>1. /\ task'[l].pc = p /\ task'[l].req = task[l].req /\ task'[l].ok = b
        /\ task'[l].report = task[l].report
    BY <1>a, <1>s DEF TypeOK, Task
  <2>2. Pending(l) /\ task[l].report = {} /\ ~Pending(l)' /\ ~At(l, "idle")'
    BY <1>a, <1>s, <2>1 DEF Pending, Unsettled
  <2>3. Success(l)' = b /\ IdTold(l)' = 0
    BY <1>s, <2>1 DEF Success, IdTold
  <2> QED
    BY <1>s, <2>1, <2>2, <2>3, Settled
<1>1. CASE Receive(l)
  <2>1. PICK q \in Asked : task'[l].pc = "ask" /\ task'[l].req = q
    BY <1>1, <1>a DEF Receive, TypeOK
  <2>2. Call(l) = [stage |-> "free"] /\ Call(l)' = [stage |-> "asked", req |-> q]
    BY <1>1, <2>1 DEF Call, Pending, Receive
  <2>3. Calls[l] = Call(l) /\ Calls' = [Calls EXCEPT ![l] = Call(l)']
    BY <1>1, CallsOf
  <2>4. UNCHANGED <<row, choosing>>
    BY <1>1 DEF Receive
  <2>5. Promise!Ask(l)
    <3>1. q \in Asked
      BY <2>1
    <3>2. Calls' = [Calls EXCEPT ![l] = [stage |-> "asked", req |-> q]]
      BY <2>2, <2>3
    <3>3. Calls[l].stage = "free"
      BY <2>2, <2>3
    <3> QED
      BY <2>4, <3>1, <3>2, <3>3 DEF Promise!Ask, Promise!Is
  <2> QED
    BY <1>n, <2>5
<1>2. CASE GetConnection(l)
  <2>1. At(l, "ask") /\ UNCHANGED <<row, choosing>> /\ Handler(l)
    BY <1>2 DEF GetConnection, Handler
  <2>2. CASE Goto(l, "run") \/ Goto(l, "askCourse")
    BY <1>g, <2>1, <2>2 DEF PC, Pending
  <2>3. CASE Goto(l, "reply")
    <3>1. /\ task'[l].pc = "reply" /\ task'[l].req = task[l].req
          /\ task'[l].ok = task[l].ok /\ task'[l].report = task[l].report
      BY <1>a, <2>1, <2>3, GotoFields
    <3>2. Pending(l) /\ ~task[l].ok /\ task[l].report = {}
      BY <1>a, <2>1 DEF Pending, Unsettled
    <3>3. ~Pending(l)' /\ ~At(l, "idle")' /\ Success(l)' = FALSE /\ IdTold(l)' = 0
      BY <3>1, <3>2 DEF Pending, Success, IdTold
    <3>4. Promise!Is(l, "asked") /\ Promise!Done(l, FALSE, 0)
      BY <2>1, <3>1, <3>2, <3>3, Settled
    <3>5. Promise!Refuse(l)
      BY <2>1, <3>4 DEF Promise!Refuse
    <3> QED
      BY <1>n, <3>5
  <2> QED
    BY <1>2, <2>2, <2>3 DEF GetConnection
<1>3. CASE FailStatement(l)
  <2>1. At(l, "run") /\ Answer(l, FALSE, "leave") /\ UNCHANGED <<row, choosing>> /\ Handler(l)
    BY <1>3 DEF FailStatement, Handler
  <2>2. Promise!Is(l, "asked") /\ Promise!Done(l, FALSE, 0)
    BY <1>s, <2>1
  <2>3. Promise!Refuse(l)
    BY <2>1, <2>2 DEF Promise!Refuse
  <2> QED
    BY <1>n, <2>3
<1>4. CASE Insert(l)
  <2> DEFINE t == task[l].req.table
  <2>1. task[l] \in Task /\ At(l, "run") /\ task[l].req.op = "insert" /\ Handler(l)
    BY <1>4, <1>a DEF Insert, Handler
  <2>2. /\ task'[l].pc = "readId" /\ task'[l].req = task[l].req
        /\ task'[l].report = task[l].report
    BY <1>4, <1>a, <2>1, InsertFields
  <2>3. Pending(l) /\ task[l].report = {} /\ ~Pending(l)' /\ ~At(l, "idle")'
    BY <1>a, <2>1, <2>2 DEF Pending, Unsettled
  <2>4. holds'[<<l, 1>>] = holds[<<l, 1>>] /\ holds[<<l, 1>>] \in Conn
    BY <1>4, <2>1 DEF Insert, RecordsInv, Holding, TypeOK
  <2>5. insertId'[holds'[<<l, 1>>]] = Len(row[t]) + 1
    BY <1>4, <2>4, <1>a DEF Insert, TypeOK
  <2>6. Success(l)' = TRUE /\ IdTold(l)' = Len(row[t]) + 1
    <3>1. Success(l)' = TRUE
      BY <2>2 DEF Success
    <3>2. IdTold(l)' = LastId(l)'
      BY <2>2 DEF IdTold
    <3> QED
      BY <2>5, <3>1, <3>2 DEF LastId
  <2>7. /\ Promise!Is(l, "asked") /\ Calls[l].req = task[l].req
        /\ Promise!Done(l, TRUE, Len(row[t]) + 1)
    BY <2>1, <2>2, <2>3, <2>6, Settled
  <2>8. /\ row' = [row EXCEPT ![t] = Append(@, task[l].req.content)]
        /\ choosing' = choosing
    BY <1>4 DEF Insert
  <2>9. Promise!Insert(l)
    BY <2>1, <2>7, <2>8 DEF Promise!Insert, Promise!AskedFor
  <2> QED
    BY <1>n, <2>9
<1>5. CASE ReadId(l)
  <2>1. task[l] \in Task /\ task[l].pc = "readId" /\ UNCHANGED <<row, choosing>> /\ Handler(l)
    BY <1>5, <1>a DEF ReadId, Handler
  <2>2. task[l].req.op = "insert"
    BY <1>a, <2>1 DEF Unsettled
  <2>3. /\ task'[l].pc \in {"askTeacher", "leave"} /\ task'[l].req = task[l].req
        /\ task'[l].id = LastId(l) /\ task'[l].ok = TRUE
        /\ task'[l].report = task[l].report
    BY <1>5, <1>a, <2>1, ReadIdFields
  <2>4. Success(l)' = Success(l) /\ IdTold(l)' = IdTold(l)
    <3>1. Success(l) = TRUE /\ Success(l)' = TRUE
      BY <2>1, <2>3 DEF Success
    <3>2. IdTold(l) = LastId(l)
      BY <2>1 DEF IdTold
    <3>3. IdTold(l)' = task'[l].id
      BY <2>2, <2>3, <3>1 DEF IdTold
    <3> QED
      BY <2>3, <3>1, <3>2, <3>3
  <2>5. Call(l)' = Call(l)
    BY <2>1, <2>3, <2>4, CallUnseen DEF Pending
  <2> QED
    BY <2>1, <2>5, Unseen
<1>6. CASE RemoveCourse(l)
  <2>1. /\ At(l, "run") /\ task[l].req.op = "removeCourse" /\ Handler(l)
        /\ Answer(l, TRUE, "askTeacher") /\ choosing' = choosing
        /\ row' = [row EXCEPT !["Courses"] =
             [i \in DOMAIN @ |-> IF i = task[l].req.choice.course THEN NULL ELSE @[i]]]
    BY <1>6 DEF RemoveCourse, Handler
  <2>2. /\ Promise!Is(l, "asked") /\ Calls[l].req = task[l].req
        /\ Promise!Done(l, TRUE, 0)
    BY <1>s, <2>1
  <2>3. Promise!Remove(l)
    BY <2>1, <2>2 DEF Promise!Remove, Promise!AskedFor
  <2> QED
    BY <1>n, <2>3
<1>7. CASE GetNested(l) \/ LeaveNested(l)
  BY <1>7, <1>g DEF GetNested, LeaveNested, PC, Pending, Handler
<1>8. CASE ChangeChoosing(l)
  <2> DEFINE q == task[l].req
  <2>1. /\ task[l] \in Task /\ At(l, "run") /\ q.op \in Change /\ Handler(l)
        /\ Answer(l, TRUE, "leave") /\ choosing' = Changed(q) /\ row' = row
    BY <1>8, <1>a DEF ChangeChoosing, Handler
  <2>2. q.op # "insert" /\ q.choice \in Choice
    BY <2>1, TaskFields, RequestFields DEF Change
  <2>3. /\ Promise!Is(l, "asked") /\ Calls[l].req = q
        /\ Promise!Done(l, TRUE, 0)
    BY <1>s, <2>1, <2>2
  <2>4. \A S : Promise!Others(l, S) =
                {r \in S : r.student # q.choice.student \/ r.course # q.choice.course}
    BY <2>3 DEF Promise!Others
  <2>5. Promise!Others(l, choosing') = Promise!Others(l, choosing)
    BY <2>1, <2>2, <2>4, <1>a, ChangedPromised DEF TypeOK
  <2>6. /\ q.op = "insertChoosing" => choosing \subseteq choosing'
        /\ q.op = "removeChoosing" => choosing' = Promise!Others(l, choosing)
        /\ q.op = "updateScore" =>
             {r \in choosing : r.teacher # q.choice.teacher} \subseteq choosing'
    BY <2>1, <2>2, <2>4, <2>5, <1>a, ChangedPromised DEF TypeOK
  <2>7. Promise!Change(l)
    BY <2>1, <2>3, <2>5, <2>6 DEF Change, Promise!Change, Promise!AskedFor
  <2> QED
    BY <1>n, <2>7
<1>9. ASSUME NEW b \in BOOLEAN, Answer(l, b, "leave"), Handler(l), At(l, "run"),
             task[l].req.op \in Query \cup {"classAverages"}, UNCHANGED <<row, choosing>>
      PROVE  Promise!Next
  <2>1. task[l].req.op # "insert"
    BY <1>9 DEF Query
  <2>2. /\ Promise!Is(l, "asked") /\ Calls[l].req = task[l].req
        /\ Promise!Done(l, b, 0)
    BY <1>s, <1>9, <2>1
  <2>3. Promise!Find(l) \/ Promise!Refuse(l)
    BY <1>9, <2>2 DEF Promise!Find, Promise!Refuse, Promise!AskedFor
  <2> QED
    BY <1>n, <2>3
<1>10. CASE RunQuery(l)
  <2>1. Finds(task[l].req) \in BOOLEAN
    BY DEF Finds
  <2> QED
    BY <1>9, <1>10, <2>1 DEF RunQuery, Handler
<1>11. CASE QueryAverages(l)
  <2> DEFINE b == ClassCoursesAverage(task[l].req.class) # {}
  <2>1. /\ task[l] \in Task /\ At(l, "run") /\ task[l].req.op = "classAverages"
        /\ Handler(l) /\ UNCHANGED <<row, choosing>>
    BY <1>11, <1>a DEF QueryAverages, Handler
  <2>2. /\ task'[l].pc = "leave" /\ task'[l].req = task[l].req /\ task'[l].ok = b
        /\ task'[l].report = task[l].report
    BY <1>11, <1>a, <2>1, AveragesFields
  <2>3. Pending(l) /\ task[l].report = {} /\ ~Pending(l)' /\ ~At(l, "idle")'
    BY <1>a, <2>1, <2>2 DEF Pending, Unsettled
  <2>4. Success(l)' = b /\ IdTold(l)' = 0
    BY <2>1, <2>2 DEF Success, IdTold
  <2>5. /\ Promise!Is(l, "asked") /\ Calls[l].req = task[l].req
        /\ Promise!Done(l, b, 0)
    BY <2>1, <2>2, <2>3, <2>4, Settled
  <2>6. Promise!Find(l) \/ Promise!Refuse(l)
    BY <2>1, <2>5 DEF Promise!Find, Promise!Refuse, Promise!AskedFor
  <2> QED
    BY <1>n, <2>6
<1>12. CASE GetNameConnection(l)
  <2>1. task[l].pc = "askName" /\ UNCHANGED <<row, choosing>> /\ Handler(l)
    BY <1>12 DEF GetNameConnection, Handler
  <2>2. CASE Goto(l, "name")
    BY <1>g, <2>1, <2>2 DEF PC, Pending
  <2>3. ASSUME NEW c \in task[l].todo, NEW p \in {"reply", "askName"},
               List(l, c, NoName, p)
        PROVE  Promise!List(l)
    BY <2>1, <2>3, Listed
  <2> QED
    BY <1>12, <1>n, <2>2, <2>3 DEF GetNameConnection
<1>13. CASE QueryName(l)
  <2>1. task[l].pc = "name" /\ UNCHANGED <<row, choosing>> /\ Handler(l)
    BY <1>13 DEF QueryName, Handler
  <2>2. ASSUME NEW c \in task[l].todo,
               NEW n \in {NoName} \cup ({row["Courses"][c]} \ {NULL}),
               List(l, c, n, "leave")
        PROVE  Promise!List(l)
    BY <2>1, <2>2, Listed
  <2> QED
    BY <1>13, <1>n, <2>2 DEF QueryName, Exists
<1>14. CASE Leave(l)
  BY <1>14, <1>g DEF Leave, PC, Pending, Handler
<1>15. CASE Reply(l)
  <2>1. task[l].pc = "reply" /\ task'[l].pc = "idle" /\ UNCHANGED <<row, choosing>>
    BY <1>15, <1>a DEF Reply, TypeOK
  <2>2. /\ Call(l).stage = "done" /\ Call(l)' = [stage |-> "free"]
    BY <2>1 DEF Call, Pending
  <2>3. Calls[l] = Call(l) /\ Calls' = [Calls EXCEPT ![l] = Call(l)']
    BY CallsOf
  <2>4. Promise!Reply(l)
    BY <2>1, <2>2, <2>3 DEF Promise!Reply, Promise!Is, Promise!Free
  <2> QED
    BY <1>n, <2>4
<1> QED
  BY <1>1, <1>2, <1>3, <1>4, <1>5, <1>6, <1>7, <1>8, <1>10, <1>11, <1>12, <1>13,
     <1>14, <1>15 DEF Handler

LEMMA StepImplements ==
  ASSUME RecordsInv, RecordsInv', ReportInv, [Next]_vars
  PROVE  [Promise!Next]_(Promise!registryVars)
<1>1. ASSUME UNCHANGED <<row, choosing, task>>
      PROVE  UNCHANGED Promise!registryVars
  <2>1. \A m \in Loop : Call(m)' = Call(m)
    BY <1>1, CallStays
  <2>2. Calls = [m \in Loop |-> Call(m)] /\ Calls' = [m \in Loop |-> Call(m)']
    BY DEF Calls
  <2>3. Calls' = Calls
    BY <2>1, <2>2
  <2> QED
    BY <1>1, <2>3 DEF Promise!registryVars
<1>2. Grow \/ Shrink \/ UNCHANGED vars => UNCHANGED <<row, choosing, task>>
  BY DEF Grow, Shrink, vars
<1> QED
  BY <1>1, <1>2, HandlerImplements DEF Next

(***************************************************************************)
(* The handlers implement the registry: every request takes effect once, at *)
(* one statement, or is refused and changes nothing, and its answer says    *)
(* which, for any number of loops, connections and requests and whichever   *)
(* statements fail.                                                         *)
(***************************************************************************)
THEOREM Implementation == Spec => Implements
<1>1. Init => Promise!Init
  <2>1. ASSUME Init, NEW l \in Loop PROVE Call(l) = [stage |-> "free"]
    <3>1. task[l].pc = "idle"
      BY <2>1 DEF Init
    <3> QED
      BY <3>1 DEF Call, Pending
  <2>2. Init => Calls = [l \in Loop |-> [stage |-> "free"]]
    BY <2>1 DEF Calls
  <2> QED
    BY <2>2 DEF Init, Promise!Init, Promise!Free
<1>2. RecordsInv /\ RecordsInv' /\ ReportInv /\ [Next]_vars
        => [Promise!Next]_(Promise!registryVars)
  BY StepImplements
<1> QED
  BY <1>1, <1>2, Invariance, Reporting, PTL DEF Spec, Implements, Promise!Spec
=============================================================================
