# Verification of MySQLServer

A C++ server for a school's course records: console clients connect over TCP
(muduo), send JSON requests, and the server answers them from MySQL through a
connection pool.  This directory holds TLA+ models of the server, the TLC
configurations that check them on small instances, and proofs that TLAPS checks
for every instance.  Paths below are relative to the repository.

## 1. The system

| part | code | state | operations | interacts through |
|---|---|---|---|---|
| network front end | `src/server/SQLServer.cpp`, `src/server/main.cpp` | one acceptor loop, three event loops, a buffer per connection | `onConnection`, `onMessage` | calls the handler found by `SQLService::getHandler` in the loop the connection was given |
| sessions | `src/server/SQLService.cpp:65-338` | three maps from account to `TcpConnectionPtr`, guarded by `_connMutex` | three logins, three registrations, `reset`, three close handlers without a caller | the `state` column of the account tables, through the models |
| course, choice and score requests | `src/server/SQLService.cpp:340-921` | none | 16 handlers, each one or several statements and an answer | models |
| models | `src/server/model/*.cpp` | none; the tables `Students`, `Teachers`, `Admins`, `Courses`, `CourseChoosing` are MySQL's | one statement each, except `insertCourse` and `removeCourse`, which borrow a second connection while they hold one | borrow a connection per statement |
| connection pool | `src/server/db/ConnectionPool.cpp` | queue, counter, mutex, condition variable | `getConnection`, the deleter of what it returns, a producer and a scanner thread | shared by the event loops and the main thread |
| configuration | `ConnectionPool::loadConfigFile`, `bin/mysql.conf` | the pool's four numbers | read once, by the first request | the members of the static pool |
| process | `src/server/main.cpp` | | start, SIGINT (`reset`, then `exit`) | the signal handler runs on the main thread next to the event loops |
| client | `src/client/main.cpp` | the logged-in account, menu state, a semaphore | one reader thread, one menu loop | requests end in a NUL byte, answers do not |

What is hard about it: the pool is shared by five or more threads that meet at
one condition variable; handlers of different event loops overlap between any
two statements, and there are no transactions; a login is four steps over two
stores (map and table); TCP joins and breaks what clients send, and the server takes
whatever is there for one request; an exception nobody catches ends the process
for every client; the process can end, orderly or not, between any two
steps and what it leaves in the tables outlives it; several results are ignored.
`PROJECT.json` lists the hazards at their lines.

What makes each part correct: the pool lends a connection to one holder at a
time, counts exactly, deletes only what is idle and old, answers every caller;
a login lets an account in once, and maps, table and clients agree; an
interrupted server leaves nobody online; an answer tells what happened to the
tables; a request is lost only if its client did not wait, and a client that
waits is served.

## 2. Modules

| module | models | state |
|---|---|---|
| `ResourcePool` | what the pool promises, without queue, locks or threads | idle set, holder of each connection |
| `ConnectionPool` | the pool, thread by thread | queue in order, counter, idle clock, mutex, program counters, the `shared_ptr` locals of the handlers |
| `ConnectionPool_proofs` | theorems about it | |
| `Config` | the lines of a configuration file and what is read from them; the shipped file | none (functions) |
| `MCConnectionPool` | instances: the numbers of the shipped file, symmetry for TLC | |
| `Accounts` | what logins promise, without tables, maps and handlers | accounts online, who uses which, whether a reset runs |
| `Sessions` | logins, registration, maps, state column, closing, SIGINT, crash, restart | state column, maps, links, what each client was told, the handler each loop is in, progress of `reset` |
| `Sessions_proofs` | theorems about it | |
| `MCSessions` | instances: who has which role, which client is on which loop | |
| `Records` | requests, statements and answers about courses, choices and scores, registration, over `ResourcePool` | tables, last insert id of each connection, what each handler holds and is doing |
| `Records_proofs` | theorems about it | |
| `Registry` | what the handlers promise those who ask, without connections, a pool or nested statements | tables, choices, the request of each loop with its answer |
| `Registry_proofs` | theorems about what `Records` answers, and that it implements `Registry` | |
| `MCRecords` | instances: rows and choices at the start, the requests clients send | |
| `Mailbox` | what the front end promises each client, without bytes and loops | requests sent, taken, answered, hasty |
| `Wire` | streams of bytes, `onMessage`, the parser, the dispatch, exceptions, closing | position of each stream, requests taken and answered, the handler each loop is in |
| `Wire_proofs` | theorems about it | |
| `MCWire` | instance: who asks for what, and on which loop | |
| `Client` | the console client: menu loop, reader thread, semaphore | place of the main thread, request filled in, what is under way, how the process ended |
| `Client_proofs` | a theorem about it | |

`ConnectionPool` implements `ResourcePool` (`Refines`, proved), and `Records` is
built on `ResourcePool`, so its handlers meet every behaviour the threads of the
pool can show them, without their interleavings.  `Sessions` implements
`Accounts`, `Wire` implements `Mailbox` and `Records` implements `Registry` (all
proved).  `MCConnectionPool`
takes its timeout, and the premise of `AlwaysSupplied`, from `Config`.  `Wire`
ends where a handler begins and `Sessions` and `Records` begin there: `Receive` of
both is `Dispatch` of `Wire`.  `Exit` of `Sessions` is its `Exit`, and `Crash` is its
`Throw` or `HandlerThrows`.  That a handler comes to its end, which `Wire` assumes
where none throws, is `Answered` of `Records`; `Records` does not model the end of
the process.

A definition whose name ends in an underscore is a mutant of the definition
after it: a plausible mistake, with which the property named in `PROJECT.json`
must fail.  No module uses them otherwise.

### ConnectionPool

One action per critical section.  `_queueMutex` is a variable only because two
sections are long: the producer keeps it while it connects (`ProducerConnect`,
`ProducerPush`) and the scanner while it loops (`ScannerLock`, `ScannerReap`,
`ScannerDone`).  `getConnection` is `Call` (before the lock), `Take` (queue not
empty), `Wait` (empty: `cv.wait_for`), then a notification (`WakeCallers` of
another step), a `Deadline`, or a `SpuriousWakeup`, then the loop test again or
`Fail` (`return nullptr`).  `LateDeadline` is the race in `wait_for` between a
notification and the clock.  The deleter is `Release`; it does not notify.

`sp` holds the `shared_ptr` locals: frame 1 is that of the model function a
handler calls, frame 2 that of a model function called while frame 1 is alive.
They fill from 1 and empty from the end, which is what scopes do.

`_connectionTimeout` matters only as zero or not zero.  With zero, the deadline
has passed before the thread sleeps, so `Wait` leads straight to `Fail`.

`front()` on an empty queue (`ConnectionPool.cpp:127` when every connection is
lent out and the pool is above `initSize`) is undefined behaviour.
`ScannerEmptyFront` gives it two outcomes: the stale slot looks young and the
scan ends, or the program is in a state the model says no more about
(`Corrupted`, the mutex stays taken).  Runs that can get there switch the
deadlock check off for that reason.

### Sessions

A loop runs one handler at a time (`task[l]`), and a client belongs to one loop
(`LoopOf`).  A login is `Receive`, then the query and the test (`Admit` or
`Refuse`), `InsertConn`, `UpdateState`, `Reply`; the three roles differ in the
table, and the students' `updateState` in that it fails (`Updatable`).
The schema is not in the repository; that the students' table has no column
`id` is read off the other statements (`StudentID` in `studentModel.cpp:36`,
`s.studentId` in `adminModel.cpp:139`, and the eight columns `query` reads).
`granted[c]` is what client `c` has been told.  `Register` is the INSERT.
`Disconnect` changes the link and nothing else, as `onConnection` does.
SIGINT is `Interrupt`, three `ResetState` steps and `Exit`; `Crash` stands for
every other end, such as an exception of `json::parse` in any loop, or of `dump` in
the handler itself, between `UpdateState` and `Reply`.  `DbFails` lets any
statement fail; `Crashes` allows crashes.

A login with an empty id and an empty password is let in without a row.  When
`query` finds none, or fails, it returns a default `Student`, `Teacher` or `Admin`,
whose id and password are empty and whose state is offline, and that is what the
handler compares with (`SQLService.cpp:70`, 144, 213).  `Blank` has these logins: they
are never registered (`Register`), never refused (`MayEnter`, `Refuse`), the client is
put in the map and told that it has succeeded, and the UPDATE finds no row.  So any
number of clients can be in at once, as with students; what is said of the accounts
whose state is kept (`Updatable`) is not said of them.

`Accounts` sees of all this the accounts whose state is kept (`Updatable`, the rows of
teachers and administrators): a step of `UpdateState` occupies an account, `Reply` lets its
client in, `ResetState` frees, and a crash ends the sessions but frees nothing.

### Records

A loop runs one handler at a time.  `task[l]` says where it is: about to ask for
its connection, to run its statement, to read the id of the row it has inserted,
to ask for the connection of a nested query, in that query, to give its own
connection back, to look up the next name, to answer.  `holds` has the
connection of the handler (`<<l, 1>>`) and that of a nested model function
(`<<l, 2>>`).  A statement is one step, with or without success; between two
statements the other loop, and the threads of the pool, do what they like.

Requests come in a few kinds, by what their handlers do.  Three registrations
and `insertCourse` are an INSERT and a call of `mysql_insert_id`, which answers
from `insertId` of the connection.  `insertCourse` and `removeCourse` go on to, or
begin with, queries on a second connection; their result is put in a local
`Teacher` and thrown away, so `AfterNested` is all that is left of them.  Three
requests change `CourseChoosing` by one statement, ten read by one.
`adminQueryClassCoursesAverage` reads the averages of a class and then, course by
course, a name.

Tables are sequences, since ids count up; a row that has been deleted stays as
`NULL`, as its id is not given again.  `Content` is the one column of a row that
matters: the name of a course, the class of a student, the courses a teacher
lists.  `CourseChoosing` is a set: whether it has a key is not in the repository,
and a second equal row changes no answer the model gives.  Left out are the
year of a choice and the value of an average.  `getConnection` may give `nullptr`
only when it has found the queue empty, which is so with the timeout of zero the
shipped configuration comes to: `wait_for` returns at once then, so a call is settled
when it looks at the queue.  A statement that fails has had no effect: that MySQL commits an INSERT and
the answer is lost on the way is not modelled, and a handler would take it for a
failure.

`Registry` sees of all this the tables and, for each loop, a request that is asked or
done.  A request is settled at one statement.  For an INSERT that is before
`mysql_insert_id` has read the id, so the mapping (`IdTold`) takes it from the
connection, which must still remember it when it is read.  What a nested query finds
or misses is a stutter.  A class report is done with its averages; the names that
follow are `List`, each right at the time it is added or left out.

### Wire

A request is three bytes, as it were: the two halves of its text and the NUL the
client sends behind it.  A stream is the number of requests sent and the position
it has been read to.  `Arrived` says how much the loop can find in the buffer:
anything beyond what it has read, and for clients in `Whole` nothing that ends
within a request.  `onMessage` empties the buffer (`Retrieved`) and parses what was
in it.  The parser takes a NUL for the end of its input, so a buffer that begins
with a whole text is that one request (`Dispatch`) and the rest is gone; any other
buffer throws (`Throw`), as does a request that lacks its `msgid` or a field its
handler begins with.  Nobody catches, so the process ends, with every connection
and every handler.

The process has two other ends.  `Exit` is SIGINT (`main.cpp:8-11`), at any time; what
`reset` does before it is in `Sessions`.  `HandlerThrows` is an exception after the
dispatch, whatever was asked: `response.dump()` throws at a column that is not
UTF-8, and the connections are set to gbk (`Conncetion.cpp:26`).  No client can prevent
either, so no property says that the process lasts.  `ThrowsOnlyAtFault` is about
`onMessage` only.

Such requests are real: the repository's client sends a logout without `msgid`,
its registrations say `name` where the handlers read `StudentName`, `TeacherName`
and `AdminName` (`SQLService.cpp:112`, 184, 253), and its teacher menu says
`teacherId` where line 493 reads `id`.

A client may close with requests under way, and the loop may still read them;
after a restart the connections that were never used connect.  The handler is one
step here; its answer is lost when the client has closed.

### Client

The two blocks `login:` and `reg:` stand in the menu loop behind the `switch`, so
the `break` at their end leaves the loop and `main` returns: `Break`.  What would
follow (`Send`, `Await`, `MainMenu`, `Read`) is in the module as it is in the code,
and as unreachable.  Without the two `break` statements registrations would be sent
and answered, but no menu behind a login would be shown: the reader thread takes
`id` from the answer to a login (`client/main.cpp:227`), where the server has put
`studentId`, `teacherId` or `adminId`, and throws (`LacksId`).  The modules of the server therefore have for
clients any programs that speak its protocol, those that wait for an answer, as the
first menu does, and those that do not, as the later menus do.

### Config

A line is empty, if it has no `=`, or a key and what `atoi` makes of the value.
`Load` goes through the lines; a key that is not in `KeyOf` changes nothing, and a
member that nothing sets is zero, since the pool is a static object.

## 3. Runs

| run | bounds | shows |
|---|---|---|
| `pool_contended` | 3 threads, depth 2, 2 to 4 connections, clock to 2, limit 1 | `TypeOK`, `Exclusive`, `CountExact`, `PoolInv`, `OnlyUnderLoad`, `ReapComplete`, `ReapOnlyIdle`, `Refines` |
| `pool_live` | 2 threads, depth 2, 1 to 3 connections, the timeout of the shipped file | `GetReturns`, `ProducerSupplies` |
| `pool_livelock` | timeout not 0, initSize = maxSize = 2 | `GetReturns` is violated |
| `sessions_staff` | teacher and admin, 3 clients on 2 loops, crashes | `TypeOK`, `OnePerLoop`, `ResetClears`, `LoopInv`, `InterruptFrees`, `KeepsAccounts` |
| `sessions_failing` | a teacher and logins without id and password, 3 clients on 2 loops, crashes and failing statements | `RegisteredSessions`, `MapInv` |
| `sessions_race` | one teacher, 2 loops | `OneSession` is violated |
| `sessions_student` | one student, 2 clients on one loop | `OneStudentSession` is violated |
| `sessions_exit` | one teacher | `StoppedAllOffline` is violated |
| `records_additions` | 2 loops, 1 to 2 connections, 2 choices, courses added and removed, tables of 3 rows, statements fail | `AnswerMatchesInsert`, `RecordsInv`, `NeverMisnamed`, `Answered`, `Implements` |
| `records_reports` | 2 loops, 5 connections, 2 choices, 2 courses, students registered, tables of 2 rows | `TypeOK`, `NamesTrue` |
| `wire` | 3 clients on 2 loops, 2 or 3 requests each, one client patient, two whole | `TypeOK`, `LostOnlyIfHasty`, `ThrowsOnlyAtFault`, `WireInv`, `Implements`, `PatientServed` |
| `client_login` | one session | `FilledIsSent` is violated |

Why the bounds are enough.  `pool_contended` has demand 6 on at most 4
connections, so callers wait, time out, race the deleter and each other; the
pool grows by two and shrinks again; connections of different ages queue behind
each other (the clock passes the limit twice).  `MaxClock` is the one bound that
is not in the code: the clock stops there.  `Conn` is as large as `maxSize`, so
an address is reused as soon as it is free.  `sessions_*` have a loop with two
clients and another with one, so logins race within and between loops, and
clients are not reused: each is a connection, and after a crash the unused ones
log in.  In `records_additions` two handlers insert into one table at once, on
connections that are reused, deleted and made anew; the demand (four) exceeds
the pool, so first and nested connections and those for names are refused, and
both loops can hold the only two connections and ask for another.  Tables have
room for an insertion of each loop next to the row they start with; `MaxRows` is
the one bound that is not in the code (an INSERT into a full table fails).
`records_reports` has five connections because `NamesTrue` needs a pool that is
never empty, and four is the demand; there a course is removed and another added,
chosen, dropped and scored between the statements of a report.  In `wire` the
client that does not wait has three requests, so two can arrive joined with the
third behind them, whole or cut anywhere; the patient client shares its loop, and
a third ends the process with a request nobody can read, or closes, or never
does; SIGINT and an exception of a handler may end it at any time besides.  No counter of `Wire` is bounded but by the requests the clients have.
`pool_live` has two callers of depth two on at most three connections, so the
second connection of one and of the other can both be refused; there the scanner
may empty the queue behind a sleeping producer, which is why `ProducerSupplies` says
of a producer that sleeps only that it wakes while nothing is old enough to delete.

### Findings

1. `pool_livelock`: with a timeout that is not zero, a caller on an exhausted
   pool at `maxSize` may wait for ever.  The shipped configuration escapes it
   because the key it sets, `maxConnectionTimeOut`, is not the key the code
   reads, `connectionTimeOut`, so the timeout is zero.
2. `sessions_race`: two loops let two clients in to one teacher.
3. `sessions_student`: every login of a student is let in.
4. `sessions_exit`: a login that overtakes `reset()` stays online after exit.
5. `client_login`: the console client ends after its first form, without
   sending it.

Also seen, and in the models, but plain from a line of the code or not
contradicted by any document, so no run is about it:

- `getConnection` returns `nullptr` with a connection in the queue when the
  timeout races a deleter (`Fail`).
- The scanner may empty the queue behind a sleeping producer, since it counts
  lent connections and notifies nobody (`ScannerReap`).
- A login with an empty id and an empty password is let in without an account, as
  often as one likes (`MayEnter`).
- A login that ends in an exception of `dump` leaves its account online in the table
  and the process down (`Crash` between `UpdateState` and `Reply`).
- The close handlers have no caller, so map entries of clients that are gone stay
  (`Disconnect`).
- A score is confirmed although no row has taken it (`Changed`).
- A failing query is answered as one that found nothing (`FailStatement`).
- `removeCourse` answers `updateTeachers` (`SQLService.cpp:912`), but takes the
  course from the list of a local `Teacher` (`adminModel.cpp:367-368`) that is never
  written back (`RemoveCourse`).
- The second of two requests that arrive together gets no answer (`Dispatch`), and
  one request that cannot be read ends the server for everybody (`Throw`).
- Answers carry no NUL and the client's buffer is never cleared
  (`main.cpp:219`, in `ServerGone`).
- A class report lists a course without a name if the course is removed while the
  report is made (`QueryName`); `NamesTrue` says that this is all that can go wrong.

### Fairness

Pool: the operating system runs every thread, and a thread that keeps going for
the mutex gets it in the end (strong fairness of the sections that need it);
deadlines pass.  Nothing is assumed of handlers: they need not call, nor ever
give back what they hold.  Nothing is assumed of the clock, of `sleep_for`, of
spurious wakeups.  Sessions: a loop goes on with the handler it is in, and the
main thread with `reset`; nothing is assumed of clients, signals, crashes,
`exit` (it destroys a condition variable somebody waits on) or a restart.
Records: a loop goes on with the handler it is in, which is what `GetReturns` says
of `getConnection` and what a statement that comes back, well or not, says of the
rest; nothing is assumed of clients and of the threads of the pool.
Wire: the network delivers, and a loop reads each connection that has something
to read; it can only between handlers, so the fairness is strong
(`epoll` hands a loop every readable connection before it polls again).
A handler comes to its end, with its answer or with an exception.  Nothing is assumed
of what clients send, of when they close, or of who interrupts the server or starts
it again.

## 4. Proofs

All theorems are of `Spec` and hold for every value of the constants allowed by
`PoolAssumption`, `SessionAssumption`, `RecordsAssumption` and `WireAssumption`,
with what is said here.  Every invariant a passing run checks is proved,
and so is every action property and refinement.

ConnectionPool.  `Invariance` proves `PoolInv`, which is inductive.  `Exclusive`
and `CountExact` need each other (the scanner may pop only what is counted) and
`MutexDiscipline`: the producer decides under the mutex that the queue is empty
and the pool below `maxSize` and acts on it a step later.  `ReapsAll` needs
`OldestFirst`, the order of the queue, and that needs `AliveTimePast`.
`Implementation` maps the queue to the set of idle connections and each step to
a step of `ResourcePool` or a stutter.  `AlwaysSupplied` assumes that
`Cardinality(Threads) * MaxDepth < InitSize`, which the shipped configuration
meets (three loops and, during `reset`, the main thread; depth two; initSize 10),
and counts: lent connections are at most the frames.  `MCConnectionPool` has the
inequality for the shipped file as an assumption that TLC evaluates.
`TroubleOnlyUnderLoad` proves `OnlyUnderLoad` from the exact count: while the queue
is empty everything that is counted is lent out.

Sessions.  `MapsAgree` proves `RegisteredSessions` through `MapInv`.
`SessionPerLoop` proves `OnePerLoop` through `LoopInv`, assuming that statements
do not fail (`~DbFails`): a loop that is letting a client in has seen the
account offline, and no other login of that loop can come between.
`LoginsKeepApart` and `MapFirst` are the two inductive invariants themselves.
`ResetLeavesOnlyNewLogins` proves `ResetClears`, and `Implementation` that `Sessions`
implements `Accounts`, both with the same assumption; the step that lets a client
in needs `LoopInv` (the account is online and nobody of the loop is in it), unless
a reset is under way, which `Accounts` says too.
`SessionsBounded` counts what `OnePerLoop` means: the loop of a session is an
injective function on the sessions of an account, so until an interrupt a teacher or
administrator has at most as many sessions as there are loops (three, `SQLServer.cpp:21`),
however many connections there are.  Like `OnePerLoop` it is about accounts with a row
whose state is kept (`Updatable`): students and logins without id and password are
not bounded.  `OneLoopSuffices` is the other side of
`sessions_race`: with one loop `OneSession` holds.

Records.  `Invariance` proves `RecordsInv`, which is inductive, and
`InsertionsTold` takes `AnswerMatchesInsert` from it; failing statements, refused
connections and the threads of the pool are all allowed.  The id is right because
the connection is not lent to anybody else between the INSERT and the call that
reads its id (`HeldOnce`), because the handler still has it then (`Holding`), and
because a connection made anew is one that nobody holds; `InsertRemembered` puts
the three together, with the fact that rows are only added or deleted
(`RowsKeptStep`).  `TypeCorrect` needs `Holding` for the same reason: the id is
read from a connection, not from `nullptr`.
`NamesAreTrue` proves `NamesTrue` with three assumptions: statements succeed, the
loops are finitely many, and the pool begins with more than twice as many
connections.  The last is counted as in `AlwaysSupplied`: the pool does not shrink
below `InitSize` and each loop holds two at most, so a name is never looked up
without a connection; and rows are only added or deleted, so a name that was
found stays the name of that course.

Registry.  `NothingMisnamed` proves `NeverMisnamed` with none of the assumptions of
`NamesAreTrue`: with failures and an empty pool a report may leave a name out but
never gives one course the name of another.  It is not inductive by itself; `ReportInv`
(`Reporting`) adds that the courses a report has still to look up have rows, that
before its effect a request has settled nothing, and that only insertions read ids and
only class reports look up names.  The same invariant, with `RecordsInv`, carries
`Implementation`.  A step of a handler settles its request (`Settled`), adds a name
(`Listed`) or is not seen (`Unseen`).  The one that matters among these is `ReadId`: the id is already part of the mapped state,
and `InsertRemembered` says that it is the one the row was given.  What another loop
does leaves `IdTold(l)`, since it holds other connections (`HeldOnce`) and a
connection made anew is one that nobody holds.

Wire.  `WireInv` is inductive.  `LostOnlyIfHasty` by itself is not: that what is
thrown away behind a request was sent too early needs that a request behind an
unread one is hasty (`UnreadBehindUnread`), and that needs that only what was taken
is answered and only what was read is taken (`InOrder`, `TaskTaken`).  A connection
that has been read to the middle of a request is one whose next read ends the
process.  `Implementation` takes the order of `Mailbox` from the same invariant.
`ExceptionsAreTheSenders` proves `ThrowsOnlyAtFault`; that needs that a stream that
arrives whole is always read up to the end of a request (`FaultInv`), although what is
thrown away is never parsed.  `DisciplineSuffices` draws the conclusion for clients: if
all wait for their answers and send what can be read, and the network breaks nothing,
`onMessage` never throws and no connection that lasts has a request passed over.
It does not say that the process goes on.

Client.  `NeverSends` extends the finding of `client_login` to every session: the
main thread never comes to the code that sends, so nothing is sent or answered and no
menu behind a login is ever shown.

Model-checked only: liveness (`GetReturns`, `ProducerSupplies`, `InterruptFrees`,
`Answered`, `PatientServed`), which is out of reach of the prover, the violations of
section 3, and what `Config` makes of a file: `Load` goes through the lines by
recursion, and induction over them is out of reach too, so the value read from the
shipped file is computed by TLC.

## 5. Not modelled

- The JSON library, which is vendored; where its parser stops and when it throws is
  in `Wire`.  The two programs under `test/` and the build files.
- The record classes under `include/server/model`: getters and setters.  The message
  numbers are kinds of requests in `Wire` and `Client`.
- Columns that no handler acts on: ages, years, credits, the value of an average.
- The health of a MySQL handle over time.  A dead handle is one whose statements
  fail, which `Records` and `Sessions` allow at any time; that it is lent again and
  again, and fails each time, is not said.  Nor is a statement that takes effect and
  whose answer is lost.
- Real time: `clock()` counts processor time (`Connection.hpp:23`), so the seconds of
  the configuration mean little; the model's clock advances at will.
- Descriptors and memory, such as the `TcpConnectionPtr` the maps keep for ever or a
  result that is not freed when `query` finds no row (`teacherModel.cpp:49-69`).
- What happens in `exit` while other threads run: static destructors and the waiting
  producer are undefined behaviour beyond the state of this program, and `Sessions`
  only assumes no fairness of `Exit`.

What could come next: `Records` and `Sessions` over one set of loops, for the order in
which one handler's statements and a reset meet; handles that stay dead, with a
bound on how many the pool lends.
