--------------------------- MODULE ConnectionPool ---------------------------
(***************************************************************************)
(* The MySQL connection pool of the server: class ConnectionPool            *)
(* (src/server/db/ConnectionPool.cpp) from the moment its constructor has   *)
(* returned.  Handler threads borrow connections with getConnection() and   *)
(* give them back when the last shared_ptr to them dies; a producer thread  *)
(* creates connections when the queue is empty; a scanner thread deletes    *)
(* connections that have been idle for too long.  All of them work on       *)
(* _connectionQue and _connectionCnt under _queueMutex and meet at one      *)
(* condition variable, cv.                                                  *)
(*                                                                          *)
(* Granularity.  A section that holds _queueMutex and neither waits nor     *)
(* leaves the pool is one step, taken when the mutex is free.  The two      *)
(* sections that are long keep the mutex over several steps: the producer   *)
(* while it connects to MySQL, the scanner while it loops.                  *)
(***************************************************************************)
EXTENDS Integers, Sequences, FiniteSets, Functions

CONSTANTS
  Threads,            \* threads that run the message handlers
  Conn,               \* addresses a Connection object can have
  NULL,               \* nullptr
  MaxDepth,           \* connections one handler holds at once (see Call)
  InitSize,           \* _initSize
  MaxSize,            \* _maxSize
  ConnectionTimeout,  \* _connectionTimeout; only zero or not zero matters
  Spurious,           \* does cv wake threads that nobody notified?
  IdleLimit,          \* _maxIdleTime * 1000, in units of clock()
  MaxClock            \* bound of the model: clock() stops here

ASSUME PoolAssumption ==
  /\ IsFiniteSet(Threads)
  /\ IsFiniteSet(Conn)
  /\ NULL \notin Conn
  /\ MaxDepth \in Nat
  /\ InitSize \in Nat
  /\ MaxSize \in Nat
  /\ InitSize <= MaxSize
  /\ MaxSize <= Cardinality(Conn)
  /\ ConnectionTimeout \in Nat
  /\ Spurious \in BOOLEAN
  /\ IdleLimit \in Nat
  /\ MaxClock \in Nat

VARIABLES
  connectionQue,   \* _connectionQue, front first
  connectionCnt,   \* _connectionCnt
  aliveTime,       \* _aliveTime of each Connection
  now,             \* what clock() returns
  queueMutex,      \* who keeps _queueMutex from one step to the next
  pc,              \* where each handler thread is, see CallerState
  expired,         \* has the deadline of the thread's wait_for passed?
  sp,              \* the shared_ptr<Connection> locals of the handlers
  producer,        \* where the producer thread is
  scanner          \* where the scanner thread is

vars == <<connectionQue, connectionCnt, aliveTime, now, queueMutex, pc,
          expired, sp, producer, scanner>>

(***************************************************************************)
(* A handler thread is outside getConnection ("run"), about to lock         *)
(* _queueMutex on entry ("lock"), blocked in cv.wait_for ("wait"), or about *)
(* to lock the mutex again before wait_for returns ("woken").               *)
(***************************************************************************)
CallerState == {"run", "lock", "wait", "woken"}

\* A handler and the model function it calls each have one local shared_ptr.
Frames == Threads \X (1..MaxDepth)

-----------------------------------------------------------------------------
\* Connections in the queue, connections a handler holds, and all of them.
Idle == Range(connectionQue)
Out  == Range(sp) \ {NULL}
Live == Idle \cup Out

(***************************************************************************)
(* The tests and assignments that the threads share.  A definition whose    *)
(* name ends in an underscore is a mutant of the one that follows it: what  *)
(* a plausible mistake would make of it, to show which property notices.    *)
(***************************************************************************)

\* Connection::getAliveTime: how long a connection has been idle.
getAliveTime(c) == now - aliveTime[c]

\* Connection::refreshAliveTime, called before each push.
refreshAliveTime(c) == [aliveTime EXCEPT ![c] = now]

\* The end of the queue (two mutants).
push_(c) == connectionQue
push__(c) == <<c>> \o connectionQue
push(c) == Append(connectionQue, c)

pop_ == connectionQue
pop == Tail(connectionQue)

\* The producer goes on only if the queue is empty (two mutants).
MustProduce_ == TRUE
MustProduce__ == FALSE
MustProduce == connectionQue = <<>>

\* The scanner goes on only above initSize, and deletes only what is too old.
TooMany_ == connectionCnt >= InitSize
TooMany == connectionCnt > InitSize

TooOld_(c) == TRUE
TooOld(c) == getAliveTime(c) >= IdleLimit

\* Is a deadline that wait_for sets now over at once?
DeadlinePassed == ConnectionTimeout = 0

\* The scanner has popped and deleted through an empty queue.
Corrupted == scanner = "undefined"

\* cv.notify_all(): every blocked thread goes for the mutex (a mutant forgets
\* the producer).
WakeCallers   == [t \in Threads |-> IF pc[t] = "wait" THEN "woken" ELSE pc[t]]
WakeProducer_ == producer
WakeProducer  == IF producer = "wait" THEN "run" ELSE producer

-----------------------------------------------------------------------------
(* The constructor: InitSize connections, all fresh, both threads started. *)
Init ==
  /\ connectionQue \in Injection(1..InitSize, Conn)
  /\ connectionCnt = InitSize
  /\ aliveTime = [c \in Conn |-> 0]
  /\ now = 0
  /\ queueMutex = "free"
  /\ pc = [t \in Threads |-> "run"]
  /\ expired = [t \in Threads |-> FALSE]
  /\ sp = [f \in Frames |-> NULL]
  /\ producer = "run"
  /\ scanner = "sleep"

-----------------------------------------------------------------------------
(* Handler threads. *)

(***************************************************************************)
(* A model function calls getConnection().  The nested calls (insertCourse  *)
(* and removeCourse query the teacher and the course while they hold their  *)
(* own connection) are made only inside "if (conn != nullptr)", so the      *)
(* frames of a thread fill from 1 upwards.                                  *)
(***************************************************************************)
IsNextFrame(t, d) ==
  /\ sp[<<t, d>>] = NULL
  /\ \A e \in 1..(d - 1) : sp[<<t, e>>] # NULL

Call(t) ==
  /\ pc[t] = "run"
  /\ \E d \in 1..MaxDepth : IsNextFrame(t, d)
  /\ pc' = [pc EXCEPT ![t] = "lock"]
  /\ UNCHANGED <<connectionQue, connectionCnt, aliveTime, now, queueMutex,
                 expired, sp, producer, scanner>>

\* Thread t holds the mutex and is at the test of getConnection's loop.
AtLoopTest(t) ==
  /\ queueMutex = "free"
  /\ pc[t] = "lock" \/ (pc[t] = "woken" /\ ~expired[t])

\* The queue is not empty: take its front, notify everybody, return it.
Take(t) ==
  /\ AtLoopTest(t)
  /\ connectionQue # <<>>
  /\ \E d \in 1..MaxDepth :
       /\ IsNextFrame(t, d)
       /\ sp' = [sp EXCEPT ![<<t, d>>] = Head(connectionQue)]
  /\ connectionQue' = pop
  /\ pc' = [WakeCallers EXCEPT ![t] = "run"]
  /\ producer' = WakeProducer
  /\ UNCHANGED <<connectionCnt, aliveTime, now, queueMutex, expired, scanner>>

(***************************************************************************)
(* The queue is empty: cv.wait_for gives the mutex up and sets a deadline   *)
(* anew each time round the loop.  With _connectionTimeout = 0 the deadline *)
(* has passed before the thread sleeps.                                     *)
(***************************************************************************)
Wait(t) ==
  /\ AtLoopTest(t)
  /\ connectionQue = <<>>
  /\ pc' = [pc EXCEPT ![t] = IF DeadlinePassed THEN "woken" ELSE "wait"]
  /\ expired' = [expired EXCEPT ![t] = DeadlinePassed]
  /\ UNCHANGED <<connectionQue, connectionCnt, aliveTime, now, queueMutex, sp,
                 producer, scanner>>

\* wait_for reports a timeout: return nullptr, whatever the queue holds now.
Fail(t) ==
  /\ queueMutex = "free"
  /\ pc[t] = "woken" /\ expired[t]
  /\ pc' = [pc EXCEPT ![t] = "run"]
  /\ expired' = [expired EXCEPT ![t] = FALSE]
  /\ UNCHANGED <<connectionQue, connectionCnt, aliveTime, now, queueMutex, sp,
                 producer, scanner>>

\* The deadline passes while the thread sleeps in wait_for.
Deadline(t) ==
  /\ pc[t] = "wait"
  /\ pc' = [pc EXCEPT ![t] = "woken"]
  /\ expired' = [expired EXCEPT ![t] = TRUE]
  /\ UNCHANGED <<connectionQue, connectionCnt, aliveTime, now, queueMutex, sp,
                 producer, scanner>>

(***************************************************************************)
(* The deadline passes after a notification, before the thread has the      *)
(* mutex again: wait_for compares the clock with the deadline last of all.  *)
(***************************************************************************)
LateDeadline(t) ==
  /\ pc[t] = "woken"
  /\ ~expired[t]
  /\ expired' = [expired EXCEPT ![t] = TRUE]
  /\ UNCHANGED <<connectionQue, connectionCnt, aliveTime, now, queueMutex, pc,
                 sp, producer, scanner>>

\* A condition variable is allowed to wake a thread that nobody notified.
SpuriousWakeup(t) ==
  /\ Spurious
  /\ pc[t] = "wait"
  /\ pc' = [pc EXCEPT ![t] = "woken"]
  /\ UNCHANGED <<connectionQue, connectionCnt, aliveTime, now, queueMutex,
                 expired, sp, producer, scanner>>

\* The deleter does not run for a null pointer.
IsLastFrame_(t, d) == \A e \in (d + 1)..MaxDepth : sp[<<t, e>>] = NULL
IsLastFrame(t, d) ==
  /\ sp[<<t, d>>] # NULL
  /\ \A e \in (d + 1)..MaxDepth : sp[<<t, e>>] = NULL

(***************************************************************************)
(* The innermost shared_ptr of a thread dies and its deleter puts the       *)
(* connection back at the end of the queue.  It does not notify cv.         *)
(***************************************************************************)
Release(t, d) ==
  /\ queueMutex = "free"
  /\ pc[t] = "run"
  /\ IsLastFrame(t, d)
  /\ aliveTime' = refreshAliveTime(sp[<<t, d>>])
  /\ connectionQue' = push(sp[<<t, d>>])
  /\ sp' = [sp EXCEPT ![<<t, d>>] = NULL]
  /\ UNCHANGED <<connectionCnt, now, queueMutex, pc, expired, producer,
                 scanner>>

-----------------------------------------------------------------------------
(* The producer thread: produceConnectionTask. *)

\* The queue is not empty: cv.wait.
ProducerWait ==
  /\ queueMutex = "free"
  /\ producer = "run"
  /\ ~MustProduce
  /\ producer' = "wait"
  /\ UNCHANGED <<connectionQue, connectionCnt, aliveTime, now, queueMutex, pc,
                 expired, sp, scanner>>

ProducerSpuriousWakeup ==
  /\ Spurious
  /\ producer = "wait"
  /\ producer' = "run"
  /\ UNCHANGED <<connectionQue, connectionCnt, aliveTime, now, queueMutex, pc,
                 expired, sp, scanner>>

\* The queue is empty and may grow: new Connection, connect, mutex held.
ProducerConnect ==
  /\ queueMutex = "free"
  /\ producer = "run"
  /\ MustProduce
  /\ connectionCnt < MaxSize
  /\ producer' = "connecting"
  /\ queueMutex' = "producer"
  /\ UNCHANGED <<connectionQue, connectionCnt, aliveTime, now, pc, expired, sp,
                 scanner>>

(***************************************************************************)
(* connect() has returned; what it returned is ignored.  Push, count,       *)
(* notify everybody, unlock at the end of the loop body.                    *)
(***************************************************************************)
ProducerPush ==
  /\ producer = "connecting"
  /\ \E c \in Conn \ Live :
       /\ aliveTime' = refreshAliveTime(c)
       /\ connectionQue' = push(c)
  /\ connectionCnt' = connectionCnt + 1
  /\ pc' = WakeCallers
  /\ producer' = "run"
  /\ queueMutex' = "free"
  /\ UNCHANGED <<now, expired, sp, scanner>>

\* Empty and full: nothing to create, notify everybody and go round again.
ProducerSpin ==
  /\ queueMutex = "free"
  /\ producer = "run"
  /\ MustProduce
  /\ connectionCnt >= MaxSize
  /\ pc' = WakeCallers
  /\ UNCHANGED <<connectionQue, connectionCnt, aliveTime, now, queueMutex,
                 expired, sp, producer, scanner>>

-----------------------------------------------------------------------------
(* The scanner thread: scannerConnectionTask. *)

\* sleep_for returns.
ScannerWake ==
  /\ scanner = "sleep"
  /\ scanner' = "lock"
  /\ UNCHANGED <<connectionQue, connectionCnt, aliveTime, now, queueMutex, pc,
                 expired, sp, producer>>

ScannerLock ==
  /\ queueMutex = "free"
  /\ scanner = "lock"
  /\ scanner' = "scan"
  /\ queueMutex' = "scanner"
  /\ UNCHANGED <<connectionQue, connectionCnt, aliveTime, now, pc, expired, sp,
                 producer>>

\* The front has been idle for too long: pop, count down, delete.
ScannerReap ==
  /\ scanner = "scan"
  /\ TooMany
  /\ connectionQue # <<>>
  /\ TooOld(Head(connectionQue))
  /\ connectionQue' = pop
  /\ connectionCnt' = connectionCnt - 1
  /\ UNCHANGED <<aliveTime, now, queueMutex, pc, expired, sp, producer,
                 scanner>>

\* Down to InitSize, or the front is still young: leave the loop and unlock.
ScannerDone ==
  /\ scanner = "scan"
  /\ \/ ~TooMany
     \/ connectionQue # <<>> /\ ~TooOld(Head(connectionQue))
  /\ scanner' = "sleep"
  /\ queueMutex' = "free"
  /\ UNCHANGED <<connectionQue, connectionCnt, aliveTime, now, pc, expired, sp,
                 producer>>

(***************************************************************************)
(* The loop tests _connectionCnt, not the queue: with every connection      *)
(* lent out it reads the front of an empty queue, which is undefined.       *)
(* Either the stale slot looks young and the loop ends, or the process      *)
(* faults or pops and deletes through it.  The model says no more of a      *)
(* program in that state: the mutex stays taken and the pool stands still.  *)
(***************************************************************************)
ScannerEmptyFront ==
  /\ scanner = "scan"
  /\ TooMany
  /\ connectionQue = <<>>
  /\ \/ scanner' = "sleep" /\ queueMutex' = "free"
     \/ scanner' = "undefined" /\ UNCHANGED queueMutex
  /\ UNCHANGED <<connectionQue, connectionCnt, aliveTime, now, pc, expired, sp,
                 producer>>

-----------------------------------------------------------------------------
\* clock() advances.
Tick ==
  /\ now < MaxClock
  /\ now' = now + 1
  /\ UNCHANGED <<connectionQue, connectionCnt, aliveTime, queueMutex, pc,
                 expired, sp, producer, scanner>>

Caller(t) ==
  \/ Call(t) \/ Take(t) \/ Wait(t) \/ Fail(t)
  \/ Deadline(t) \/ LateDeadline(t) \/ SpuriousWakeup(t)
  \/ \E d \in 1..MaxDepth : Release(t, d)

Producer ==
  \/ ProducerWait \/ ProducerSpuriousWakeup
  \/ ProducerConnect \/ ProducerPush \/ ProducerSpin

Scanner ==
  ScannerWake \/ ScannerLock \/ ScannerReap \/ ScannerDone \/ ScannerEmptyFront

Next ==
  \/ \E t \in Threads : Caller(t)
  \/ Producer
  \/ Scanner
  \/ Tick

Spec == Init /\ [][Next]_vars

(***************************************************************************)
(* Fairness.  The operating system runs every thread.  A section behind     *)
(* _queueMutex is enabled only while the mutex is free, hence strong        *)
(* fairness: whoever keeps going for the mutex gets it in the end.  A       *)
(* deadline passes if the thread stays in the same wait_for.  Nothing is    *)
(* assumed of the handlers (they need not call, and MySQL may keep them     *)
(* from releasing), of the clock, of sleep_for or of spurious wakeups.      *)
(***************************************************************************)
Fairness ==
  /\ \A t \in Threads : SF_vars(Take(t) \/ Wait(t) \/ Fail(t)) /\ WF_vars(Deadline(t))
  /\ SF_vars(ProducerWait \/ ProducerConnect \/ ProducerSpin)
  /\ WF_vars(ProducerPush)
  /\ SF_vars(ScannerLock)
  /\ WF_vars(ScannerReap \/ ScannerDone \/ ScannerEmptyFront)

FairSpec == Spec /\ Fairness

-----------------------------------------------------------------------------
(* Properties. *)

\* Every variable keeps the type of the member it stands for.
TypeOK ==
  /\ connectionQue \in Seq(Conn)
  /\ connectionCnt \in Nat
  /\ aliveTime \in [Conn -> Nat]
  /\ now \in Nat
  /\ queueMutex \in {"free", "producer", "scanner"}
  /\ pc \in [Threads -> CallerState]
  /\ expired \in [Threads -> BOOLEAN]
  /\ sp \in [Frames -> Conn \cup {NULL}]
  /\ producer \in {"run", "wait", "connecting"}
  /\ scanner \in {"sleep", "lock", "scan", "undefined"}

(***************************************************************************)
(* A Connection is in the queue once, or with one handler once, never both: *)
(* two handlers never talk on the same MYSQL handle (so mysql_insert_id and *)
(* mysql_fetch_row answer the handler's own statement), and the scanner     *)
(* never deletes a connection somebody uses.                                *)
(***************************************************************************)
QueueHasNoDuplicate == IsInjective(connectionQue)

IdleIsNotLent == Idle \cap Out = {}

LentOnce ==
  \A f, g \in Frames : sp[f] = sp[g] /\ sp[f] # NULL => f = g

Exclusive == QueueHasNoDuplicate /\ IdleIsNotLent /\ LentOnce

(***************************************************************************)
(* _connectionCnt counts the Connection objects that exist, idle or lent,   *)
(* although it is changed apart from the queue (the producer pushes before  *)
(* it counts, getConnection and the deleter do not touch it), and it stays  *)
(* between initSize and maxSize.                                            *)
(***************************************************************************)
CountExact ==
  /\ connectionCnt = Cardinality(Live)
  /\ InitSize <= connectionCnt
  /\ connectionCnt <= MaxSize

(***************************************************************************)
(* The scanner only looks at the front of the queue and stops at the first  *)
(* young connection.  That is enough: when it has finished a pass, the pool *)
(* is down to initSize or no idle connection is older than the limit.  This *)
(* needs the queue to stay ordered by _aliveTime, through the deleters of   *)
(* all handlers and the producer.                                           *)
(***************************************************************************)
ReapComplete ==
  [][scanner = "scan" /\ scanner' = "sleep" =>
       \/ connectionCnt = InitSize
       \/ \A c \in Idle : getAliveTime(c) < IdleLimit]_vars

(***************************************************************************)
(* A Connection ceases to exist only while it is idle, has been idle for    *)
(* the limit, and the pool is above initSize.                               *)
(***************************************************************************)
ReapOnlyIdle ==
  [][\A c \in Live \ Live' : /\ c \in Idle \ Out
                             /\ getAliveTime(c) >= IdleLimit
                             /\ connectionCnt > InitSize]_vars

(***************************************************************************)
(* Why the properties above hold.  Whoever keeps _queueMutex is where the   *)
(* code keeps it; a connection under construction still fits under maxSize  *)
(* and its queue is still empty; no connection was put back in the future,  *)
(* and the queue is in the order in which its connections were put back.    *)
(***************************************************************************)
MutexDiscipline ==
  /\ queueMutex = "producer" <=> producer = "connecting"
  /\ queueMutex = "scanner" <=> scanner \in {"scan", "undefined"}
  /\ producer = "connecting" => connectionQue = <<>> /\ connectionCnt < MaxSize

AliveTimePast == \A c \in Conn : aliveTime[c] <= now

OldestFirst ==
  \A i, j \in 1..Len(connectionQue) :
     i <= j => aliveTime[connectionQue[i]] <= aliveTime[connectionQue[j]]

PoolInv ==
  /\ TypeOK
  /\ Exclusive
  /\ CountExact
  /\ MutexDiscipline
  /\ AliveTimePast
  /\ OldestFirst

(***************************************************************************)
(* What makes the pool refuse, grow or worse happens only under load: the   *)
(* queue is empty, and getConnection has to wait or give up and the         *)
(* producer to connect, only while handlers hold at least initSize          *)
(* connections; the scanner reads the front of an empty queue only if they  *)
(* hold more.                                                               *)
(***************************************************************************)
OnlyUnderLoad ==
  /\ connectionQue = <<>> => Cardinality(Out) >= InitSize
  /\ Corrupted => connectionQue = <<>> /\ Cardinality(Out) > InitSize

\* The pool implements the abstract resource pool.
Abstract == INSTANCE ResourcePool WITH Holders <- Frames, idle <- Idle, holds <- sp
Refines == Abstract!Spec

(***************************************************************************)
(* When initSize exceeds what all threads together can hold, as it does in  *)
(* the shipped configuration (initSize=10, three event loops and the main   *)
(* thread, two connections each), the queue is never empty: no              *)
(* getConnection waits or returns nullptr, the producer never creates, the  *)
(* scanner never deletes and never reads the front of an empty queue.       *)
(***************************************************************************)
NeverExhausted ==
  /\ connectionQue # <<>>
  /\ connectionCnt = InitSize
  /\ \A t \in Threads : pc[t] \in {"run", "lock"}
  /\ ~Corrupted

(***************************************************************************)
(* Every getConnection returns, with a connection or with nullptr, even if  *)
(* no connection is ever given back.                                        *)
(***************************************************************************)
GetReturns ==
  \A t \in Threads : pc[t] # "run" ~> (pc[t] = "run" \/ Corrupted)

(***************************************************************************)
(* An empty pool below maxSize does not stay that way: unless a connection  *)
(* is given back first, the producer creates one.  That holds of a producer *)
(* that is awake, and of one that sleeps as long as the scanner has nothing *)
(* to delete: every step that takes the last connection out of the queue,   *)
(* but the scanner's, notifies, and no notification comes between the       *)
(* producer's test and its sleep.                                           *)
(***************************************************************************)
CanGrow == connectionQue = <<>> /\ connectionCnt < MaxSize
Supplied == connectionQue # <<>> \/ Corrupted

ProducerSupplies ==
  /\ (CanGrow /\ producer # "wait") ~> Supplied
  /\ [](\A c \in Idle : ~TooOld(c)) => (CanGrow ~> Supplied)
=============================================================================
