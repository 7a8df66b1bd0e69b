----------------------- MODULE ConnectionPool_proofs -----------------------
(***************************************************************************)
(* Theorems about ConnectionPool, for any number of handler threads, any    *)
(* depth of nesting and any sizes of the pool.                              *)
(*                                                                          *)
(* The argument is one inductive invariant, PoolInv.  Its heart is that     *)
(* Live, the set of the connections that exist, does not change when a      *)
(* handler takes or gives back a connection, gains one element in           *)
(* ProducerPush and loses one in ScannerReap; Exclusive is what makes this  *)
(* true, and MutexDiscipline is what keeps the maximum between the test of  *)
(* _connectionCnt and the push.                                             *)
(***************************************************************************)
EXTENDS ConnectionPool, FiniteSetTheorems, SequenceTheorems, TLAPS

(* The one-line tests and assignments are always expanded. *)
USE DEF refreshAliveTime, push, pop, MustProduce, TooMany, TooOld, IsLastFrame,
        DeadlinePassed

-----------------------------------------------------------------------------
(* Sequences as queues of distinct elements. *)

\* What push adds to the elements of the queue.
LEMMA RangeOfAppend ==
  ASSUME NEW S, NEW q \in Seq(S), NEW c \in S
  PROVE  Range(Append(q, c)) = Range(q) \cup {c}
<1>1. Range(q) = {q[i] : i \in 1..Len(q)}
  BY RangeEquality
<1>2. Range(Append(q, c)) = {Append(q, c)[i] : i \in 1..(Len(q) + 1)}
  <2>1. Append(q, c) \in Seq(S) /\ Len(Append(q, c)) = Len(q) + 1
    BY AppendProperties
  <2>2. QED
    BY <2>1, RangeEquality
<1>3. /\ \A i \in 1..Len(q) : Append(q, c)[i] = q[i]
      /\ Append(q, c)[Len(q) + 1] = c
      /\ Len(q) \in Nat
  BY AppendProperties, LenProperties
<1>4. QED
  BY <1>1, <1>2, <1>3

\* What pop takes away from them.
LEMMA RangeOfTail ==
  ASSUME NEW S, NEW q \in Seq(S), q # <<>>
  PROVE  /\ Head(q) \in Range(q)
         /\ Range(q) = Range(Tail(q)) \cup {Head(q)}
<1>1. /\ Len(q) \in Nat \ {0}
      /\ Len(Tail(q)) = Len(q) - 1
      /\ \A i \in 1..Len(Tail(q)) : Tail(q)[i] = q[i + 1]
      /\ Tail(q) \in Seq(S)
      /\ Head(q) = q[1]
  BY HeadTailProperties, EmptySeq
<1>2. /\ Range(q) = {q[i] : i \in 1..Len(q)}
      /\ Range(Tail(q)) = {Tail(q)[i] : i \in 1..Len(Tail(q))}
  BY <1>1, RangeEquality
<1>3. Range(Tail(q)) \cup {Head(q)} \subseteq Range(q)
  BY <1>1, <1>2
<1>4. ASSUME NEW i \in 1..Len(q) PROVE q[i] \in Range(Tail(q)) \cup {Head(q)}
  <2>1. CASE i = 1
    BY <1>1, <2>1
  <2>2. CASE i # 1
    <3>1. i - 1 \in 1..Len(Tail(q)) /\ Tail(q)[i - 1] = q[i]
      BY <1>1, <2>2
    <3>2. QED
      BY <3>1, <1>2
  <2>3. QED
    BY <2>1, <2>2
<1>5. QED
  BY <1>1, <1>2, <1>3, <1>4

\* A queue without duplicates stays one when a new element is pushed,
LEMMA AppendInjective2 ==
  ASSUME NEW S, NEW q \in Seq(S), IsInjective(q), NEW c \in S, c \notin Range(q)
  PROVE  IsInjective(Append(q, c))
<1>1. /\ DOMAIN q = 1..Len(q)
      /\ Len(q) \in Nat
      /\ DOMAIN Append(q, c) = 1..(Len(q) + 1)
      /\ \A i \in 1..Len(q) : Append(q, c)[i] = q[i]
      /\ Append(q, c)[Len(q) + 1] = c
  BY AppendProperties, LenProperties
<1>2. \A i \in 1..Len(q) : q[i] # c
  BY <1>1 DEF Range
<1>3. SUFFICES ASSUME NEW i \in 1..(Len(q) + 1), NEW j \in 1..(Len(q) + 1),
                      Append(q, c)[i] = Append(q, c)[j]
               PROVE  i = j
  BY <1>1 DEF IsInjective
<1>4. CASE i \in 1..Len(q) /\ j \in 1..Len(q)
  BY <1>1, <1>3, <1>4 DEF IsInjective
<1>5. CASE i = Len(q) + 1 \/ j = Len(q) + 1
  BY <1>1, <1>2, <1>3, <1>5
<1>6. QED
  BY <1>1, <1>4, <1>5

\* and when its front is popped, which then is no longer in it.
LEMMA TailInjective ==
  ASSUME NEW S, NEW q \in Seq(S), IsInjective(q), q # <<>>
  PROVE  /\ IsInjective(Tail(q))
         /\ Head(q) \notin Range(Tail(q))
<1>1. /\ DOMAIN q = 1..Len(q)
      /\ Len(q) \in Nat \ {0}
      /\ DOMAIN Tail(q) = 1..(Len(q) - 1)
      /\ \A i \in 1..(Len(q) - 1) : Tail(q)[i] = q[i + 1]
      /\ Head(q) = q[1]
  BY HeadTailProperties, LenProperties, EmptySeq
<1>2. ASSUME NEW i \in 1..(Len(q) - 1), NEW j \in 1..(Len(q) - 1),
             Tail(q)[i] = Tail(q)[j]
      PROVE  i = j
  <2>1. q[i + 1] = q[j + 1] /\ i + 1 \in 1..Len(q) /\ j + 1 \in 1..Len(q)
    BY <1>1, <1>2
  <2>2. i + 1 = j + 1
    BY <1>1, <2>1 DEF IsInjective
  <2>3. QED
    BY <2>2
<1>3. IsInjective(Tail(q))
  BY <1>1, <1>2 DEF IsInjective
<1>4. ASSUME NEW i \in 1..(Len(q) - 1) PROVE Tail(q)[i] # Head(q)
  <2>1. Tail(q)[i] = q[i + 1] /\ i + 1 \in 1..Len(q) /\ 1 \in 1..Len(q) /\ i + 1 # 1
    BY <1>1
  <2>2. QED
    BY <1>1, <2>1 DEF IsInjective
<1>5. Head(q) \notin Range(Tail(q))
  BY <1>1, <1>4 DEF Range
<1>6. QED
  BY <1>3, <1>5

-----------------------------------------------------------------------------
(* The connections that are lent. *)

\* A frame gives up what no other frame holds.
LEMMA RangeOfReturn ==
  ASSUME NEW h \in [Frames -> Conn \cup {NULL}], NEW f \in Frames,
         \A e \in Frames : h[e] = h[f] => e = f
  PROVE  Range([h EXCEPT ![f] = NULL]) \ {NULL} = (Range(h) \ {NULL}) \ {h[f]}
BY DEF Range

-----------------------------------------------------------------------------
(* Type correctness. *)

LEMMA InitTypeOK ==
  ASSUME Init
  PROVE  TypeOK
<1>1. connectionQue \in Seq(Conn)
  BY PoolAssumption, SeqDef DEF Init, Injection
<1>2. QED
  BY <1>1, PoolAssumption DEF Init, TypeOK, CallerState

LEMMA NextTypeOK ==
  ASSUME TypeOK, [Next]_vars
  PROVE  TypeOK'
<1> USE DEF TypeOK, CallerState
<1>1. ASSUME NEW t \in Threads, Call(t) PROVE TypeOK'
  BY <1>1 DEF Call
<1>2. ASSUME NEW t \in Threads, Take(t) PROVE TypeOK'
  <2>1. Head(connectionQue) \in Conn /\ Tail(connectionQue) \in Seq(Conn)
    BY <1>2, HeadTailProperties DEF Take
  <2>2. sp' \in [Frames -> Conn \cup {NULL}]
    BY <1>2, <2>1 DEF Take
  <2>3. QED
    BY <1>2, <2>1, <2>2 DEF Take, WakeCallers, WakeProducer
<1>3. ASSUME NEW t \in Threads, Wait(t) PROVE TypeOK'
  BY <1>3 DEF Wait
<1>4. ASSUME NEW t \in Threads, Fail(t) PROVE TypeOK'
  BY <1>4 DEF Fail
<1>5. ASSUME NEW t \in Threads, Deadline(t) PROVE TypeOK'
  BY <1>5 DEF Deadline
<1>6. ASSUME NEW t \in Threads, LateDeadline(t) PROVE TypeOK'
  BY <1>6 DEF LateDeadline
<1>7. ASSUME NEW t \in Threads, SpuriousWakeup(t) PROVE TypeOK'
  BY <1>7 DEF SpuriousWakeup
<1>8. ASSUME NEW t \in Threads, NEW d \in 1..MaxDepth, Release(t, d)
      PROVE  TypeOK'
  <2>1. sp[<<t, d>>] \in Conn
    BY <1>8 DEF Release, Frames
  <2>2. connectionQue' \in Seq(Conn)
    BY <1>8, <2>1, AppendProperties DEF Release
  <2>3. QED
    BY <1>8, <2>1, <2>2 DEF Release
<1>9. CASE ProducerWait
  BY <1>9 DEF ProducerWait
<1>10. CASE ProducerSpuriousWakeup
  BY <1>10 DEF ProducerSpuriousWakeup
<1>11. CASE ProducerConnect
  BY <1>11 DEF ProducerConnect
<1>12. CASE ProducerPush
  <2>1. connectionQue' \in Seq(Conn)
    BY <1>12, AppendProperties DEF ProducerPush
  <2>2. QED
    BY <1>12, <2>1 DEF ProducerPush, WakeCallers
<1>13. CASE ProducerSpin
  BY <1>13 DEF ProducerSpin, WakeCallers
<1>14. CASE ScannerWake
  BY <1>14 DEF ScannerWake
<1>15. CASE ScannerLock
  BY <1>15 DEF ScannerLock
<1>16. CASE ScannerReap
  <2>1. connectionQue' \in Seq(Conn)
    BY <1>16, HeadTailProperties DEF ScannerReap
  <2>2. connectionCnt' \in Nat
    BY <1>16, PoolAssumption DEF ScannerReap
  <2>3. QED
    BY <1>16, <2>1, <2>2 DEF ScannerReap
<1>17. CASE ScannerDone
  BY <1>17 DEF ScannerDone
<1>18. CASE ScannerEmptyFront
  BY <1>18 DEF ScannerEmptyFront
<1>19. CASE Tick
  BY <1>19 DEF Tick
<1>20. CASE UNCHANGED vars
  BY <1>20 DEF vars
<1>21. QED
  BY <1>1, <1>2, <1>3, <1>4, <1>5, <1>6, <1>7, <1>8, <1>9, <1>10, <1>11,
     <1>12, <1>13, <1>14, <1>15, <1>16, <1>17, <1>18, <1>19, <1>20
  DEF Next, Caller, Producer, Scanner

(***************************************************************************)
(* Every member of the pool and of its threads keeps its type; above all,   *)
(* _connectionCnt does not fall below zero.                                 *)
(***************************************************************************)
THEOREM TypeCorrect == Spec => []TypeOK
BY InitTypeOK, NextTypeOK, PTL DEF Spec

-----------------------------------------------------------------------------
(* What each step does to the sets of connections. *)

\* All steps but four leave the connections alone.
LEMMA ConnectionSteps ==
  ASSUME [Next]_vars
  PROVE  \/ \E t \in Threads : Take(t)
         \/ \E t \in Threads, d \in 1..MaxDepth : Release(t, d)
         \/ ProducerPush
         \/ ScannerReap
         \/ UNCHANGED <<connectionQue, connectionCnt, aliveTime, sp>>
BY DEF Next, vars, Caller, Producer, Scanner, Call, Wait, Fail, Deadline,
       LateDeadline, SpuriousWakeup, ProducerWait, ProducerSpuriousWakeup,
       ProducerConnect, ProducerSpin, ScannerWake, ScannerLock, ScannerDone,
       ScannerEmptyFront, Tick

\* getConnection moves the front of the queue to a frame that held nothing.
LEMMA TakeEffect ==
  ASSUME TypeOK, Exclusive, NEW t \in Threads, Take(t)
  PROVE  /\ Head(connectionQue) \in Idle
         /\ Idle' = Idle \ {Head(connectionQue)}
         /\ Out' = Out \cup {Head(connectionQue)}
         /\ \E f \in Frames : /\ sp[f] = NULL
                              /\ sp' = [sp EXCEPT ![f] = Head(connectionQue)]
         /\ Exclusive'
<1>1. PICK f \in Frames : /\ sp[f] = NULL
                          /\ sp' = [sp EXCEPT ![f] = Head(connectionQue)]
  BY DEF Take, IsNextFrame, Frames
<1> DEFINE c == Head(connectionQue)
<1>2. /\ connectionQue \in Seq(Conn)
      /\ connectionQue # <<>>
      /\ connectionQue' = Tail(connectionQue)
      /\ IsInjective(connectionQue)
      /\ sp \in [Frames -> Conn \cup {NULL}]
      /\ c \in Conn
  BY HeadTailProperties DEF Take, TypeOK, Exclusive, QueueHasNoDuplicate
<1>3. /\ c \in Idle
      /\ Idle' = Idle \ {c}
      /\ QueueHasNoDuplicate'
  BY <1>2, RangeOfTail, TailInjective DEF Idle, QueueHasNoDuplicate
<1> HIDE DEF c
<1>4. Out' = Out \cup {c}
  <2>1. Range([sp EXCEPT ![f] = c]) \ {NULL} = (Range(sp) \ {NULL}) \cup {c}
    BY <1>1, <1>2, PoolAssumption DEF Range
  <2>2. QED
    BY <1>1, <2>1 DEF Out, c
<1>5. c \notin Out
  BY <1>3 DEF Exclusive, IdleIsNotLent
<1>6. IdleIsNotLent'
  BY <1>3, <1>4 DEF Exclusive, IdleIsNotLent
<1>7. LentOnce'
  <2>1. SUFFICES ASSUME NEW e \in Frames, NEW g \in Frames,
                        sp'[e] = sp'[g], sp'[e] # NULL
                 PROVE  e = g
    BY DEF LentOnce
  <2>2. \A h \in Frames : sp'[h] = IF h = f THEN c ELSE sp[h]
    BY <1>1, <1>2 DEF c
  <2>3. \A h \in Frames : sp[h] # c
    BY <1>2, <1>5, PoolAssumption DEF Out, Range
  <2>4. QED
    BY <2>1, <2>2, <2>3 DEF Exclusive, LentOnce
<1>8. QED
  BY <1>1, <1>3, <1>4, <1>6, <1>7 DEF Exclusive, c

\* The deleter moves the connection of a frame to the end of the queue.
LEMMA ReleaseEffect ==
  ASSUME TypeOK, Exclusive, NEW t \in Threads, NEW d \in 1..MaxDepth,
         Release(t, d)
  PROVE  /\ <<t, d>> \in Frames
         /\ sp[<<t, d>>] \in Out
         /\ sp[<<t, d>>] \in Conn \ Idle
         /\ Idle' = Idle \cup {sp[<<t, d>>]}
         /\ Out' = Out \ {sp[<<t, d>>]}
         /\ Exclusive'
<1> DEFINE c == sp[<<t, d>>]
<1>1. /\ connectionQue \in Seq(Conn)
      /\ connectionQue' = Append(connectionQue, c)
      /\ IsInjective(connectionQue)
      /\ sp \in [Frames -> Conn \cup {NULL}]
      /\ sp' = [sp EXCEPT ![<<t, d>>] = NULL]
      /\ <<t, d>> \in Frames
      /\ c \in Conn
      /\ \A e \in Frames : sp[e] = c => e = <<t, d>>
  BY DEF Release, TypeOK, Exclusive, QueueHasNoDuplicate, LentOnce, Frames
<1>2. c \in Out
  BY <1>1, PoolAssumption DEF Out, Range
<1>3. c \notin Idle
  BY <1>2 DEF Exclusive, IdleIsNotLent
<1>4. Idle' = Idle \cup {c} /\ QueueHasNoDuplicate'
  BY <1>1, <1>3, RangeOfAppend, AppendInjective2 DEF Idle, QueueHasNoDuplicate
<1>5. Out' = Out \ {c}
  BY <1>1, RangeOfReturn DEF Out
<1>6. IdleIsNotLent'
  BY <1>4, <1>5 DEF Exclusive, IdleIsNotLent
<1>7. LentOnce'
  BY <1>1 DEF Exclusive, LentOnce
<1>8. QED
  BY <1>1, <1>2, <1>3, <1>4, <1>5, <1>6, <1>7 DEF Exclusive

\* The producer adds one connection that did not exist.
LEMMA PushEffect ==
  ASSUME TypeOK, Exclusive, ProducerPush
  PROVE  /\ \E c \in Conn \ Live : Idle' = Idle \cup {c}
         /\ Out' = Out
         /\ Exclusive'
<1>1. PICK c \in Conn \ Live : connectionQue' = Append(connectionQue, c)
  BY DEF ProducerPush
<1>2. /\ connectionQue \in Seq(Conn)
      /\ IsInjective(connectionQue)
      /\ sp' = sp
  BY DEF ProducerPush, TypeOK, Exclusive, QueueHasNoDuplicate
<1>3. Idle' = Idle \cup {c} /\ QueueHasNoDuplicate'
  BY <1>1, <1>2, RangeOfAppend, AppendInjective2
  DEF Idle, Live, QueueHasNoDuplicate
<1>4. Out' = Out /\ LentOnce'
  BY <1>2 DEF Out, Exclusive, LentOnce
<1>5. IdleIsNotLent'
  BY <1>1, <1>3, <1>4 DEF Exclusive, IdleIsNotLent, Live
<1>6. QED
  BY <1>1, <1>3, <1>4, <1>5 DEF Exclusive

\* The scanner removes one connection, the front of the queue.
LEMMA ReapEffect ==
  ASSUME TypeOK, Exclusive, ScannerReap
  PROVE  /\ Head(connectionQue) \in Idle \ Out
         /\ Idle' = Idle \ {Head(connectionQue)}
         /\ Out' = Out
         /\ Exclusive'
<1>1. /\ connectionQue \in Seq(Conn)
      /\ connectionQue # <<>>
      /\ connectionQue' = Tail(connectionQue)
      /\ IsInjective(connectionQue)
      /\ sp' = sp
  BY DEF ScannerReap, TypeOK, Exclusive, QueueHasNoDuplicate
<1>2. /\ Head(connectionQue) \in Idle
      /\ Idle' = Idle \ {Head(connectionQue)}
      /\ QueueHasNoDuplicate'
  BY <1>1, RangeOfTail, TailInjective DEF Idle, QueueHasNoDuplicate
<1>3. Out' = Out /\ LentOnce'
  BY <1>1 DEF Out, Exclusive, LentOnce
<1>4. QED
  BY <1>2, <1>3 DEF Exclusive, IdleIsNotLent

-----------------------------------------------------------------------------
(* The inductive invariant. *)

\* The constructor makes InitSize connections, one object each.
LEMMA InitPoolInv ==
  ASSUME Init
  PROVE  PoolInv
<1>1. TypeOK
  BY InitTypeOK
<1>2. /\ connectionQue \in Injection(1..InitSize, Conn)
      /\ connectionQue \in [1..InitSize -> Conn]
      /\ IsInjective(connectionQue)
      /\ Out = {}
  BY DEF Init, Injection, Out, Range
<1>3. Exclusive
  BY <1>2 DEF Init, Exclusive, QueueHasNoDuplicate, IdleIsNotLent, LentOnce
<1>4. CountExact
  <2>1. connectionQue \in Bijection(1..InitSize, Idle)
    BY <1>2 DEF Idle, Range, Bijection, Injection, Surjection
  <2>2. Cardinality(Idle) = InitSize
    BY <2>1, FS_CountingElements, PoolAssumption DEF ExistsBijection
  <2>3. Live = Idle
    BY <1>2 DEF Live
  <2>4. QED
    BY <2>2, <2>3, PoolAssumption DEF Init, CountExact
<1>5. MutexDiscipline
  BY DEF Init, MutexDiscipline
<1>6. AliveTimePast
  BY DEF Init, AliveTimePast
<1>7. OldestFirst
  BY <1>1, ElementOfSeq DEF Init, OldestFirst, TypeOK
<1>8. QED
  BY <1>1, <1>3, <1>4, <1>5, <1>6, <1>7 DEF PoolInv

LEMMA NextExclusive ==
  ASSUME TypeOK, Exclusive, [Next]_vars
  PROVE  Exclusive'
<1>1. CASE UNCHANGED <<connectionQue, connectionCnt, aliveTime, sp>>
  BY <1>1 DEF Exclusive, QueueHasNoDuplicate, IdleIsNotLent, LentOnce, Idle, Out
<1>2. QED
  BY <1>1, ConnectionSteps, TakeEffect, ReleaseEffect, PushEffect, ReapEffect

\* Only the producer and the scanner change the set of existing connections.
LEMMA LiveChange ==
  ASSUME TypeOK, Exclusive, [Next]_vars
  PROVE  \/ Live' = Live /\ connectionCnt' = connectionCnt
         \/ /\ ProducerPush
            /\ \E c \in Conn \ Live : Live' = Live \cup {c}
         \/ /\ ScannerReap
            /\ Head(connectionQue) \in Idle \ Out
            /\ Live' = Live \ {Head(connectionQue)}
<1>1. ASSUME NEW t \in Threads, Take(t)
      PROVE  Live' = Live /\ connectionCnt' = connectionCnt
  BY <1>1, TakeEffect DEF Live, Take
<1>2. ASSUME NEW t \in Threads, NEW d \in 1..MaxDepth, Release(t, d)
      PROVE  Live' = Live /\ connectionCnt' = connectionCnt
  <2>1. /\ Idle' = Idle \cup {sp[<<t, d>>]}
        /\ Out' = Out \ {sp[<<t, d>>]}
        /\ sp[<<t, d>>] \in Out
    BY <1>2, ReleaseEffect
  <2>2. Live' = Live
    BY <2>1 DEF Live
  <2>3. QED
    BY <1>2, <2>2 DEF Release
<1>3. CASE ProducerPush
  BY <1>3, PushEffect DEF Live
<1>4. CASE ScannerReap
  BY <1>4, ReapEffect DEF Live
<1>5. CASE UNCHANGED <<connectionQue, connectionCnt, aliveTime, sp>>
  BY <1>5 DEF Live, Idle, Out
<1>6. QED
  BY <1>1, <1>2, <1>3, <1>4, <1>5, ConnectionSteps

LEMMA LiveIsFinite ==
  ASSUME TypeOK
  PROVE  /\ Live \subseteq Conn
         /\ IsFiniteSet(Live)
         /\ Cardinality(Live) \in Nat
<1>1. Idle \subseteq Conn
  BY RangeOfSeq DEF TypeOK, Idle
<1>2. Out \subseteq Conn
  BY DEF TypeOK, Out, Range
<1>3. QED
  BY <1>1, <1>2, PoolAssumption, FS_Subset, FS_CardinalityType DEF Live

LEMMA NextCountExact ==
  ASSUME TypeOK, Exclusive, CountExact, MutexDiscipline, [Next]_vars
  PROVE  CountExact'
<1>1. CASE Live' = Live /\ connectionCnt' = connectionCnt
  BY <1>1 DEF CountExact
<1>2. ASSUME ProducerPush, NEW c \in Conn \ Live, Live' = Live \cup {c}
      PROVE  CountExact'
  <2>1. Cardinality(Live') = Cardinality(Live) + 1
    BY <1>2, LiveIsFinite, FS_AddElement
  <2>2. connectionCnt' = connectionCnt + 1 /\ connectionCnt < MaxSize
    BY <1>2 DEF ProducerPush, MutexDiscipline
  <2>3. QED
    BY <2>1, <2>2, PoolAssumption DEF CountExact, TypeOK
<1>3. ASSUME ScannerReap, Head(connectionQue) \in Idle,
             Live' = Live \ {Head(connectionQue)}
      PROVE  CountExact'
  <2>1. Cardinality(Live') = Cardinality(Live) - 1
    BY <1>3, LiveIsFinite, FS_RemoveElement DEF Live
  <2>2. connectionCnt' = connectionCnt - 1 /\ connectionCnt > InitSize
    BY <1>3 DEF ScannerReap
  <2>3. QED
    BY <2>1, <2>2, PoolAssumption DEF CountExact, TypeOK
<1>4. QED
  BY <1>1, <1>2, <1>3, LiveChange

LEMMA NextMutexDiscipline ==
  ASSUME TypeOK, MutexDiscipline, [Next]_vars
  PROVE  MutexDiscipline'
<1> USE DEF MutexDiscipline
<1>1. ASSUME NEW t \in Threads, Caller(t) PROVE MutexDiscipline'
  BY <1>1
  DEF Caller, Call, Take, AtLoopTest, Wait, Fail, Deadline, LateDeadline,
      SpuriousWakeup, Release, WakeProducer, TypeOK
<1>2. CASE Producer
  BY <1>2
  DEF Producer, ProducerWait, ProducerSpuriousWakeup, ProducerConnect,
      ProducerPush, ProducerSpin, TypeOK
<1>3. CASE Scanner
  BY <1>3
  DEF Scanner, ScannerWake, ScannerLock, ScannerReap, ScannerDone,
      ScannerEmptyFront, TypeOK
<1>4. CASE Tick
  BY <1>4 DEF Tick
<1>5. CASE UNCHANGED vars
  BY <1>5 DEF vars
<1>6. QED
  BY <1>1, <1>2, <1>3, <1>4, <1>5 DEF Next

LEMMA ClockNeverGoesBack ==
  ASSUME TypeOK, [Next]_vars
  PROVE  now <= now'
<1>1. ASSUME NEW t \in Threads, Caller(t) PROVE now' = now
  BY <1>1
  DEF Caller, Call, Take, Wait, Fail, Deadline, LateDeadline, SpuriousWakeup,
      Release
<1>2. CASE Producer
  BY <1>2
  DEF TypeOK, Producer, ProducerWait, ProducerSpuriousWakeup, ProducerConnect,
      ProducerPush, ProducerSpin
<1>3. CASE Scanner
  BY <1>3
  DEF TypeOK, Scanner, ScannerWake, ScannerLock, ScannerReap, ScannerDone,
      ScannerEmptyFront
<1>4. CASE Tick \/ UNCHANGED vars
  BY <1>4 DEF TypeOK, Tick, vars
<1>5. QED
  BY <1>1, <1>2, <1>3, <1>4 DEF TypeOK, Next

LEMMA NextAliveTimePast ==
  ASSUME TypeOK, AliveTimePast, [Next]_vars
  PROVE  AliveTimePast'
<1>1. SUFFICES ASSUME NEW c \in Conn PROVE aliveTime'[c] <= now'
  BY DEF AliveTimePast
<1>2. aliveTime'[c] = aliveTime[c] \/ aliveTime'[c] = now
  BY ConnectionSteps DEF TypeOK, Take, Release, ProducerPush, ScannerReap
<1>3. /\ aliveTime[c] <= now
      /\ now <= now'
      /\ aliveTime[c] \in Nat /\ now \in Nat /\ now' \in Nat
  BY ClockNeverGoesBack, NextTypeOK DEF AliveTimePast, TypeOK
<1>4. QED
  BY <1>2, <1>3

(***************************************************************************)
(* The queue stays in the order of _aliveTime: what is pushed carries the   *)
(* present time, and what is in the queue is not refreshed there.           *)
(***************************************************************************)
LEMMA NextOldestFirst ==
  ASSUME TypeOK, Exclusive, AliveTimePast, OldestFirst, [Next]_vars
  PROVE  OldestFirst'
<1>1. ASSUME connectionQue # <<>>,
             connectionQue' = Tail(connectionQue), aliveTime' = aliveTime
      PROVE  OldestFirst'
  <2>1. /\ Len(connectionQue) \in Nat
        /\ Len(connectionQue') = Len(connectionQue) - 1
        /\ \A i \in 1..Len(connectionQue') : connectionQue'[i] = connectionQue[i + 1]
    BY <1>1, HeadTailProperties, LenProperties DEF TypeOK
  <2>2. SUFFICES ASSUME NEW i \in 1..Len(connectionQue'),
                        NEW j \in 1..Len(connectionQue'), i <= j
                 PROVE  aliveTime[connectionQue[i + 1]] <= aliveTime[connectionQue[j + 1]]
    BY <1>1, <2>1 DEF OldestFirst
  <2>3. /\ i + 1 \in 1..Len(connectionQue)
        /\ j + 1 \in 1..Len(connectionQue)
        /\ i + 1 <= j + 1
    BY <2>1, <2>2
  <2>4. QED
    BY <2>3 DEF OldestFirst
<1>2. ASSUME NEW c \in Conn \ Idle,
             connectionQue' = Append(connectionQue, c),
             aliveTime' = [aliveTime EXCEPT ![c] = now]
      PROVE  OldestFirst'
  <2>1. /\ Len(connectionQue) \in Nat
        /\ Len(connectionQue') = Len(connectionQue) + 1
        /\ \A i \in 1..Len(connectionQue) : connectionQue'[i] = connectionQue[i]
        /\ connectionQue'[Len(connectionQue) + 1] = c
    BY <1>2, AppendProperties, LenProperties DEF TypeOK
  <2>2. \A i \in 1..Len(connectionQue) : connectionQue[i] \in Conn \ {c}
    BY <1>2, ElementOfSeq, RangeEquality DEF TypeOK, Idle
  <2>3. /\ aliveTime'[c] = now
        /\ now \in Nat
        /\ \A e \in Conn \ {c} : /\ aliveTime'[e] = aliveTime[e]
                                 /\ aliveTime[e] <= now
    BY <1>2 DEF TypeOK, AliveTimePast
  <2>4. SUFFICES ASSUME NEW i \in 1..Len(connectionQue'),
                        NEW j \in 1..Len(connectionQue'), i <= j
                 PROVE  aliveTime'[connectionQue'[i]] <= aliveTime'[connectionQue'[j]]
    BY DEF OldestFirst
  <2>5. CASE j \in 1..Len(connectionQue)
    BY <2>1, <2>2, <2>3, <2>4, <2>5 DEF OldestFirst
  <2>6. CASE j = Len(connectionQue) + 1
    <3>1. CASE i \in 1..Len(connectionQue)
      BY <2>1, <2>2, <2>3, <2>6, <3>1
    <3>2. CASE i = Len(connectionQue) + 1
      BY <2>1, <2>3, <2>6, <3>2
    <3>3. QED
      BY <2>1, <3>1, <3>2
  <2>7. QED
    BY <2>1, <2>5, <2>6
<1>3. ASSUME NEW t \in Threads, Take(t) PROVE OldestFirst'
  BY <1>1, <1>3 DEF Take
<1>4. ASSUME NEW t \in Threads, NEW d \in 1..MaxDepth, Release(t, d)
      PROVE  OldestFirst'
  BY <1>2, <1>4, ReleaseEffect DEF Release
<1>5. CASE ProducerPush
  BY <1>2, <1>5 DEF ProducerPush, Live
<1>6. CASE ScannerReap
  BY <1>1, <1>6 DEF ScannerReap
<1>7. CASE UNCHANGED <<connectionQue, connectionCnt, aliveTime, sp>>
  BY <1>7 DEF OldestFirst
<1>8. QED
  BY <1>3, <1>4, <1>5, <1>6, <1>7, ConnectionSteps

THEOREM Invariance == Spec => []PoolInv
<1>1. ASSUME PoolInv, [Next]_vars PROVE PoolInv'
  BY <1>1, NextTypeOK, NextExclusive, NextCountExact, NextMutexDiscipline,
     NextAliveTimePast, NextOldestFirst
  DEF PoolInv
<1>2. QED
  BY <1>1, InitPoolInv, PTL DEF Spec

(***************************************************************************)
(* No Connection is ever lent to two handlers, or lent and in the queue, or *)
(* in the queue twice.                                                      *)
(***************************************************************************)
THEOREM ExclusiveUse == Spec => []Exclusive
BY Invariance, PTL DEF PoolInv

(***************************************************************************)
(* _connectionCnt is the number of Connection objects that exist, and stays *)
(* between initSize and maxSize.                                            *)
(***************************************************************************)
THEOREM ExactCount == Spec => []CountExact
BY Invariance, PTL DEF PoolInv

-----------------------------------------------------------------------------
(* What the scanner does. *)

(***************************************************************************)
(* A Connection ceases to exist only while it is idle, old enough, and one  *)
(* of more than initSize.                                                   *)
(***************************************************************************)
THEOREM ReapsOnlyIdle == Spec => ReapOnlyIdle
<1>1. ASSUME PoolInv, [Next]_vars, NEW c \in Live \ Live'
      PROVE  /\ c \in Idle \ Out
             /\ getAliveTime(c) >= IdleLimit
             /\ connectionCnt > InitSize
  <2>1. /\ ScannerReap
        /\ Head(connectionQue) \in Idle \ Out
        /\ c = Head(connectionQue)
    BY <1>1, LiveChange DEF PoolInv
  <2>2. QED
    BY <2>1 DEF ScannerReap
<1>2. ASSUME PoolInv, [Next]_vars
      PROVE  [\A c \in Live \ Live' : /\ c \in Idle \ Out
                                      /\ getAliveTime(c) >= IdleLimit
                                      /\ connectionCnt > InitSize]_vars
  BY <1>1, <1>2
<1>3. QED
  BY <1>2, Invariance, PTL DEF Spec, ReapOnlyIdle

(***************************************************************************)
(* A pass of the scanner ends with the pool down to initSize or without an  *)
(* idle connection that is too old, although it only looks at the front.    *)
(***************************************************************************)
THEOREM ReapsAll == Spec => ReapComplete
<1>1. ASSUME PoolInv, [Next]_vars, scanner = "scan", scanner' = "sleep"
      PROVE  connectionCnt = InitSize \/ \A c \in Idle : getAliveTime(c) < IdleLimit
  <2>1. ScannerDone \/ ScannerEmptyFront
    <3>1. ASSUME NEW t \in Threads, Caller(t) PROVE scanner' = scanner
      BY <3>1
      DEF Caller, Call, Take, Wait, Fail, Deadline, LateDeadline,
          SpuriousWakeup, Release
    <3>2. CASE Producer
      BY <1>1, <3>2
      DEF Producer, ProducerWait, ProducerSpuriousWakeup, ProducerConnect,
          ProducerPush, ProducerSpin
    <3>3. CASE Scanner
      BY <1>1, <3>3 DEF Scanner, ScannerWake, ScannerLock, ScannerReap
    <3>4. CASE Tick \/ UNCHANGED vars
      BY <1>1, <3>4 DEF Tick, vars
    <3>5. QED
      BY <1>1, <3>1, <3>2, <3>3, <3>4 DEF Next
  <2>2. CASE ~TooMany
    BY <1>1, <2>2, PoolAssumption DEF PoolInv, TypeOK, CountExact
  <2>3. CASE connectionQue = <<>>
    <3>1. Idle = {}
      BY <2>3 DEF Idle, Range
    <3>2. QED
      BY <3>1
  <2>4. CASE connectionQue # <<>> /\ ~TooOld(Head(connectionQue))
    <3>1. /\ Idle = {connectionQue[i] : i \in 1..Len(connectionQue)}
          /\ 1 \in 1..Len(connectionQue)
          /\ Head(connectionQue) = connectionQue[1]
      BY <1>1, <2>4, RangeEquality, EmptySeq DEF PoolInv, TypeOK, Idle
    <3>2. SUFFICES ASSUME NEW i \in 1..Len(connectionQue)
                   PROVE  now - aliveTime[connectionQue[i]] < IdleLimit
      BY <3>1 DEF getAliveTime
    <3>3. aliveTime[connectionQue[1]] <= aliveTime[connectionQue[i]]
      BY <1>1, <3>1 DEF PoolInv, OldestFirst
    <3>4. /\ aliveTime[connectionQue[1]] \in Nat
          /\ aliveTime[connectionQue[i]] \in Nat
          /\ now \in Nat
      BY <1>1, <3>1, ElementOfSeq DEF PoolInv, TypeOK
    <3>5. QED
      BY <2>4, <3>1, <3>3, <3>4, PoolAssumption DEF getAliveTime
  <2>5. QED
    BY <2>1, <2>2, <2>3, <2>4 DEF ScannerDone, ScannerEmptyFront
<1>2. ASSUME PoolInv, [Next]_vars
      PROVE  [scanner = "scan" /\ scanner' = "sleep" =>
                \/ connectionCnt = InitSize
                \/ \A c \in Idle : getAliveTime(c) < IdleLimit]_vars
  BY <1>1, <1>2
<1>3. QED
  BY <1>2, Invariance, PTL DEF Spec, ReapComplete

-----------------------------------------------------------------------------
(***************************************************************************)
(* The pool, with its queue, its lock, its counter and its two threads,     *)
(* does to its connections only what the abstract pool allows.              *)
(***************************************************************************)
THEOREM Implementation == Spec => Refines
<1>1. /\ Abstract!Lent = Out
      /\ Abstract!Size = Cardinality(Live)
      /\ \A S : Abstract!Cardinality(S) = Cardinality(S)
  <2>1. Abstract!Lent = Out
    BY DEF Abstract!Lent, Abstract!Range, Range, Out
  <2>2. \A S : Abstract!Cardinality(S) = Cardinality(S)
    BY DEF Abstract!Cardinality, Cardinality
  <2>3. QED
    BY <2>1, <2>2 DEF Abstract!Size, Live
<1>2. ASSUME Init PROVE Abstract!Init
  <2>1. PoolInv /\ Out = {} /\ sp = [f \in Frames |-> NULL]
    BY <1>2, InitPoolInv DEF Init, Out, Range
  <2>2. Idle \subseteq Conn /\ Live = Idle
    BY <2>1, LiveIsFinite DEF PoolInv, Live
  <2>3. QED
    BY <1>1, <1>2, <2>1, <2>2 DEF Abstract!Init, Init, PoolInv, CountExact
<1>3. ASSUME PoolInv, [Next]_vars PROVE [Abstract!Next]_<<Idle, sp>>
  <2>1. ASSUME NEW t \in Threads, Take(t) PROVE Abstract!Next
    <3>1. PICK f \in Frames : /\ sp[f] = NULL
                              /\ sp' = [sp EXCEPT ![f] = Head(connectionQue)]
      BY <1>3, <2>1, TakeEffect DEF PoolInv
    <3>2. /\ Head(connectionQue) \in Idle
          /\ Idle' = Idle \ {Head(connectionQue)}
      BY <1>3, <2>1, TakeEffect DEF PoolInv
    <3>3. Abstract!Borrow(f)
      BY <3>1, <3>2 DEF Abstract!Borrow
    <3>4. QED
      BY <3>3 DEF Abstract!Next
  <2>2. ASSUME NEW t \in Threads, NEW d \in 1..MaxDepth, Release(t, d)
        PROVE  Abstract!Next
    <3>1. <<t, d>> \in Frames /\ Idle' = Idle \cup {sp[<<t, d>>]}
      BY <1>3, <2>2, ReleaseEffect DEF PoolInv
    <3>2. Abstract!Return(<<t, d>>)
      BY <2>2, <3>1 DEF Release, Abstract!Return
    <3>3. QED
      BY <3>1, <3>2 DEF Abstract!Next
  <2>3. CASE ProducerPush
    <3>1. PICK c \in Conn \ Live : Idle' = Idle \cup {c}
      BY <1>3, <2>3, PushEffect DEF PoolInv
    <3>2. Idle = {} /\ connectionCnt < MaxSize /\ sp' = sp
      BY <1>3, <2>3 DEF ProducerPush, PoolInv, MutexDiscipline, Idle, Range
    <3>3. Idle' = {c} /\ c \in Conn \ Out
      BY <3>1, <3>2 DEF Live
    <3>4. Abstract!Size < MaxSize
      BY <1>1, <1>3, <3>2 DEF PoolInv, CountExact
    <3>5. Abstract!Grow
      BY <1>1, <3>2, <3>3, <3>4 DEF Abstract!Grow
    <3>6. QED
      BY <3>5 DEF Abstract!Next
  <2>4. CASE ScannerReap
    <3>1. /\ Head(connectionQue) \in Idle
          /\ Idle' = Idle \ {Head(connectionQue)}
      BY <1>3, <2>4, ReapEffect DEF PoolInv
    <3>2. Abstract!Size > InitSize /\ sp' = sp
      BY <1>1, <1>3, <2>4 DEF ScannerReap, PoolInv, CountExact
    <3>3. Abstract!Shrink
      BY <3>1, <3>2 DEF Abstract!Shrink
    <3>4. QED
      BY <3>3 DEF Abstract!Next
  <2>5. CASE UNCHANGED <<connectionQue, connectionCnt, aliveTime, sp>>
    BY <2>5 DEF Idle
  <2>6. QED
    BY <1>3, <2>1, <2>2, <2>3, <2>4, <2>5, ConnectionSteps
<1>4. QED
  BY <1>2, <1>3, Invariance, PTL
  DEF Spec, Refines, Abstract!Spec, Abstract!poolVars

-----------------------------------------------------------------------------
(* What happens only under load. *)

\* Nobody moves a connection once the scanner has read an empty queue.
LEMMA StandsStill ==
  ASSUME PoolInv, [Next]_vars, Corrupted
  PROVE  UNCHANGED <<connectionQue, connectionCnt, scanner>>
<1>1. queueMutex = "scanner" /\ producer # "connecting" /\ scanner = "undefined"
  BY DEF PoolInv, MutexDiscipline, Corrupted
<1>2. ASSUME NEW t \in Threads, Caller(t)
      PROVE  UNCHANGED <<connectionQue, connectionCnt, scanner>>
  BY <1>1, <1>2 DEF Caller, Call, Take, AtLoopTest, Wait, Fail, Deadline,
                    LateDeadline, SpuriousWakeup, Release
<1>3. CASE Producer
  BY <1>1, <1>3 DEF Producer, ProducerWait, ProducerSpuriousWakeup,
                    ProducerConnect, ProducerPush, ProducerSpin
<1>4. CASE Scanner
  BY <1>1, <1>4 DEF Scanner, ScannerWake, ScannerLock, ScannerReap, ScannerDone,
                    ScannerEmptyFront
<1>5. CASE Tick \/ UNCHANGED vars
  BY <1>5 DEF Tick, vars
<1> QED
  BY <1>2, <1>3, <1>4, <1>5 DEF Next

(***************************************************************************)
(* Whatever the sizes, nobody waits or is refused, and nothing is created   *)
(* or read from an empty queue, while the handlers hold fewer than initSize *)
(* connections.                                                             *)
(***************************************************************************)
THEOREM TroubleOnlyUnderLoad == Spec => []OnlyUnderLoad
<1> DEFINE Beyond == Corrupted => connectionQue = <<>> /\ connectionCnt > InitSize
<1>1. Init => Beyond
  BY DEF Init, Corrupted
<1>2. ASSUME PoolInv, Beyond, [Next]_vars PROVE Beyond'
  <2>1. CASE Corrupted
    BY <1>2, <2>1, StandsStill DEF Corrupted
  <2>2. CASE ~Corrupted /\ Corrupted'
    <3>1. ScannerEmptyFront
      BY <1>2, <2>2
      DEF Next, Caller, Call, Take, Wait, Fail, Deadline, LateDeadline,
          SpuriousWakeup, Release, Producer, ProducerWait, ProducerSpuriousWakeup,
          ProducerConnect, ProducerPush, ProducerSpin, Scanner, ScannerWake,
          ScannerLock, ScannerReap, ScannerDone, Tick, vars, Corrupted
    <3> QED
      BY <3>1 DEF ScannerEmptyFront, TooMany
  <2> QED
    BY <2>1, <2>2
<1>3. ASSUME PoolInv, Beyond PROVE OnlyUnderLoad
  <2>1. connectionQue = <<>> => Live = Out
    BY DEF Live, Idle, Range
  <2>2. connectionCnt = Cardinality(Live) /\ InitSize <= connectionCnt
    BY <1>3 DEF PoolInv, CountExact
  <2> QED
    BY <1>3, <2>1, <2>2 DEF OnlyUnderLoad
<1> HIDE DEF Beyond
<1>4. QED
  BY <1>1, <1>2, <1>3, Invariance, PTL DEF Spec

-----------------------------------------------------------------------------
(* The shipped proportions: initSize exceeds what the handlers can hold. *)

\* The handlers hold at most one connection in each frame.
LEMMA LentBound ==
  ASSUME TypeOK
  PROVE  /\ IsFiniteSet(Out)
         /\ Cardinality(Out) <= Cardinality(Threads) * MaxDepth
<1>1. /\ IsFiniteSet(Threads) /\ Cardinality(Threads) \in Nat
      /\ IsFiniteSet(1..MaxDepth) /\ Cardinality(1..MaxDepth) = MaxDepth
  <2>1. IsFiniteSet(1..MaxDepth)
    BY PoolAssumption, FS_Interval
  <2>2. Cardinality(1..MaxDepth) = IF 1 > MaxDepth THEN 0 ELSE MaxDepth - 1 + 1
    BY PoolAssumption, FS_Interval
  <2>3. QED
    BY <2>1, <2>2, PoolAssumption, FS_CardinalityType
<1>2. /\ IsFiniteSet(Frames)
      /\ Cardinality(Frames) = Cardinality(Threads) * MaxDepth
  BY <1>1, FS_Product DEF Frames
<1>3. sp \in Surjection(Frames, Range(sp))
  BY DEF TypeOK, Surjection, Range
<1>4. /\ IsFiniteSet(Range(sp))
      /\ Cardinality(Range(sp)) <= Cardinality(Frames)
  BY <1>2, <1>3, FS_Surjection
<1>5. /\ IsFiniteSet(Out)
      /\ Cardinality(Out) <= Cardinality(Range(sp))
      /\ Cardinality(Out) \in Nat
      /\ Cardinality(Range(sp)) \in Nat
      /\ Cardinality(Frames) \in Nat
  BY <1>2, <1>4, FS_Subset, FS_CardinalityType DEF Out
<1>6. QED
  BY <1>2, <1>4, <1>5

\* With more connections than frames the queue cannot be empty.
LEMMA NotEmpty ==
  ASSUME Cardinality(Threads) * MaxDepth < InitSize, PoolInv
  PROVE  connectionQue # <<>>
<1>1. SUFFICES ASSUME connectionQue = <<>> PROVE FALSE
  OBVIOUS
<1>2. Live = Out
  BY <1>1 DEF Live, Idle, Range
<1>3. /\ Cardinality(Live) <= Cardinality(Threads) * MaxDepth
      /\ InitSize <= Cardinality(Live)
      /\ Cardinality(Live) \in Nat
  BY <1>2, LentBound, LiveIsFinite DEF PoolInv, CountExact
<1>4. Cardinality(Threads) * MaxDepth \in Nat
  BY PoolAssumption, FS_CardinalityType
<1>5. QED
  BY <1>3, <1>4, PoolAssumption

(***************************************************************************)
(* If initSize exceeds the number of connections that all handlers together *)
(* can hold, no getConnection ever waits or fails, the pool keeps exactly   *)
(* the connections its constructor made, and the scanner never looks at the *)
(* front of an empty queue.                                                 *)
(***************************************************************************)
THEOREM AlwaysSupplied ==
  ASSUME Cardinality(Threads) * MaxDepth < InitSize
  PROVE  Spec => []NeverExhausted
<1> DEFINE Quiet == /\ connectionCnt = InitSize
                    /\ \A t \in Threads : pc[t] \in {"run", "lock"}
                    /\ producer # "connecting"
                    /\ ~Corrupted
<1>1. Init => Quiet
  BY DEF Init, Corrupted
<1>2. ASSUME PoolInv, Quiet, [Next]_vars PROVE Quiet'
  <2>1. /\ connectionQue # <<>>
        /\ TypeOK
    BY <1>2, NotEmpty DEF PoolInv
  <2>2. ASSUME NEW t \in Threads, Caller(t) PROVE Quiet'
    BY <1>2, <2>1, <2>2
    DEF TypeOK, Corrupted, Caller, Call, Take, AtLoopTest, Wait, Fail,
        Deadline, LateDeadline, SpuriousWakeup, Release, WakeCallers,
        WakeProducer
  <2>3. CASE Producer
    BY <1>2, <2>1, <2>3
    DEF TypeOK, Corrupted, Producer, ProducerWait, ProducerSpuriousWakeup,
        ProducerConnect, ProducerPush, ProducerSpin
  <2>4. CASE Scanner
    BY <1>2, <2>1, <2>4, PoolAssumption
    DEF TypeOK, Corrupted, Scanner, ScannerWake, ScannerLock, ScannerReap,
        ScannerDone, ScannerEmptyFront
  <2>5. CASE Tick \/ UNCHANGED vars
    BY <1>2, <2>5 DEF Tick, vars, Corrupted
  <2>6. QED
    BY <1>2, <2>2, <2>3, <2>4, <2>5 DEF Next
<1>3. ASSUME PoolInv, Quiet PROVE NeverExhausted
  BY <1>3, NotEmpty DEF NeverExhausted
<1> HIDE DEF Quiet
<1>4. QED
  BY <1>1, <1>2, <1>3, Invariance, PTL DEF Spec
=============================================================================
