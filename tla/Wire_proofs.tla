----------------------------- MODULE Wire_proofs -----------------------------
(***************************************************************************)
(* Theorems about Wire, for any connections, event loops and requests, and  *)
(* for every way in which the network breaks and joins what is sent.        *)
(***************************************************************************)
EXTENDS Wire, SequenceTheorems, TLAPS

(* The one-line tests and assignments are always expanded. *)
USE DEF Retrieved, Parses, HasHandler, Parts, NextRequest, HasAnswer, Uncaught

-----------------------------------------------------------------------------
(* Positions and sequences. *)

\* A position where a request starts is Parts times the number of those before.
LEMMA StartOfRequest ==
  ASSUME NEW r \in Nat, r % 3 = 0
  PROVE  r \div 3 \in Nat /\ 3 * (r \div 3) = r
OBVIOUS

LEMMA RangeOfAppend ==
  ASSUME NEW q \in Seq(Nat), NEW i \in Nat
  PROVE  /\ Append(q, i) \in Seq(Nat)
         /\ Range(Append(q, i)) = Range(q) \cup {i}
         /\ Range(q) \subseteq Nat
<1>1. Append(q, i) \in Seq(Nat) /\ Len(Append(q, i)) = Len(q) + 1 /\ Len(q) \in Nat
  BY AppendProperties, LenProperties
<1>2. /\ \A j \in 1..Len(q) : Append(q, i)[j] = q[j] /\ q[j] \in Nat
      /\ Append(q, i)[Len(q) + 1] = i
  BY AppendProperties, ElementOfSeq
<1>3. /\ Range(q) = {q[j] : j \in 1..Len(q)}
      /\ Range(Append(q, i)) = {Append(q, i)[j] : j \in 1..(Len(q) + 1)}
  BY <1>1, RangeEquality
<1> QED
  BY <1>1, <1>2, <1>3

-----------------------------------------------------------------------------
(* Types. *)

LEMMA InitType == ASSUME Init PROVE TypeOK
<1>1. \A c \in Client : Asks[c] \in Seq(Kind)
  BY WireAssumption
<1> QED
  BY <1>1 DEF Init, TypeOK, LinkState

\* What a step that dispatches a request of c has read, and what it takes.
LEMMA DispatchFacts ==
  ASSUME TypeOK, NEW c \in Client, Dispatch(c)
  PROVE  \E k \in Nat, m \in Nat :
           /\ read[c] = 3 * m
           /\ k >= 3 * m + 2 /\ k <= 3 * sent[c]
           /\ m + 1 <= sent[c]
           /\ read' = [read EXCEPT ![c] = k]
           /\ taken' = [taken EXCEPT ![c] = Append(@, m + 1)]
           /\ task' \in {[task EXCEPT ![LoopOf[c]] = <<c, m + 1>>],
                         [task EXCEPT ![LoopOf[c]] = Idle]}
<1>1. PICK k \in (read[c] + 1)..(3 * sent[c]) :
        /\ read[c] % 3 = 0 /\ k >= read[c] + 2
        /\ read' = [read EXCEPT ![c] = k]
  BY DEF Dispatch
<1>2. read[c] \in Nat /\ sent[c] \in Nat
  BY DEF TypeOK
<1>3. PICK m \in Nat : m = read[c] \div 3 /\ read[c] = 3 * m
  BY <1>1, <1>2, StartOfRequest
<1>4. k \in Nat /\ m + 1 <= sent[c]
  BY <1>1, <1>2, <1>3
<1>5. /\ taken' = [taken EXCEPT ![c] = Append(@, m + 1)]
      /\ task' \in {[task EXCEPT ![LoopOf[c]] = <<c, m + 1>>],
                    [task EXCEPT ![LoopOf[c]] = Idle]}
  BY <1>3 DEF Dispatch
<1>6. k >= 3 * m + 2 /\ k <= 3 * sent[c]
  BY <1>1, <1>2, <1>3
<1> QED
  BY <1>1, <1>3, <1>4, <1>5, <1>6, Zenon

\* The steps that end the process: an exception in onMessage or in a handler
\* that it has called, and exit.
Ends ==
  \/ \E c \in Client : Throw(c)
  \/ \E l \in Loop : HandlerThrows(l)
  \/ Exit

LEMMA EndFacts ==
  ASSUME Ends
  PROVE  /\ link' = [c \in Client |-> IF link[c] = "new" THEN "new" ELSE "gone"]
         /\ task' = [l \in Loop |-> Idle]
         /\ up' = FALSE
         /\ UNCHANGED <<sent, read, taken, answered, hasty>>
BY DEF Ends, Throw, HandlerThrows, Exit, EndProcess

LEMMA TypeStep == ASSUME TypeOK, [Next]_vars PROVE TypeOK'
<1>1. ASSUME NEW c \in Client, Connect(c) \/ Disconnect(c) \/ Close(c) PROVE TypeOK'
  BY <1>1 DEF TypeOK, Connect, Disconnect, Close, LinkState
<1>2. ASSUME NEW c \in Client, Send(c) PROVE TypeOK'
  <2>1. Len(Asks[c]) \in Nat
    BY WireAssumption
  <2> QED
    BY <1>2, <2>1 DEF TypeOK, Send
<1>3. ASSUME NEW c \in Client, Dispatch(c) PROVE TypeOK'
  <2>1. PICK k \in Nat, m \in Nat :
           /\ k <= 3 * sent[c]
           /\ read' = [read EXCEPT ![c] = k]
           /\ taken' = [taken EXCEPT ![c] = Append(@, m + 1)]
           /\ task' \in {[task EXCEPT ![LoopOf[c]] = <<c, m + 1>>],
                         [task EXCEPT ![LoopOf[c]] = Idle]}
    BY <1>3, DispatchFacts
  <2>2. Append(taken[c], m + 1) \in Seq(Nat)
    BY RangeOfAppend DEF TypeOK
  <2>3. LoopOf[c] \in Loop /\ <<c, m + 1>> \in Client \X Nat
    BY WireAssumption
  <2>4. task' \in [Loop -> (Client \X Nat) \cup {Idle}]
    BY <2>1, <2>3 DEF TypeOK
  <2>5. UNCHANGED <<link, sent, answered, hasty, up>>
    BY <1>3 DEF Dispatch
  <2> QED
    BY <2>1, <2>2, <2>4, <2>5 DEF TypeOK
<1>4. ASSUME Ends PROVE TypeOK'
  BY <1>4, EndFacts DEF TypeOK, LinkState
<1>5. ASSUME NEW l \in Loop, Answer(l) PROVE TypeOK'
  <2>1. task[l] \in Client \X Nat
    BY <1>5 DEF TypeOK, Answer
  <2> QED
    BY <1>5, <2>1 DEF TypeOK, Answer
<1>6. ASSUME Restart PROVE TypeOK'
  BY <1>6 DEF TypeOK, Restart
<1>7. CASE UNCHANGED vars
  BY <1>7 DEF TypeOK, vars
<1> QED
  BY <1>1, <1>2, <1>3, <1>4, <1>5, <1>6, <1>7 DEF Next, Ends

\* Every variable keeps its type, and no stream is read beyond what was sent.
THEOREM TypeCorrect == Spec => []TypeOK
<1>1. Init => TypeOK
  BY InitType
<1>2. TypeOK /\ [Next]_vars => TypeOK'
  BY TypeStep
<1> QED
  BY <1>1, <1>2, PTL DEF Spec

-----------------------------------------------------------------------------
(* The invariant. *)

\* Dispatch takes the request at which the stream stands, which is above all
\* that were taken before; what it passes over is hasty.
LEMMA DispatchOrder ==
  ASSUME WireInv, NEW c \in Client, Dispatch(c)
  PROVE  \E i \in 1..sent[c] :
           /\ \A j \in Range(taken[c]) : j < i
           /\ \A j \in 1..(i - 1) : j \in Range(taken[c]) \cup hasty[c]
           /\ taken' = [taken EXCEPT ![c] = Append(@, i)]
<1>1. PICK k \in Nat, m \in Nat :
        /\ read[c] = 3 * m
        /\ m + 1 <= sent[c]
        /\ taken' = [taken EXCEPT ![c] = Append(@, m + 1)]
  BY DispatchFacts DEF WireInv
<1>2. sent[c] \in Nat /\ m + 1 \in 1..sent[c]
  BY <1>1 DEF WireInv, TypeOK
<1>3. ASSUME NEW j \in Range(taken[c]) PROVE j < m + 1
  BY <1>1, <1>2 DEF WireInv, InOrder, Begun
<1>4. ASSUME NEW j \in 1..m PROVE j \in Range(taken[c]) \cup hasty[c]
  <2>1. j \in Begun(c)
    BY <1>1, <1>2 DEF Begun
  <2>2. link[c] # "gone"
    BY DEF Dispatch, Readable
  <2> QED
    BY <2>1, <2>2 DEF WireInv, LostOnlyIfHasty
<1>5. (m + 1) - 1 = m
  BY <1>1
<1> QED
  BY <1>1, <1>2, <1>3, <1>4, <1>5

LEMMA InvStep == ASSUME WireInv, [Next]_vars PROVE WireInv'
<1> USE DEF WireInv
<1>t. TypeOK'
  BY TypeStep
<1>1. ASSUME UNCHANGED <<sent, read, taken, answered, hasty>>,
             \A l \in Loop : task'[l] \in {task[l], Idle},
             \A d \in Client : link[d] = "gone" => link'[d] = "gone"
      PROVE  WireInv'
  BY <1>t, <1>1 DEF InOrder, TaskTaken, LostOnlyIfHasty, Begun, UnreadBehindUnread
<1>2. ASSUME NEW c \in Client, Connect(c) \/ Disconnect(c) \/ Close(c) PROVE WireInv'
  BY <1>1, <1>2 DEF TypeOK, Connect, Disconnect, Close
<1>3. ASSUME NEW c \in Client, Send(c) PROVE WireInv'
  <2>1. /\ sent' = [sent EXCEPT ![c] = @ + 1]
        /\ hasty' = [hasty EXCEPT ![c] = IF sent[c] \in answered[c] \cup {0}
                                           THEN @ ELSE @ \cup {sent[c] + 1}]
        /\ UNCHANGED <<link, read, taken, answered, task>>
    BY <1>3 DEF Send
  <2>2. sent[c] \in Nat /\ read[c] \in Nat /\ read[c] <= 3 * sent[c]
    BY DEF TypeOK
  <2>3. Begun(c)' = Begun(c) /\ hasty[c] \subseteq hasty'[c]
    BY <2>1, <2>2 DEF TypeOK, Begun
  <2>4. UnreadBehindUnread(c)' \subseteq hasty'[c]
    <3>1. SUFFICES ASSUME NEW i \in 2..(sent[c] + 1), 3 * (i - 2) >= read[c]
                   PROVE  i \in hasty'[c]
      BY <2>1 DEF TypeOK, UnreadBehindUnread
    <3>2. CASE i \in 2..sent[c]
      BY <2>3, <3>1, <3>2 DEF InOrder, UnreadBehindUnread
    <3>3. CASE i = sent[c] + 1
      <4>1. sent[c] \notin Begun(c) /\ sent[c] # 0
        BY <2>2, <3>1, <3>3 DEF Begun
      <4>2. sent[c] \notin answered[c] \cup {0}
        BY <4>1 DEF InOrder
      <4> QED
        BY <2>1, <3>3, <4>2 DEF TypeOK
    <3> QED
      BY <2>2, <3>1, <3>2, <3>3
  <2>5. \A d \in Client : d # c => /\ Begun(d)' = Begun(d)
                                   /\ UnreadBehindUnread(d)' = UnreadBehindUnread(d)
                                   /\ hasty'[d] = hasty[d]
    BY <2>1 DEF TypeOK, Begun, UnreadBehindUnread
  <2> QED
    BY <1>t, <2>1, <2>3, <2>4, <2>5 DEF InOrder, TaskTaken, LostOnlyIfHasty
<1>4. ASSUME NEW c \in Client, Dispatch(c) PROVE WireInv'
  <2>1. PICK k \in Nat, m \in Nat :
           /\ read[c] = 3 * m
           /\ k >= 3 * m + 2 /\ k <= 3 * sent[c]
           /\ m + 1 <= sent[c]
           /\ read' = [read EXCEPT ![c] = k]
           /\ taken' = [taken EXCEPT ![c] = Append(@, m + 1)]
           /\ task' \in {[task EXCEPT ![LoopOf[c]] = <<c, m + 1>>],
                         [task EXCEPT ![LoopOf[c]] = Idle]}
    BY <1>4, DispatchFacts
  <2>2. UNCHANGED <<link, sent, answered, hasty>> /\ link[c] # "gone"
    BY <1>4 DEF Dispatch, Readable
  <2>3. /\ sent[c] \in Nat /\ read[c] \in Nat /\ taken[c] \in Seq(Nat)
        /\ read'[c] = k /\ taken'[c] = Append(taken[c], m + 1)
    BY <2>1 DEF TypeOK
  <2>4. Range(taken'[c]) = Range(taken[c]) \cup {m + 1}
    BY <2>3, RangeOfAppend
  <2>5. Begun(c) \subseteq Begun(c)' /\ m + 1 \in Begun(c)'
    BY <2>1, <2>2, <2>3 DEF Begun
  <2>6. UnreadBehindUnread(c)' \subseteq UnreadBehindUnread(c)
    BY <2>1, <2>2, <2>3 DEF UnreadBehindUnread
  <2>7. Begun(c)' \ Range(taken'[c]) \subseteq hasty[c]
    <3>1. SUFFICES ASSUME NEW i \in 1..sent[c], i # m + 1, i \notin Range(taken[c])
                   PROVE  i \in hasty[c]
      BY <2>2, <2>4 DEF Begun
    <3>2. CASE i <= m
      <4>1. i \in Begun(c)
        BY <2>1, <2>3, <3>1, <3>2 DEF Begun
      <4> QED
        BY <2>2, <3>1, <4>1 DEF LostOnlyIfHasty
    <3>3. CASE i >= m + 2
      <4>1. i \in UnreadBehindUnread(c)
        BY <2>1, <2>3, <3>1, <3>3 DEF UnreadBehindUnread
      <4> QED
        BY <4>1 DEF InOrder
    <3> QED
      BY <3>1, <3>2, <3>3
  <2>8. \A d \in Client : d # c => /\ Begun(d)' = Begun(d)
                                   /\ UnreadBehindUnread(d)' = UnreadBehindUnread(d)
                                   /\ taken'[d] = taken[d]
    BY <2>1, <2>2 DEF TypeOK, Begun, UnreadBehindUnread
  <2>9. InOrder' /\ LostOnlyIfHasty'
    BY <2>2, <2>4, <2>5, <2>6, <2>7, <2>8 DEF InOrder, LostOnlyIfHasty
  <2>10. TaskTaken'
    <3>1. ASSUME NEW l \in Loop, task'[l] # Idle
          PROVE  task'[l][2] \in Range(taken'[task'[l][1]])
      <4>1. CASE task'[l] = task[l]
        <5>1. task[l] \in Client \X Nat /\ task[l][2] \in Range(taken[task[l][1]])
          BY <3>1, <4>1 DEF TypeOK, TaskTaken
        <5> QED
          BY <2>4, <2>8, <4>1, <5>1
      <4>2. CASE task'[l] = <<c, m + 1>>
        BY <2>4, <4>2
      <4> QED
        BY <2>1, <3>1, <4>1, <4>2 DEF TypeOK
    <3> QED
      BY <3>1 DEF TaskTaken
  <2> QED
    BY <1>t, <2>9, <2>10
<1>5. ASSUME Ends PROVE WireInv'
  <2>1. /\ \A l \in Loop : task'[l] = Idle
        /\ \A d \in Client : link[d] = "gone" => link'[d] = "gone"
        /\ UNCHANGED <<sent, read, taken, answered, hasty>>
    BY <1>5, EndFacts
  <2> QED
    BY <1>1, <2>1
<1>6. ASSUME NEW l \in Loop, Answer(l) PROVE WireInv'
  <2>1. task[l] \in Client \X Nat /\ task[l][2] \in Range(taken[task[l][1]])
    BY <1>6 DEF TypeOK, Answer, TaskTaken
  <2>2. /\ UNCHANGED <<link, sent, read, taken, hasty>>
        /\ \A k \in Loop : task'[k] \in {task[k], Idle}
    BY <1>6 DEF Answer, TypeOK
  <2>3. \A d \in Client : answered'[d] \subseteq Range(taken[d])
    BY <1>6, <2>1 DEF Answer, TypeOK, InOrder
  <2> QED
    BY <1>t, <2>2, <2>3 DEF InOrder, TaskTaken, LostOnlyIfHasty, Begun, UnreadBehindUnread
<1>7. ASSUME Restart PROVE WireInv'
  BY <1>1, <1>7 DEF Restart
<1>8. CASE UNCHANGED vars
  BY <1>1, <1>8 DEF vars
<1> QED
  BY <1>2, <1>3, <1>4, <1>5, <1>6, <1>7, <1>8 DEF Next, Ends

LEMMA InitInv == ASSUME Init PROVE WireInv
<1>1. TypeOK
  BY InitType
<1>2. InOrder /\ TaskTaken /\ LostOnlyIfHasty
  BY DEF Init, InOrder, TaskTaken, LostOnlyIfHasty, Begun, UnreadBehindUnread, Range
<1> QED
  BY <1>1, <1>2 DEF WireInv

\* The inductive invariant of the front end.
THEOREM Invariance == Spec => []WireInv
<1>1. Init => WireInv
  BY InitInv
<1>2. WireInv /\ [Next]_vars => WireInv'
  BY InvStep
<1> QED
  BY <1>1, <1>2, PTL DEF Spec

\* On a connection that lasts, only what was sent in haste is passed over.
THEOREM PatienceIsSafe == Spec => []LostOnlyIfHasty
<1>1. WireInv => LostOnlyIfHasty
  BY DEF WireInv
<1> QED
  BY <1>1, Invariance, PTL

-----------------------------------------------------------------------------
(* The mailbox. *)

\* Each step of the front end sends, takes or answers one request, or none.
LEMMA StepImplements ==
  ASSUME WireInv, [Next]_vars
  PROVE  [Service!Next]_(Service!mailVars)
<1> USE DEF Service!mailVars
<1>1. ASSUME NEW c \in Client, Send(c) PROVE Service!Next
  <2>1. Service!Send(c)
    BY <1>1 DEF Send, Service!Send
  <2> QED
    BY <2>1 DEF Service!Next
<1>2. ASSUME NEW c \in Client, Dispatch(c) PROVE Service!Next
  <2>1. UNCHANGED <<sent, answered, hasty>>
    BY <1>2 DEF Dispatch
  <2>2. Service!Take(c)
    BY <1>2, <2>1, DispatchOrder DEF Service!Take, Service!Range, Range
  <2> QED
    BY <2>2 DEF Service!Next
<1>3. ASSUME NEW l \in Loop, Answer(l) PROVE [Service!Next]_(Service!mailVars)
  <2>1. task[l] \in Client \X Nat /\ task[l][2] \in Range(taken[task[l][1]])
    BY <1>3 DEF WireInv, TypeOK, Answer, TaskTaken
  <2>2. UNCHANGED <<sent, taken, hasty>>
    BY <1>3 DEF Answer
  <2>3. CASE link[task[l][1]] = "open"
    <3>1. Service!Answer(task[l][1])
      BY <1>3, <2>1, <2>2, <2>3 DEF Answer, Service!Answer, Service!Range, Range
    <3> QED
      BY <2>1, <3>1 DEF Service!Next
  <2>4. CASE link[task[l][1]] # "open"
    <3>1. answered' = answered
      BY <1>3, <2>1, <2>4 DEF Answer, WireInv, TypeOK
    <3> QED
      BY <2>2, <3>1
  <2> QED
    BY <2>3, <2>4
<1>4. ASSUME NEW c \in Client, Connect(c) \/ Disconnect(c) \/ Close(c)
      PROVE  UNCHANGED Service!mailVars
  BY <1>4 DEF Connect, Disconnect, Close
<1>5. ASSUME Ends \/ Restart \/ UNCHANGED vars PROVE UNCHANGED Service!mailVars
  BY <1>5, EndFacts DEF Restart, vars
<1> QED
  BY <1>1, <1>2, <1>3, <1>4, <1>5 DEF Next, Ends

\* The front end implements the mailbox, whatever the network does.
THEOREM Implementation == Spec => Implements
<1>1. Init => Service!Init
  BY DEF Init, Service!Init
<1>2. WireInv /\ [Next]_vars => [Service!Next]_(Service!mailVars)
  BY StepImplements
<1> QED
  BY <1>1, <1>2, Invariance, PTL DEF Spec, Implements, Service!Spec

-----------------------------------------------------------------------------
(* Exceptions in onMessage. *)

\* What arrives whole is always read up to the end of a request.
LEMMA FaultStep ==
  ASSUME TypeOK, FaultInv, [Next]_vars
  PROVE  FaultInv'
<1>1. ASSUME NEW c \in Client, Dispatch(c) PROVE FaultInv'
  <2>1. PICK k \in (read[c] + 1)..(3 * sent[c]) :
          (c \in Whole => k % 3 = 0) /\ read' = [read EXCEPT ![c] = k]
    BY <1>1 DEF Dispatch, Arrived
  <2> QED
    BY <2>1, WireAssumption DEF FaultInv, TypeOK
<1>2. ASSUME read' = read PROVE FaultInv'
  BY <1>2 DEF FaultInv
<1>3. ASSUME NEW c \in Client, Connect(c) \/ Send(c) \/ Disconnect(c) \/ Close(c)
      PROVE  read' = read
  BY <1>3 DEF Connect, Send, Disconnect, Close
<1>4. ASSUME Ends \/ (\E l \in Loop : Answer(l)) \/ Restart \/ UNCHANGED vars
      PROVE  read' = read
  BY <1>4, EndFacts DEF Answer, Restart, vars
<1> QED
  BY <1>1, <1>2, <1>3, <1>4 DEF Next, Ends

LEMMA FaultInvariance == Spec => []FaultInv
<1>1. Init => FaultInv
  BY WireAssumption DEF Init, FaultInv
<1>2. TypeOK /\ FaultInv /\ [Next]_vars => FaultInv'
  BY FaultStep
<1> QED
  BY <1>1, <1>2, TypeCorrect, PTL DEF Spec

\* If the requests of c arrive whole, what can throw is one nobody can read.
LEMMA FaultOfSender ==
  ASSUME TypeOK, FaultInv, NEW c \in Client, CanThrow(c), c \in Whole
  PROVE  \E i \in 1..sent[c] : Asks[c][i] = "unreadable"
<1>1. read[c] \in Nat /\ sent[c] \in Nat /\ read[c] % 3 = 0
  BY DEF TypeOK, FaultInv
<1>2. PICK k \in (read[c] + 1)..(3 * sent[c]) :
        /\ k % 3 = 0
        /\ ~(read[c] % 3 = 0 /\ k >= read[c] + 2) \/ KindOfNext(c) = "unreadable"
  BY DEF CanThrow, Arrived, Fails
<1>3. PICK m \in Nat : m = read[c] \div 3 /\ read[c] = 3 * m
  BY <1>1, StartOfRequest
<1>4. k >= read[c] + 3
  BY <1>1, <1>2
<1>5. KindOfNext(c) = "unreadable"
  BY <1>1, <1>2, <1>4
<1>6. m + 1 \in 1..sent[c]
  BY <1>1, <1>2, <1>3, <1>4
<1> QED
  BY <1>3, <1>5, <1>6 DEF KindOfNext

(***************************************************************************)
(* Whatever has arrived of a client, joined with what or thrown away after  *)
(* what, onMessage can throw on it only if that client has sent what nobody *)
(* can read, or the network breaks its requests in parts.                   *)
(***************************************************************************)
THEOREM ExceptionsAreTheSenders == Spec => []ThrowsOnlyAtFault
<1>1. TypeOK /\ FaultInv => ThrowsOnlyAtFault
  BY FaultOfSender DEF ThrowsOnlyAtFault, AtFault
<1> QED
  BY <1>1, TypeCorrect, FaultInvariance, PTL

(***************************************************************************)
(* What clients would have to do: if all of them wait for their answers and *)
(* send only what can be read, and the network breaks nothing, onMessage    *)
(* never throws, and no request is passed over on a connection that lasts.  *)
(* It does not say that the process goes on: it may be interrupted, and a   *)
(* handler may throw.                                                       *)
(***************************************************************************)
THEOREM DisciplineSuffices ==
  ASSUME Patient = Client, Whole = Client,
         \A c \in Client : \A i \in DOMAIN Asks[c] : Asks[c][i] # "unreadable"
  PROVE  Spec => [](\A c \in Client :
                      /\ ~CanThrow(c)
                      /\ link[c] # "gone" => Begun(c) \subseteq Range(taken[c]))
<1> DEFINE NoHaste == \A c \in Client : hasty[c] = {}
<1>1. Init => NoHaste
  BY DEF Init
<1>2. ASSUME TypeOK, NoHaste, [Next]_vars PROVE NoHaste'
  <2>1. ASSUME NEW c \in Client, Send(c) PROVE hasty' = hasty
    BY <1>2, <2>1 DEF Send, TypeOK
  <2>2. Ends => hasty' = hasty
    BY EndFacts
  <2>3. UNCHANGED hasty
    BY <1>2, <2>1, <2>2
    DEF Next, Ends, Connect, Disconnect, Dispatch, Close, Answer, Restart, vars
  <2> QED
    BY <1>2, <2>3
<1>3. ASSUME TypeOK, FaultInv, NoHaste, WireInv
      PROVE  \A c \in Client :
               /\ ~CanThrow(c)
               /\ link[c] # "gone" => Begun(c) \subseteq Range(taken[c])
  <2>1. ASSUME NEW c \in Client, CanThrow(c) PROVE FALSE
    <3>1. PICK i \in 1..sent[c] : Asks[c][i] = "unreadable"
      BY <1>3, <2>1, FaultOfSender
    <3>2. Asks[c] \in Seq(Kind) /\ sent[c] \in Nat /\ sent[c] <= Len(Asks[c])
      BY <1>3, WireAssumption DEF TypeOK
    <3>3. i \in DOMAIN Asks[c]
      BY <3>1, <3>2
    <3> QED
      BY <3>1, <3>3
  <2> QED
    BY <1>3, <2>1 DEF WireInv, LostOnlyIfHasty
<1> HIDE DEF NoHaste
<1>4. Spec => []NoHaste
  BY <1>1, <1>2, TypeCorrect, PTL DEF Spec
<1> QED
  BY <1>3, <1>4, TypeCorrect, FaultInvariance, Invariance, PTL
=============================================================================
