------------------------------ MODULE Registry ------------------------------
(***************************************************************************)
(* What the handlers promise those who ask, without connections, a pool or  *)
(* the statements a request is put together from: a request takes effect    *)
(* once and as a whole, or it is refused and changes nothing, and the       *)
(* answer says which.  An insertion is told the id of its own row.  A class *)
(* report is the exception: it looks the names of its courses up one after  *)
(* the other, whatever happens between, but each name is right then or      *)
(* left out.  Records implements it (see Implements there).                 *)
(***************************************************************************)
EXTENDS Integers, Sequences

CONSTANTS
  Loop,            \* who serves requests, one at a time
  Table,           \* the tables that count their ids up
  Asked,           \* the requests
  Reading,         \* the operations that change nothing
  NULL,            \* a row that has been deleted
  NoName,          \* no name
  StoredRow,       \* the rows at first
  StoredChoosing   \* the choices at first

VARIABLES
  row,        \* the tables
  choosing,   \* the choices
  call        \* the request of each loop: free, asked or done, with its answer

registryVars == <<row, choosing, call>>

Free == [stage |-> "free"]

Init ==
  /\ row = StoredRow
  /\ choosing = StoredChoosing
  /\ call = [l \in Loop |-> Free]

Is(l, stage) == call[l].stage = stage
AskedFor(l, op) == Is(l, "asked") /\ call[l].req.op = op

Done(l, ok, id) ==
  call' = [call EXCEPT ![l] = [stage |-> "done", req |-> call[l].req,
                               ok |-> ok, id |-> id, report |-> {}]]

Ask(l) ==
  /\ Is(l, "free")
  /\ \E q \in Asked : call' = [call EXCEPT ![l] = [stage |-> "asked", req |-> q]]
  /\ UNCHANGED <<row, choosing>>

Refuse(l) ==
  /\ Is(l, "asked")
  /\ Done(l, FALSE, 0)
  /\ UNCHANGED <<row, choosing>>

Insert(l) ==
  /\ AskedFor(l, "insert")
  /\ LET t == call[l].req.table IN
       /\ row' = [row EXCEPT ![t] = Append(@, call[l].req.content)]
       /\ Done(l, TRUE, Len(row[t]) + 1)
  /\ UNCHANGED choosing

Remove(l) ==
  /\ AskedFor(l, "removeCourse")
  /\ row' = [row EXCEPT !["Courses"] =
               [i \in DOMAIN @ |-> IF i = call[l].req.choice.course THEN NULL ELSE @[i]]]
  /\ Done(l, TRUE, 0)
  /\ UNCHANGED choosing

\* Only choices of the student and the course that the request names change.
Others(l, choices) ==
  {r \in choices : \/ r.student # call[l].req.choice.student
                   \/ r.course # call[l].req.choice.course}

Change(l) ==
  /\ \/ AskedFor(l, "insertChoosing") /\ choosing \subseteq choosing'
     \/ AskedFor(l, "removeChoosing") /\ choosing' = Others(l, choosing)
     \/ /\ AskedFor(l, "updateScore")
        /\ {r \in choosing : r.teacher # call[l].req.choice.teacher} \subseteq choosing'
  /\ Others(l, choosing') = Others(l, choosing)
  /\ Done(l, TRUE, 0)
  /\ UNCHANGED row

Find(l) ==
  /\ \E op \in Reading : AskedFor(l, op)
  /\ Done(l, TRUE, 0)
  /\ UNCHANGED <<row, choosing>>

\* A report lists a course under its present name or under none.
List(l) ==
  /\ Is(l, "done")
  /\ call[l].req.op = "classAverages"
  /\ \E c \in DOMAIN row["Courses"] :
       \E n \in {NoName} \cup ({row["Courses"][c]} \ {NULL}) :
         call' = [call EXCEPT ![l].report = @ \cup {[course |-> c, name |-> n]}]
  /\ UNCHANGED <<row, choosing>>

Reply(l) ==
  /\ Is(l, "done")
  /\ call' = [call EXCEPT ![l] = Free]
  /\ UNCHANGED <<row, choosing>>

Next ==
  \E l \in Loop :
    \/ Ask(l) \/ Refuse(l) \/ Insert(l) \/ Remove(l) \/ Change(l) \/ Find(l)
    \/ List(l) \/ Reply(l)

Spec == Init /\ [][Next]_registryVars
=============================================================================
