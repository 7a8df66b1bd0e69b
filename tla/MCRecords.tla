----------------------------- MODULE MCRecords -----------------------------
(***************************************************************************)
(* Instances of Records for TLC.                                            *)
(***************************************************************************)
EXTENDS Records, TLC

CONSTANTS algebra, botany, classA

\* Contents: names of courses, a student's class, the courses a teacher lists.
Contents == {algebra, botany, classA, {1}}

\* Student 1 and the courses 1 and 2; teacher 1 teaches course 1, and lists it.
Choose(c)  == [student |-> 1, course |-> c, teacher |-> 1, score |-> 0]
Add(t, x)  == [op |-> "insert", table |-> t, content |-> x]
Ask(op, c) == [op |-> op, choice |-> Choose(c), class |-> classA]

School ==
  [[t \in Table |-> <<>>] EXCEPT !["Students"] = <<classA>>,
                                 !["Teachers"] = <<{1}>>,
                                 !["Courses"] = <<algebra>>]

TwoChoices == {Choose(1), Choose(2)}

\* Values of Asked.
Additions ==
  {Add("Courses", botany), Ask("removeCourse", 1),
   Ask("classAverages", 1)}
Reports ==
  {Ask(op, 1) : op \in Query \cup {"classAverages", "removeCourse", "removeChoosing"}}
    \cup {Add("Courses", botany), Add("Students", classA), Ask("insertChoosing", 2),
          [Ask("updateScore", 1) EXCEPT !.choice.score = 1]}

Symmetry == Permutations(Loop) \cup Permutations(Conn)
=============================================================================
