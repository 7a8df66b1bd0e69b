----------------------------- MODULE MCSessions -----------------------------
(***************************************************************************)
(* Instances of Sessions for TLC.                                           *)
(***************************************************************************)
EXTENDS Sessions, TLC

CONSTANTS c1, c2, c3, l1, l2, stu, tea, adm, nobody

\* Values of RoleOf.
OneStudent           == stu :> "student"
OneTeacher           == tea :> "teacher"
OneTeacherAndNobody  == tea :> "teacher" @@ nobody :> "student"
TwoStaff             == tea :> "teacher" @@ adm :> "admin"

\* Values of LoopOf.
OneLoop     == c1 :> l1 @@ c2 :> l1
OneLoopEach == c1 :> l1 @@ c2 :> l2
SharedLoop  == c1 :> l1 @@ c2 :> l2 @@ c3 :> l1

\* With SharedLoop, c1 and c3 are interchangeable.
Symmetry == Permutations({c1, c3})
=============================================================================
