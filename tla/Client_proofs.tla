---------------------------- MODULE Client_proofs -----------------------------
(***************************************************************************)
(* What the run client_login shows of one session holds of every session:   *)
(* whatever the user chooses and whatever the server does, the client never *)
(* gets to the code that sends, nor to what would come after an answer.     *)
(***************************************************************************)
EXTENDS Client, TLAPS

\* Nothing leaves the program, so nothing comes back.
Silent ==
  /\ main \in {"connect", "menu", "fill", "ended"}
  /\ requests = <<>>
  /\ served = 0
  /\ answers = <<>>

-----------------------------------------------------------------------------
LEMMA SilentInit == Init => Silent
  BY DEF Init, Silent

LEMMA SilentStep == Silent /\ [Next]_vars => Silent'
<1> SUFFICES ASSUME Silent, [Next]_vars PROVE Silent'
  OBVIOUS
<1> USE DEF Silent
<1>1. CASE Connect
  BY <1>1 DEF Connect, End
<1>2. CASE Choose
  BY <1>2 DEF Choose
<1>3. CASE Quit
  BY <1>3 DEF Quit, End
<1>4. CASE Break
  BY <1>4 DEF Break, End
<1>5. CASE Send \/ Await \/ MainMenu
  \* The main thread is nowhere near.
  BY <1>5 DEF Send, Await, MainMenu
<1>6. CASE Serve
  \* There is no request to answer.
  BY <1>6 DEF Serve
<1>7. CASE Read
  BY <1>7 DEF Read
<1>8. CASE ServerGone
  BY <1>8 DEF ServerGone, End
<1>9. CASE UNCHANGED vars
  BY <1>9 DEF vars
<1> QED
  BY <1>1, <1>2, <1>3, <1>4, <1>5, <1>6, <1>7, <1>8, <1>9 DEF Next

(***************************************************************************)
(* No session of the console client sends anything: not the request of a    *)
(* login or registration that the user has filled in (the break in line 137 *)
(* and in line 189 leaves the menu loop), and nothing from the menus that a *)
(* login would open.                                                        *)
(***************************************************************************)
THEOREM NeverSends == Spec => [](requests = <<>> /\ main # "mainMenu")
<1>1. Silent => requests = <<>> /\ main # "mainMenu"
  BY DEF Silent
<1> QED
  BY SilentInit, SilentStep, <1>1, PTL DEF Spec
=============================================================================
