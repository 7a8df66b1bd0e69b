-------------------------------- MODULE MCWire --------------------------------
(***************************************************************************)
(* Instances of Wire for TLC.                                               *)
(***************************************************************************)
EXTENDS Wire, TLC

CONSTANTS a, b, d, l1, l2

\* a waits for its answers, b does not; d sends what nobody can read.
Requests == a :> <<"known", "known">>
            @@ b :> <<"known", "unknown", "known">>
            @@ d :> <<"unknown", "unreadable">>

\* a shares its loop with b.
SharedLoop == a :> l1 @@ b :> l1 @@ d :> l2
=============================================================================
