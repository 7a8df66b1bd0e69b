-------------------------- MODULE MCConnectionPool --------------------------
(***************************************************************************)
(* Instances of ConnectionPool for TLC.                                     *)
(***************************************************************************)
EXTENDS ConnectionPool, TLC

Loader == INSTANCE Config

(***************************************************************************)
(* The three loops of setThreadNum and, during reset, the main thread hold  *)
(* two connections each at most, never all that the shipped file asks for:  *)
(* this is what the theorem AlwaysSupplied assumes.                         *)
(***************************************************************************)
ASSUME ShippedProportions == Loader!Shipped.initSize > (3 + 1) * 2

\* The timeout of a pool that has read the shipped file.
ShippedTimeout == Loader!Shipped.connectionTimeout

\* Handler threads and addresses are interchangeable.
Symmetry == Permutations(Threads) \cup Permutations(Conn)
=============================================================================
