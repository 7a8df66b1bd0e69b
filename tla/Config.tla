-------------------------------- MODULE Config --------------------------------
(***************************************************************************)
(* What the pool is told by its configuration: loadConfigFile               *)
(* (src/server/db/ConnectionPool.cpp) and the file that is shipped          *)
(* (src/bin/mysql.conf).                                                    *)
(*                                                                          *)
(* A file is a sequence of lines.  A line is empty if it has no "=", else a *)
(* key and what atoi makes of the value.  The four members that are texts   *)
(* matter to MySQL only and are left out.                                   *)
(***************************************************************************)
EXTENDS Integers, Sequences

\* The key that each member is read from, and a mutant: the key of the file.
KeyOf_ ==
  [port |-> "port", initSize |-> "initSize", maxSize |-> "maxSize",
   maxIdleTime |-> "maxIdleTime", connectionTimeout |-> "maxConnectionTimeOut"]
KeyOf ==
  [port |-> "port", initSize |-> "initSize", maxSize |-> "maxSize",
   maxIdleTime |-> "maxIdleTime", connectionTimeout |-> "connectionTimeOut"]

\* The pool is a static object, so a member nobody sets is zero.
Unset == [m \in DOMAIN KeyOf |-> 0]

\* One round of the loop: a key that nobody knows is passed over.
ReadLine(members, line) ==
  [m \in DOMAIN KeyOf |->
     IF line # <<>> /\ line[1] = KeyOf[m] THEN line[2] ELSE members[m]]

\* The members after the whole file.
Load(file) ==
  LET after[i \in 0..Len(file)] ==
        IF i = 0 THEN Unset ELSE ReadLine(after[i - 1], file[i])
  IN  after[Len(file)]

\* mysql.conf, with its comments.
ShippedFile ==
  << <<>>, <<"ip", 127>>, <<"port", 3306>>, <<"dbname", 0>>, <<"username", 0>>,
     <<"password", 123456>>, <<"initSize", 10>>, <<"maxSize", 1024>>, <<>>,
     <<"maxIdleTime", 60>>, <<>>, <<"maxConnectionTimeOut", 100>> >>

Shipped == Load(ShippedFile)
=============================================================================
