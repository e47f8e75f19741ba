--------------------------- MODULE MCBrokerManager --------------------------
(***************************************************************************)
(* Instances of BrokerManager for TLC.                                     *)
(***************************************************************************)
EXTENDS BrokerManager

Email    == {"email"}
ReadOnly == {"r"}
Perms    == {"r", "rw"}
OneUser  == {"c1"}
TwoUsers == {"c1", "c2"}
=============================================================================
