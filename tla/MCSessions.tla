------------------------------ MODULE MCSessions ------------------------------
(* Instances of Sessions for TLC.                                           *)
EXTENDS Sessions, TLC

\* The same address, written in two ways.
TwoSpellings == {"al", "Al"}
LowerCase == [e \in TwoSpellings |-> "al"]

EveryAuthFault == {"insert", "lookup", "verify", "handler", "touch", "stop"}

AuthSymmetry == Permutations(Logins) \cup Permutations(AuthCalls) \cup Permutations(Passwords)

==============================================================================
