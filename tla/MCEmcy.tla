------------------------------- MODULE MCEmcy -------------------------------
(* A node's dictionary with the error register, a u8 that the application  *)
(* also writes as a buffer, a dynamic variable that can be resized, and a  *)
(* key that is free, for another u8 or a read-only vector.                 *)
EXTENDS Emcy, TLC

MCInitTable ==
  0 :> OdEntry("u32", "RW", {}, <<>>) @@ 1 :> OdEntry("u8", "RW", Initial, <<>>)
    @@ 2 :> OdEntry("dynamic", "RW", Initial, <<>>)
MCKinds == [k \in Keys |-> IF k = 3 THEN {<<"vector", "RO">>} ELSE {}]
Symmetric == Permutations(Codes) \cup Permutations(Listeners) \cup Permutations(Transfers)
=============================================================================
