------------------------------- MODULE MCHash -------------------------------
(* An instance of YetiHash: three keys that share a list until the table    *)
(* has grown twice; then two of them move together and one stays.           *)
EXTENDS YetiHash
CONSTANTS k1, k2, k3, v1
MCKeys == {k1, k2, k3}
MCValues == {v1}
MCHash == k1 :> 5 @@ k2 :> 13 @@ k3 :> 1
=============================================================================
