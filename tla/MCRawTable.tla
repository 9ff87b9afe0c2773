------------------------------- MODULE MCRawTable -------------------------------
(***************************************************************************)
(* Five keys are enough to fill a table of eight slots until it doubles:   *)
(* four collide at the last slot, so that their chain wraps around and     *)
(* runs into the home of the fifth, and are told apart in two pairs after  *)
(* the table has grown.  Eight keys with a home each leave a tombstone in  *)
(* every slot if the table lets them.                                      *)
(***************************************************************************)
EXTENDS RawTable, TLC

CONSTANTS k1, k2, k3, k4, k5, k6, k7, k8, k9, v1, v2

NineKeys == {k1, k2, k3, k4, k5, k6, k7, k8, k9}
TwoValues == {v1, v2}
OfferedPairs == (NineKeys \X {v1}) \cup {<<k1, v2>>}
Colliding == (k1 :> 7) @@ (k2 :> 7) @@ (k3 :> 15) @@ (k4 :> 15) @@ (k5 :> 2)
Spread == (k2 :> 0) @@ (k3 :> 9) @@ (k4 :> 2) @@ (k5 :> 3) @@ (k6 :> 4) @@ (k7 :> 5) @@ (k8 :> 6) @@ (k9 :> 7)
HashChoices == {Colliding, Spread}
CapacityChoices == {0, 9}
SizeChoices == {8, 16, 32}
=============================================================================
