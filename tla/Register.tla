------------------------------ MODULE Register ------------------------------
(***************************************************************************)
(* What a till promises for one bill: the amount due is settled before the *)
(* first coin is taken and never afterwards, and no more is ever taken     *)
(* than is due.  Settlement implements it when one call is served at a     *)
(* time.                                                                   *)
(***************************************************************************)
EXTENDS Naturals

VARIABLES due, paid

Init == due = 0 /\ paid = 0

Reprice == paid = 0 /\ due' \in Nat /\ UNCHANGED paid

Charge == paid' \in (paid + 1)..due /\ UNCHANGED due

Next == Reprice \/ Charge

Spec == Init /\ [][Next]_<<due, paid>>

=============================================================================
