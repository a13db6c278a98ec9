--------------------------- MODULE ReadinessLease ---------------------------
(***************************************************************************)
(* What a readiness gate promises the operator who holds one of its        *)
(* tokens.  A token is a lease on one optical map: it is granted with a    *)
(* number above every number used before, and once it is taken back no     *)
(* later state of the gate accepts it again.                               *)
(***************************************************************************)
EXTENDS Naturals

VARIABLES
  current,   \* the number of the token in force, 0 when there is none
  used       \* every token granted so far has a number up to this one

Init == current = 0 /\ used = 0

\* A new token may take the place of one that the same step takes back.
Grant == /\ used' > used
         /\ current' = used'

Revoke == /\ current' = 0
          /\ used' >= used

Spec == Init /\ [][Grant \/ Revoke]_<<current, used>>

=============================================================================
