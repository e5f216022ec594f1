----------------------------- MODULE TouchWindow -----------------------------
(***************************************************************************)
(* What a cached approval means to the user: after a touch, the same       *)
(* caller may do the same thing for a while, and the while is counted from *)
(* the last touch.  Nothing but a touch opens a window or widens it.       *)
(***************************************************************************)
EXTENDS Integers

CONSTANTS
    Slot,    \* what can be approved: a caller and a thing it may do
    Window   \* how long an approval of it lasts

VARIABLES
    left,    \* the time that is left of each approval, 0 if there is none
    allowed  \* what the callers see: is the thing allowed without a touch?

vars == <<left, allowed>>

Show == allowed' = [k \in Slot |-> left'[k] > 0]

Init ==
    /\ left = [k \in Slot |-> 0]
    /\ allowed = [k \in Slot |-> FALSE]

Open(k) == left' = [left EXCEPT ![k] = Window[k]] /\ Show

Shrink(n) == IF n = 0 THEN 0 ELSE n - 1

Pass == left' = [k \in Slot |-> Shrink(left[k])] /\ Show

Revoke == left' = [k \in Slot |-> 0] /\ Show

Next == (\E k \in Slot : Open(k)) \/ Pass \/ Revoke

Spec == Init /\ [][Next]_vars
=============================================================================
