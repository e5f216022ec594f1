------------------------------- MODULE OneShot -------------------------------
(***************************************************************************)
(* What a client command promises: its request is delivered to one server  *)
(* at most, and it succeeds only with the answer of that server.  Whatever *)
(* goes wrong ends the command; nothing is asked a second time.            *)
(***************************************************************************)
CONSTANTS Caller, Server, Nobody

VARIABLES
    phase, \* of each caller: "over", "asking", "answered" or "served"
    at     \* the server its request was delivered to

vars == <<phase, at>>

Init ==
    /\ phase = [c \in Caller |-> "over"]
    /\ at = [c \in Caller |-> Nobody]

Ask(c) ==
    /\ phase[c] \in {"over", "served"}
    /\ phase' = [phase EXCEPT ![c] = "asking"]
    /\ UNCHANGED at

Deliver(c, v) ==
    /\ phase[c] = "asking" /\ at[c] = Nobody
    /\ at' = [at EXCEPT ![c] = v]
    /\ UNCHANGED phase

Answer(c) ==
    /\ phase[c] = "asking" /\ at[c] # Nobody
    /\ phase' = [phase EXCEPT ![c] = "answered"]
    /\ UNCHANGED at

Over(c, end) ==
    /\ phase' = [phase EXCEPT ![c] = end]
    /\ at' = [at EXCEPT ![c] = Nobody]

Succeed(c) == phase[c] = "answered" /\ Over(c, "served")

Fail(c) == phase[c] \in {"asking", "answered"} /\ Over(c, "over")

Next ==
    \E c \in Caller :
        \/ Ask(c) \/ Answer(c) \/ Succeed(c) \/ Fail(c)
        \/ \E v \in Server : Deliver(c, v)

Spec == Init /\ [][Next]_vars
=============================================================================
