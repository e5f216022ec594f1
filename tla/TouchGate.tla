------------------------------ MODULE TouchGate ------------------------------
(***************************************************************************)
(* What the agent promises its user about approvals, whatever its locks,   *)
(* caches and tasks do: an answer that needs the user's consent is given   *)
(* only after the key was touched for that very request, or while a grant  *)
(* made by an earlier touch of the same caller for the same thing is live; *)
(* and no request starts down that road while the agent is locked.         *)
(***************************************************************************)

CONSTANTS
    Session,      \* the connections that ask
    Subject,      \* what an approval is about: a key, decryption, sudo
    NoSubject,    \* the subject of a connection that asks nothing
    Context,      \* the callers an approval can be remembered for
    NoContext,    \* the context of a connection nothing is remembered for
    ContextOf,    \* the context of each connection
    Unremembered  \* the subjects whose approval is never remembered

VARIABLES
    stage,        \* how far each request is: out, pending, touched, approved
    subject,      \* what it is about
    grants,       \* the live grants: pairs of a context and a subject
    open          \* the agent is not locked

vars == <<stage, subject, grants, open>>

Remembered(s) == ContextOf[s] # NoContext /\ subject[s] \notin Unremembered

GrantOf(s) == <<ContextOf[s], subject[s]>>

Move(s, from, to) ==
    /\ stage[s] = from
    /\ stage' = [stage EXCEPT ![s] = to]

Leave(s, from) ==
    /\ Move(s, from, "out")
    /\ subject' = [subject EXCEPT ![s] = NoSubject]
    /\ UNCHANGED <<grants, open>>

Init ==
    /\ stage = [s \in Session |-> "out"]
    /\ subject = [s \in Session |-> NoSubject]
    /\ grants = {}
    /\ open = TRUE

\* A request that needs approval is taken in: never by a locked agent.
Admit(s, x) ==
    /\ open
    /\ Move(s, "out", "pending")
    /\ subject' = [subject EXCEPT ![s] = x]
    /\ UNCHANGED <<grants, open>>

Reuse(s) ==
    /\ Remembered(s)
    /\ GrantOf(s) \in grants
    /\ Move(s, "pending", "approved")
    /\ UNCHANGED <<subject, grants, open>>

Touch(s) ==
    /\ Move(s, "pending", IF Remembered(s) THEN "touched" ELSE "approved")
    /\ UNCHANGED <<subject, grants, open>>

Remember(s) ==
    /\ Move(s, "touched", "approved")
    /\ grants' = grants \cup {GrantOf(s)}
    /\ UNCHANGED <<subject, open>>

Deliver(s) == Leave(s, "approved")

Refuse(s) == Leave(s, "pending")

\* Grants run out one by one, or are dropped together.
Lapse ==
    /\ grants' \in SUBSET grants
    /\ UNCHANGED <<stage, subject, open>>

Close == open' = FALSE /\ UNCHANGED <<stage, subject, grants>>

Open == open' = TRUE /\ UNCHANGED <<stage, subject, grants>>

\* The agent dies: every connection is cut and every grant forgotten.
Restart ==
    /\ stage' = [s \in Session |-> "out"]
    /\ subject' = [s \in Session |-> NoSubject]
    /\ grants' = {}
    /\ open' = TRUE

Next ==
    \/ \E s \in Session :
          \/ \E x \in Subject : Admit(s, x)
          \/ Reuse(s) \/ Touch(s) \/ Remember(s)
          \/ Deliver(s) \/ Refuse(s)
    \/ Lapse \/ Close \/ Open \/ Restart

Spec == Init /\ [][Next]_vars
=============================================================================
