------------------------------ MODULE AuthCache ------------------------------
(***************************************************************************)
(* AuthCache of src/ssh_agent.rs: a map from a caller context and a        *)
(* fingerprint to the instant at which its approval expires.  Entries are  *)
(* not removed when they expire: is_authorized compares them with the      *)
(* clock, and a sweeper drops them some time later.                        *)
(***************************************************************************)
EXTENDS Integers

CONSTANTS
    Slot,            \* the keys (context_id, fingerprint) of the map
    DecryptSlot,     \* those whose fingerprint is "decrypt@vt"
    SignDuration,    \* sign_duration, in ticks of the clock
    DecryptDuration, \* decrypt_duration
    Absent,          \* no entry
    MaxTime          \* the clock stops here (a bound for model checking)

ASSUME DurationAssumption ==
    /\ SignDuration \in Nat /\ DecryptDuration \in Nat
    /\ DecryptSlot \subseteq Slot
ASSUME AbsentAssumption == Absent \notin Nat
ASSUME MaxTimeAssumption == MaxTime \in Nat

VARIABLES
    entries,  \* entries: the expiry of each slot, or Absent
    now       \* Instant::now()

vars == <<entries, now>>

Ttl(k) == IF k \in DecryptSlot THEN DecryptDuration ELSE SignDuration

\* Fault: an entry is good in the instant in which it expires.
LiveAt(t, k) == entries[k] # Absent /\ t <= entries[k]

\* The comparison of is_authorized and of sweep_expired.
Live(t, k) == entries[k] # Absent /\ t < entries[k]

IsAuthorized(k) == Live(now, k)

Init == entries = [k \in Slot |-> Absent] /\ now = 0

\* insert: a second approval replaces the first, whichever expires later.
Grant(k) ==
    /\ entries' = [entries EXCEPT ![k] = now + Ttl(k)]
    /\ UNCHANGED now

\* lock
Clear ==
    /\ entries' = [k \in Slot |-> Absent]
    /\ UNCHANGED now

SweepExpired ==
    /\ entries' = [k \in Slot |-> IF Live(now, k) THEN entries[k] ELSE Absent]
    /\ UNCHANGED now

Tick ==
    /\ now < MaxTime
    /\ now' = now + 1
    /\ UNCHANGED entries

Next == (\E k \in Slot : Grant(k)) \/ Clear \/ SweepExpired \/ Tick

Spec == Init /\ [][Next]_vars

-----------------------------------------------------------------------------
\* The cache maps slots to instants.
TypeOK ==
    /\ entries \in [Slot -> Nat \cup {Absent}]
    /\ now \in Nat

\* The time until an entry expires, whether or not it is still there.
Left(k) == IF entries[k] = Absent \/ entries[k] <= now THEN 0 ELSE entries[k] - now

Windows == INSTANCE TouchWindow WITH
    Window <- [k \in Slot |-> Ttl(k)],
    left <- [k \in Slot |-> Left(k)],
    allowed <- [k \in Slot |-> IsAuthorized(k)]

(* What is_authorized says of every slot, over time, is a window of the     *)
(* duration configured for it, opened by grant only and counted from the    *)
(* last one: sweeping shows nowhere, and no expired entry comes back.       *)
ImplementsTouchWindow == Windows!Spec
=============================================================================
