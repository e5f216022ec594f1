-------------------------- MODULE SshAgentRefinement --------------------------
(***************************************************************************)
(* The agent implements TouchGate: whatever the interleaving of its        *)
(* connections, sweepers and commands, what needs the user's consent is    *)
(* answered after a touch for it or under a live grant, and is taken in    *)
(* only by an unlocked agent.  Every step of SshAgent is shown to be a     *)
(* step of TouchGate or to change none of its variables.                   *)
(***************************************************************************)
EXTENDS SshAgentProofs

USE ActorsApart, NoPassAssumption, ContextAssumption, FpAssumption

Subjects == Key \cup {DecryptFp, AuthFp}

\* Nothing that TouchGate sees of connection t changes.
Still(t) == StageOf(t)' = StageOf(t) /\ Wanted(t)' = Wanted(t)

OthersStill(s) == \A t \in Session : t # s => Still(t)

-----------------------------------------------------------------------------
(* From what happens to each connection to the functions of TouchGate.      *)

\* A step that changes nothing TouchGate sees is no step of TouchGate.
LEMMA Stutter ==
    ASSUME \A t \in Session : Still(t), UNCHANGED <<cache, locked>>
    PROVE  UNCHANGED Gate!vars
  BY DEF Still, Gate!vars

\* When one connection moves, the stages change at that connection only.
LEMMA Moved ==
    ASSUME NEW s \in Session, OthersStill(s)
    PROVE  Gate!Move(s, StageOf(s), StageOf(s)')
<1>1. [t \in Session |-> StageOf(t)]'
        = [[t \in Session |-> StageOf(t)] EXCEPT ![s] = StageOf(s)']
  BY DEF OthersStill, Still
<1>. QED BY <1>1 DEF Gate!Move

\* And so do the subjects.
LEMMA WantedMoved ==
    ASSUME NEW s \in Session, OthersStill(s)
    PROVE  [t \in Session |-> Wanted(t)]'
             = [[t \in Session |-> Wanted(t)] EXCEPT ![s] = Wanted(s)']
  BY DEF OthersStill, Still

\* A connection that keeps its request keeps its subject.
LEMMA WantedStill ==
    ASSUME NEW s \in Session, OthersStill(s), Wanted(s)' = Wanted(s)
    PROVE  [t \in Session |-> Wanted(t)]' = [t \in Session |-> Wanted(t)]
  BY DEF OthersStill, Still

\* A connection that moves leaves the others where TouchGate sees them.
LEMMA OthersStay ==
    ASSUME ControlOK, NEW s \in Session, SessionStep(s)
    PROVE  OthersStill(s)
<1>1. \A t \in Session : t # s => pc'[t] = pc[t] /\ req'[t] = req[t]
  BY DEF ControlOK, Actor, Continue, ContinueWith, Reply, AfterSave,
         SessionStep, EnsureStep, ApprovalStep, FileStep, LockStep,
         RefuseLocked, KeysStart, ExtensionStart, AddStart, PeekKeys, ReadIdleFlag,
         LoadKeys, StoreReloaded, ListKeys, FindKey, CheckCache, Touch, GrantAuth,
         Answer, LoadEntries, TruncateFile, WriteFile, SaveFails, WriteKeys,
         Lock, LockKeys, Unlock, UnlockKeys
<1>. QED BY <1>1 DEF OthersStill, Still, StageOf, Wanted, Approving

-----------------------------------------------------------------------------
(* The steps of TouchGate, said of the connection that takes them.          *)

\* Passing the lock check is Admit.
LEMMA Admits ==
    ASSUME NEW s \in Session, OthersStill(s), ~locked, NEW x \in Subjects,
           StageOf(s) = "out", StageOf(s)' = "pending", Wanted(s)' = x,
           UNCHANGED <<cache, locked>>
    PROVE  Gate!Next
<1>1. Gate!Admit(s, x)
  BY Moved, WantedMoved DEF Gate!Admit
<1>. QED BY <1>1 DEF Gate!Next, Subjects

\* A reply is Deliver after an approval and Refuse before one.
LEMMA Leaves ==
    ASSUME NEW s \in Session, OthersStill(s),
           StageOf(s) \in {"pending", "approved"}, StageOf(s)' = "out",
           Wanted(s)' = NoArg, UNCHANGED <<cache, locked>>
    PROVE  Gate!Next
<1>1. Gate!Leave(s, StageOf(s))
  BY Moved, WantedMoved DEF Gate!Leave
<1>2. Gate!Refuse(s) \/ Gate!Deliver(s)
  BY <1>1 DEF Gate!Refuse, Gate!Deliver
<1>. QED BY <1>2 DEF Gate!Next

\* A request with a cache key of its own is one TouchGate can remember.
LEMMA CacheKeyIsGrant ==
    ASSUME NEW s \in Session, Approving(s), ContextOf[s] # NoContext,
           req[s].op # "auth", req[s] \in Request \cup {NoRequest}
    PROVE  Gate!Remembered(s) /\ Gate!GrantOf(s) = CacheKey(s)
<1>1. req[s].op \in {"sign", "decrypt"}
  BY DEF Approving
<1>2. SubjectOf(req[s]) # AuthFp
  BY <1>1, RequestArg DEF SubjectOf, KeyOp
<1>. QED BY <1>2 DEF Gate!Remembered, Gate!GrantOf, CacheKey, Wanted

\* A hit in auth_cache is Reuse.
LEMMA Reuses ==
    ASSUME NEW s \in Session, OthersStill(s),
           Gate!Remembered(s), Gate!GrantOf(s) \in cache,
           StageOf(s) = "pending", StageOf(s)' = "approved", Wanted(s)' = Wanted(s),
           UNCHANGED <<cache, locked>>
    PROVE  Gate!Next
<1>1. Gate!Reuse(s)
  BY Moved, WantedStill DEF Gate!Reuse
<1>. QED BY <1>1 DEF Gate!Next

\* A touch is Touch.
LEMMA Touches ==
    ASSUME NEW s \in Session, OthersStill(s), StageOf(s) = "pending",
           StageOf(s)' = IF Gate!Remembered(s) THEN "touched" ELSE "approved",
           Wanted(s)' = Wanted(s), UNCHANGED <<cache, locked>>
    PROVE  Gate!Next
<1>1. Gate!Touch(s)
  BY Moved, WantedStill DEF Gate!Touch
<1>. QED BY <1>1 DEF Gate!Next

\* grant is Remember.
LEMMA RemembersGrant ==
    ASSUME NEW s \in Session, OthersStill(s),
           StageOf(s) = "touched", StageOf(s)' = "approved", Wanted(s)' = Wanted(s),
           cache' = cache \cup {Gate!GrantOf(s)}, UNCHANGED locked
    PROVE  Gate!Next
<1>1. Gate!Remember(s)
  BY Moved, WantedStill DEF Gate!Remember
<1>. QED BY <1>1 DEF Gate!Next

\* lock, unlock, and the end of a grant move no connection.
LEMMA GateMoves ==
    ASSUME \A t \in Session : Still(t),
           \/ locked' \in BOOLEAN /\ cache' = cache
           \/ locked' = locked /\ cache' \subseteq cache
    PROVE  Gate!Next
<1>1. CASE locked' \in BOOLEAN /\ cache' = cache
  BY <1>1 DEF Still, Gate!Next, Gate!Open, Gate!Close
<1>2. CASE locked' = locked /\ cache' \subseteq cache
  BY <1>2 DEF Still, Gate!Next, Gate!Lapse
<1>. QED BY <1>1, <1>2

-----------------------------------------------------------------------------
(* Every step of a connection is a step of TouchGate, or none.              *)

\* Every step of a handler is a step of TouchGate, or none.
LEMMA StepRefines ==
    ASSUME Consistent, NEW s \in Session, SessionStep(s)
    PROVE  Gate!Next \/ UNCHANGED Gate!vars
<1>. ControlOK /\ OthersStill(s)
  BY OthersStay DEF Consistent
<1>. pc \in [Actor -> Label] /\ req \in [Actor -> Request \cup {NoRequest}]
     /\ Session \subseteq Actor /\ Fits(s, pc[s], req[s].op)
  BY DEF ControlOK, LabelsFit, Actor
<1>. locked \in BOOLEAN
  BY DEF Consistent, SharedOK
<1>. DEFINE Silent == Still(s) /\ UNCHANGED <<cache, locked>>
<1>0. Silent => UNCHANGED Gate!vars
  BY Stutter DEF OthersStill
<1>. USE DEF Fits, gate, memory, Continue, ContinueWith, Reply, NoRequest,
         Still, StageOf, Wanted, Approving
<1>1. CASE KeysStart(s)
  <2>1. CASE req[s].op = "sign"
    <3>1. req[s].arg \in Subjects
      BY <2>1, RequestArg DEF Subjects, KeyOp
    <3>2. /\ ~locked /\ UNCHANGED <<cache, locked>>
          /\ StageOf(s) = "out" /\ StageOf(s)' = "pending" /\ Wanted(s)' = req[s].arg
      BY <1>1, <2>1 DEF KeysStart, Admitted, GateOpen, SubjectOf
    <3>. QED BY <3>1, <3>2, Admits
  <2>2. CASE req[s].op = "list"
    BY <1>0, <1>1, <2>2 DEF KeysStart, Admitted
  <2>. QED BY <1>1, <2>1, <2>2 DEF KeysStart, Admitted
<1>2. CASE ExtensionStart(s)
  <2>1. CASE pc'[s] = "idle"
    BY <1>0, <1>2, <2>1 DEF ExtensionStart, Admitted
  <2>2. CASE pc'[s] # "idle"
    <3>1. SubjectOf(req[s]) \in Subjects
      BY <1>2, <2>2 DEF ExtensionStart, Admitted, SubjectOf, Subjects
    <3>2. /\ ~locked /\ UNCHANGED <<cache, locked>>
          /\ StageOf(s) = "out" /\ StageOf(s)' = "pending"
          /\ Wanted(s)' = SubjectOf(req[s])
      BY <1>2, <2>2 DEF ExtensionStart, Admitted, GateOpen, SubjectOf
    <3>. QED BY <3>1, <3>2, Admits
  <2>. QED BY <2>1, <2>2
<1>3. CASE LoadKeys(s)
  <2>1. CASE Readable \/ req[s].op = "list"
    BY <1>0, <1>3, <2>1 DEF LoadKeys, SubjectOf
  <2>2. CASE ~Readable /\ req[s].op = "sign"
    <3>1. /\ StageOf(s) = "pending" /\ StageOf(s)' = "out" /\ Wanted(s)' = NoArg
          /\ UNCHANGED <<cache, locked>>
      BY <1>3, <2>2 DEF LoadKeys
    <3>. QED BY <3>1, Leaves
  <2>. QED BY <1>3, <2>1, <2>2 DEF LoadKeys
<1>4. CASE FindKey(s)
  <2>1. CASE pc'[s] # "idle"
    BY <1>0, <1>4, <2>1 DEF FindKey, SubjectOf
  <2>2. CASE pc'[s] = "idle"
    <3>1. /\ StageOf(s) = "pending" /\ StageOf(s)' = "out" /\ Wanted(s)' = NoArg
          /\ UNCHANGED <<cache, locked>>
      BY <1>4, <2>2 DEF FindKey
    <3>. QED BY <3>1, Leaves
  <2>. QED BY <2>1, <2>2
<1>5. CASE CheckCache(s)
  <2>1. CASE Authorized(s)
    <3>1. Approving(s) /\ ContextOf[s] # NoContext /\ req[s].op # "auth"
      BY <1>5 DEF CheckCache
    <3>2. Gate!Remembered(s) /\ Gate!GrantOf(s) \in cache
      BY <2>1, <3>1, CacheKeyIsGrant DEF Authorized
    <3>3. /\ StageOf(s) = "pending" /\ StageOf(s)' = "approved"
          /\ Wanted(s)' = Wanted(s) /\ UNCHANGED <<cache, locked>>
      BY <1>5, <2>1 DEF CheckCache, SubjectOf
    <3>. QED BY <3>2, <3>3, Reuses
  <2>2. CASE ~Authorized(s)
    BY <1>0, <1>5, <2>2 DEF CheckCache, SubjectOf
  <2>. QED BY <2>1, <2>2
<1>6. CASE Touch(s)
  <2>1. CASE pc'[s] = "idle"
    <3>1. /\ StageOf(s) = "pending" /\ StageOf(s)' = "out" /\ Wanted(s)' = NoArg
          /\ UNCHANGED <<cache, locked>>
      BY <1>6, <2>1 DEF Touch
    <3>. QED BY <3>1, Leaves
  <2>2. CASE pc'[s] # "idle"
    <3>1. StageOf(s) = "pending" /\ Wanted(s)' = Wanted(s) /\ UNCHANGED <<cache, locked>>
      BY <1>6, <2>2 DEF Touch, SubjectOf
    <3>2. Gate!Remembered(s) = Remembers(s)
      <4>1. req[s].op = "auth" => SubjectOf(req[s]) = AuthFp
        BY DEF SubjectOf
      <4>2. Approving(s)
        BY <1>6 DEF Touch
      <4>. QED BY <4>1, <4>2, CacheKeyIsGrant DEF Remembers, Gate!Remembered
    <3>3. StageOf(s)' = IF Gate!Remembered(s) THEN "touched" ELSE "approved"
      BY <1>6, <2>2, <3>2 DEF Touch
    <3>. QED BY <3>1, <3>3, Touches
  <2>. QED BY <2>1, <2>2
<1>7. CASE GrantAuth(s)
  <2>1. Approving(s) /\ ContextOf[s] # NoContext /\ req[s].op # "auth"
    BY <1>7 DEF GrantAuth
  <2>2. Gate!GrantOf(s) = CacheKey(s)
    BY <2>1, CacheKeyIsGrant
  <2>3. /\ StageOf(s) = "touched" /\ StageOf(s)' = "approved"
        /\ Wanted(s)' = Wanted(s) /\ UNCHANGED locked
        /\ cache' = cache \cup {CacheKey(s)}
    BY <1>7 DEF GrantAuth, SubjectOf
  <2>. QED BY <2>2, <2>3, RemembersGrant
<1>8. CASE Answer(s)
  <2>1. /\ StageOf(s) = "approved" /\ StageOf(s)' = "out" /\ Wanted(s)' = NoArg
        /\ UNCHANGED <<cache, locked>>
    BY <1>8 DEF Answer
  <2>. QED BY <2>1, Leaves
<1>9. CASE Lock(s) \/ LockKeys(s) \/ Unlock(s)
  <2>1. Still(s) /\ (\/ locked' \in BOOLEAN /\ cache' = cache
                     \/ locked' = locked /\ cache' \subseteq cache)
    BY <1>9 DEF Lock, LockKeys, Unlock
  <2>. QED BY <2>1, GateMoves DEF OthersStill
<1>10. CASE RefuseLocked(s) \/ AddStart(s)
  BY <1>0, <1>10 DEF RefuseLocked, AddStart, GatedOp, Admitted, CommandOp
<1>11. CASE PeekKeys(s) \/ ReadIdleFlag(s) \/ StoreReloaded(s)
  BY <1>0, <1>11 DEF PeekKeys, ReadIdleFlag, StoreReloaded, AfterEnsure, SubjectOf
<1>12. CASE ListKeys(s) \/ LoadEntries(s) \/ WriteKeys(s) \/ UnlockKeys(s)
  BY <1>0, <1>12 DEF ListKeys, LoadEntries, WriteKeys, UnlockKeys, CommandOp
<1>13. CASE TruncateFile(s) \/ WriteFile(s) \/ SaveFails(s)
  BY <1>0, <1>13 DEF TruncateFile, WriteFile, SaveFails, AfterSave, CommandOp
<1>. QED
  BY <1>1, <1>2, <1>3, <1>4, <1>5, <1>6, <1>7, <1>8, <1>9, <1>10, <1>11, <1>12, <1>13
  DEF SessionStep, EnsureStep, ApprovalStep, FileStep, LockStep

\* So is every other step: commands, sweepers, the clock, crashes, starts.
LEMMA OthersRefine ==
    ASSUME Consistent,
           \/ \E c \in Command : CommandStep(c)
           \/ SweepCheck \/ SweepClear \/ Environment
           \/ UNCHANGED vars
    PROVE  Gate!Next \/ UNCHANGED Gate!vars
<1>. USE DEF gate, memory, control
<1>1. ASSUME NEW c \in Command, CommandStep(c) \/ CommandDies(c)
      PROVE  UNCHANGED Gate!vars
  <2>1. \A s \in Session : pc'[s] = pc[s] /\ req'[s] = req[s]
    BY <1>1 DEF Consistent, ControlOK, Actor, CommandStep, FileStep, CommandStart,
         CommandLoadEntries, TruncateFile, WriteFile, SaveFails, AfterSave,
         CommandDies, Continue, ContinueWith, Reply
  <2>2. UNCHANGED <<cache, locked>>
    BY <1>1 DEF CommandStep, FileStep, CommandStart, CommandLoadEntries,
         TruncateFile, WriteFile, SaveFails, CommandDies
  <2>3. \A s \in Session : Still(s)
    BY <2>1 DEF Still, StageOf, Wanted, Approving
  <2>. QED BY <2>2, <2>3, Stutter
<1>2. ASSUME NEW s \in Actor, NEW r \in Request, Receive(s, r)
      PROVE  UNCHANGED Gate!vars
  <2>1. \A t \in Session :
           \/ pc'[t] = pc[t] /\ req'[t] = req[t]
           \/ /\ pc[t] = "idle"
              /\ pc'[t] = "start" \/ req'[t].op \in {"remove", "removeAll"}
    BY <1>2 DEF Consistent, ControlOK, Actor, Receive, FirstLabel
  <2>2. \A t \in Session : Still(t)
    BY <2>1 DEF Still, StageOf, Wanted, Approving
  <2>. QED BY <1>2, <2>2, Stutter DEF Receive
<1>3. CASE Lapse
  <2>1. \A t \in Session : Still(t)
    BY <1>3 DEF Lapse, Still, StageOf, Wanted, Approving
  <2>. QED BY <1>3, <2>1, GateMoves DEF Lapse
<1>4. CASE Crash
  <2>1. \A t \in Session : StageOf(t)' = "out" /\ Wanted(t)' = NoArg
    BY <1>4 DEF Crash, StageOf, Wanted, Approving, Actor
  <2>2. Gate!Restart
    BY <1>4, <2>1 DEF Crash, Gate!Restart
  <2>. QED BY <2>2 DEF Gate!Next
<1>5. CASE SweepCheck \/ SweepClear \/ IdleElapses \/ StartAgent \/ UNCHANGED vars
  <2>1. \A t \in Session : Still(t)
    BY <1>5 DEF SweepCheck, SweepClear, IdleElapses, StartAgent, vars,
         Still, StageOf, Wanted, Approving
  <2>. QED BY <1>5, <2>1, Stutter
         DEF SweepCheck, SweepClear, IdleElapses, StartAgent, vars
<1>. QED BY <1>1, <1>2, <1>3, <1>4, <1>5 DEF Environment

(* The property the run agent checks on two connections:                    *)
(* check_or_prompt_auth (ssh_agent.rs:604-651), its callers sign and        *)
(* extension, and the lock keep the promise of TouchGate.                   *)
THEOREM Implementation == Spec => ImplementsTouchGate
<1>1. Init => Gate!Init
  <2>. SUFFICES ASSUME Init PROVE Gate!Init
    OBVIOUS
  <2>1. \A s \in Session : StageOf(s) = "out" /\ Wanted(s) = NoArg
    BY DEF Init, StageOf, Wanted, Approving, Actor, NoRequest
  <2>. QED BY <2>1 DEF Init, Gate!Init
<1>2. Consistent /\ [Next]_vars => [Gate!Next]_(Gate!vars)
  BY StepRefines, OthersRefine DEF Next
<1>. QED BY <1>1, <1>2, Invariance, PTL DEF Spec, ImplementsTouchGate, Gate!Spec
=============================================================================
