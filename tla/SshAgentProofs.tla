---------------------------- MODULE SshAgentProofs ----------------------------
(***************************************************************************)
(* Theorems about SshAgent, for every set of connections, commands, keys,  *)
(* passphrases and contexts, every choice of operations and every fault.   *)
(*                                                                         *)
(* The inductive invariant is Consistent.  TypeOK alone is not inductive:  *)
(* what a step stores depends on the request its actor works on, so        *)
(* LabelsFit says which requests can be at which label; a start of the     *)
(* agent must find no connection left over from before (DownIsEmpty); and  *)
(* the safety invariants SignerHoldsKey and LockAgrees then follow one     *)
(* action at a time.                                                       *)
(***************************************************************************)
EXTENDS SshAgent, TLAPS

USE ActorsApart, NoPassAssumption, ContextAssumption, FpAssumption, OpsAssumption

\* The requests an actor at label l can be working on.
Fits(s, l, o) ==
    /\ l \in {"peek", "flag", "load", "reload"} => o \in {"list", "sign"}
    /\ l = "find" => o = "sign"
    /\ l = "list" => o = "list"
    /\ l \in {"cache", "touch", "grant", "answer"} => o \in {"sign", "decrypt", "auth"}
    /\ l \in {"cache", "grant"} => s \in Session /\ ContextOf[s] # NoContext /\ o # "auth"
    /\ l \in {"fileLoad", "truncate", "write"} => o \in CommandOp
    /\ l = "fileLoad" => o # "removeAll"
    /\ l = "keysWrite" => o \in {"add", "remove", "removeAll"}
    /\ l = "lockKeys" => o = "lock"
    /\ l = "unlockKeys" => o = "unlock"
    /\ s \in Session => o # "comment"
    /\ s \in Command => l \in {"idle", "start", "fileLoad", "truncate", "write"}
                          /\ (l # "idle" => o \in CommandOp)

LabelsFit == \A s \in Actor : Fits(s, pc[s], req[s].op)

\* The types of what belongs to an actor, and of what they share.
ControlOK ==
    /\ pc \in [Actor -> Label]
    /\ req \in [Actor -> Request \cup {NoRequest}]
    /\ snap \in [Actor -> SUBSET Key]
    /\ reply \in [Actor -> {"none", "ok", "fail"}]
    /\ LabelsFit

SharedOK ==
    /\ up \in BOOLEAN /\ locked \in BOOLEAN /\ lockPass \in Pass \cup {NoPass}
    /\ keys \subseteq Key /\ idleCleared \in BOOLEAN /\ idle \in BOOLEAN
    /\ sweeping \in BOOLEAN
    /\ cache \subseteq Context \X (Key \cup {DecryptFp})
    /\ file \subseteq Key /\ fileState \in {"whole", "empty", "mixed"}

\* When the agent is down it has neither connections nor a lock.
DownIsEmpty == ~up => ~locked /\ \A s \in Session : pc[s] = "idle"

Consistent ==
    ControlOK /\ SharedOK /\ DownIsEmpty /\ SignerHoldsKey /\ LockAgrees

-----------------------------------------------------------------------------
(* The arguments of requests, and the three ways in which an actor moves.   *)

\* A request carries an argument of the kind its operation needs.
LEMMA RequestArg ==
    ASSUME NEW r \in Request \cup {NoRequest}
    PROVE  /\ r.op \in KeyOp => r.arg \in Key
           /\ r.op \in LockOp => r.arg \in Pass
           /\ r.op \in KeyOp \cup LockOp \cup PlainOp \cup {"none"}
  BY DEF Request, NoRequest, KeyOp, LockOp, PlainOp

\* An actor that replied rests at a label that fits no request.
LEMMA NoRequestFits ==
    ASSUME NEW s \in Actor PROVE Fits(s, "idle", NoRequest.op)
  BY DEF Fits, NoRequest

\* Moving to a label that fits the request keeps the actors consistent.
LEMMA ContinueOK ==
    ASSUME ControlOK, NEW s \in Actor, NEW l \in Label,
           Fits(s, l, req[s].op), Continue(s, l)
    PROVE  ControlOK'
  BY DEF ControlOK, Continue, LabelsFit

\* So does moving there with entries to be saved or stored.
LEMMA ContinueWithOK ==
    ASSUME ControlOK, NEW s \in Actor, NEW l \in Label, NEW S \in SUBSET Key,
           Fits(s, l, req[s].op), ContinueWith(s, l, S)
    PROVE  ControlOK'
  BY DEF ControlOK, ContinueWith, LabelsFit

\* So does a reply.
LEMMA ReplyOK ==
    ASSUME ControlOK, NEW s \in Actor, NEW a \in {"none", "ok", "fail"},
           Reply(s, a)
    PROVE  ControlOK'
  BY NoRequestFits DEF ControlOK, Reply, LabelsFit, Label

\* add, remove and comment turn entries of keys into entries of keys.
LEMMA ChangedKeys ==
    ASSUME NEW r \in Request \cup {NoRequest}, NEW S \in SUBSET Key
    PROVE  /\ Changed(r, S) \in SUBSET Key
           /\ ApplyToKeys(r, S) \in SUBSET Key
  BY RequestArg DEF Changed, ApplyToKeys, KeyOp

-----------------------------------------------------------------------------
(* Each step keeps its actor on labels that fit, with typed fields.         *)

\* A handler of the agent keeps types and labels.
LEMMA StepTyped ==
    ASSUME ControlOK, SharedOK, NEW s \in Session, SessionStep(s)
    PROVE  ControlOK' /\ SharedOK'
<1>. s \in Actor /\ pc[s] \in Label /\ req[s] \in Request \cup {NoRequest}
     /\ snap[s] \in SUBSET Key /\ Fits(s, pc[s], req[s].op)
  BY DEF ControlOK, LabelsFit, Actor
<1>. USE RequestArg, ContinueOK, ContinueWithOK, ReplyOK, ChangedKeys
     DEF Fits, Label, CommandOp, gate, memory, disk
<1>1. CASE RefuseLocked(s)
  BY <1>1 DEF RefuseLocked, SharedOK
<1>2. CASE KeysStart(s)
  BY <1>2 DEF KeysStart, SharedOK, Admitted
<1>3. CASE ExtensionStart(s)
  BY <1>3 DEF ExtensionStart, SharedOK, Admitted
<1>4. CASE AddStart(s)
  BY <1>4 DEF AddStart, SharedOK, Admitted
<1>5. CASE PeekKeys(s)
  BY <1>5 DEF PeekKeys, SharedOK, AfterEnsure
<1>6. CASE ReadIdleFlag(s)
  BY <1>6 DEF ReadIdleFlag, SharedOK, AfterEnsure
<1>7. CASE LoadKeys(s)
  BY <1>7 DEF LoadKeys, SharedOK
<1>8. CASE StoreReloaded(s)
  BY <1>8 DEF StoreReloaded, SharedOK, AfterEnsure
<1>9. CASE ListKeys(s)
  BY <1>9 DEF ListKeys, SharedOK
<1>10. CASE FindKey(s)
  BY <1>10 DEF FindKey, SharedOK
<1>11. CASE CheckCache(s)
  BY <1>11 DEF CheckCache, SharedOK
<1>12. CASE Touch(s)
  BY <1>12 DEF Touch, SharedOK, Remembers
<1>13. CASE GrantAuth(s)
  BY <1>13 DEF GrantAuth, SharedOK, CacheKey, SubjectOf, KeyOp
<1>14. CASE Answer(s)
  BY <1>14 DEF Answer, SharedOK
<1>15. CASE LoadEntries(s)
  BY <1>15 DEF LoadEntries, SharedOK, StoredOrNone
<1>16. CASE WriteKeys(s)
  BY <1>16 DEF WriteKeys, SharedOK
<1>17. CASE Lock(s)
  BY <1>17 DEF Lock, SharedOK, LockOp
<1>18. CASE LockKeys(s)
  BY <1>18 DEF LockKeys, SharedOK
<1>19. CASE Unlock(s)
  BY <1>19 DEF Unlock, SharedOK
<1>20. CASE UnlockKeys(s)
  BY <1>20 DEF UnlockKeys, SharedOK
<1>21. CASE TruncateFile(s)
  BY <1>21 DEF TruncateFile, SharedOK
<1>22. CASE WriteFile(s)
  BY <1>22 DEF WriteFile, SharedOK, AfterSave
<1>23. CASE SaveFails(s)
  BY <1>23 DEF SaveFails, SharedOK
<1>. QED
  BY <1>1, <1>2, <1>3, <1>4, <1>5, <1>6, <1>7, <1>8, <1>9, <1>10, <1>11, <1>12, <1>13, <1>14, <1>15, <1>16, <1>17, <1>18, <1>19, <1>20, <1>21, <1>22, <1>23
  DEF SessionStep, EnsureStep, ApprovalStep, FileStep, LockStep

\* A command of ssh_cli.rs keeps types and labels.
LEMMA CommandTyped ==
    ASSUME ControlOK, SharedOK, NEW c \in Command, CommandStep(c) \/ CommandDies(c)
    PROVE  ControlOK' /\ SharedOK'
<1>. c \in Actor /\ pc[c] \in Label /\ req[c] \in Request \cup {NoRequest}
     /\ snap[c] \in SUBSET Key /\ Fits(c, pc[c], req[c].op)
  BY DEF ControlOK, LabelsFit, Actor
<1>. USE RequestArg, ContinueOK, ContinueWithOK, ReplyOK, ChangedKeys
     DEF Fits, Label, CommandOp, gate, memory, disk
<1>1. CASE CommandStart(c)
  BY <1>1 DEF CommandStart, SharedOK
<1>2. CASE CommandLoadEntries(c)
  BY <1>2 DEF CommandLoadEntries, SharedOK
<1>3. CASE TruncateFile(c)
  BY <1>3 DEF TruncateFile, SharedOK
<1>4. CASE WriteFile(c)
  BY <1>4 DEF WriteFile, SharedOK, AfterSave
<1>5. CASE SaveFails(c)
  BY <1>5 DEF SaveFails, SharedOK
<1>6. CASE CommandDies(c)
  BY <1>6 DEF CommandDies, SharedOK
<1>. QED
  BY <1>1, <1>2, <1>3, <1>4, <1>5, <1>6 DEF CommandStep, FileStep

\* A request that arrives starts at a label that fits it.
LEMMA ReceiveTyped ==
    ASSUME ControlOK, SharedOK, NEW s \in Actor, NEW r \in Request, Receive(s, r)
    PROVE  ControlOK' /\ SharedOK'
<1>. DEFINE first == FirstLabel(s, r.op)
<1>1. first \in Label /\ Fits(s, first, r.op)
  BY DEF Receive, FirstLabel, Label, Fits, SessionOp, CommandOp, Actor
<1>2. ControlOK'
  BY <1>1 DEF Receive, ControlOK, LabelsFit
<1>. QED BY <1>2 DEF Receive, SharedOK, gate, memory, disk

\* The sweepers, the clock, crashes and starts keep types and labels.
LEMMA SharedTyped ==
    ASSUME ControlOK, SharedOK,
           SweepCheck \/ SweepClear \/ IdleElapses \/ Lapse \/ Crash \/ StartAgent
    PROVE  ControlOK' /\ SharedOK'
<1>. USE DEF SharedOK, gate, memory, disk, control
<1>1. CASE Crash
  BY <1>1, NoRequestFits DEF Crash, ControlOK, LabelsFit, Label, Fits
<1>2. UNCHANGED control => ControlOK'
  BY DEF ControlOK, LabelsFit
<1>3. CASE SweepCheck
  BY <1>2, <1>3 DEF SweepCheck
<1>4. CASE SweepClear
  BY <1>2, <1>4 DEF SweepClear
<1>5. CASE IdleElapses
  BY <1>2, <1>5 DEF IdleElapses
<1>6. CASE Lapse
  BY <1>2, <1>6 DEF Lapse
<1>7. CASE StartAgent
  BY <1>2, <1>7 DEF StartAgent
<1>. QED BY <1>1, <1>3, <1>4, <1>5, <1>6, <1>7

-----------------------------------------------------------------------------
(* Signers keep their key and the lock agrees with itself: what a step of a *)
(* connection does to both, given that no other connection moves.           *)

\* A handler takes no key from a signer, and no lock from its holder.
LEMMA StepSafe ==
    ASSUME ControlOK, SignerHoldsKey, LockAgrees, NEW s \in Session, SessionStep(s)
    PROVE  SignerHoldsKey' /\ LockAgrees'
<1>. pc \in [Actor -> Label] /\ req \in [Actor -> Request \cup {NoRequest}]
     /\ Session \subseteq Actor /\ Fits(s, pc[s], req[s].op)
  BY DEF ControlOK, LabelsFit, Actor
<1>. USE DEF SignerHoldsKey, LockAgrees, KeysReaders, gate, memory,
         Continue, ContinueWith, Reply, NoRequest
<1>1. CASE RefuseLocked(s)
  BY <1>1 DEF RefuseLocked
<1>2. CASE KeysStart(s)
  BY <1>2 DEF KeysStart, Admitted
<1>3. CASE ExtensionStart(s)
  BY <1>3 DEF ExtensionStart, Admitted
<1>4. CASE AddStart(s)
  BY <1>4 DEF AddStart, Admitted
<1>5. CASE PeekKeys(s)
  BY <1>5 DEF PeekKeys, AfterEnsure
<1>6. CASE ReadIdleFlag(s)
  BY <1>6 DEF ReadIdleFlag, AfterEnsure
<1>7. CASE LoadKeys(s)
  BY <1>7 DEF LoadKeys
<1>8. CASE StoreReloaded(s)
  BY <1>8 DEF StoreReloaded, AfterEnsure, KeysFree
<1>9. CASE ListKeys(s)
  BY <1>9 DEF ListKeys
<1>10. CASE FindKey(s)
  BY <1>10 DEF FindKey
<1>11. CASE CheckCache(s)
  BY <1>11 DEF CheckCache
<1>12. CASE Touch(s)
  BY <1>12 DEF Touch
<1>13. CASE GrantAuth(s)
  BY <1>13 DEF GrantAuth
<1>14. CASE Answer(s)
  BY <1>14 DEF Answer
<1>15. CASE LoadEntries(s)
  BY <1>15 DEF LoadEntries
<1>16. CASE WriteKeys(s)
  BY <1>16 DEF WriteKeys, KeysFree
<1>17. CASE Lock(s)
  <2>1. /\ req[s].arg # NoPass
        /\ \A t \in Session : pc[t] \notin {"lockKeys", "unlockKeys"}
        /\ keys' = keys
    BY <1>17, RequestArg DEF Lock, LockFree, LockOp
  <2>2. CASE locked
    BY <1>17, <2>1, <2>2 DEF Lock
  <2>3. CASE ~locked
    <3>1. /\ locked' = TRUE
          /\ lockPass' = req[s].arg
          /\ pc' = [pc EXCEPT ![s] = "lockKeys"]
          /\ req' = req
      BY <1>17, <2>3 DEF Lock
    <3>2. SignerHoldsKey'
      BY <2>1, <3>1
    <3>3. LockAgrees'
      BY <2>1, <3>1
    <3>. QED BY <3>2, <3>3
  <2>. QED BY <2>2, <2>3
<1>18. CASE LockKeys(s)
  BY <1>18 DEF LockKeys, KeysFree
<1>19. CASE Unlock(s)
  <2>1. /\ \A t \in Session : pc[t] \notin {"lockKeys", "unlockKeys"}
        /\ keys' = keys
    BY <1>19 DEF Unlock, LockFree
  <2>2. CASE ~locked \/ ~PassMatches(s)
    BY <1>19, <2>1, <2>2 DEF Unlock
  <2>3. CASE locked /\ PassMatches(s)
    <3>1. /\ locked' = FALSE
          /\ lockPass' = NoPass
      BY <1>19, <2>3 DEF Unlock
    <3>2. CASE Readable
      <4>1. pc' = [pc EXCEPT ![s] = "unlockKeys"] /\ req' = req
        BY <1>19, <2>3, <3>2 DEF Unlock
      <4>. QED BY <2>1, <3>1, <4>1
    <3>3. CASE ~Readable
      BY <1>19, <2>1, <2>3, <3>1, <3>3 DEF Unlock
    <3>. QED BY <3>2, <3>3
  <2>. QED BY <2>2, <2>3
<1>20. CASE UnlockKeys(s)
  BY <1>20 DEF UnlockKeys, KeysFree
<1>21. CASE TruncateFile(s)
  BY <1>21 DEF TruncateFile
<1>22. CASE WriteFile(s)
  BY <1>22 DEF WriteFile, AfterSave
<1>23. CASE SaveFails(s)
  BY <1>23 DEF SaveFails
<1>. QED
  BY <1>1, <1>2, <1>3, <1>4, <1>5, <1>6, <1>7, <1>8, <1>9, <1>10, <1>11, <1>12, <1>13, <1>14, <1>15, <1>16, <1>17, <1>18, <1>19, <1>20, <1>21, <1>22, <1>23
  DEF SessionStep, EnsureStep, ApprovalStep, FileStep, LockStep

\* Commands touch neither the keys in memory nor the lock.
LEMMA CommandSafe ==
    ASSUME ControlOK, SignerHoldsKey, LockAgrees,
           NEW c \in Command, CommandStep(c) \/ CommandDies(c)
    PROVE  SignerHoldsKey' /\ LockAgrees'
<1>1. /\ UNCHANGED <<gate, keys>>
      /\ \A s \in Session : pc'[s] = pc[s] /\ req'[s] = req[s]
  BY DEF ControlOK, Actor, CommandStep, FileStep, CommandStart, CommandLoadEntries,
         TruncateFile, WriteFile, SaveFails, AfterSave, CommandDies,
         Continue, ContinueWith, Reply, gate, memory
<1>. QED BY <1>1 DEF SignerHoldsKey, KeysReaders, LockAgrees, gate

\* The idle sweeper waits for the signers; the others take no key away.
LEMMA SharedSafe ==
    ASSUME ControlOK, DownIsEmpty, SignerHoldsKey, LockAgrees,
           SweepCheck \/ SweepClear \/ IdleElapses \/ Lapse \/ Crash \/ StartAgent
    PROVE  SignerHoldsKey' /\ LockAgrees'
<1>. USE DEF SignerHoldsKey, LockAgrees, KeysReaders, gate, memory, control
<1>1. CASE Crash
  BY <1>1 DEF Crash, Actor
<1>2. CASE StartAgent
  BY <1>2 DEF StartAgent, DownIsEmpty
<1>3. CASE SweepClear
  BY <1>3 DEF SweepClear, KeysFree
<1>4. CASE SweepCheck \/ IdleElapses \/ Lapse
  BY <1>4 DEF SweepCheck, IdleElapses, Lapse
<1>. QED BY <1>1, <1>2, <1>3, <1>4

\* A request that arrives holds nothing yet.
LEMMA ReceiveSafe ==
    ASSUME ControlOK, SignerHoldsKey, LockAgrees,
           NEW s \in Actor, NEW r \in Request, Receive(s, r)
    PROVE  SignerHoldsKey' /\ LockAgrees'
<1>1. \A t \in Session :
         \/ pc'[t] = pc[t] /\ req'[t] = req[t]
         \/ pc'[t] \in {"start", "fileLoad", "truncate"}
  BY DEF ControlOK, Actor, Receive, FirstLabel
<1>. QED BY <1>1 DEF Receive, SignerHoldsKey, KeysReaders, LockAgrees, gate, memory

\* Only a running agent serves; nothing but a crash brings it down.
LEMMA StepUp ==
    ASSUME ControlOK, DownIsEmpty, NEW s \in Session, SessionStep(s)
    PROVE  up' = up /\ pc[s] # "idle" /\ DownIsEmpty'
<1>1. up' = up
  BY DEF SessionStep, EnsureStep, ApprovalStep, FileStep, LockStep,
         RefuseLocked, KeysStart, ExtensionStart, AddStart, PeekKeys, ReadIdleFlag,
         LoadKeys, StoreReloaded, ListKeys, FindKey, CheckCache, Touch, GrantAuth,
         Answer, LoadEntries, TruncateFile, WriteFile, SaveFails, WriteKeys,
         Lock, LockKeys, Unlock, UnlockKeys
<1>2. pc[s] # "idle"
  BY DEF SessionStep, EnsureStep, ApprovalStep, FileStep, LockStep, Admitted,
         RefuseLocked, KeysStart, ExtensionStart, AddStart, PeekKeys, ReadIdleFlag,
         LoadKeys, StoreReloaded, ListKeys, FindKey, CheckCache, Touch, GrantAuth,
         Answer, LoadEntries, TruncateFile, WriteFile, SaveFails, WriteKeys,
         Lock, LockKeys, Unlock, UnlockKeys
<1>. QED BY <1>1, <1>2 DEF DownIsEmpty

-----------------------------------------------------------------------------
(* The invariant: types, labels, the signers' keys and the lock, always.    *)

\* A started agent is consistent.
LEMMA InitConsistent == Init => Consistent
<1>. SUFFICES ASSUME Init PROVE Consistent
  OBVIOUS
<1>1. ControlOK
  BY NoRequestFits DEF Init, ControlOK, LabelsFit, Label
<1>2. SharedOK /\ DownIsEmpty
  BY DEF Init, SharedOK, DownIsEmpty
<1>3. SignerHoldsKey /\ LockAgrees
  BY DEF Init, SignerHoldsKey, KeysReaders, LockAgrees, Actor
<1>. QED BY <1>1, <1>2, <1>3 DEF Consistent

\* Every step of the agent, its sweepers and the commands keeps it so.
LEMMA NextConsistent == Consistent /\ [Next]_vars => Consistent'
<1>. SUFFICES ASSUME Consistent, [Next]_vars PROVE Consistent'
  OBVIOUS
<1>. USE DEF Consistent
<1>1. ASSUME NEW s \in Session, SessionStep(s) PROVE Consistent'
  BY <1>1, StepTyped, StepSafe, StepUp
<1>2. ASSUME NEW c \in Command, CommandStep(c) \/ CommandDies(c) PROVE Consistent'
  <2>1. UNCHANGED <<up, locked>> /\ \A s \in Session : pc'[s] = pc[s]
    BY <1>2 DEF ControlOK, Actor, CommandStep, FileStep, CommandStart,
         CommandLoadEntries, TruncateFile, WriteFile, SaveFails, AfterSave,
         CommandDies, Continue, ContinueWith, Reply, gate
  <2>2. DownIsEmpty'
    BY <2>1 DEF DownIsEmpty
  <2>. QED BY <1>2, <2>2, CommandTyped, CommandSafe
<1>3. ASSUME NEW s \in Actor, NEW r \in Request, Receive(s, r) PROVE Consistent'
  <2>1. DownIsEmpty'
    BY <1>3 DEF ControlOK, Receive, DownIsEmpty, gate, Actor
  <2>. QED BY <1>3, <2>1, ReceiveTyped, ReceiveSafe
<1>4. CASE SweepCheck \/ SweepClear \/ IdleElapses \/ Lapse \/ Crash \/ StartAgent
  <2>1. DownIsEmpty'
    BY <1>4 DEF SweepCheck, SweepClear, IdleElapses, Lapse, Crash, StartAgent,
         DownIsEmpty, gate, control, Actor
  <2>. QED BY <1>4, <2>1, SharedTyped, SharedSafe
<1>5. CASE UNCHANGED vars
  BY <1>5 DEF vars, ControlOK, LabelsFit, SharedOK, DownIsEmpty, SignerHoldsKey,
       KeysReaders, LockAgrees
<1>. QED BY <1>1, <1>2, <1>3, <1>4, <1>5 DEF Next, Environment

\* The agent is consistent at all times: the invariant of all that follows.
THEOREM Invariance == Spec => []Consistent
BY InitConsistent, NextConsistent, PTL DEF Spec

(* Every variable keeps its type, in every agent.                           *)
THEOREM Typing == Spec => []TypeOK
<1>1. Consistent => TypeOK
  BY DEF Consistent, ControlOK, SharedOK, TypeOK
<1>. QED BY <1>1, Invariance, PTL

(* sign never signs with a key that lock, unlock, a removal, a reload or    *)
(* the idle sweeper has taken from memory: it holds keys.read() from the    *)
(* lookup to the reply (ssh_agent.rs:688-733).                              *)
THEOREM SignersHoldKeys == Spec => []SignerHoldsKey
<1>1. Consistent => SignerHoldsKey
  BY DEF Consistent
<1>. QED BY <1>1, Invariance, PTL

(* lock and unlock exclude each other (ssh_agent.rs:944-1000), and a locked *)
(* agent has a passphrase that unlocks it.                                  *)
THEOREM LockConsistent == Spec => []LockAgrees
<1>1. Consistent => LockAgrees
  BY DEF Consistent
<1>. QED BY <1>1, Invariance, PTL

-----------------------------------------------------------------------------
(* A locked agent takes nobody in, and gains nothing once it has answered   *)
(* those who were in.                                                       *)

Gains == ~(keys' \subseteq keys /\ cache' \subseteq cache)

\* No handler takes a request in, or adds to the keys and approvals of a
\* locked agent, once those taken in before are answered.
LEMMA StepGainsNothing ==
    ASSUME Consistent, NEW s \in Session, SessionStep(s), locked, locked'
    PROVE  /\ Inside' \subseteq Inside
           /\ Gains => s \in Inside
<1>. pc \in [Actor -> Label] /\ req \in [Actor -> Request \cup {NoRequest}]
     /\ Session \subseteq Actor /\ Fits(s, pc[s], req[s].op)
  BY DEF Consistent, ControlOK, LabelsFit, Actor
<1>. USE DEF Inside, Gains, Fits, gate, memory, Continue, ContinueWith, Reply, NoRequest
<1>1. CASE RefuseLocked(s)
  BY <1>1 DEF RefuseLocked
<1>2. CASE KeysStart(s)
  BY <1>2 DEF KeysStart, Admitted, GateOpen
<1>3. CASE ExtensionStart(s)
  BY <1>3 DEF ExtensionStart, Admitted, GateOpen
<1>4. CASE AddStart(s)
  BY <1>4 DEF AddStart, Admitted, GateOpen
<1>5. CASE PeekKeys(s)
  BY <1>5 DEF PeekKeys, AfterEnsure
<1>6. CASE ReadIdleFlag(s)
  BY <1>6 DEF ReadIdleFlag, AfterEnsure
<1>7. CASE LoadKeys(s)
  BY <1>7 DEF LoadKeys
<1>8. CASE StoreReloaded(s)
  BY <1>8 DEF StoreReloaded, AfterEnsure
<1>9. CASE ListKeys(s)
  BY <1>9 DEF ListKeys
<1>10. CASE FindKey(s)
  BY <1>10 DEF FindKey
<1>11. CASE CheckCache(s)
  BY <1>11 DEF CheckCache
<1>12. CASE Touch(s)
  BY <1>12 DEF Touch
<1>13. CASE GrantAuth(s)
  BY <1>13 DEF GrantAuth
<1>14. CASE Answer(s)
  BY <1>14 DEF Answer
<1>15. CASE LoadEntries(s)
  BY <1>15 DEF LoadEntries
<1>16. CASE WriteKeys(s)
  BY <1>16 DEF WriteKeys, ApplyToKeys, Changed
<1>17. CASE Lock(s)
  BY <1>17 DEF Lock
<1>18. CASE LockKeys(s)
  BY <1>18 DEF LockKeys
<1>19. CASE Unlock(s)
  BY <1>19 DEF Unlock
<1>20. CASE UnlockKeys(s)
  BY <1>20 DEF UnlockKeys
<1>21. CASE TruncateFile(s)
  BY <1>21 DEF TruncateFile
<1>22. CASE WriteFile(s)
  BY <1>22 DEF WriteFile, AfterSave
<1>23. CASE SaveFails(s)
  BY <1>23 DEF SaveFails
<1>. QED
  BY <1>1, <1>2, <1>3, <1>4, <1>5, <1>6, <1>7, <1>8, <1>9, <1>10, <1>11, <1>12, <1>13, <1>14, <1>15, <1>16, <1>17, <1>18, <1>19, <1>20, <1>21, <1>22, <1>23
  DEF SessionStep, EnsureStep, ApprovalStep, FileStep, LockStep

\* Neither does anything else that happens while the agent stays locked.
LEMMA OthersGainNothing ==
    ASSUME Consistent, locked, locked',
           \/ \E c \in Command : CommandStep(c)
           \/ SweepCheck \/ SweepClear \/ Environment
           \/ UNCHANGED vars
    PROVE  Inside' \subseteq Inside /\ ~Gains
<1>. USE DEF Inside, Gains, gate, memory, control
<1>1. ASSUME NEW c \in Command, CommandStep(c) \/ CommandDies(c)
      PROVE  Inside' \subseteq Inside /\ ~Gains
  <2>1. \A s \in Session : pc'[s] = pc[s] /\ req'[s] = req[s]
    BY <1>1 DEF Consistent, ControlOK, Actor, CommandStep, FileStep, CommandStart,
         CommandLoadEntries, TruncateFile, WriteFile, SaveFails, AfterSave,
         CommandDies, Continue, ContinueWith, Reply
  <2>2. UNCHANGED <<keys, cache>>
    BY <1>1 DEF CommandStep, FileStep, CommandStart, CommandLoadEntries,
         TruncateFile, WriteFile, SaveFails, CommandDies
  <2>. QED BY <2>1, <2>2
<1>2. ASSUME NEW s \in Actor, NEW r \in Request, Receive(s, r)
      PROVE  Inside' \subseteq Inside /\ ~Gains
  <2>1. \A t \in Session :
           \/ pc'[t] = pc[t] /\ req'[t] = req[t]
           \/ pc'[t] = "start" \/ req'[t].op \in {"remove", "removeAll"}
    BY <1>2 DEF Consistent, ControlOK, Actor, Receive, FirstLabel
  <2>. QED BY <1>2, <2>1 DEF Receive
<1>3. CASE SweepCheck \/ SweepClear \/ IdleElapses \/ Lapse
  BY <1>3 DEF SweepCheck, SweepClear, IdleElapses, Lapse
<1>4. CASE Crash \/ StartAgent
  BY <1>4 DEF Crash, StartAgent, Consistent, DownIsEmpty
<1>5. CASE UNCHANGED vars
  BY <1>5 DEF vars
<1>. QED BY <1>1, <1>2, <1>3, <1>4, <1>5 DEF Environment

(* The action property the runs approvals and store check: while the agent  *)
(* is locked no request gets past the lock check (ssh_agent.rs:657, 677,    *)
(* 775, 856), and once the ones past it are answered neither the keys nor   *)
(* the cached approvals grow before an unlock.                              *)
THEOREM NothingGained == Spec => LockedAgentGainsNothing
<1>. DEFINE Kept == locked /\ locked' =>
                      /\ Inside' \subseteq Inside
                      /\ Inside = {} => keys' \subseteq keys /\ cache' \subseteq cache
<1>1. Consistent /\ [Next]_vars => [Kept]_vars
  <2>. SUFFICES ASSUME Consistent, [Next]_vars, locked, locked' PROVE Kept
    OBVIOUS
  <2>1. ASSUME NEW s \in Session, SessionStep(s) PROVE Kept
    BY <2>1, StepGainsNothing DEF Gains
  <2>2. ASSUME \/ \E c \in Command : CommandStep(c)
               \/ SweepCheck \/ SweepClear \/ Environment
               \/ UNCHANGED vars
        PROVE  Kept
    BY <2>2, OthersGainNothing DEF Gains
  <2>. QED BY <2>1, <2>2 DEF Next
<1>. QED BY <1>1, Invariance, PTL DEF Spec, LockedAgentGainsNothing

-----------------------------------------------------------------------------
(* What is acknowledged is in the file, as long as one actor writes it.     *)

\* The actors that are asked to change the file, and that there is only one.
Writes(s) == Ops[s] \cap CommandOp # {}

OneWriter == \A s, t \in Actor : Writes(s) /\ Writes(t) => s = t

\* What a request wants the file to hold.
Fulfils(r, entries) ==
    /\ r.op = "add" => r.arg \in entries
    /\ r.op = "remove" => r.arg \notin entries
    /\ r.op = "removeAll" => entries = {}

\* What an actor is about to write, or has written.
Saving(s) ==
    /\ pc[s] # "idle" /\ req[s].op \in CommandOp => Writes(s)
    /\ pc[s] \in {"idle", "start"} \/ req[s].op = "removeAll" => snap[s] = {}
    /\ pc[s] \in {"truncate", "write"} => Fulfils(req[s], snap[s])
    /\ pc[s] = "write" => file = {} /\ fileState = "empty"
    /\ pc[s] = "keysWrite" /\ (req[s].op = "add" \/ "save" \notin Faults) =>
          Fulfils(req[s], file)

AllSaving == \A s \in Actor : Saving(s)

\* An actor that moves on its own leaves what the others save alone, and
\* changes the file only as the one that writes it.
LEMMA OthersSaving ==
    ASSUME OneWriter, ControlOK, AllSaving, NEW s \in Actor,
           \A t \in Actor \ {s} : UNCHANGED <<pc[t], req[t], snap[t]>>,
           UNCHANGED disk \/ pc[s] \in {"truncate", "write"},
           Saving(s)'
    PROVE  AllSaving'
<1>. SUFFICES ASSUME NEW t \in Actor \ {s} PROVE Saving(t)'
  BY DEF AllSaving
<1>1. CASE UNCHANGED disk
  BY <1>1 DEF AllSaving, Saving, disk
<1>2. CASE pc[s] \in {"truncate", "write"}
  <2>1. Writes(s) /\ ~Writes(t)
    BY <1>2 DEF OneWriter, AllSaving, Saving, ControlOK, LabelsFit, Fits
  <2>2. pc[t] \notin {"truncate", "write", "keysWrite"}
    BY <2>1 DEF AllSaving, Saving, ControlOK, LabelsFit, Fits, CommandOp
  <2>. QED BY <2>2 DEF AllSaving, Saving
<1>. QED BY <1>1, <1>2

\* Changing the entries that were loaded does what the request wants.
LEMMA ChangedFulfils ==
    ASSUME NEW r, NEW entries, r.op # "removeAll"
    PROVE  Fulfils(r, Changed(r, entries))
  BY DEF Fulfils, Changed

\* After a reply there is nothing to save.
LEMMA ReplySaves ==
    ASSUME ControlOK, NEW s \in Actor, NEW a, Reply(s, a) PROVE Saving(s)'
  BY DEF ControlOK, Reply, Saving, NoRequest, CommandOp

\* A handler that does not save, or not yet, has nothing to say about the file.
LEMMA ContinueSaves ==
    ASSUME ControlOK, NEW s \in Actor, Saving(s), pc[s] # "idle", NEW l, Continue(s, l),
           l \notin {"start", "truncate", "write", "keysWrite"}
    PROVE  l # "idle" => Saving(s)'
  BY DEF ControlOK, Continue, Saving, CommandOp

\* The steps on the file.
LEMMA FileStepSaves ==
    ASSUME ControlOK, NEW s \in Actor, Saving(s), FileStep(s) PROVE Saving(s)'
<1>1. CASE TruncateFile(s)
  BY <1>1 DEF ControlOK, TruncateFile, Continue, Saving
<1>2. CASE WriteFile(s)
  <2>1. file' = snap[s] /\ Fulfils(req[s], snap[s])
    BY <1>2 DEF WriteFile, Saving
  <2>2. CASE s \in Session
    BY <1>2, <2>1, <2>2 DEF WriteFile, AfterSave, ControlOK, Continue, Saving, Fulfils
  <2>3. CASE s \notin Session
    BY <1>2, <2>3, ReplySaves DEF WriteFile, AfterSave
  <2>. QED BY <2>2, <2>3
<1>3. CASE SaveFails(s)
  <2>1. CASE s \in Session /\ req[s].op # "add"
    BY <1>3, <2>1 DEF SaveFails, ControlOK, Continue, Saving
  <2>2. CASE ~(s \in Session /\ req[s].op # "add")
    BY <1>3, <2>2, ReplySaves DEF SaveFails
  <2>. QED BY <2>1, <2>2
<1>. QED BY <1>1, <1>2, <1>3 DEF FileStep

\* A handler saves what it was asked for.
LEMMA SessionSaves ==
    ASSUME ControlOK, NEW s \in Session, Saving(s), SessionStep(s) PROVE Saving(s)'
<1>. /\ s \in Actor /\ Fits(s, pc[s], req[s].op)
     /\ pc \in [Actor -> Label] /\ req \in [Actor -> Request \cup {NoRequest}]
     /\ snap \in [Actor -> SUBSET Key]
  BY DEF ControlOK, LabelsFit, Actor
<1>. USE ReplySaves, ContinueSaves DEF Fits, CommandOp
<1>1. CASE RefuseLocked(s)
  BY <1>1 DEF RefuseLocked
<1>2. CASE KeysStart(s)
  BY <1>2 DEF KeysStart, Admitted
<1>3. CASE ExtensionStart(s)
  BY <1>3 DEF ExtensionStart, Admitted
<1>4. CASE AddStart(s)
  BY <1>4 DEF AddStart, Admitted
<1>5. CASE PeekKeys(s) \/ ReadIdleFlag(s)
  BY <1>5 DEF PeekKeys, ReadIdleFlag, AfterEnsure
<1>6. CASE LoadKeys(s)
  BY <1>6 DEF LoadKeys, ContinueWith, Saving
<1>7. CASE StoreReloaded(s)
  BY <1>7 DEF StoreReloaded, ContinueWith, Saving, AfterEnsure
<1>8. CASE ListKeys(s) \/ Answer(s) \/ LockKeys(s) \/ UnlockKeys(s) \/ WriteKeys(s)
  BY <1>8 DEF ListKeys, Answer, LockKeys, UnlockKeys, WriteKeys
<1>9. CASE FindKey(s)
  BY <1>9 DEF FindKey
<1>10. CASE CheckCache(s) \/ Touch(s) \/ GrantAuth(s)
  BY <1>10 DEF CheckCache, Touch, GrantAuth
<1>11. CASE LoadEntries(s)
  <2>1. CASE req[s].op = "add" /\ req[s].arg \in StoredOrNone
    <3>1. Fulfils(req[s], file)
      BY <2>1 DEF Fulfils, StoredOrNone
    <3>. QED BY <1>11, <2>1, <3>1 DEF LoadEntries, Continue, Saving, Writes, Fulfils, disk
  <2>2. CASE ~(req[s].op = "add" /\ req[s].arg \in StoredOrNone)
    BY <1>11, <2>2, ChangedFulfils DEF LoadEntries, ContinueWith, Saving
  <2>. QED BY <2>1, <2>2
<1>12. CASE FileStep(s)
  BY <1>12, FileStepSaves
<1>13. CASE Lock(s)
  BY <1>13 DEF Lock
<1>14. CASE Unlock(s)
  BY <1>14 DEF Unlock, ContinueWith, Saving
<1>. QED
  BY <1>1, <1>2, <1>3, <1>4, <1>5, <1>6, <1>7, <1>8, <1>9, <1>10, <1>11, <1>12, <1>13, <1>14
  DEF SessionStep, EnsureStep, ApprovalStep, LockStep

\* So does a command.
LEMMA CommandSaves ==
    ASSUME ControlOK, NEW c \in Command, Saving(c), CommandStep(c) \/ CommandDies(c)
    PROVE  Saving(c)'
<1>. /\ c \in Actor /\ Fits(c, pc[c], req[c].op)
     /\ pc \in [Actor -> Label] /\ req \in [Actor -> Request \cup {NoRequest}]
     /\ snap \in [Actor -> SUBSET Key]
  BY DEF ControlOK, LabelsFit, Actor
<1>. USE ReplySaves, ContinueSaves DEF Fits, CommandOp
<1>1. CASE CommandStart(c)
  <2>1. CASE req[c].op = "removeAll" /\ Continue(c, "truncate")
    BY <1>1, <2>1 DEF CommandStart, Continue, Saving, Fulfils
  <2>. QED BY <1>1, <2>1 DEF CommandStart
<1>2. CASE CommandLoadEntries(c)
  BY <1>2, ChangedFulfils DEF CommandLoadEntries, ContinueWith, Saving
<1>3. CASE FileStep(c)
  BY <1>3, FileStepSaves
<1>4. CASE CommandDies(c)
  BY <1>4 DEF CommandDies
<1>. QED BY <1>1, <1>2, <1>3, <1>4 DEF CommandStep

\* The file changes in the steps of a save only, and an actor moves alone.
LEMMA MovesAlone ==
    ASSUME ControlOK, NEW s \in Actor,
           \/ s \in Session /\ SessionStep(s)
           \/ s \in Command /\ (CommandStep(s) \/ CommandDies(s))
    PROVE  /\ \A t \in Actor \ {s} : UNCHANGED <<pc[t], req[t], snap[t]>>
           /\ UNCHANGED disk \/ pc[s] \in {"truncate", "write"}
<1>1. \/ \E l : Continue(s, l)
      \/ \E l, e : ContinueWith(s, l, e)
      \/ \E a : Reply(s, a)
  BY DEF SessionStep, CommandStep, EnsureStep, ApprovalStep, FileStep, LockStep,
         RefuseLocked, KeysStart, ExtensionStart, AddStart, PeekKeys, ReadIdleFlag,
         LoadKeys, StoreReloaded, ListKeys, FindKey, CheckCache, Touch, GrantAuth,
         Answer, LoadEntries, TruncateFile, WriteFile, SaveFails, WriteKeys, AfterSave,
         Lock, LockKeys, Unlock, UnlockKeys, CommandStart, CommandLoadEntries, CommandDies
<1>2. \A t \in Actor \ {s} : UNCHANGED <<pc[t], req[t], snap[t]>>
  BY <1>1 DEF ControlOK, Continue, ContinueWith, Reply
<1>3. UNCHANGED disk \/ pc[s] \in {"truncate", "write"}
  BY DEF SessionStep, CommandStep, EnsureStep, ApprovalStep, FileStep, LockStep,
         RefuseLocked, KeysStart, ExtensionStart, AddStart, PeekKeys, ReadIdleFlag,
         LoadKeys, StoreReloaded, ListKeys, FindKey, CheckCache, Touch, GrantAuth,
         Answer, LoadEntries, TruncateFile, WriteFile, SaveFails, WriteKeys,
         Lock, LockKeys, Unlock, UnlockKeys, CommandStart, CommandLoadEntries, CommandDies
<1>. QED BY <1>2, <1>3

\* Every step of the system keeps what is saved in line with what was asked.
LEMMA NextSaving ==
    ASSUME OneWriter, Consistent, AllSaving, [Next]_vars PROVE AllSaving'
<1>. USE DEF Consistent
<1>1. ASSUME NEW s \in Session, SessionStep(s) PROVE AllSaving'
  BY <1>1, SessionSaves, MovesAlone, OthersSaving DEF Actor, AllSaving
<1>2. ASSUME NEW c \in Command, CommandStep(c) \/ CommandDies(c) PROVE AllSaving'
  BY <1>2, CommandSaves, MovesAlone, OthersSaving DEF Actor, AllSaving
<1>3. ASSUME NEW s \in Actor, NEW r \in Request, Receive(s, r) PROVE AllSaving'
  <2>1. \A t \in Actor \ {s} : UNCHANGED <<pc[t], req[t], snap[t]>>
    BY <1>3 DEF Receive, ControlOK
  <2>2. Saving(s)'
    <3>1. /\ pc'[s] = FirstLabel(s, r.op) /\ req'[s] = r /\ snap'[s] = {}
          /\ r.op \in CommandOp => Writes(s)
      BY <1>3 DEF Receive, ControlOK, AllSaving, Saving, Writes
    <3>2. pc'[s] = "truncate" => r.op = "removeAll"
      BY <3>1 DEF FirstLabel
    <3>. QED BY <3>1, <3>2 DEF Saving, Fulfils, FirstLabel
  <2>. QED BY <1>3, <2>1, <2>2, OthersSaving DEF Receive
<1>4. CASE SweepCheck \/ SweepClear \/ IdleElapses \/ Lapse \/ StartAgent
  BY <1>4 DEF SweepCheck, SweepClear, IdleElapses, Lapse, StartAgent, AllSaving, Saving,
              control, disk
<1>5. CASE Crash
  <2>1. UNCHANGED disk
    BY <1>5 DEF Crash
  <2>2. \A s \in Session : Saving(s)'
    BY <1>5 DEF Crash, Actor, Saving, NoRequest, CommandOp
  <2>3. \A c \in Command : UNCHANGED <<pc[c], req[c], snap[c]>>
    BY <1>5 DEF Crash, Actor
  <2>. QED BY <2>1, <2>2, <2>3 DEF AllSaving, Saving, Actor, disk
<1>6. CASE UNCHANGED vars
  BY <1>6 DEF vars, AllSaving, Saving
<1>. QED BY <1>1, <1>2, <1>3, <1>4, <1>5, <1>6 DEF Next, Environment

\* Before the first request nothing is saved.
LEMMA InitSaving == ASSUME Init PROVE AllSaving
  BY DEF Init, AllSaving, Saving, NoRequest, CommandOp

(* While one actor changes ssh_keys.enc and saves succeed, what add, remove *)
(* and remove-all acknowledge is what the file holds at that moment         *)
(* (ssh_agent.rs:849-940, yk_backend.rs:510-533), whatever signs, locks,    *)
(* reloads and crashes besides.                                             *)
THEOREM StoredWhenAcknowledged ==
    ASSUME OneWriter, "save" \notin Faults
    PROVE  Spec => AcknowledgedIsStored
<1>. DEFINE Kept(s) ==
        pc[s] = "keysWrite" /\ reply'[s] = "ok" =>
            CASE req[s].op = "add" -> req[s].arg \in file
              [] req[s].op = "remove" -> req[s].arg \notin file
              [] req[s].op = "removeAll" -> file = {}
<1>1. Init => AllSaving
  BY InitSaving
<1>2. Consistent /\ AllSaving /\ [Next]_vars => AllSaving'
  BY NextSaving
<1>3. Consistent /\ AllSaving => \A s \in Session : Kept(s)
  <2>. SUFFICES ASSUME Consistent, AllSaving, NEW s \in Session, pc[s] = "keysWrite"
                PROVE  CASE req[s].op = "add" -> req[s].arg \in file
                         [] req[s].op = "remove" -> req[s].arg \notin file
                         [] req[s].op = "removeAll" -> file = {}
    OBVIOUS
  <2>1. req[s].op \in {"add", "remove", "removeAll"} /\ Fulfils(req[s], file)
    BY DEF Consistent, ControlOK, LabelsFit, Fits, AllSaving, Saving, Actor
  <2>. QED BY <2>1 DEF Fulfils
<1>4. Consistent /\ AllSaving => [\A s \in Session : Kept(s)]_vars
  BY <1>3
<1>. QED BY <1>1, <1>2, <1>4, Invariance, PTL DEF Spec, AcknowledgedIsStored
=============================================================================
