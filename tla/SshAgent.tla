------------------------------- MODULE SshAgent -------------------------------
(***************************************************************************)
(* The SSH agent of vt-yubi (src/ssh_agent.rs) and the commands            *)
(* `vt-yubi ssh add | remove | remove-all | comment` (src/ssh_cli.rs) that *)
(* share its key file ssh_keys.enc (src/yk_backend.rs).                    *)
(*                                                                         *)
(* The agent is a multi-threaded tokio program: a task per connection, the *)
(* idle sweeper and the cache sweeper share keys, locked, lock_passphrase, *)
(* idle_cleared, last_activity and auth_cache, each behind an RwLock of    *)
(* its own.  A step of the model runs from one point where a task can be   *)
(* overtaken to the next.  Read guards dropped before the next await are   *)
(* not recorded; the three that are held across a step are:                *)
(*   - locked.write(), held by lock and unlock until they reply;           *)
(*   - keys.read(), held by sign from the lookup of the key to its reply;  *)
(*   - the writers of keys, which wait for those signers.                  *)
(***************************************************************************)
EXTENDS Naturals, FiniteSets

CONSTANTS
    Session,     \* connections to the agent, one request at a time on each
    Command,     \* processes of the vt-yubi command line
    Key,         \* SSH keys, by fingerprint
    Pass,        \* lock passphrases, by their hash
    NoPass,      \* the value None of lock_passphrase
    NoArg,       \* the argument of a request that has none
    Context,     \* caller contexts: a terminal or an application
    NoContext,   \* "no context": cache mode none, or a peer without a pid
    ContextOf,   \* the context of each connection
    DecryptFp,   \* the fingerprint "decrypt@vt" under which decryption is cached
    AuthFp,      \* stands for auth@vt, which has no entry in the cache
    Ops,         \* the operations the environment asks each actor for
    Faults       \* the faults that may happen: "crash", "save"

Actor == Session \cup Command

KeyOp     == {"sign", "add", "remove", "comment"}
LockOp    == {"lock", "unlock"}
PlainOp   == {"list", "encrypt", "decrypt", "auth", "removeAll"}
CommandOp == {"add", "remove", "removeAll", "comment"}
SessionOp == (KeyOp \cup LockOp \cup PlainOp) \ {"comment"}

\* The operations that begin with `if *locked`.
GatedOp == {"list", "sign", "encrypt", "decrypt", "auth", "add"}

Request ==
    [op : KeyOp, arg : Key] \cup [op : LockOp, arg : Pass]
        \cup [op : PlainOp, arg : {NoArg}]

NoRequest == [op |-> "none", arg |-> NoArg]

ASSUME ActorsApart == Session \cap Command = {}
ASSUME SessionFinite == IsFiniteSet(Session)
ASSUME NoPassAssumption == NoPass \notin Pass
ASSUME ContextAssumption ==
    NoContext \notin Context /\ ContextOf \in [Session -> Context \cup {NoContext}]
ASSUME FpAssumption ==
    DecryptFp \notin Key /\ AuthFp \notin Key /\ DecryptFp # AuthFp
ASSUME OpsAssumption == Ops \in [Actor -> SUBSET (SessionOp \cup CommandOp)]

VARIABLES
    up,          \* the agent process is running
    locked,      \* locked
    lockPass,    \* lock_passphrase
    keys,        \* keys, the private keys in memory
    idleCleared, \* idle_cleared
    idle,        \* last_activity.elapsed() >= idle_timeout
    sweeping,    \* the idle sweeper saw idle and waits for keys.write()
    cache,       \* the entries of auth_cache that have not expired
    file,        \* the keys a reader of ssh_keys.enc would find
    fileState,   \* "whole", "empty" (truncated), "mixed" (overlapping writes)
    pc,          \* where each actor is
    req,         \* the request it works on
    snap,        \* the entries it has loaded or is about to save
    reply        \* what its last request was answered

gate    == <<locked, lockPass>>
memory  == <<keys, idleCleared, idle, cache>>
disk    == <<file, fileState>>
control == <<pc, req, snap, reply>>
vars    == <<up, locked, lockPass, keys, idleCleared, idle, sweeping, cache,
             file, fileState, pc, req, snap, reply>>

-----------------------------------------------------------------------------
(* Moving an actor on, and the locks it finds held.  The definitions whose  *)
(* comment begins with "Fault:" are mistakes the code could have made; no   *)
(* action uses them, and each property is shown to notice one of them.      *)

Continue(s, label) ==
    /\ pc' = [pc EXCEPT ![s] = label]
    /\ UNCHANGED <<req, snap, reply>>

ContinueWith(s, label, entries) ==
    /\ pc' = [pc EXCEPT ![s] = label]
    /\ snap' = [snap EXCEPT ![s] = entries]
    /\ UNCHANGED <<req, reply>>

Reply(s, answer) ==
    /\ pc' = [pc EXCEPT ![s] = "idle"]
    /\ req' = [req EXCEPT ![s] = NoRequest]
    /\ snap' = [snap EXCEPT ![s] = {}]
    /\ reply' = [reply EXCEPT ![s] = answer]

\* Fault: unlock lets go of locked.write() before it has stored the keys.
LockFreeButForUnlock == \A s \in Session : pc[s] # "lockKeys"

\* locked.read() succeeds: neither lock nor unlock holds locked.write().
LockFree == \A s \in Session : pc[s] \notin {"lockKeys", "unlockKeys"}

\* Fault: ensure_keys_loaded without its drop(keys).
KeysReadersFromPeek ==
    {s \in Session :
        \/ pc[s] \in {"flag", "load", "reload"}
        \/ /\ req[s].op = "sign"
           /\ pc[s] \in {"cache", "touch", "grant", "answer"}}

\* The signers that hold keys.read() while they wait for their approval.
KeysReaders ==
    {s \in Session : req[s].op = "sign"
                       /\ pc[s] \in {"cache", "touch", "grant", "answer"}}

\* Fault: sign drops keys.read() when it asks for the touch.
KeysFreeFromTouch == \A s \in KeysReaders : pc[s] # "cache"

\* keys.write() succeeds.
KeysFree == KeysReaders = {}

Readable == fileState = "whole"

\* load_ssh_keys(&cipher).unwrap_or_default() of the agent's handlers.
StoredOrNone == IF Readable THEN file ELSE {}

-----------------------------------------------------------------------------
Init ==
    /\ up = TRUE
    /\ locked = FALSE
    /\ lockPass = NoPass
    /\ file \in SUBSET Key
    /\ fileState = "whole"
    /\ keys = file
    /\ idleCleared = FALSE
    /\ idle = FALSE
    /\ sweeping = FALSE
    /\ cache = {}
    /\ pc = [s \in Actor |-> "idle"]
    /\ req = [s \in Actor |-> NoRequest]
    /\ snap = [s \in Actor |-> {}]
    /\ reply = [s \in Actor |-> "none"]

(* remove_identity and remove_all_identities do not look at `locked`: they  *)
(* start on the file at once.                                               *)
FirstLabel(s, op) ==
    IF s \in Command \/ op \notin {"remove", "removeAll"} THEN "start"
    ELSE IF op = "remove" THEN "fileLoad" ELSE "truncate"

Receive(s, r) ==
    /\ pc[s] = "idle"
    /\ s \in Session => up
    /\ r.op \in Ops[s] \cap (IF s \in Session THEN SessionOp ELSE CommandOp)
    /\ pc' = [pc EXCEPT ![s] = FirstLabel(s, r.op)]
    /\ req' = [req EXCEPT ![s] = r]
    /\ reply' = [reply EXCEPT ![s] = "none"]
    /\ UNCHANGED <<up, gate, memory, sweeping, disk, snap>>

-----------------------------------------------------------------------------
(* The lock check that the handlers of GatedOp begin with.                  *)

\* Fault: no lock check.
GateForgotten == TRUE

GateOpen == ~locked

Admitted(s, ops) ==
    /\ pc[s] = "start"
    /\ req[s].op \in ops
    /\ LockFree
    /\ GateOpen

\* A locked agent lists no keys and fails the rest.
RefuseLocked(s) ==
    /\ pc[s] = "start"
    /\ req[s].op \in GatedOp
    /\ LockFree
    /\ ~GateOpen
    /\ Reply(s, IF req[s].op = "list" THEN "ok" ELSE "fail")
    /\ UNCHANGED <<up, gate, memory, sweeping, disk>>

\* request_identities and sign, past the check.
KeysStart(s) ==
    /\ s \in Session
    /\ Admitted(s, {"list", "sign"})
    /\ Continue(s, "peek")
    /\ UNCHANGED <<up, gate, memory, sweeping, disk>>

(* extension, past the check: activity is noted before the body is          *)
(* decrypted, and a body that does not decrypt or parse is an error.        *)
ExtensionStart(s) ==
    /\ s \in Session
    /\ Admitted(s, {"encrypt", "decrypt", "auth"})
    /\ idle' = FALSE
    /\ \/ Reply(s, "fail")
       \/ req[s].op = "encrypt" /\ Reply(s, "ok")
       \/ req[s].op = "auth" /\ Continue(s, "touch")
       \/ /\ req[s].op = "decrypt"
          /\ Continue(s, IF ContextOf[s] = NoContext THEN "touch" ELSE "cache")
    /\ UNCHANGED <<up, gate, keys, idleCleared, cache, sweeping, disk>>

\* Fault: add_identity does not look at `locked`.
AddStartUnchecked(s) ==
    /\ s \in Session
    /\ pc[s] = "start" /\ req[s].op = "add"
    /\ Reply(s, "fail") \/ Continue(s, "fileLoad")
    /\ UNCHANGED <<up, gate, memory, sweeping, disk>>

\* add_identity, past the check: only ECDSA P-256 and P-384 keys go on.
AddStart(s) ==
    /\ s \in Session
    /\ Admitted(s, {"add"})
    /\ Reply(s, "fail") \/ Continue(s, "fileLoad")
    /\ UNCHANGED <<up, gate, memory, sweeping, disk>>

-----------------------------------------------------------------------------
(* ensure_keys_loaded.  No guard is held from one step to the next, and     *)
(* what the file held when it was loaded replaces the keys only later.      *)

AfterEnsure(s) == IF req[s].op = "sign" THEN "find" ELSE "list"

PeekKeys(s) ==
    /\ pc[s] = "peek"
    /\ Continue(s, IF keys # {} THEN AfterEnsure(s) ELSE "flag")
    /\ UNCHANGED <<up, gate, memory, sweeping, disk>>

ReadIdleFlag(s) ==
    /\ pc[s] = "flag"
    /\ Continue(s, IF idleCleared THEN "load" ELSE AfterEnsure(s))
    /\ UNCHANGED <<up, gate, memory, sweeping, disk>>

LoadKeys(s) ==
    /\ pc[s] = "load"
    /\ IF Readable THEN ContinueWith(s, "reload", file) ELSE Reply(s, "fail")
    /\ UNCHANGED <<up, gate, memory, sweeping, disk>>

StoreReloaded(s) ==
    /\ pc[s] = "reload"
    /\ KeysFree
    /\ keys' = snap[s]
    /\ idleCleared' = FALSE
    /\ ContinueWith(s, AfterEnsure(s), {})
    /\ UNCHANGED <<up, gate, idle, cache, sweeping, disk>>

-----------------------------------------------------------------------------
(* The rest of request_identities and sign, and check_or_prompt_auth.       *)

ListKeys(s) ==
    /\ pc[s] = "list"
    /\ Reply(s, "ok")
    /\ UNCHANGED <<up, gate, memory, sweeping, disk>>

\* touch_activity, keys.read(), and the lookup of the requested key.
FindKey(s) ==
    /\ pc[s] = "find"
    /\ idle' = FALSE
    /\ IF req[s].arg \in keys
         THEN Continue(s, IF ContextOf[s] = NoContext THEN "touch" ELSE "cache")
         ELSE Reply(s, "fail")
    /\ UNCHANGED <<up, gate, keys, idleCleared, cache, sweeping, disk>>

\* What the approval of a request is about.
SubjectOf(r) ==
    IF r.op = "sign" THEN r.arg ELSE IF r.op = "decrypt" THEN DecryptFp ELSE AuthFp

CacheKey(s) == <<ContextOf[s], SubjectOf(req[s])>>

\* Fault: an entry for the key counts for every caller.
AuthorizedForAnyone(s) == \E e \in cache : e[2] = CacheKey(s)[2]

Authorized(s) == CacheKey(s) \in cache

CheckCache(s) ==
    /\ pc[s] = "cache"
    /\ Continue(s, IF Authorized(s) THEN "answer" ELSE "touch")
    /\ UNCHANGED <<up, gate, memory, sweeping, disk>>

\* Fault: a connection without a context is cached like the others.
RemembersUnknown(s) == req[s].op # "auth"

\* auth@vt, and every request without a context, goes uncached.
Remembers(s) == ContextOf[s] # NoContext /\ req[s].op # "auth"

\* verify_yubikey_presence: the touch is given, or refused, or times out.
Touch(s) ==
    /\ pc[s] = "touch"
    /\ \/ Reply(s, "fail")
       \/ Continue(s, IF Remembers(s) THEN "grant" ELSE "answer")
    /\ UNCHANGED <<up, gate, memory, sweeping, disk>>

GrantAuth(s) ==
    /\ pc[s] = "grant"
    /\ cache' = cache \cup {CacheKey(s)}
    /\ Continue(s, "answer")
    /\ UNCHANGED <<up, gate, keys, idleCleared, idle, sweeping, disk>>

\* What was approved is done; a key of another type, or a cipher, may fail.
Answer(s) ==
    /\ pc[s] = "answer"
    /\ \E answer \in {"ok", "fail"} : Reply(s, answer)
    /\ UNCHANGED <<up, gate, memory, sweeping, disk>>

-----------------------------------------------------------------------------
(* The key file: load, change, save.  std::fs::write truncates the file and *)
(* then writes it, and nothing excludes another task or process meanwhile.  *)

\* A command opens the YubiKey first; the touch may be refused.
CommandStart(c) ==
    /\ c \in Command
    /\ pc[c] = "start"
    /\ \/ Reply(c, "fail")
       \/ req[c].op = "removeAll" /\ Continue(c, "truncate")
       \/ req[c].op # "removeAll" /\ Continue(c, "fileLoad")
    /\ UNCHANGED <<up, gate, memory, sweeping, disk>>

\* Fault: remove does not retain().
ChangedByAddOnly(r, entries) ==
    IF r.op = "add" THEN entries \cup {r.arg} ELSE entries

Changed(r, entries) ==
    IF r.op = "add" THEN entries \cup {r.arg}
    ELSE IF r.op = "remove" THEN entries \ {r.arg}
    ELSE entries

\* add_identity and remove_identity take an unreadable file for an empty one.
LoadEntries(s) ==
    /\ s \in Session
    /\ pc[s] = "fileLoad"
    /\ IF req[s].op = "add" /\ req[s].arg \in StoredOrNone
         THEN Continue(s, "keysWrite")
         ELSE ContinueWith(s, "truncate", Changed(req[s], StoredOrNone))
    /\ UNCHANGED <<up, gate, memory, sweeping, disk>>

(* A command gives up on an unreadable file; remove and comment give up     *)
(* unless exactly one entry matches the fingerprint they were given.        *)
CommandLoadEntries(c) ==
    /\ c \in Command
    /\ pc[c] = "fileLoad"
    /\ \/ ~Readable /\ Reply(c, "fail")
       \/ req[c].op \in {"remove", "comment"} /\ Reply(c, "fail")
       \/ Readable /\ req[c].op = "add" /\ req[c].arg \in file /\ Reply(c, "ok")
       \/ /\ Readable
          /\ (req[c].op = "add") # (req[c].arg \in file)
          /\ ContinueWith(c, "truncate", Changed(req[c], file))
    /\ UNCHANGED <<up, gate, memory, sweeping, disk>>

TruncateFile(s) ==
    /\ pc[s] = "truncate"
    /\ file' = {}
    /\ fileState' = "empty"
    /\ Continue(s, "write")
    /\ UNCHANGED <<up, gate, memory, sweeping>>

AfterSave(s) == IF s \in Session THEN Continue(s, "keysWrite") ELSE Reply(s, "ok")

(* A write that finds the file written since it truncated it may leave the  *)
(* tail of the longer of the two, which does not decrypt.                   *)
WriteFile(s) ==
    /\ pc[s] = "write"
    /\ \/ file' = snap[s] /\ fileState' = "whole"
       \/ /\ fileState # "empty"
          /\ fileState = "mixed" \/ file # snap[s]
          /\ file' = {} /\ fileState' = "mixed"
    /\ AfterSave(s)
    /\ UNCHANGED <<up, gate, memory, sweeping>>

(* A save that fails when the file is opened, or after it was truncated:    *)
(* an error for add, nothing for the agent's removals.                      *)
SaveFails(s) ==
    /\ "save" \in Faults
    /\ pc[s] \in {"truncate", "write"}
    /\ IF s \in Session /\ req[s].op # "add"
         THEN Continue(s, "keysWrite")
         ELSE Reply(s, "fail")
    /\ UNCHANGED <<up, gate, memory, sweeping, disk>>

\* keys.insert, keys.remove or keys.clear at the end of the agent's handlers.
ApplyToKeys(r, held) == IF r.op = "removeAll" THEN {} ELSE Changed(r, held)

WriteKeys(s) ==
    /\ pc[s] = "keysWrite"
    /\ KeysFree
    /\ keys' = ApplyToKeys(req[s], keys)
    /\ idle' = IF req[s].op = "add" THEN FALSE ELSE idle
    /\ Reply(s, "ok")
    /\ UNCHANGED <<up, gate, idleCleared, cache, sweeping, disk>>

-----------------------------------------------------------------------------
(* lock and unlock hold locked.write() from their first step to the reply.  *)

Lock(s) ==
    /\ pc[s] = "start"
    /\ req[s].op = "lock"
    /\ LockFree
    /\ IF locked
         THEN Reply(s, "fail") /\ UNCHANGED gate
         ELSE /\ locked' = TRUE
              /\ lockPass' = req[s].arg
              /\ Continue(s, "lockKeys")
    /\ UNCHANGED <<up, memory, sweeping, disk>>

\* keys.clear() and cache.clear(): idle_cleared stays as it is.
LockKeys(s) ==
    /\ pc[s] = "lockKeys"
    /\ KeysFree
    /\ keys' = {}
    /\ cache' = {}
    /\ Reply(s, "ok")
    /\ UNCHANGED <<up, gate, idleCleared, idle, sweeping, disk>>

PassMatches(s) == lockPass = req[s].arg

(* The file is loaded as soon as the passphrase matched; if it cannot be,   *)
(* unlock succeeds without any key.                                         *)
Unlock(s) ==
    /\ pc[s] = "start"
    /\ req[s].op = "unlock"
    /\ LockFree
    /\ IF ~locked \/ ~PassMatches(s)
         THEN Reply(s, "fail") /\ UNCHANGED gate
         ELSE /\ locked' = FALSE
              /\ lockPass' = NoPass
              /\ IF Readable THEN ContinueWith(s, "unlockKeys", file)
                             ELSE Reply(s, "ok")
    /\ UNCHANGED <<up, memory, sweeping, disk>>

UnlockKeys(s) ==
    /\ pc[s] = "unlockKeys"
    /\ KeysFree
    /\ keys' = snap[s]
    /\ Reply(s, "ok")
    /\ UNCHANGED <<up, gate, idleCleared, idle, cache, sweeping, disk>>

-----------------------------------------------------------------------------
(* The clock, the sweepers, and the end and the start of the processes.     *)

IdleElapses ==
    /\ up /\ ~idle
    /\ idle' = TRUE
    /\ UNCHANGED <<up, gate, keys, idleCleared, cache, sweeping, disk, control>>

\* An entry of the cache expires; when the sweeper drops it is immaterial.
Lapse ==
    /\ \E e \in cache : cache' = cache \ {e}
    /\ UNCHANGED <<up, gate, keys, idleCleared, idle, sweeping, disk, control>>

SweepCheck ==
    /\ up /\ ~sweeping /\ idle
    /\ sweeping' = TRUE
    /\ UNCHANGED <<up, gate, memory, disk, control>>

\* Fault: the sweeper looks at idle_cleared instead of keys.is_empty().
SweepClearOnce ==
    /\ sweeping /\ KeysFree
    /\ sweeping' = FALSE
    /\ keys' = (IF idleCleared THEN keys ELSE {})
    /\ idleCleared' = TRUE
    /\ UNCHANGED <<up, gate, idle, cache, disk, control>>

SweepClear ==
    /\ sweeping /\ KeysFree
    /\ sweeping' = FALSE
    /\ keys' = {}
    /\ idleCleared' = (idleCleared \/ keys # {})
    /\ UNCHANGED <<up, gate, idle, cache, disk, control>>

\* The agent is killed: its memory, its connections and its tasks are gone.
Crash ==
    /\ "crash" \in Faults /\ up
    /\ up' = FALSE
    /\ locked' = FALSE /\ lockPass' = NoPass
    /\ keys' = {} /\ idleCleared' = FALSE /\ idle' = FALSE
    /\ sweeping' = FALSE /\ cache' = {}
    /\ pc' = [s \in Actor |-> IF s \in Session THEN "idle" ELSE pc[s]]
    /\ req' = [s \in Actor |-> IF s \in Session THEN NoRequest ELSE req[s]]
    /\ snap' = [s \in Actor |-> IF s \in Session THEN {} ELSE snap[s]]
    /\ reply' = [s \in Actor |-> IF s \in Session THEN "none" ELSE reply[s]]
    /\ UNCHANGED disk

\* run_ssh_agent: no agent starts on a file it cannot load.
StartAgent ==
    /\ ~up /\ Readable
    /\ up' = TRUE
    /\ keys' = file
    /\ UNCHANGED <<gate, idleCleared, idle, cache, sweeping, disk, control>>

CommandDies(c) ==
    /\ "crash" \in Faults
    /\ c \in Command
    /\ pc[c] # "idle"
    /\ Reply(c, "none")
    /\ UNCHANGED <<up, gate, memory, sweeping, disk>>

-----------------------------------------------------------------------------
EnsureStep(s) ==
    PeekKeys(s) \/ ReadIdleFlag(s) \/ LoadKeys(s) \/ StoreReloaded(s)

ApprovalStep(s) == CheckCache(s) \/ Touch(s) \/ GrantAuth(s) \/ Answer(s)

FileStep(s) == TruncateFile(s) \/ WriteFile(s) \/ SaveFails(s)

LockStep(s) == Lock(s) \/ LockKeys(s) \/ Unlock(s) \/ UnlockKeys(s)

SessionStep(s) ==
    \/ RefuseLocked(s) \/ KeysStart(s) \/ ExtensionStart(s) \/ AddStart(s)
    \/ EnsureStep(s) \/ ListKeys(s) \/ FindKey(s)
    \/ ApprovalStep(s)
    \/ LoadEntries(s) \/ FileStep(s) \/ WriteKeys(s)
    \/ LockStep(s)

CommandStep(c) == CommandStart(c) \/ CommandLoadEntries(c) \/ FileStep(c)

Environment ==
    \/ \E s \in Actor, r \in Request : Receive(s, r)
    \/ \E c \in Command : CommandDies(c)
    \/ IdleElapses \/ Lapse \/ Crash \/ StartAgent

Next ==
    \/ \E s \in Session : SessionStep(s)
    \/ \E c \in Command : CommandStep(c)
    \/ SweepCheck \/ SweepClear
    \/ Environment

Spec == Init /\ [][Next]_vars

(* tokio's RwLock is fair (first come, first served) and its scheduler runs *)
(* every ready task, so a task that waits for a lock gets it although       *)
(* others come and go: strong fairness.  A touch always ends, at the latest *)
(* with the timeout of the YubiKey.  Nothing obliges a client to ask.       *)
Fairness ==
    /\ \A s \in Session : SF_vars(SessionStep(s))
    /\ WF_vars(SweepCheck) /\ SF_vars(SweepClear)

FairSpec == Spec /\ Fairness

-----------------------------------------------------------------------------
(* Properties.                                                              *)

Label == {"idle", "start", "peek", "flag", "load", "reload", "find", "list",
          "cache", "touch", "grant", "answer", "fileLoad", "truncate", "write",
          "keysWrite", "lockKeys", "unlockKeys"}

\* Every variable keeps to the values its field or file can hold.
TypeOK ==
    /\ up \in BOOLEAN /\ locked \in BOOLEAN /\ lockPass \in Pass \cup {NoPass}
    /\ keys \subseteq Key /\ idleCleared \in BOOLEAN /\ idle \in BOOLEAN
    /\ sweeping \in BOOLEAN
    /\ cache \subseteq Context \X (Key \cup {DecryptFp})
    /\ file \subseteq Key /\ fileState \in {"whole", "empty", "mixed"}
    /\ pc \in [Actor -> Label]
    /\ req \in [Actor -> Request \cup {NoRequest}]
    /\ snap \in [Actor -> SUBSET Key]
    /\ reply \in [Actor -> {"none", "ok", "fail"}]

(* The key a request is signed with is still in memory while the signer     *)
(* waits for the cache, the touch and the signature: sign (ssh_agent.rs:    *)
(* 688-733) keeps keys.read() all that time, so lock, unlock, the removals, *)
(* a reload and the idle sweeper must all wait for it.                      *)
SignerHoldsKey ==
    \A s \in KeysReaders : req[s].arg \in keys

(* An agent is locked exactly while it keeps a passphrase to unlock it      *)
(* with, and at most one request is between the two halves of lock and      *)
(* unlock, on the side that matches: otherwise an agent nobody can unlock,  *)
(* or the keys of a locked agent loaded by a late unlock.                   *)
LockAgrees ==
    /\ locked = (lockPass # NoPass)
    /\ \A s \in Session :
          /\ pc[s] = "lockKeys" => locked
          /\ pc[s] = "unlockKeys" => ~locked
    /\ \A s, t \in Session :
          {pc[s], pc[t]} \subseteq {"lockKeys", "unlockKeys"} => s = t

\* The requests that passed the lock check, or that are unlocking.
Inside ==
    {s \in Session : /\ pc[s] \notin {"idle", "start", "lockKeys"}
                     /\ req[s].op \notin {"remove", "removeAll"}}

(* A locked agent takes in no request that looks at keys or secrets, and    *)
(* once those taken in before the lock are answered neither its keys nor    *)
(* its cached approvals can grow until it is unlocked, whatever clients,    *)
(* the sweepers and the commands do.                                        *)
LockedAgentGainsNothing ==
    [][locked /\ locked' =>
          /\ Inside' \subseteq Inside
          /\ Inside = {} => keys' \subseteq keys /\ cache' \subseteq cache]_vars

Approving(s) ==
    req[s].op \in {"sign", "decrypt", "auth"} /\ pc[s] \notin {"idle", "start"}

StageOf(s) ==
    IF ~Approving(s) THEN "out"
    ELSE IF pc[s] = "grant" THEN "touched"
    ELSE IF pc[s] = "answer" THEN "approved"
    ELSE "pending"

Wanted(s) == IF Approving(s) THEN SubjectOf(req[s]) ELSE NoArg

Gate == INSTANCE TouchGate WITH
    Subject <- Key \cup {DecryptFp, AuthFp},
    NoSubject <- NoArg,
    Unremembered <- {AuthFp},
    stage <- [s \in Session |-> StageOf(s)],
    subject <- [s \in Session |-> Wanted(s)],
    grants <- cache,
    open <- ~locked

(* Every signature, decryption and sudo approval is preceded by a touch     *)
(* for that request or covered by a live grant of the same caller for the   *)
(* same key, auth@vt never by a grant, and none of them starts in a locked  *)
(* agent: check_or_prompt_auth and its callers implement TouchGate.         *)
ImplementsTouchGate == Gate!Spec

(* A request that reached the agent is answered: no order in which the      *)
(* handlers take locked, keys and the rest leaves two of them, or a handler *)
(* and the idle sweeper, waiting for each other.                            *)
EveryRequestAnswered == \A s \in Session : pc[s] # "idle" ~> pc[s] = "idle"

(* Keys do not outlive the idle timeout: when last_activity is old enough   *)
(* the sweeper clears them, unless the agent is used before it gets there.  *)
IdleKeysCleared == (idle /\ keys # {}) ~> (~idle \/ keys = {})

(* What add, remove and remove-all acknowledge is what the file holds: when *)
(* the handler replies, an added key is in ssh_keys.enc and a removed one   *)
(* is not, so that no restart, unlock or reload undoes it.                  *)
AcknowledgedIsStored ==
    [][\A s \in Session :
          pc[s] = "keysWrite" /\ reply'[s] = "ok" =>
              CASE req[s].op = "add" -> req[s].arg \in file
                [] req[s].op = "remove" -> req[s].arg \notin file
                [] req[s].op = "removeAll" -> file = {}]_vars

(* "Caches are cleared when the agent is locked" (README.md:209): once      *)
(* lock has replied there is no approval left in the cache.                 *)
LockedCacheEmpty == locked /\ LockFree => cache = {}
=============================================================================
