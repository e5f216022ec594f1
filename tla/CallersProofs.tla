---------------------------- MODULE CallersProofs ----------------------------
(***************************************************************************)
(* Theorems about the approval cache and its callers, for all durations,   *)
(* slots, process tables, numbers of connections and bounds: an approval   *)
(* lasts for its window and no longer, and is shared within a context; the *)
(* cache under the callers is the cache of AuthCache, so that its windows  *)
(* are what they see.                                                      *)
(*                                                                         *)
(* The inductive invariant is Rooted: the walk of find_app_pid never       *)
(* leaves the line of its peer (the process itself and all it descends     *)
(* from), since an exit can only replace a parent by init, which is in     *)
(* every line.                                                             *)
(***************************************************************************)
EXTENDS Callers, TLAPS

USE DurationAssumption, AbsentAssumption, PidAssumption, TtyAssumption, SlotAssumption,
    WorldsAssumption

-----------------------------------------------------------------------------
(* The cache alone.  Its inductive invariant is TypeOK: an entry is an      *)
(* instant, so that Left is a number that one tick shrinks by one.          *)

\* The durations, chosen as grant chooses them, are times.
LEMMA TtlType == \A k \in Slot : Ttl(k) \in Nat
  BY DEF Ttl

(* The entries of the cache are instants or absent, and the clock is an     *)
(* instant: AuthCache, ssh_agent.rs:111-152.                                *)
THEOREM Typing == Spec => []TypeOK
<1>1. Init => TypeOK
  BY DEF Init, TypeOK
<1>2. TypeOK /\ [Next]_vars => TypeOK'
  <2>. SUFFICES ASSUME TypeOK, [Next]_vars PROVE TypeOK'
    OBVIOUS
  <2>1. ASSUME NEW k \in Slot, Grant(k) PROVE TypeOK'
    BY <2>1, TtlType DEF TypeOK, Grant
  <2>2. CASE Clear
    BY <2>2 DEF TypeOK, Clear
  <2>3. CASE SweepExpired
    BY <2>3 DEF TypeOK, SweepExpired
  <2>4. CASE Tick
    BY <2>4 DEF TypeOK, Tick
  <2>5. CASE UNCHANGED vars
    BY <2>5 DEF TypeOK, vars
  <2>. QED BY <2>1, <2>2, <2>3, <2>4, <2>5 DEF Next
<1>. QED BY <1>1, <1>2, PTL DEF Spec

-----------------------------------------------------------------------------
(* What the callers see is whether time is left: is_authorized              *)
(* (ssh_agent.rs:126-132) answers yes exactly while its entry's window is   *)
(* open, swept or not.                                                      *)
LEMMA AuthorizedWhileLeft ==
    ASSUME TypeOK, NEW k \in Slot
    PROVE  /\ Left(k) \in Nat
           /\ IsAuthorized(k) = (Left(k) > 0)
  BY DEF TypeOK, Left, IsAuthorized, Live

\* In the next state as well, is_authorized shows whether time is left.
LEMMA ShowsLeftNext ==
    ASSUME TypeOK' PROVE Windows!Show
<1>1. ASSUME NEW k \in Slot PROVE IsAuthorized(k)' = (Left(k)' > 0)
  BY <1>1 DEF TypeOK, Left, IsAuthorized, Live
<1>. QED BY <1>1 DEF Windows!Show

\* Each operation of the cache is an operation on the windows, or shows nowhere.
LEMMA GrantOpens ==
    ASSUME TypeOK, TypeOK', NEW k \in Slot, Grant(k) PROVE Windows!Open(k)
<1>1. Left(k)' = Ttl(k)
  BY TtlType DEF TypeOK, Grant, Left
<1>2. ASSUME NEW j \in Slot, j # k PROVE Left(j)' = Left(j)
  BY <1>2 DEF TypeOK, Grant, Left
<1>3. [j \in Slot |-> Left(j)]'
        = [[j \in Slot |-> Left(j)] EXCEPT ![k] = [j \in Slot |-> Ttl(j)][k]]
  BY <1>1, <1>2, Zenon
<1>. QED BY <1>3, ShowsLeftNext DEF Windows!Open

\* clear (ssh_agent.rs:144-146) closes every window.
LEMMA ClearRevokes ==
    ASSUME TypeOK, TypeOK', Clear PROVE Windows!Revoke
<1>1. ASSUME NEW j \in Slot PROVE Left(j)' = 0
  BY <1>1 DEF Clear, Left
<1>. QED BY <1>1, ShowsLeftNext DEF Windows!Revoke

\* sweep_expired (ssh_agent.rs:148-151) drops only what has expired.
LEMMA SweepShowsNowhere ==
    ASSUME TypeOK, TypeOK', SweepExpired PROVE UNCHANGED Windows!vars
<1>1. ASSUME NEW j \in Slot
      PROVE Left(j)' = Left(j) /\ IsAuthorized(j)' = IsAuthorized(j)
  BY <1>1 DEF TypeOK, SweepExpired, Left, IsAuthorized, Live
<1>. QED BY <1>1 DEF Windows!vars

\* A tick of the clock shortens every window by one.
LEMMA TickPasses ==
    ASSUME TypeOK, TypeOK', Tick PROVE Windows!Pass
<1>1. ASSUME NEW j \in Slot PROVE Left(j)' = Windows!Shrink(Left(j))
  BY <1>1 DEF TypeOK, Tick, Left, Windows!Shrink
<1>2. [j \in Slot |-> Left(j)]'
        = [j \in Slot |-> Windows!Shrink([i \in Slot |-> Left(i)][j])]
  BY <1>1, Zenon
<1>. QED BY <1>2, ShowsLeftNext DEF Windows!Pass

-----------------------------------------------------------------------------
(* The property the run callers checks on small sets: what is_authorized    *)
(* says over time is a window of the configured duration, opened by grant   *)
(* only, closed by clear and by the clock.                                  *)
THEOREM Implementation == Spec => ImplementsTouchWindow
<1>1. Init => Windows!Init
  <2>. SUFFICES ASSUME Init PROVE Windows!Init
    OBVIOUS
  <2>1. ASSUME NEW k \in Slot PROVE Left(k) = 0 /\ IsAuthorized(k) = FALSE
    BY <2>1 DEF Init, Left, IsAuthorized, Live
  <2>. QED BY <2>1, Zenon DEF Windows!Init
<1>2. TypeOK /\ TypeOK' /\ [Next]_vars => [Windows!Next]_(Windows!vars)
  <2>. SUFFICES ASSUME TypeOK, TypeOK', [Next]_vars
                PROVE  [Windows!Next]_(Windows!vars)
    OBVIOUS
  <2>1. ASSUME NEW k \in Slot, Grant(k) PROVE Windows!Next
    BY <2>1, GrantOpens DEF Windows!Next
  <2>2. CASE Clear
    BY <2>2, ClearRevokes DEF Windows!Next
  <2>3. CASE SweepExpired
    BY <2>3, SweepShowsNowhere
  <2>4. CASE Tick
    BY <2>4, TickPasses DEF Windows!Next
  <2>5. CASE UNCHANGED vars
    <3>1. ASSUME NEW j \in Slot
          PROVE Left(j)' = Left(j) /\ IsAuthorized(j)' = IsAuthorized(j)
      BY <2>5, <3>1 DEF vars, Left, IsAuthorized, Live
    <3>. QED BY <3>1 DEF Windows!vars
  <2>. QED BY <2>1, <2>2, <2>3, <2>4, <2>5 DEF Next
<1>. QED BY <1>1, <1>2, Typing, PTL DEF Spec, ImplementsTouchWindow, Windows!Spec

-----------------------------------------------------------------------------
(* The callers above it.                                                    *)

Label == {"open", "tty", "path", "parent", "fallback", "cache", "touch", "grant"}

\* The process table keeps to the lines it was born with.
TableOK ==
    /\ mode \in {"per-session", "per-app"}
    /\ alive \subseteq Pid
    /\ line \in [Pid -> SUBSET Pid]
    /\ ppid \in [Pid -> Pid \cup {0}] /\ ppid[1] = 0
    /\ tty \in [Pid -> Tty \cup {0}]
    /\ asked \subseteq Fingerprint
    /\ \A p \in Pid :
          /\ 1 \in line[p] /\ p \in line[p]
          /\ p # 1 => ppid[p] \in line[p]
          /\ \A q \in line[p] : line[q] \subseteq line[p]

HandlersOK ==
    /\ peer \in [Session -> (Pid \ {1}) \cup {0}]
    /\ pc \in [Session -> Label]
    /\ fp \in [Session -> Fingerprint \cup {NoFp}]
    /\ current \in [Session -> Pid \cup {0}]
    /\ context \in [Session -> Context]
    /\ toucher \in [Slot -> Pid \cup {0}]

\* A context is one that the peer belongs to, or one that everybody shares.
Proper(p, c) == c = CatchAll \/ Belongs(p, c)

\* What the handler of a peer has found so far.
HandlerRooted(s) ==
    /\ pc[s] # "open" => fp[s] \in Fingerprint
    /\ pc[s] \notin {"open", "touch"} => peer[s] # 0
    /\ pc[s] = "tty" => mode = "per-session"
    /\ pc[s] \in {"path", "parent", "fallback"} => mode = "per-app"
    /\ pc[s] \in {"path", "parent"} => current[s] \in line[peer[s]]
    /\ pc[s] \in {"cache", "touch", "grant"} /\ peer[s] # 0 => Proper(peer[s], context[s])

\* Who touched for an entry belongs to its context.
EntryRooted(k) ==
    entries[k] # Absent => toucher[k] # 0 /\ Proper(toucher[k], k[1])

Rooted ==
    /\ TableOK /\ HandlersOK
    /\ \A s \in Session : HandlerRooted(s)
    /\ \A k \in Slot : EntryRooted(k)

-----------------------------------------------------------------------------
\* A slot that is looked up or granted is a slot of the cache.
LEMMA SlotOfType ==
    ASSUME Rooted, NEW s \in Session, pc[s] # "open"
    PROVE  SlotOf(s) \in Slot
  BY DEF Rooted, HandlersOK, HandlerRooted, SlotOf

\* It starts rooted.
LEMMA RootedInit == ASSUME CallersInit PROVE Rooted
<1>1. TableOK
  BY DEF CallersInit, TableOK, World, ProcessTree
<1>2. HandlersOK
  BY DEF CallersInit, HandlersOK, Label, Context
<1>3. \A s \in Session : HandlerRooted(s)
  BY DEF CallersInit, HandlerRooted
<1>4. \A k \in Slot : EntryRooted(k)
  BY DEF CallersInit, Init, EntryRooted
<1>. QED BY <1>1, <1>2, <1>3, <1>4 DEF Rooted

\* What belongs to a context belongs to it while tty and line stay.
LEMMA ProperKept ==
    ASSUME UNCHANGED <<mode, tty, line>>, NEW p, NEW c, Proper(p, c)
    PROVE  Proper(p, c)'
  BY DEF Proper, Belongs, CatchAll

\* The entries of the cache stay rooted when neither they nor who touched changes.
LEMMA EntriesKept ==
    ASSUME Rooted, UNCHANGED <<entries, toucher, mode, tty, line>>
    PROVE  \A k \in Slot : EntryRooted(k)'
<1>. SUFFICES ASSUME NEW k \in Slot PROVE EntryRooted(k)'
  OBVIOUS
<1>1. EntryRooted(k)
  BY DEF Rooted
<1>2. Proper(toucher[k], k[1]) => Proper(toucher[k], k[1])'
  BY ProperKept
<1>. QED BY <1>1, <1>2 DEF EntryRooted, Proper, Belongs, CatchAll

(* An exit removes a process and hands its children to init; no line        *)
(* changes, and init is in all of them.                                     *)
LEMMA ExitKeeps == ASSUME Rooted, NEW p \in Pid, Exit(p) PROVE Rooted'
<1>1. TableOK'
  <2>1. ppid' \in [Pid -> Pid \cup {0}]
    BY DEF Rooted, TableOK, Exit
  <2>2. ASSUME NEW c \in Pid, c # 1 PROVE ppid'[c] \in line'[c]
    BY <2>2 DEF Rooted, TableOK, Exit
  <2>. QED BY <2>1, <2>2 DEF Rooted, TableOK, Exit
<1>2. HandlersOK'
  BY DEF Rooted, HandlersOK, Exit, handlers
<1>3. \A s \in Session : HandlerRooted(s)'
  BY DEF Rooted, HandlerRooted, Exit, handlers, Proper, Belongs, CatchAll
<1>4. \A k \in Slot : EntryRooted(k)'
  BY EntriesKept DEF Exit, vars
<1>. QED BY <1>1, <1>2, <1>3, <1>4 DEF Rooted

(* The steps of a handler that read the table and leave the cache alone:    *)
(* what is to be shown of them is what becomes of the handler.              *)
Reads(s) ==
    /\ UNCHANGED <<vars, mode, processes, peer, toucher>>
    /\ pc' = [pc EXCEPT ![s] = pc'[s]] /\ pc'[s] \in Label
    /\ fp' = [fp EXCEPT ![s] = fp'[s]] /\ fp'[s] \in Fingerprint \cup {NoFp}
    /\ current' = [current EXCEPT ![s] = current'[s]] /\ current'[s] \in Pid \cup {0}
    /\ context' = [context EXCEPT ![s] = context'[s]] /\ context'[s] \in Context

LEMMA ReadsKeeps ==
    ASSUME Rooted, NEW s \in Session, Reads(s), HandlerRooted(s)'
    PROVE  Rooted'
<1>1. TableOK'
  BY DEF Rooted, TableOK, Reads, processes
<1>2. HandlersOK'
  BY DEF Rooted, HandlersOK, Reads
<1>3. ASSUME NEW t \in Session, t # s PROVE HandlerRooted(t)'
  <2>1. HandlerRooted(t)
    BY DEF Rooted
  <2>2. UNCHANGED <<pc[t], fp[t], current[t], context[t], peer, mode, line, tty>>
    BY <1>3 DEF Rooted, HandlersOK, Reads, processes
  <2>. QED BY <2>1, <2>2 DEF HandlerRooted, Proper, Belongs, CatchAll
<1>4. \A k \in Slot : EntryRooted(k)'
  BY EntriesKept DEF Reads, vars, processes
<1>. QED BY <1>1, <1>2, <1>3, <1>4 DEF Rooted

\* The request of a peer starts its walk at the peer.
LEMMA AskKeeps ==
    ASSUME Rooted, NEW s \in Session, NEW f \in asked, Ask(s, f) PROVE Rooted'
<1>1. Reads(s)
  BY DEF Rooted, HandlersOK, TableOK, Ask, Reads, FirstLook, Label
<1>2. HandlerRooted(s)'
  BY DEF Rooted, HandlersOK, TableOK, Ask, FirstLook, HandlerRooted, processes
<1>. QED BY <1>1, <1>2, ReadsKeeps

\* The terminal of the peer, or none.
LEMMA GetTtyDevKeeps ==
    ASSUME Rooted, NEW s \in Session, GetTtyDev(s) PROVE Rooted'
<1>0. TtyDev(peer[s]) \in Context /\ 0 \in Context
  BY DEF Rooted, HandlersOK, TableOK, TtyDev, Context
<1>1. Reads(s)
  BY <1>0 DEF Rooted, HandlersOK, GetTtyDev, Found, Reads, Label
<1>2. HandlerRooted(s)'
  BY DEF Rooted, HandlersOK, TableOK, GetTtyDev, Found, TtyDev, HandlerRooted,
         processes, Proper, Belongs, CatchAll
<1>. QED BY <1>1, <1>2, ReadsKeeps

\* An application in the line of the peer ends the walk; otherwise it goes on.
LEMMA GetProcPathKeeps ==
    ASSUME Rooted, NEW s \in Session, GetProcPath(s) PROVE Rooted'
<1>1. Reads(s)
  BY DEF Rooted, HandlersOK, GetProcPath, Found, Reads, Label, Context
<1>2. HandlerRooted(s)'
  BY DEF Rooted, HandlersOK, TableOK, GetProcPath, Found, HandlerRooted,
         processes, Proper, Belongs, CatchAll
<1>. QED BY <1>1, <1>2, ReadsKeeps

\* One process up stays in the line of the peer.
LEMMA WalkUpKeeps ==
    ASSUME Rooted, NEW s \in Session, WalkUp(s) PROVE Rooted'
<1>. DEFINE next == ppid[current[s]]
<1>1. peer[s] \in Pid /\ current[s] \in line[peer[s]]
  BY DEF Rooted, HandlersOK, HandlerRooted, WalkUp
<1>2. line[peer[s]] \subseteq Pid
  BY <1>1 DEF Rooted, TableOK
<1>3. current[s] \in Pid
  BY <1>1, <1>2
<1>4. line[current[s]] \subseteq line[peer[s]]
  BY <1>1 DEF Rooted, TableOK
<1>5. next \in Pid \cup {0} /\ (next # 0 => next \in line[current[s]])
  BY <1>3 DEF Rooted, TableOK
<1>6. \/ /\ pc' = [pc EXCEPT ![s] = "path"]
         /\ current' = [current EXCEPT ![s] = next] /\ next # 0
      \/ /\ pc' = [pc EXCEPT ![s] = "fallback"]
         /\ UNCHANGED current
  BY Zenon DEF WalkUp
<1>7. Reads(s)
  BY <1>5, <1>6 DEF Rooted, HandlersOK, Reads, WalkUp, Label
<1>8. HandlerRooted(s)
  BY DEF Rooted
<1>9. HandlerRooted(s)'
  BY <1>1, <1>4, <1>5, <1>6, <1>8 DEF Rooted, HandlersOK, WalkUp, HandlerRooted, processes
<1>. QED BY <1>7, <1>9, ReadsKeeps

\* The parent of the peer, or the peer: both are in its line.
LEMMA FallBackKeeps ==
    ASSUME Rooted, NEW s \in Session, FallBack(s) PROVE Rooted'
<1>0. ParentOrSelf(peer[s]) \in Context /\ 0 \in Context
  BY DEF Rooted, HandlersOK, TableOK, ParentOrSelf, Context
<1>1. Reads(s)
  BY <1>0 DEF Rooted, HandlersOK, FallBack, Found, Reads, Label
<1>2. HandlerRooted(s)'
  BY DEF Rooted, HandlersOK, TableOK, FallBack, Found, ParentOrSelf, HandlerRooted,
         processes, Proper, Belongs, CatchAll
<1>. QED BY <1>1, <1>2, ReadsKeeps

\* Serving from the cache, prompting, and a touch change nothing in it.
LEMMA ApprovalKeeps ==
    ASSUME Rooted, NEW s \in Session, Serve(s) \/ Prompt(s) \/ Touch(s) PROVE Rooted'
<1>1. Reads(s)
  BY DEF Rooted, HandlersOK, Serve, Prompt, Touch, Answered, Reads, Label, Context
<1>2. HandlerRooted(s)'
  BY DEF Rooted, HandlersOK, Serve, Prompt, Touch, Answered, HandlerRooted,
         processes, Proper, Belongs, CatchAll
<1>. QED BY <1>1, <1>2, ReadsKeeps

\* A new connection has a peer that is not init, and nothing found yet.
LEMMA NewSessionKeeps ==
    ASSUME Rooted, NEW s \in Session, NewSession(s) PROVE Rooted'
<1>1. TableOK'
  BY DEF Rooted, TableOK, NewSession, processes
<1>2. HandlersOK'
  BY DEF Rooted, TableOK, HandlersOK, NewSession, PeerPids, handlers
<1>3. ASSUME NEW t \in Session PROVE HandlerRooted(t)'
  <2>1. HandlerRooted(t)
    BY DEF Rooted
  <2>2. CASE t = s
    BY <2>1, <2>2 DEF NewSession, PeerPids, HandlerRooted, handlers
  <2>3. CASE t # s
    <3>1. UNCHANGED <<pc, fp, current, context, mode, line, tty>> /\ peer'[t] = peer[t]
      BY <2>3 DEF Rooted, HandlersOK, NewSession, handlers, processes
    <3>. QED BY <2>1, <3>1 DEF HandlerRooted, Proper, Belongs, CatchAll
  <2>. QED BY <2>2, <2>3
<1>4. \A k \in Slot : EntryRooted(k)'
  BY EntriesKept DEF NewSession, vars, processes
<1>. QED BY <1>1, <1>2, <1>3, <1>4 DEF Rooted

\* A grant is the peer's own, under a context it belongs to.
LEMMA GrantAuthKeeps ==
    ASSUME Rooted, NEW s \in Session, GrantAuth(s) PROVE Rooted'
<1>1. TableOK'
  BY DEF Rooted, TableOK, GrantAuth, processes
<1>2. HandlersOK'
  BY SlotOfType DEF Rooted, HandlersOK, GrantAuth, Answered, Label, Context
<1>3. ASSUME NEW t \in Session PROVE HandlerRooted(t)'
  <2>1. HandlerRooted(t)
    BY DEF Rooted
  <2>2. CASE t = s
    BY <2>1, <2>2 DEF Rooted, HandlersOK, GrantAuth, Answered, HandlerRooted
  <2>3. CASE t # s
    <3>1. /\ UNCHANGED <<peer, mode, line, tty>>
          /\ UNCHANGED <<pc[t], fp[t], current[t], context[t]>>
      BY <2>3 DEF Rooted, HandlersOK, GrantAuth, Answered, processes
    <3>. QED BY <2>1, <3>1 DEF HandlerRooted, Proper, Belongs, CatchAll
  <2>. QED BY <2>2, <2>3
<1>4. ASSUME NEW k \in Slot PROVE EntryRooted(k)'
  <2>1. EntryRooted(k) /\ HandlerRooted(s) /\ SlotOf(s) \in Slot
    BY SlotOfType DEF Rooted, GrantAuth
  <2>2. UNCHANGED <<mode, line, tty>>
    BY DEF GrantAuth, processes
  <2>3. CASE k = SlotOf(s)
    <3>1. toucher'[k] = peer[s] /\ peer[s] # 0
      BY <2>1, <2>3 DEF Rooted, HandlersOK, GrantAuth, HandlerRooted
    <3>2. Proper(peer[s], k[1])
      BY <2>1, <2>3, <3>1 DEF GrantAuth, HandlerRooted, SlotOf
    <3>. QED BY <3>1, <3>2, <2>2 DEF EntryRooted, Proper, Belongs, CatchAll
  <2>4. CASE k # SlotOf(s)
    <3>1. (entries'[k] # Absent => entries[k] # Absent) /\ toucher'[k] = toucher[k]
      BY <2>1, <2>4 DEF Rooted, HandlersOK, GrantAuth, Grant
    <3>. QED BY <2>1, <3>1, <2>2 DEF EntryRooted, Proper, Belongs, CatchAll
  <2>. QED BY <2>3, <2>4
<1>. QED BY <1>1, <1>2, <1>3, <1>4 DEF Rooted

\* lock, the sweeper and the clock only take entries away.
LEMMA CacheStepKeeps == ASSUME Rooted, CacheStep PROVE Rooted'
<1>1. TableOK' /\ HandlersOK'
  BY DEF Rooted, TableOK, HandlersOK, CacheStep, processes, handlers
<1>2. \A s \in Session : HandlerRooted(s)'
  BY DEF Rooted, HandlerRooted, CacheStep, processes, handlers, Proper, Belongs, CatchAll
<1>3. ASSUME NEW k \in Slot PROVE EntryRooted(k)'
  <2>1. EntryRooted(k)
    BY DEF Rooted
  <2>2. entries'[k] # Absent => entries[k] # Absent
    BY DEF CacheStep, Clear, SweepExpired, Tick
  <2>3. UNCHANGED <<toucher, mode, line, tty>>
    BY DEF CacheStep, processes
  <2>. QED BY <2>1, <2>2, <2>3 DEF EntryRooted, Proper, Belongs, CatchAll
<1>. QED BY <1>1, <1>2, <1>3 DEF Rooted

-----------------------------------------------------------------------------
(* Whatever is found, remembered or granted is rooted in the line of the    *)
(* peer that asked: proc_info and check_or_prompt_auth, ssh_agent.rs:263-   *)
(* 293 and 604-652.                                                         *)
THEOREM Roots == CallersSpec => []Rooted
<1>1. Rooted /\ [CallersNext]_cvars => Rooted'
  <2>. SUFFICES ASSUME Rooted, [CallersNext]_cvars PROVE Rooted'
    OBVIOUS
  <2>1. ASSUME NEW p \in Pid, Exit(p) PROVE Rooted'
    BY <2>1, ExitKeeps
  <2>2. ASSUME NEW s \in Session, NewSession(s) PROVE Rooted'
    BY <2>2, NewSessionKeeps
  <2>3. ASSUME NEW s \in Session, NEW f \in asked, Ask(s, f) PROVE Rooted'
    BY <2>3, AskKeeps
  <2>4. ASSUME NEW s \in Session, Lookup(s) PROVE Rooted'
    BY <2>4, GetTtyDevKeeps, GetProcPathKeeps, WalkUpKeeps, FallBackKeeps DEF Lookup
  <2>5. ASSUME NEW s \in Session, Serve(s) \/ Prompt(s) \/ Touch(s) PROVE Rooted'
    BY <2>5, ApprovalKeeps
  <2>6. ASSUME NEW s \in Session, GrantAuth(s) PROVE Rooted'
    BY <2>6, GrantAuthKeeps
  <2>7. CASE CacheStep
    BY <2>7, CacheStepKeeps
  <2>8. CASE UNCHANGED cvars
    <3>1. TableOK' /\ HandlersOK'
      BY <2>8 DEF Rooted, TableOK, HandlersOK, cvars, processes, handlers
    <3>2. \A s \in Session : HandlerRooted(s)'
      BY <2>8 DEF Rooted, HandlerRooted, cvars, processes, handlers, Proper, Belongs, CatchAll
    <3>3. \A k \in Slot : EntryRooted(k)'
      BY <2>8, EntriesKept DEF cvars, vars, processes
    <3>. QED BY <3>1, <3>2, <3>3 DEF Rooted
  <2>. QED BY <2>1, <2>2, <2>3, <2>4, <2>5, <2>6, <2>7, <2>8 DEF CallersNext
<1>. QED BY <1>1, RootedInit, PTL DEF CallersSpec

(* Approvals are shared within a terminal, or below one process, only: a    *)
(* request that the cache serves and the touch it goes by both belong to    *)
(* the context of the entry, or that context is the one everybody shares.   *)
THEOREM Sharing == CallersSpec => SharedWithinContext
<1>1. ASSUME Rooted, [CallersNext]_cvars, NEW s \in Session,
             pc[s] = "cache", pc'[s] = "open", context[s] # CatchAll
      PROVE  /\ Belongs(peer[s], context[s])
             /\ toucher[SlotOf(s)] # 0
             /\ Belongs(toucher[SlotOf(s)], context[s])
  <2>1. HandlerRooted(s) /\ EntryRooted(SlotOf(s))
    BY <1>1, SlotOfType DEF Rooted
  <2>2. Serve(s)
    <3>1. pc'[s] # pc[s]
      BY <1>1
    <3>2. ASSUME NEW t \in Session, t # s, NEW l, pc' = [pc EXCEPT ![t] = l] PROVE FALSE
      BY <1>1, <3>1, <3>2 DEF Rooted, HandlersOK
    <3>3. ASSUME NEW t \in Session, Lookup(t) PROVE FALSE
      BY <1>1, <3>2, <3>3 DEF Rooted, HandlersOK, Lookup, GetTtyDev, GetProcPath, WalkUp,
             FallBack, Found
    <3>4. ASSUME NEW t \in Session,
                 NewSession(t) \/ (\E f \in asked : Ask(t, f)) \/ Prompt(t) \/ Touch(t)
                   \/ GrantAuth(t)
          PROVE  FALSE
      BY <1>1, <3>2, <3>4 DEF Rooted, HandlersOK, NewSession, Ask, Prompt, Touch, GrantAuth,
             Answered, handlers
    <3>5. ASSUME NEW t \in Session, Serve(t) PROVE Serve(s)
      BY <1>1, <3>2, <3>5 DEF Rooted, HandlersOK, Serve, Answered
    <3>6. ASSUME (\E p \in Pid : Exit(p)) \/ CacheStep \/ UNCHANGED cvars PROVE FALSE
      BY <3>1, <3>6 DEF Exit, CacheStep, cvars, handlers
    <3>. QED BY <1>1, <3>3, <3>4, <3>5, <3>6 DEF CallersNext
  <2>3. entries[SlotOf(s)] # Absent
    BY <2>2 DEF Serve, IsAuthorized, Live
  <2>. QED BY <1>1, <2>1, <2>3 DEF HandlerRooted, EntryRooted, Proper, SlotOf
<1>2. Rooted /\ [CallersNext]_cvars =>
        [\A s \in Session :
            pc[s] = "cache" /\ pc'[s] = "open" =>
               \/ context[s] = CatchAll
               \/ /\ Belongs(peer[s], context[s])
                  /\ toucher[SlotOf(s)] # 0
                  /\ Belongs(toucher[SlotOf(s)], context[s])]_cvars
  BY <1>1
<1>. QED BY <1>2, Roots, PTL DEF CallersSpec, SharedWithinContext

(* Underneath, the cache does what AuthCache alone does, so that it keeps   *)
(* the promises of TouchWindow whatever callers and processes do.           *)
THEOREM CacheUnderneath == CallersSpec => ImplementsTouchWindow
<1>1. CallersInit => Init
  BY DEF CallersInit
<1>2. Rooted /\ [CallersNext]_cvars => [Next]_vars
  <2>. SUFFICES ASSUME Rooted, [CallersNext]_cvars PROVE [Next]_vars
    OBVIOUS
  <2>1. ASSUME NEW s \in Session, GrantAuth(s) PROVE Next
    <3>1. SlotOf(s) \in Slot
      BY <2>1, SlotOfType DEF GrantAuth
    <3>. QED BY <2>1, <3>1 DEF GrantAuth, Next
  <2>2. CASE CacheStep
    BY <2>2 DEF CacheStep, Next
  <2>3. ASSUME NEW s \in Session,
               NewSession(s) \/ (\E f \in asked : Ask(s, f)) \/ Lookup(s)
                 \/ Serve(s) \/ Prompt(s) \/ Touch(s)
        PROVE  UNCHANGED vars
    BY <2>3 DEF NewSession, Ask, Lookup, GetTtyDev, GetProcPath, WalkUp, FallBack, Serve,
            Prompt, Touch
  <2>4. ASSUME NEW p \in Pid, Exit(p) PROVE UNCHANGED vars
    BY <2>4 DEF Exit
  <2>5. CASE UNCHANGED cvars
    BY <2>5 DEF cvars
  <2>. QED BY <2>1, <2>2, <2>3, <2>4, <2>5 DEF CallersNext
<1>3. CallersSpec => Spec
  BY <1>1, <1>2, Roots, PTL DEF CallersSpec, Spec
<1>. QED BY <1>3, Implementation
=============================================================================
