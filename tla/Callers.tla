------------------------------- MODULE Callers -------------------------------
(***************************************************************************)
(* Who an approval is remembered for (src/ssh_agent.rs): the agent takes   *)
(* the pid of the peer when a connection is accepted and derives a context *)
(* from it for every request, the number of the peer's terminal in mode    *)
(* per-session, a process found by walking up the process table in mode    *)
(* per-app.  The table changes while it is walked, and a connection may    *)
(* outlive its peer: whoever inherited the socket goes on using it.        *)
(*                                                                         *)
(* Every look at the process table is a step.  A pid is not given out      *)
(* again after its process has ended.                                      *)
(***************************************************************************)
EXTENDS AuthCache

CONSTANTS
    Session,     \* connections to the agent
    Pid,         \* process ids; 1 is init
    Tty,         \* device numbers of terminals; 0 is no terminal
    Fingerprint, \* what is asked for: keys, and "decrypt@vt"
    DecryptFp,   \* "decrypt@vt"
    NoFp,        \* a connection asks for nothing
    Worlds,      \* the process tables, modes and requests considered
    WalkLimit,   \* how far find_app_pid walks (64 in the code)
    MaxTouches   \* the YubiKey is touched no more often (a bound)

Context == Pid \cup Tty \cup {0}

ASSUME PidAssumption == Pid \subseteq Nat \ {0} /\ 1 \in Pid
ASSUME TtyAssumption == Tty \subseteq Nat \ {0}
ASSUME WalkAssumption == WalkLimit \in Nat /\ MaxTouches \in Nat
ASSUME SlotAssumption ==
    /\ Slot = Context \X Fingerprint
    /\ DecryptSlot = {k \in Slot : k[2] = DecryptFp}

World ==
    [mode : {"per-session", "per-app"}, parent : [Pid -> Pid \cup {0}],
     line : [Pid -> SUBSET Pid], tty : [Pid -> Tty \cup {0}],
     apps : SUBSET (Pid \ {1}), asked : SUBSET Fingerprint]

(* Only init has no parent.  A process stands in its own line, and so do    *)
(* init, its parent, and whatever stands in the line of one that does.      *)
ProcessTree(parent, of) ==
    /\ parent[1] = 0
    /\ \A p \in Pid :
          /\ {1, p} \subseteq of[p]
          /\ p # 1 => parent[p] \in of[p]
          /\ \A q \in of[p] : of[q] \subseteq of[p]

ASSUME WorldsAssumption ==
    /\ Worlds \subseteq World
    /\ \A w \in Worlds : ProcessTree(w.parent, w.line)

VARIABLES
    mode,    \* cache_mode
    alive,   \* the processes that run
    ppid,    \* the parent of each, 0 for init
    tty,     \* its controlling terminal
    app,     \* the path of its program lies in an .app/Contents/
    line,    \* the process itself and all it descends from, as born
    peer,    \* peer_pid of each connection, 0 for None
    pc,      \* where its handler is
    fp,      \* the fingerprint of its request
    current, \* current_pid of find_app_pid
    walked,  \* the rounds of its loop
    context, \* context_id of the request
    asked,   \* the fingerprints that are asked for
    toucher, \* the peer whose touch granted each slot, 0 if none did
    touches  \* the touches given so far

processes == <<alive, ppid, tty, app, line, asked>>
handlers  == <<pc, fp, current, walked, context>>
cvars     == <<vars, mode, processes, peer, handlers, toucher, touches>>

(* The processes are there when the agent starts looking: one that is born  *)
(* later changes nothing in what is read of the others.                     *)
CallersInit ==
    /\ Init
    /\ \E w \in Worlds :
          /\ mode = w.mode
          /\ ppid = w.parent /\ line = w.line
          /\ tty = w.tty
          /\ app = [p \in Pid |-> p \in w.apps]
          /\ asked = w.asked
    /\ alive = Pid
    /\ peer = [s \in Session |-> 0]
    /\ pc = [s \in Session |-> "open"]
    /\ fp = [s \in Session |-> NoFp]
    /\ current = [s \in Session |-> 0]
    /\ walked = [s \in Session |-> 0]
    /\ context = [s \in Session |-> 0]
    /\ toucher = [k \in Slot |-> 0]
    /\ touches = 0

-----------------------------------------------------------------------------
(* The operating system.                                                    *)

\* A process ends; init adopts its children.
Exit(p) ==
    /\ p \in alive \ {1}
    /\ alive' = alive \ {p}
    /\ ppid' = [c \in Pid |-> IF c \in alive /\ ppid[c] = p THEN 1 ELSE ppid[c]]
    /\ UNCHANGED <<vars, mode, tty, app, line, asked, peer, handlers, toucher, touches>>

-----------------------------------------------------------------------------
(* Connections.                                                             *)

\* get_peer_pid: the pid the socket has for its peer, or None.
PeerPids == (alive \ {1}) \cup {0}

\* A connection ends and another is accepted: new_session.
NewSession(s) ==
    /\ pc[s] = "open"
    /\ \E p \in PeerPids : peer' = [peer EXCEPT ![s] = p]
    /\ UNCHANGED <<vars, mode, processes, handlers, toucher, touches>>

\* check_or_prompt_auth is called: a peer without a pid is asked to touch.
FirstLook(s) ==
    IF peer[s] = 0 THEN "touch" ELSE IF mode = "per-session" THEN "tty" ELSE "path"

Ask(s, f) ==
    /\ pc[s] = "open"
    /\ pc' = [pc EXCEPT ![s] = FirstLook(s)]
    /\ fp' = [fp EXCEPT ![s] = f]
    /\ current' = [current EXCEPT ![s] = peer[s]]
    /\ UNCHANGED <<vars, mode, processes, peer, walked, context, toucher, touches>>

-----------------------------------------------------------------------------
(* The context of a request.                                                *)

\* get_tty_dev: the terminal of the peer, 0 if it has none or is gone.
TtyDev(p) == IF p \in alive THEN tty[p] ELSE 0

Found(s, c) ==
    /\ context' = [context EXCEPT ![s] = c]
    /\ pc' = [pc EXCEPT ![s] = "cache"]
    /\ current' = [current EXCEPT ![s] = 0]
    /\ walked' = [walked EXCEPT ![s] = 0]

GetTtyDev(s) ==
    /\ pc[s] = "tty"
    /\ Found(s, TtyDev(peer[s]))
    /\ UNCHANGED <<vars, mode, processes, peer, fp, toucher, touches>>

\* get_proc_path(current_pid), with the test and the bound of the loop.
GetProcPath(s) ==
    /\ pc[s] = "path"
    /\ IF walked[s] < WalkLimit /\ current[s] > 1
         THEN IF current[s] \in alive /\ app[current[s]]
                THEN Found(s, current[s])
                ELSE /\ pc' = [pc EXCEPT ![s] = "parent"]
                     /\ UNCHANGED <<context, current, walked>>
         ELSE /\ pc' = [pc EXCEPT ![s] = "fallback"]
              /\ UNCHANGED <<context, current, walked>>
    /\ UNCHANGED <<vars, mode, processes, peer, fp, toucher, touches>>

\* get_proc_bsdinfo(current_pid): one process up, or the end of the walk.
WalkUp(s) ==
    /\ pc[s] = "parent"
    /\ IF current[s] \in alive /\ ppid[current[s]] \notin {0, current[s]}
         THEN /\ current' = [current EXCEPT ![s] = ppid[current[s]]]
              /\ walked' = [walked EXCEPT ![s] = walked[s] + 1]
              /\ pc' = [pc EXCEPT ![s] = "path"]
         ELSE /\ pc' = [pc EXCEPT ![s] = "fallback"]
              /\ UNCHANGED <<current, walked>>
    /\ UNCHANGED <<vars, mode, processes, peer, fp, context, toucher, touches>>

\* Fault: a peer that is gone has no parent either, all of them share 0.
ParentOrNone(p) == IF p \in alive THEN ppid[p] ELSE 0

\* No app: the parent of the peer, or the peer itself if it is gone.
ParentOrSelf(p) == IF p \in alive THEN ppid[p] ELSE p

FallBack(s) ==
    /\ pc[s] = "fallback"
    /\ Found(s, ParentOrSelf(peer[s]))
    /\ UNCHANGED <<vars, mode, processes, peer, fp, toucher, touches>>

-----------------------------------------------------------------------------
(* The rest of check_or_prompt_auth.                                        *)

SlotOf(s) == <<context[s], fp[s]>>

Answered(s) ==
    /\ pc' = [pc EXCEPT ![s] = "open"]
    /\ fp' = [fp EXCEPT ![s] = NoFp]
    /\ context' = [context EXCEPT ![s] = 0]
    /\ current' = [current EXCEPT ![s] = 0]

Serve(s) ==
    /\ pc[s] = "cache" /\ IsAuthorized(SlotOf(s))
    /\ Answered(s)
    /\ UNCHANGED <<vars, mode, processes, peer, walked, toucher, touches>>

Prompt(s) ==
    /\ pc[s] = "cache" /\ ~IsAuthorized(SlotOf(s))
    /\ pc' = [pc EXCEPT ![s] = "touch"]
    /\ UNCHANGED <<vars, mode, processes, peer, fp, current, walked, context, toucher, touches>>

\* verify_yubikey_presence: refused, or given; only a peer is remembered.
Touch(s) ==
    /\ pc[s] = "touch"
    /\ \/ Answered(s) /\ UNCHANGED touches
       \/ /\ peer[s] # 0 /\ touches < MaxTouches
          /\ touches' = touches + 1
          /\ pc' = [pc EXCEPT ![s] = "grant"]
          /\ UNCHANGED <<fp, context, current>>
    /\ UNCHANGED <<vars, mode, processes, peer, walked, toucher>>

GrantAuth(s) ==
    /\ pc[s] = "grant"
    /\ Grant(SlotOf(s))
    /\ toucher' = [toucher EXCEPT ![SlotOf(s)] = peer[s]]
    /\ Answered(s)
    /\ UNCHANGED <<mode, processes, peer, walked, touches>>

\* lock, the sweeper, and the clock.
CacheStep ==
    /\ Clear \/ SweepExpired \/ Tick
    /\ UNCHANGED <<mode, processes, peer, handlers, toucher, touches>>

Lookup(s) == GetTtyDev(s) \/ GetProcPath(s) \/ WalkUp(s) \/ FallBack(s)

CallersNext ==
    \/ \E p \in Pid : Exit(p)
    \/ \E s \in Session :
          \/ NewSession(s)
          \/ \E f \in asked : Ask(s, f)
          \/ Lookup(s) \/ Serve(s) \/ Prompt(s) \/ Touch(s) \/ GrantAuth(s)
    \/ CacheStep

CallersSpec == CallersInit /\ [][CallersNext]_cvars

-----------------------------------------------------------------------------
\* A process belongs to a context: it has that terminal, descends from that app.
Belongs(p, c) == IF mode = "per-session" THEN tty[p] = c ELSE c \in line[p]

(* The contexts that unrelated processes share: no terminal, or init, which *)
(* adopts the orphans.                                                      *)
CatchAll == IF mode = "per-session" THEN 0 ELSE 1

(* A request goes without a touch only for a peer that belongs, as it was   *)
(* born, to the same terminal or the same process as the peer whose touch   *)
(* it goes by, whatever exits and is adopted while the agent looks          *)
(* (README.md:206-207, "Shared within same terminal/TTY", "Shared within    *)
(* same application").  Excepted are peers without a terminal and orphans.  *)
SharedWithinContext ==
    [][\A s \in Session :
          pc[s] = "cache" /\ pc'[s] = "open" =>
             \/ context[s] = CatchAll
             \/ /\ Belongs(peer[s], context[s])
                /\ toucher[SlotOf(s)] # 0
                /\ Belongs(toucher[SlotOf(s)], context[s])]_cvars
=============================================================================
