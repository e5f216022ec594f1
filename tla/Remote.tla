-------------------------------- MODULE Remote --------------------------------
(***************************************************************************)
(* The client commands of vt-yubi and the servers they ask: processes of   *)
(* `vt-yubi serve` and `vt-yubi ssh agent` that take the socket            *)
(* ~/.ssh/vt-yubi.sock from each other (src/ssh_agent.rs) and the HTTP     *)
(* port (src/serve.rs), the client that tries the agent and falls back to  *)
(* HTTP, and what create, read, inject and auth make of the answer         *)
(* (src/cli.rs).  Other programs may use the HTTP server, too.             *)
(***************************************************************************)
EXTENDS SecretStrings

CONSTANTS
    Server,     \* processes that serve
    WithHttp,   \* those started with --enable-http
    Command,    \* client commands
    Foreign,    \* other HTTP clients; they send application/json
    HasAddr,    \* the commands with a VT_ADDR
    OtherName,  \* those whose SSH_AUTH_SOCK names no vt-yubi.sock
    Jobs,       \* what is asked for
    ForeignJobs,\* what other clients ask for
    Nobody,     \* no server
    Nothing,    \* no job, no outcome
    Passed      \* the outcome of auth

Caller == Command \cup Foreign

\* The operations that end in /decrypt or decrypt@vt.
DecryptOp == {"read", "inject"}

ASSUME CallersApart == Command \cap Foreign = {}
ASSUME ServerAssumption == Nobody \notin Server /\ WithHttp \subseteq Server
ASSUME JobsAssumption ==
    /\ \A j \in Jobs \cup ForeignJobs :
          j.op \in {"create", "auth"} \cup DecryptOp /\ j.token \in BOOLEAN
    /\ Nothing \notin Jobs \cup ForeignJobs
ASSUME ArgumentsAssumption ==
    \A j \in Jobs \cup ForeignJobs :
        /\ j.args \in Seq(Text) /\ j.file \in Text /\ j.env \in Seq(Text)
        /\ j.op = "create" => Len(j.args) = 1
        /\ j.op = "read" => \E r \in Reference : j.args = <<<<r>>>>

VARIABLES
    stage,   \* how far the agent of each process is; "off" without a process
    http,    \* "none", "binding" or "up"
    socket,  \* the process that bound ~/.ssh/vt-yubi.sock, or Nobody: no file
    alone,   \* no other process ran since this one was started
    pc,      \* where each caller is
    job,     \* what it asks for
    conn,    \* the server that has its request
    results, \* the items of the answer
    outcome  \* what its last command ended with

servers == <<stage, http, socket, alone>>
callers == <<pc, job, conn, results, outcome>>
vars    == <<servers, callers>>

Init ==
    /\ stage = [v \in Server |-> "off"]
    /\ http = [v \in Server |-> "none"]
    /\ socket = Nobody
    /\ alone = [v \in Server |-> FALSE]
    /\ pc = [c \in Caller |-> "idle"]
    /\ job = [c \in Caller |-> Nothing]
    /\ conn = [c \in Caller |-> Nobody]
    /\ results = [c \in Caller |-> <<>>]
    /\ outcome = [c \in Caller |-> Nothing]

-----------------------------------------------------------------------------
(* The processes that serve.                                                *)

Running == {v \in Server : stage[v] # "off"}

\* Its socket answers, if only it is found.
Serving(v) == stage[v] \in {"serving", "unlinked"}

\* serve and run_ssh_agent: the YubiKey is open and the secrets are loaded.
StartServer(v) ==
    /\ stage[v] = "off"
    /\ stage' = [stage EXCEPT ![v] = "load"]
    /\ http' = [http EXCEPT ![v] = IF v \in WithHttp THEN "binding" ELSE "none"]
    /\ alone' = [w \in Server |->
                    IF w = v THEN Running = {} ELSE alone[w] /\ w \notin Running]
    /\ UNCHANGED <<socket, callers>>

AgentTo(v, next) ==
    /\ stage' = [stage EXCEPT ![v] = next]
    /\ UNCHANGED <<http, alone, callers>>

\* load_all_keys: an agent does not start on a file it cannot load.
LoadKeys(v) ==
    /\ stage[v] = "load"
    /\ AgentTo(v, "look") \/ AgentTo(v, "keyless")
    /\ UNCHANGED socket

\* Fault: what is left of an earlier agent stays.
SocketThere == FALSE

\* socket_path.exists()
SocketExists == socket # Nobody

LookForSocket(v) ==
    /\ stage[v] = "look"
    /\ AgentTo(v, IF SocketExists THEN "remove" ELSE "bind")
    /\ UNCHANGED socket

\* remove_file fails if the file is gone by now.
RemoveSocket(v) ==
    /\ stage[v] = "remove"
    /\ AgentTo(v, IF socket = Nobody THEN "failed" ELSE "bind")
    /\ socket' = Nobody

\* bind fails if there is a file again.
BindSocket(v) ==
    /\ stage[v] = "bind"
    /\ IF socket = Nobody
         THEN AgentTo(v, "serving") /\ socket' = v
         ELSE AgentTo(v, "failed") /\ UNCHANGED socket

\* The signal handler removes the file at the path, whoever bound it.
SignalRemoves(v) ==
    /\ stage[v] = "serving"
    /\ AgentTo(v, "unlinked")
    /\ socket' = Nobody

(* A process ends: after its signal handler, killed, or with an error.  The *)
(* file of its socket stays.  Who waits for an answer finds the connection  *)
(* closed.                                                                  *)
EndServer(v) ==
    /\ stage[v] # "off"
    /\ stage' = [stage EXCEPT ![v] = "off"]
    /\ http' = [http EXCEPT ![v] = "none"]
    /\ alone' = [alone EXCEPT ![v] = FALSE]
    /\ pc' = [c \in Caller |->
                 IF conn[c] = v /\ pc[c] # "answered" THEN "lost" ELSE pc[c]]
    /\ UNCHANGED <<socket, job, conn, results, outcome>>

\* TcpListener::bind: a serve that does not get the port ends, agent and all.
BindHttp(v) ==
    /\ http[v] = "binding"
    /\ IF \A w \in Server : http[w] # "up"
         THEN http' = [http EXCEPT ![v] = "up"] /\ UNCHANGED <<stage, socket, alone, callers>>
         ELSE EndServer(v)

ServerStep(v) ==
    \/ StartServer(v) \/ EndServer(v) \/ BindHttp(v)
    \/ LoadKeys(v) \/ LookForSocket(v) \/ RemoveSocket(v) \/ BindSocket(v)
    \/ SignalRemoves(v)

-----------------------------------------------------------------------------
(* VTClient.                                                                *)

CallerTo(c, label) ==
    /\ pc' = [pc EXCEPT ![c] = label]
    /\ UNCHANGED <<servers, job, results, outcome>>

Begin(c, j) ==
    /\ pc[c] = "idle"
    /\ pc' = [pc EXCEPT ![c] = IF c \in Command THEN "connect" ELSE "post"]
    /\ job' = [job EXCEPT ![c] = j]
    /\ outcome' = [outcome EXCEPT ![c] = Nothing]
    /\ UNCHANGED <<servers, conn, results>>

\* Fault: the next command takes the connection for its own.
EndKeepingConnection(c, with) ==
    /\ pc' = [pc EXCEPT ![c] = "idle"]
    /\ job' = [job EXCEPT ![c] = Nothing]
    /\ results' = [results EXCEPT ![c] = <<>>]
    /\ outcome' = [outcome EXCEPT ![c] = with]
    /\ UNCHANGED <<servers, conn>>

End(c, with) ==
    /\ pc' = [pc EXCEPT ![c] = "idle"]
    /\ job' = [job EXCEPT ![c] = Nothing]
    /\ conn' = [conn EXCEPT ![c] = Nobody]
    /\ results' = [results EXCEPT ![c] = <<>>]
    /\ outcome' = [outcome EXCEPT ![c] = with]
    /\ UNCHANGED servers

Fails(c) == End(c, Nothing)

(* None of try_agent_extension, for a socket that is not there or that      *)
(* nobody listens on: auth gives up, the others need a VT_ADDR.             *)
WithoutAgent(c) ==
    IF job[c].op # "auth" /\ c \in HasAddr
      THEN CallerTo(c, "post") /\ UNCHANGED conn
      ELSE Fails(c)

\* try_agent_extension up to its request.
Connect(c) ==
    /\ pc[c] = "connect"
    /\ IF c \in OtherName THEN Fails(c)
       ELSE IF socket = Nobody \/ ~Serving(socket) THEN WithoutAgent(c)
       ELSE CallerTo(c, "asked") /\ conn' = [conn EXCEPT ![c] = socket]

\* send(): to the server that has the port, if there is one.
Post(c) ==
    /\ pc[c] = "post"
    /\ \/ \E v \in Server :
             /\ http[v] = "up"
             /\ CallerTo(c, "posted") /\ conn' = [conn EXCEPT ![c] = v]
       \/ (\A v \in Server : http[v] # "up") /\ Fails(c)

\* Fault: a request that got no answer is tried over HTTP.
LostFallsBack(c) ==
    /\ pc[c] = "lost"
    /\ IF job[c].op # "auth" /\ c \in HasAddr
         THEN CallerTo(c, "post") /\ conn' = [conn EXCEPT ![c] = Nobody]
         ELSE Fails(c)

\* An error of the connection is an error of the command.
Lost(c) == pc[c] = "lost" /\ Fails(c)

-----------------------------------------------------------------------------
(* The servers' side of a request.                                          *)

\* do_encrypt and do_decrypt of what the request holds.
AnswerTo(j) ==
    IF j.op = "create" THEN <<Sealed(j.args[1], j.t)>>
    ELSE IF j.op = "read" THEN DoDecrypt(j.args[1])
    ELSE IF j.op = "inject" THEN DoDecrypt(Items(InjectTexts(j)))
    ELSE <<>>

Answer(c) ==
    /\ pc' = [pc EXCEPT ![c] = "answered"]
    /\ results' = [results EXCEPT ![c] = AnswerTo(job[c])]
    /\ UNCHANGED <<servers, job, conn, outcome>>

(* extension: an error when the agent is locked or the body does not        *)
(* decrypt or parse.  Encryption is free, a decryption may be covered by a  *)
(* grant of the cache, what is left waits for a touch.                      *)
AskAgent(c) ==
    /\ pc[c] = "asked"
    /\ \/ Fails(c)
       \/ job[c].token /\ job[c].op # "auth" /\ Answer(c)
       \/ /\ job[c].token /\ job[c].op # "create"
          /\ CallerTo(c, "touch") /\ UNCHANGED conn

\* axum's Json takes application/json and nothing else (415).
TakesJson(c) == c \in Foreign

(* auth_middleware_impl and the handlers: 403 for a body that does not      *)
(* decrypt, the extractor, then encryption at once and decryption after a   *)
(* touch.                                                                   *)
AskHttp(c) ==
    /\ pc[c] = "posted"
    /\ IF ~job[c].token \/ ~TakesJson(c) THEN Fails(c)
       ELSE IF job[c].op = "create" THEN Answer(c)
       ELSE CallerTo(c, "touch") /\ UNCHANGED conn

\* The touch is given, or refused, or times out.
Touch(c) ==
    /\ pc[c] = "touch"
    /\ Answer(c) \/ Fails(c)

-----------------------------------------------------------------------------
(* What the commands make of the answer.                                    *)

\* create and read end with an error if their single item is one.
Outcomes(c) ==
    CASE job[c].op \in {"create", "read"} ->
            {IF results[c][1].ok THEN results[c][1].text ELSE Nothing}
      [] job[c].op = "inject" -> InjectOutcomes(job[c], results[c])
      [] job[c].op = "auth" -> {Passed}

TakeAnswer(c) ==
    /\ pc[c] = "answered"
    /\ \E x \in Outcomes(c) : End(c, x)

CallerStep(c) ==
    \/ Connect(c) \/ Post(c) \/ Lost(c)
    \/ AskAgent(c) \/ AskHttp(c) \/ Touch(c)
    \/ TakeAnswer(c)

Next ==
    \/ \E v \in Server : ServerStep(v)
    \/ \E c \in Command, j \in Jobs : Begin(c, j)
    \/ \E f \in Foreign, j \in ForeignJobs : Begin(f, j)
    \/ \E c \in Caller : CallerStep(c)

Spec == Init /\ [][Next]_vars

-----------------------------------------------------------------------------
Label == {"idle", "connect", "asked", "post", "posted", "touch", "answered", "lost"}

\* Every variable has its type, and who waits for a server waits for one.
TypeOK ==
    /\ stage \in [Server -> {"off", "load", "keyless", "look", "remove", "bind",
                             "failed", "serving", "unlinked"}]
    /\ http \in [Server -> {"none", "binding", "up"}]
    /\ socket \in Server \cup {Nobody}
    /\ alone \in [Server -> BOOLEAN]
    /\ pc \in [Caller -> Label]
    /\ conn \in [Caller -> Server \cup {Nobody}]
    /\ \A c \in Caller :
          conn[c] # Nobody <=> pc[c] \in {"asked", "posted", "touch", "answered", "lost"}
    /\ \A c \in Caller :
          job[c] \in (IF pc[c] = "idle" THEN {Nothing} ELSE Jobs \cup ForeignJobs)

(* An agent that was started while no other ran, and has been alone since,  *)
(* gets its socket and is found at it: whatever an earlier one left behind, *)
(* however it ended (ssh_agent.rs:1065-1067, 1142-1155).  Two that overlap  *)
(* may take the socket from each other, and none is left with it.           *)
AloneIsReachable ==
    \A v \in Server :
        alone[v] => stage[v] # "failed" /\ (stage[v] = "serving" => socket = v)

(* Every argument, the file and every variable of the environment get the   *)
(* values of their own references, failed ones their error, and the rest    *)
(* stays as it was; create and read end with the item they asked for        *)
(* (cli.rs:504-559, 596-617).  Nested references are excepted: they come    *)
(* out as the order of a HashMap has it.                                    *)
OwnValues ==
    [][\A c \in Command :
          pc[c] = "answered" /\ pc'[c] = "idle" =>
              CASE job[c].op = "inject" -> Flat(job[c]) => outcome'[c] = Meant(job[c])
                [] job[c].op = "read" ->
                      outcome'[c] = (IF Opened(job[c].args[1][1]).ok
                                       THEN Meaning(job[c].args[1]) ELSE Nothing)
                [] job[c].op = "create" /\ job[c].t = "raw" ->
                      Opened(outcome'[c][1]) = Result(job[c].args[1])
                [] OTHER -> TRUE]_vars

PhaseOf(c) ==
    IF pc[c] = "answered" THEN "answered"
    ELSE IF pc[c] # "idle" THEN "asking"
    ELSE IF outcome[c] # Nothing THEN "served"
    ELSE "over"

Once == INSTANCE OneShot WITH
    phase <- [c \in Caller |-> PhaseOf(c)],
    at <- conn

(* A request reaches one server at most, agent or HTTP: one that an agent   *)
(* refused, or died over while the user was looking for the YubiKey, is not *)
(* asked again anywhere (cli.rs:141-221, the fallback is for None only).    *)
ImplementsOneShot == Once!Spec

(* A command with the right VT_AUTH whose SSH_AUTH_SOCK leads to an agent   *)
(* that serves asks that agent: "Trigger YubiKey touch via SSH agent        *)
(* forwarding" (README.md:131).  The name of a forwarded socket is the      *)
(* choice of sshd.                                                          *)
ForwardedAgentAsked ==
    [][\A c \in Command :
          pc[c] = "connect" /\ pc'[c] # "connect"
          /\ socket # Nobody /\ Serving(socket) => pc'[c] = "asked"]_vars

(* The HTTP server serves the client: an encryption, which needs no touch,  *)
(* with the right VT_AUTH is answered, as test_create_items has it          *)
(* (cli.rs:815-819, "Failed to create items").                              *)
HttpServesClient ==
    [][\A c \in Command :
          pc[c] = "posted" /\ pc'[c] \notin {"posted", "lost"}
          /\ job[c].op = "create" /\ job[c].token => pc'[c] = "answered"]_vars
=============================================================================
