----------------------------- MODULE RemoteProofs -----------------------------
(***************************************************************************)
(* For any sets of servers, commands and other clients, and whatever they  *)
(* ask for: variables keep their types, a request reaches one server at    *)
(* most, an agent that is alone is found at its socket, and a command ends *)
(* with the values of what it asked for.                                   *)
(***************************************************************************)
EXTENDS Remote, SecretStringsProofs

USE CallersApart, ServerAssumption, JobsAssumption

\* What TypeOK leaves open: outcomes and answers are kept for every caller.
Kept ==
    /\ results = [c \in Caller |-> results[c]]
    /\ outcome = [c \in Caller |-> outcome[c]]
    /\ job = [c \in Caller |-> job[c]]

Typed == TypeOK /\ Kept

-----------------------------------------------------------------------------
(* Types.                                                                   *)

\* Starting and ending processes, and their way to the socket and the port.
LEMMA ServerTyped ==
    ASSUME Typed, NEW v \in Server, ServerStep(v) PROVE Typed'
<1>1. CASE StartServer(v)
  BY <1>1 DEF Typed, TypeOK, Kept, StartServer, callers
<1>2. ASSUME EndServer(v) PROVE Typed'
  BY <1>2 DEF Typed, TypeOK, Kept, EndServer, Label
<1>3. CASE BindHttp(v)
  BY <1>2, <1>3 DEF Typed, TypeOK, Kept, BindHttp, callers
<1>4. CASE LoadKeys(v) \/ LookForSocket(v)
  BY <1>4 DEF Typed, TypeOK, Kept, LoadKeys, LookForSocket, AgentTo, callers
<1>5. CASE RemoveSocket(v) \/ BindSocket(v) \/ SignalRemoves(v)
  BY <1>5 DEF Typed, TypeOK, Kept, RemoveSocket, BindSocket, SignalRemoves, AgentTo, callers
<1>. QED BY <1>1, <1>2, <1>3, <1>4, <1>5 DEF ServerStep

\* A command, or another client, that begins has a job and no server yet.
LEMMA BeginTyped ==
    ASSUME Typed, NEW c \in Caller, NEW j \in Jobs \cup ForeignJobs, Begin(c, j)
    PROVE  Typed'
  BY DEF Typed, TypeOK, Kept, Begin, Label, servers

\* A command that ends lets go of its server and its job.
LEMMA EndTyped ==
    ASSUME Typed, NEW c \in Caller, NEW x, End(c, x) PROVE Typed'
  BY DEF Typed, TypeOK, Kept, End, Label, servers

\* An answer comes from the server that has the request.
LEMMA AnswerTyped ==
    ASSUME Typed, NEW c \in Caller, Answer(c), pc[c] \in {"asked", "posted", "touch"}
    PROVE  Typed'
  BY DEF Typed, TypeOK, Kept, Answer, Label, servers

\* The steps of the client and of the servers' side of its request.
LEMMA CallerTyped ==
    ASSUME Typed, NEW c \in Caller, CallerStep(c) PROVE Typed'
<1>1. ASSUME Fails(c) PROVE Typed'
  BY <1>1, EndTyped DEF Fails
<1>2. CASE Connect(c)
  BY <1>1, <1>2 DEF Connect, WithoutAgent, CallerTo, Typed, TypeOK, Kept, Label, servers
<1>3. CASE Post(c)
  BY <1>1, <1>3 DEF Post, CallerTo, Typed, TypeOK, Kept, Label, servers
<1>4. CASE Lost(c)
  BY <1>1, <1>4 DEF Lost
<1>5. CASE AskAgent(c)
  BY <1>1, <1>5, AnswerTyped DEF AskAgent, CallerTo, Typed, TypeOK, Kept, Label, servers
<1>6. CASE AskHttp(c)
  BY <1>1, <1>6, AnswerTyped DEF AskHttp, CallerTo, Typed, TypeOK, Kept, Label, servers
<1>7. CASE Touch(c)
  BY <1>1, <1>7, AnswerTyped DEF Touch
<1>8. CASE TakeAnswer(c)
  BY <1>8, EndTyped DEF TakeAnswer
<1>. QED BY <1>2, <1>3, <1>4, <1>5, <1>6, <1>7, <1>8 DEF CallerStep

\* Every step keeps the types.
LEMMA StepTyped == ASSUME Typed, [Next]_vars PROVE Typed'
<1>1. ASSUME NEW c \in Caller, NEW j \in Jobs \cup ForeignJobs, Begin(c, j)
      PROVE  Typed'
  BY <1>1, BeginTyped
<1>2. CASE UNCHANGED vars
  BY <1>2 DEF Typed, TypeOK, Kept, vars, servers, callers
<1>. QED BY <1>1, <1>2, ServerTyped, CallerTyped DEF Next, Caller

\* The start has the types as well.
LEMMA InitTyped == ASSUME Init PROVE Typed
  BY DEF Init, Typed, TypeOK, Kept, Label

(* The servers, the socket and the requests keep to their types, and who    *)
(* waits for a server has one: Remote, serve.rs, cli.rs 39-221.             *)
THEOREM Typing == Spec => []TypeOK
<1>. QED BY InitTyped, StepTyped, PTL DEF Spec, Typed

-----------------------------------------------------------------------------
(* The socket.  Before it is bound an agent that is alone has nobody who    *)
(* changes what it saw at the path.                                         *)

Undisturbed ==
    \A v \in Server : alone[v] =>
        /\ v \in Running /\ Running \subseteq {v}
        /\ stage[v] # "failed"
        /\ stage[v] = "remove" => socket # Nobody
        /\ stage[v] = "bind" => socket = Nobody
        /\ stage[v] = "serving" => socket = v

\* A process that starts or ends leaves nobody alone that was not, but itself.
LEMMA ProcessUndisturbed ==
    ASSUME Typed, Undisturbed, NEW v \in Server, StartServer(v) \/ EndServer(v)
    PROVE  Undisturbed'
<1>1. CASE StartServer(v)
  BY <1>1 DEF Typed, TypeOK, Undisturbed, StartServer, Running
<1>2. CASE EndServer(v)
  BY <1>2 DEF Typed, TypeOK, Undisturbed, EndServer, Running
<1>. QED BY <1>1, <1>2

\* What an agent does to the socket disturbs no other that is alone.
LEMMA SocketUndisturbed ==
    ASSUME Typed, Undisturbed, NEW v \in Server,
           \/ LoadKeys(v) \/ LookForSocket(v) \/ RemoveSocket(v)
           \/ BindSocket(v) \/ SignalRemoves(v)
    PROVE  Undisturbed'
<1>1. v \in Running
  BY DEF Running, LoadKeys, LookForSocket, RemoveSocket, BindSocket, SignalRemoves
<1>2. UNCHANGED alone /\ Running' = Running
  BY DEF Typed, TypeOK, Running, LoadKeys, LookForSocket, RemoveSocket, BindSocket,
         SignalRemoves, AgentTo
<1>3. ASSUME NEW w \in Server, alone[w] PROVE w = v
  BY <1>1, <1>3 DEF Undisturbed
<1>4. CASE LoadKeys(v) \/ LookForSocket(v)
  BY <1>2, <1>3, <1>4 DEF Typed, TypeOK, Undisturbed, LoadKeys, LookForSocket,
     SocketExists, AgentTo
<1>5. CASE RemoveSocket(v) \/ BindSocket(v) \/ SignalRemoves(v)
  BY <1>2, <1>3, <1>5 DEF Typed, TypeOK, Undisturbed, RemoveSocket, BindSocket,
     SignalRemoves, AgentTo
<1>. QED BY <1>4, <1>5

\* Nothing else touches the socket.
LEMMA OthersUndisturbed ==
    ASSUME Undisturbed, UNCHANGED <<stage, socket, alone>> PROVE Undisturbed'
  BY DEF Undisturbed, Running

\* Callers leave the servers alone.
LEMMA CallersLeaveServers ==
    ASSUME NEW c, CallerStep(c) PROVE UNCHANGED <<stage, socket, alone>>
  BY DEF CallerStep, Connect, WithoutAgent, Post, Lost, AskAgent, AskHttp, Touch,
         TakeAnswer, Fails, End, Answer, CallerTo, servers

(* An agent that is alone gets its socket and is found at it                *)
(* (ssh_agent.rs:1065-1067, 1137, 1142-1155): run_ssh_agent_inner.          *)
THEOREM Reachability == Spec => []AloneIsReachable
<1>1. Init => Typed /\ Undisturbed
  BY InitTyped DEF Init, Undisturbed
<1>2. Typed /\ Undisturbed /\ [Next]_vars => (Typed /\ Undisturbed)'
  <2>. SUFFICES ASSUME Typed, Undisturbed, [Next]_vars PROVE Undisturbed'
    BY StepTyped
  <2>1. ASSUME NEW v \in Server, ServerStep(v) PROVE Undisturbed'
    <3>1. CASE BindHttp(v)
      BY <3>1, ProcessUndisturbed, OthersUndisturbed DEF BindHttp
    <3>. QED BY <2>1, <3>1, ProcessUndisturbed, SocketUndisturbed DEF ServerStep
  <2>2. ASSUME NEW c, NEW j, Begin(c, j) PROVE Undisturbed'
    BY <2>2, OthersUndisturbed DEF Begin, servers
  <2>3. ASSUME NEW c, CallerStep(c) PROVE Undisturbed'
    BY <2>3, CallersLeaveServers, OthersUndisturbed
  <2>4. CASE UNCHANGED vars
    BY <2>4, OthersUndisturbed DEF vars, servers
  <2>. QED BY <2>1, <2>2, <2>3, <2>4 DEF Next
<1>3. Undisturbed => AloneIsReachable
  BY DEF Undisturbed, AloneIsReachable
<1>. QED BY <1>1, <1>2, <1>3, PTL DEF Spec

-----------------------------------------------------------------------------
(* One request, one server.                                                 *)

Phases == [c \in Caller |-> PhaseOf(c)]

\* A step of the module that the abstract specification takes for one caller.
LEMMA PhasesOfOne ==
    ASSUME NEW c \in Caller,
           \A d \in Caller \ {c} : pc'[d] = pc[d] /\ outcome'[d] = outcome[d]
    PROVE  Phases' = [Phases EXCEPT ![c] = PhaseOf(c)']
  BY DEF Phases, PhaseOf

\* The beginning of a command is the abstract one.
LEMMA BeginAsks ==
    ASSUME Typed, NEW c \in Caller, NEW j, Begin(c, j) PROVE Once!Ask(c)
<1>1. Phases' = [Phases EXCEPT ![c] = "asking"]
  BY PhasesOfOne DEF Typed, TypeOK, Kept, Begin, PhaseOf
<1>2. PhaseOf(c) \in {"over", "served"} /\ UNCHANGED conn
  BY DEF Begin, PhaseOf
<1>. QED BY <1>1, <1>2 DEF Once!Ask, Phases

\* An end with an outcome is a success, one without is a failure.
LEMMA EndEnds ==
    ASSUME Typed, NEW c \in Caller, NEW x, End(c, x), pc[c] # "idle"
    PROVE  /\ x = Nothing => Once!Fail(c)
           /\ pc[c] = "answered" => Once!Succeed(c) \/ Once!Fail(c)
<1>1. Phases' = [Phases EXCEPT ![c] = IF x = Nothing THEN "over" ELSE "served"]
  BY PhasesOfOne DEF Typed, TypeOK, Kept, End, PhaseOf
<1>2. conn' = [conn EXCEPT ![c] = Nobody]
  BY DEF End
<1>3. PhaseOf(c) = IF pc[c] = "answered" THEN "answered" ELSE "asking"
  BY DEF PhaseOf
<1>. QED BY <1>1, <1>2, <1>3 DEF Once!Fail, Once!Succeed, Once!Over, Phases

\* An answer is that of the server the request was delivered to.
LEMMA AnswerAnswers ==
    ASSUME Typed, NEW c \in Caller, Answer(c), pc[c] \in {"asked", "posted", "touch"}
    PROVE  Once!Answer(c)
<1>1. Phases' = [Phases EXCEPT ![c] = "answered"]
  BY PhasesOfOne DEF Typed, TypeOK, Kept, Answer, PhaseOf
<1>2. PhaseOf(c) = "asking" /\ conn[c] # Nobody /\ UNCHANGED conn
  BY DEF Typed, TypeOK, Answer, PhaseOf
<1>. QED BY <1>1, <1>2 DEF Once!Answer, Phases

\* A caller that moves on between connect and answer shows nothing.
LEMMA AskingStutters ==
    ASSUME Typed, NEW c \in Caller, NEW label \in Label \ {"idle", "answered"},
           CallerTo(c, label), pc[c] \notin {"idle", "answered"}
    PROVE  UNCHANGED Phases
  BY DEF Typed, TypeOK, CallerTo, Phases, PhaseOf

\* A request that is sent is delivered, to a server that had it from nobody.
LEMMA SendingDelivers ==
    ASSUME Typed, NEW c \in Caller, NEW v \in Server, NEW label \in {"asked", "posted"},
           CallerTo(c, label), conn' = [conn EXCEPT ![c] = v], pc[c] \in {"connect", "post"}
    PROVE  Once!Deliver(c, v)
<1>1. UNCHANGED Phases
  BY AskingStutters DEF Label
<1>2. PhaseOf(c) = "asking" /\ conn[c] = Nobody
  BY DEF Typed, TypeOK, PhaseOf
<1>. QED BY <1>1, <1>2 DEF Once!Deliver, Phases

AbstractStep == [Once!Next]_(Once!vars)

\* Every step of a caller is a step of OneShot, or none.
LEMMA CallerImplements ==
    ASSUME Typed, NEW c \in Caller, CallerStep(c) PROVE AbstractStep
<1>1. ASSUME Fails(c), pc[c] # "idle" PROVE AbstractStep
  BY <1>1, EndEnds DEF Fails, AbstractStep, Once!Next
<1>2. ASSUME NEW label \in Label \ {"idle", "answered"}, CallerTo(c, label),
             UNCHANGED conn, pc[c] \notin {"idle", "answered"}
      PROVE  AbstractStep
  BY <1>2, AskingStutters DEF AbstractStep, Once!vars, Phases
<1>3. ASSUME Answer(c), pc[c] \in {"asked", "posted", "touch"} PROVE AbstractStep
  BY <1>3, AnswerAnswers DEF AbstractStep, Once!Next
<1>4. ASSUME NEW v \in Server, NEW label \in {"asked", "posted"}, CallerTo(c, label),
             conn' = [conn EXCEPT ![c] = v], pc[c] \in {"connect", "post"}
      PROVE  AbstractStep
  BY <1>4, SendingDelivers DEF AbstractStep, Once!Next
<1>5. CASE Connect(c)
  <2>1. socket \in Server \cup {Nobody}
    BY DEF Typed, TypeOK
  <2>. QED BY <1>1, <1>2, <1>4, <1>5, <2>1 DEF Connect, WithoutAgent, Label
<1>6. CASE Post(c)
  BY <1>1, <1>4, <1>6 DEF Post
<1>7. CASE Lost(c)
  BY <1>1, <1>7 DEF Lost
<1>8. CASE AskAgent(c)
  BY <1>1, <1>2, <1>3, <1>8 DEF AskAgent, Label
<1>9. CASE AskHttp(c)
  BY <1>1, <1>2, <1>3, <1>9 DEF AskHttp, Label
<1>10. CASE Touch(c)
  BY <1>1, <1>3, <1>10 DEF Touch
<1>11. CASE TakeAnswer(c)
  BY <1>11, EndEnds DEF TakeAnswer, AbstractStep, Once!Next
<1>. QED BY <1>5, <1>6, <1>7, <1>8, <1>9, <1>10, <1>11 DEF CallerStep

\* The servers' own steps show nowhere, not even their end.
LEMMA ServerImplements ==
    ASSUME Typed, NEW v \in Server, ServerStep(v) PROVE AbstractStep
<1>1. ASSUME UNCHANGED <<pc, outcome, conn>> PROVE AbstractStep
  BY <1>1 DEF AbstractStep, Once!vars, PhaseOf
<1>2. ASSUME EndServer(v) PROVE AbstractStep
  <2>1. \A c \in Caller : PhaseOf(c)' = PhaseOf(c)
    BY <1>2 DEF Typed, TypeOK, EndServer, PhaseOf
  <2>. QED BY <1>2, <2>1 DEF EndServer, AbstractStep, Once!vars
<1>3. CASE StartServer(v) \/ LoadKeys(v) \/ LookForSocket(v)
  BY <1>1, <1>3 DEF StartServer, LoadKeys, LookForSocket, AgentTo, callers
<1>4. CASE RemoveSocket(v) \/ BindSocket(v) \/ SignalRemoves(v)
  BY <1>1, <1>4 DEF RemoveSocket, BindSocket, SignalRemoves, AgentTo, callers
<1>5. CASE BindHttp(v)
  BY <1>1, <1>2, <1>5 DEF BindHttp, callers
<1>. QED BY <1>2, <1>3, <1>4, <1>5 DEF ServerStep

(* The client, the agents and the HTTP servers together implement OneShot   *)
(* (cli.rs:39-221): no request is asked twice, whoever dies or refuses.     *)
THEOREM Implementation == Spec => ImplementsOneShot
<1>1. Init => Once!Init
  BY DEF Init, Once!Init, PhaseOf
<1>2. Typed /\ [Next]_vars => [Once!Next]_(Once!vars)
  <2>. SUFFICES ASSUME Typed, [Next]_vars PROVE AbstractStep
    BY DEF AbstractStep
  <2>1. ASSUME NEW c \in Caller, NEW j, Begin(c, j) PROVE AbstractStep
    BY <2>1, BeginAsks DEF AbstractStep, Once!Next
  <2>2. CASE UNCHANGED vars
    BY <2>2 DEF vars, callers, AbstractStep, Once!vars, PhaseOf
  <2>. QED BY <2>1, <2>2, CallerImplements, ServerImplements DEF Next, Caller
<1>. QED BY <1>1, <1>2, InitTyped, StepTyped, PTL DEF Spec, ImplementsOneShot, Once!Spec

-----------------------------------------------------------------------------
(* What comes back.  Between the answer of a server and the command that    *)
(* takes it, the job stays what it was, and the answer is that to it.       *)

Faithful == \A c \in Caller : pc[c] = "answered" => results[c] = AnswerTo(job[c])

\* An answer that is there stays, and so does the question.
LEMMA StepFaithful ==
    ASSUME Typed, Faithful, [Next]_vars PROVE Faithful'
<1>1. ASSUME NEW c \in Caller, NEW x, End(c, x) PROVE Faithful'
  BY <1>1 DEF Typed, TypeOK, Kept, Faithful, End, AnswerTo
<1>2. ASSUME NEW c \in Caller, Answer(c) PROVE Faithful'
  BY <1>2 DEF Typed, TypeOK, Kept, Faithful, Answer, AnswerTo
<1>3. ASSUME NEW c \in Caller, NEW label \in Label \ {"answered"}, CallerTo(c, label)
      PROVE  Faithful'
  BY <1>3 DEF Typed, TypeOK, Kept, Faithful, CallerTo, AnswerTo
<1>4. ASSUME UNCHANGED <<pc, job, results>> PROVE Faithful'
  BY <1>4 DEF Faithful, AnswerTo
<1>5. ASSUME NEW v \in Server, EndServer(v) PROVE Faithful'
  BY <1>5 DEF Typed, TypeOK, Faithful, EndServer, AnswerTo
<1>6. ASSUME NEW v \in Server, ServerStep(v) PROVE Faithful'
  BY <1>4, <1>5, <1>6 DEF ServerStep, StartServer, BindHttp, LoadKeys, LookForSocket,
     RemoveSocket, BindSocket, SignalRemoves, AgentTo, callers
<1>7. ASSUME NEW c \in Caller, NEW j, Begin(c, j) PROVE Faithful'
  BY <1>7 DEF Typed, TypeOK, Kept, Faithful, Begin, AnswerTo
<1>8. ASSUME NEW c \in Caller, CallerStep(c) PROVE Faithful'
  <2>1. CASE Connect(c) \/ Post(c) \/ Lost(c)
    BY <1>1, <1>3, <2>1 DEF Connect, WithoutAgent, Post, Lost, Fails, Label
  <2>2. CASE AskAgent(c) \/ AskHttp(c) \/ Touch(c)
    BY <1>1, <1>2, <1>3, <2>2 DEF AskAgent, AskHttp, Touch, Fails, Label
  <2>3. CASE TakeAnswer(c)
    BY <1>1, <2>3 DEF TakeAnswer
  <2>. QED BY <1>8, <2>1, <2>2, <2>3 DEF CallerStep
<1>9. CASE UNCHANGED vars
  BY <1>4, <1>9 DEF vars, callers
<1>. QED BY <1>6, <1>7, <1>8, <1>9 DEF Next, Caller

\* Only the command itself ends when it has its answer, and with an outcome of it.
LEMMA EndTakesAnswer ==
    ASSUME Typed, [Next]_vars, NEW c \in Command, pc[c] = "answered", pc'[c] = "idle"
    PROVE  outcome'[c] \in Outcomes(c)
<1>0. c \in Caller
  BY DEF Caller
<1>1. ASSUME NEW d \in Caller, NEW l, pc' = [pc EXCEPT ![d] = l] PROVE d = c
  BY <1>0, <1>1 DEF Typed, TypeOK
<1>2. ASSUME NEW v \in Server, ServerStep(v) PROVE FALSE
  BY <1>0, <1>2 DEF Typed, TypeOK, ServerStep, StartServer, EndServer, BindHttp, LoadKeys,
     LookForSocket, RemoveSocket, BindSocket, SignalRemoves, AgentTo, callers
<1>3. ASSUME NEW d \in Caller, NEW j, Begin(d, j) PROVE FALSE
  BY <1>1, <1>3 DEF Begin
<1>4. ASSUME NEW d \in Caller, CallerStep(d) PROVE d = c
  BY <1>1, <1>4 DEF CallerStep, Connect, WithoutAgent, Post, Lost, AskAgent, AskHttp, Touch,
     TakeAnswer, Fails, End, Answer, CallerTo
<1>5. CASE CallerStep(c)
  <2>1. TakeAnswer(c)
    BY <1>5 DEF CallerStep, Connect, Post, Lost, AskAgent, AskHttp, Touch
  <2>2. PICK x \in Outcomes(c) : End(c, x)
    BY <2>1 DEF TakeAnswer
  <2>3. outcome'[c] = x
    BY <1>0, <2>2 DEF Typed, Kept, End
  <2>. QED BY <2>3
<1>6. ~UNCHANGED vars
  BY DEF vars, callers
<1>. QED BY <1>2, <1>3, <1>4, <1>5, <1>6 DEF Next, Caller

\* read ends with the secret of its reference, or without one.
LEMMA ReadIsMeant ==
    ASSUME NEW j, NEW r \in Reference, j.args = <<<<r>>>>
    PROVE  LET item == DoDecrypt(j.args[1])[1]
           IN  (IF item.ok THEN item.text ELSE Nothing)
                  = (IF Opened(j.args[1][1]).ok THEN Meaning(j.args[1]) ELSE Nothing)
<1>1. j.args[1] = <<r>> /\ j.args[1][1] = r
  OBVIOUS
<1>2. DoDecrypt(<<r>>)[1] = Opened(r)
  BY DEF DoDecrypt
<1>3. Meaning(<<r>>) = Value(Opened(r))
  <2>1. r \in Token /\ <<r>> \in Text
    BY IsASeq DEF Text, Token
  <2>2. Values(Reference) \in [Token -> Seq(Token)]
    BY ValuesType
  <2>3. Mapped(<<r>>, Values(Reference)) = Values(Reference)[r]
    BY <2>1, <2>2, MappedOne
  <2>4. Values(Reference)[r] = Value(Opened(r))
    BY <2>1 DEF Values
  <2>. QED BY <2>1, <2>3, <2>4, MeaningIs
<1>. QED BY <1>1, <1>2, <1>3 DEF Value

(* Whatever a command asked for, whoever answered, and whatever order a     *)
(* HashMap has: inject, read and create end with the values of their own    *)
(* references (cli.rs:467-475, 504-559, 596-632).                           *)
THEOREM EachItsOwn == Spec => OwnValues
<1>1. Init => Typed /\ Faithful
  BY InitTyped DEF Init, Faithful
<1>2. Typed /\ Faithful /\ [Next]_vars => (Typed /\ Faithful)'
  BY StepTyped, StepFaithful
<1>3. ASSUME Typed, Faithful, [Next]_vars, NEW c \in Command,
             pc[c] = "answered", pc'[c] = "idle"
      PROVE  CASE job[c].op = "inject" -> Flat(job[c]) => outcome'[c] = Meant(job[c])
               [] job[c].op = "read" ->
                     outcome'[c] = (IF Opened(job[c].args[1][1]).ok
                                      THEN Meaning(job[c].args[1]) ELSE Nothing)
               [] job[c].op = "create" /\ job[c].t = "raw" ->
                     Opened(outcome'[c][1]) = Result(job[c].args[1])
               [] OTHER -> TRUE
  <2>. DEFINE j == job[c]
  <2>1. outcome'[c] \in Outcomes(c) /\ results[c] = AnswerTo(j)
    BY <1>3, EndTakesAnswer DEF Faithful, Caller
  <2>2. j \in Jobs \cup ForeignJobs
    BY <1>3 DEF Typed, TypeOK, Caller
  <2>3. CASE j.op = "inject"
    <3>1. /\ outcome'[c] \in InjectOutcomes(j, DoDecrypt(Items(InjectTexts(j))))
          /\ j.args \in Seq(Text) /\ j.file \in Text /\ j.env \in Seq(Text)
      BY <2>1, <2>2, <2>3, ArgumentsAssumption DEF Outcomes, AnswerTo
    <3>2. Flat(j) => outcome'[c] = Meant(j)
      BY <3>1, InjectedIsMeant
    <3>. QED BY <2>3, <3>2
  <2>4. CASE j.op = "read"
    <3>1. PICK r \in Reference : j.args = <<<<r>>>>
      BY <2>2, <2>4, ArgumentsAssumption
    <3>2. outcome'[c] = LET item == DoDecrypt(j.args[1])[1]
                        IN  IF item.ok THEN item.text ELSE Nothing
      BY <2>1, <2>4 DEF Outcomes, AnswerTo
    <3>3. outcome'[c] = (IF Opened(j.args[1][1]).ok THEN Meaning(j.args[1]) ELSE Nothing)
      BY <3>1, <3>2, ReadIsMeant
    <3>. QED BY <2>4, <3>3
  <2>5. CASE j.op = "create" /\ j.t = "raw"
    <3>1. j.args[1] \in Text
      BY <2>2, <2>5, ArgumentsAssumption, LenProperties
    <3>2. outcome'[c] = <<[t |-> "raw", sealed |-> j.args[1]]>>
      BY <2>1, <2>5 DEF Outcomes, AnswerTo, Sealed, Result
    <3>3. Opened(outcome'[c][1]) = Result(j.args[1])
      <4>. DEFINE item == [t |-> "raw", sealed |-> j.args[1]]
      <4>1. outcome'[c][1] = item /\ item.t = "raw" /\ item.sealed = j.args[1]
        BY <3>2
      <4>2. j.args[1] # Spoilt
        BY <3>1, TextAssumption
      <4>. HIDE DEF item
      <4>. QED BY <4>1, <4>2 DEF Opened
    <3>. QED BY <2>5, <3>3
  <2>. QED BY <2>3, <2>4, <2>5
<1>4. Typed /\ Faithful /\ [Next]_vars =>
        [\A c \in Command :
          pc[c] = "answered" /\ pc'[c] = "idle" =>
              CASE job[c].op = "inject" -> Flat(job[c]) => outcome'[c] = Meant(job[c])
                [] job[c].op = "read" ->
                      outcome'[c] = (IF Opened(job[c].args[1][1]).ok
                                       THEN Meaning(job[c].args[1]) ELSE Nothing)
                [] job[c].op = "create" /\ job[c].t = "raw" ->
                      Opened(outcome'[c][1]) = Result(job[c].args[1])
                [] OTHER -> TRUE]_vars
  BY <1>3
<1>. QED BY <1>1, <1>2, <1>4, PTL DEF Spec, OwnValues
=============================================================================
