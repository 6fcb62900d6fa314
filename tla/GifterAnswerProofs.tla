------------------------- MODULE GifterAnswerProofs -------------------------
(***************************************************************************)
(* Proofs about GifterServer: what a client is told is true, what is       *)
(* registered was allowed, and what the consumed-nullifier store gives     *)
(* back after a restart.                                                   *)
(***************************************************************************)
EXTENDS GifterServerProofs

-----------------------------------------------------------------------------
(***************************************************************************)
(* Streams and their handlers                                              *)
(***************************************************************************)

\* A worker has a response between its decision and the end of the stream, and a
\* stream has one once it is released.
ResponsesHeld ==
    /\ \A w \in Workers : out[w] # {} => pc[w] \in {"persist", "newline", "respond"}
    /\ \A s \in Streams :
          stream[s].st \in {"unused", "queued", "accepted"} => stream[s].resp = {}

\* OneHandler and ResponsesHeld hold whatever the faults.
Handling == OneHandler /\ ResponsesHeld

\* The steps of serve keep Handling.
LEMMA HandlingServe ==
    ASSUME TypeOK, Handling, NEW k \in Callers, ServeStep(k)
    PROVE  Handling'
<1>1. /\ UNCHANGED <<sid, out, stream, call>>
      /\ \A w \in Workers : pc'[w] = pc[w] \/ (pc[w] = "off" /\ pc'[w] = "accept")
  BY DEF ServeStep, ServeMerge, ServePublish, ServeSwap, MountFails, MountOk, TypeOK,
         workerVars, chainVars
<1>2. OneHandler'
  BY <1>1 DEF Handling, OneHandler
<1>3. ResponsesHeld'
  BY <1>1 DEF Handling, ResponsesHeld
<1> QED BY <1>2, <1>3 DEF Handling

\* What a step of liblogos_lez_rln_module or of the chain does to the calls.
LEMMA ChainCalls ==
    ASSUME TypeOK, ChainStep
    PROVE  /\ UNCHANGED <<serveVars, consumed, workerVars, stream, storeVars>>
           /\ \A t \in Streams :
                 /\ call'[t].by = call[t].by /\ call'[t].config = call[t].config
                 /\ call'[t].rate = call[t].rate
                 /\ \/ call'[t].st = call[t].st
                    \/ call[t].st = "sent" /\ call'[t].st \in {"rejected", "moot", "pending"}
                    \/ call[t].st = "pending" /\ call'[t].st \in {"landed", "void"}
<1>1. PICK s \in Streams :
         \/ LezRejects(s)
         \/ \E a \in Accounts : LezAccepts(s, a)
         \/ \E a \in Accounts, m \in Requests, idc \in Commitments : Lands(s, a, m, idc)
  BY DEF ChainStep
<1>2. UNCHANGED <<serveVars, consumed, workerVars, stream, storeVars>>
  BY <1>1 DEF LezRejects, LezAccepts, Lands
<1>3. \/ /\ call[s].st = "sent"
         /\ \E st \in {"rejected", "moot", "pending"} : call' = [call EXCEPT ![s].st = st]
      \/ /\ call[s].st = "pending"
         /\ \E st \in {"landed", "void"} : call' = [call EXCEPT ![s].st = st]
  BY <1>1 DEF LezRejects, LezAccepts, Lands
<1>4. \A t \in Streams :
         /\ call'[t].by = call[t].by /\ call'[t].config = call[t].config
         /\ call'[t].rate = call[t].rate
         /\ \/ call'[t].st = call[t].st
            \/ call[t].st = "sent" /\ call'[t].st \in {"rejected", "moot", "pending"}
            \/ call[t].st = "pending" /\ call'[t].st \in {"landed", "void"}
  BY <1>3 DEF TypeOK, CallRecord
<1> QED BY <1>2, <1>4

\* The steps of the chain keep Handling.
LEMMA HandlingChain ==
    ASSUME TypeOK, Handling, ChainStep
    PROVE  Handling'
<1>1. UNCHANGED <<pc, sid, out, stream>>
  BY ChainCalls DEF workerVars
<1>2. \A t \in Streams : call[t].st = "none" => call'[t].st = "none"
  BY ChainCalls
<1>3. OneHandler'
  BY <1>1, <1>2 DEF Handling, OneHandler
<1>4. ResponsesHeld'
  BY <1>1 DEF Handling, ResponsesHeld
<1> QED BY <1>3, <1>4 DEF Handling

\* The steps of the clients keep Handling.
LEMMA HandlingClient ==
    ASSUME TypeOK, Handling, ClientStep
    PROVE  Handling'
<1>1. PICK s \in Streams, m \in Option(Requests) : ClientOpens(s, m)
  BY DEF ClientStep
<1>2. /\ UNCHANGED <<pc, sid, out, call>>
      /\ stream[s].st = "unused" /\ stream'[s].st = "queued" /\ stream'[s].resp = stream[s].resp
      /\ \A t \in Streams : t # s => stream'[t] = stream[t]
  BY <1>1 DEF ClientOpens, TypeOK, StreamRecord, workerVars, chainVars
<1>3. OneHandler'
  BY <1>2 DEF Handling, OneHandler
<1>4. ResponsesHeld'
  BY <1>2 DEF Handling, ResponsesHeld
<1> QED BY <1>3, <1>4 DEF Handling

\* A crash keeps Handling.
LEMMA HandlingCrash ==
    ASSUME TypeOK, Handling, Crash
    PROVE  Handling'
<1>1. /\ \A w \in Workers : sid'[w] = {} /\ out'[w] = {}
      /\ call' = call
      /\ \A s \in Streams : /\ stream'[s].resp = stream[s].resp
                            /\ \/ stream'[s].st = stream[s].st /\ stream[s].st \notin {"queued", "accepted"}
                               \/ stream'[s].st = "broken"
  BY DEF Crash, TypeOK, StreamRecord, chainVars
<1>2. OneHandler'
  BY <1>1 DEF Handling, OneHandler
<1>3. ResponsesHeld'
  BY <1>1 DEF Handling, ResponsesHeld
<1> QED BY <1>2, <1>3 DEF Handling

\* The steps of a worker inside of handle_request, up to the last one.
LEMMA HandlingMoves ==
    ASSUME TypeOK, Handling, NEW w \in Workers,
           UNCHANGED <<sid, stream>>,
           \A v \in Workers : v # w => pc'[v] = pc[v] /\ out'[v] = out[v],
           pc'[w] \in {"read", "verify", "register"} => pc[w] \in {"read", "verify", "register"},
           out'[w] # {} => pc'[w] \in {"persist", "newline", "respond"},
           \A s \in Streams : call'[s] = call[s] \/ (sid[w] = {s} /\ pc'[w] = "registering")
    PROVE  Handling'
<1>1. OneHandler'
  BY DEF Handling, OneHandler
<1>2. ResponsesHeld'
  BY DEF Handling, ResponsesHeld
<1> QED BY <1>1, <1>2 DEF Handling

\* What the worker does to its streams keeps Handling.
LEMMA HandlingStreams ==
    ASSUME TypeOK, Handling, NEW w \in Workers, NEW s \in Streams,
           Accept(w, s) \/ AcceptLost(w, s) \/ ReadFails(w, s) \/ Respond(w, s)
    PROVE  Handling'
<1> USE DEF workerVars, chainVars
<1>1. /\ call' = call
      /\ \A v \in Workers : v # w => pc'[v] = pc[v] /\ sid'[v] = sid[v] /\ out'[v] = out[v]
      /\ \A t \in Streams : t # s => stream'[t] = stream[t]
  BY DEF Accept, AcceptLost, ReadFails, Respond, At, TypeOK, StreamRecord
<1>2. CASE Accept(w, s)
  <2>1. /\ sid'[w] = {s} /\ pc[w] = "accept" /\ pc'[w] = "read" /\ out'[w] = out[w]
        /\ stream[s].st = "queued" /\ stream'[s].st = "accepted"
        /\ stream'[s].resp = stream[s].resp
    BY <1>2 DEF Accept, TypeOK, StreamRecord
  <2>2. \A v \in Workers : sid[v] # {s}
    BY <2>1 DEF Handling, OneHandler
  <2>3. OneHandler'
    BY <1>1, <2>1, <2>2 DEF Handling, OneHandler
  <2>4. ResponsesHeld'
    BY <1>1, <2>1 DEF Handling, ResponsesHeld
  <2> QED BY <2>3, <2>4 DEF Handling
<1>3. CASE AcceptLost(w, s)
  <2>1. /\ UNCHANGED <<sid, pc, out>>
        /\ stream[s].st = "queued" /\ stream'[s].st = "abandoned"
    BY <1>3 DEF AcceptLost, TypeOK, StreamRecord
  <2>2. OneHandler'
    BY <1>1, <2>1 DEF Handling, OneHandler
  <2>3. ResponsesHeld'
    BY <1>1, <2>1 DEF Handling, ResponsesHeld
  <2> QED BY <2>2, <2>3 DEF Handling
<1>4. CASE ReadFails(w, s) \/ Respond(w, s)
  <2>1. /\ sid[w] = {s} /\ sid'[w] = {} /\ pc'[w] = "accept" /\ out'[w] = {}
        /\ stream'[s].st \in {"abandoned", "released"}
    <3>1. CASE ReadFails(w, s)
      <4>1. pc[w] = "read" /\ out' = out
        BY <3>1 DEF ReadFails, At
      <4>2. out[w] = {}
        BY <4>1 DEF Handling, ResponsesHeld
      <4> QED BY <3>1, <4>1, <4>2 DEF ReadFails, At, TypeOK, StreamRecord
    <3>2. CASE Respond(w, s)
      <4>1. stream'[s].st = "released"
        BY <3>2 DEF Respond, TypeOK, StreamRecord
      <4> QED BY <3>2, <4>1 DEF Respond, At, TypeOK
    <3> QED BY <1>4, <3>1, <3>2
  <2>2. OneHandler'
    BY <1>1, <2>1 DEF Handling, OneHandler
  <2>3. ResponsesHeld'
    BY <1>1, <2>1 DEF Handling, ResponsesHeld
  <2> QED BY <2>2, <2>3 DEF Handling
<1> QED BY <1>2, <1>3, <1>4

\* The steps of the worker keep Handling.
LEMMA HandlingWorker ==
    ASSUME TypeOK, Handling, NEW w \in Workers, WorkerStep(w)
    PROVE  Handling'
<1> USE DEF TypeOK, At, workerVars, chainVars
<1>0. \A v \in Workers : out[v] # {} => pc[v] \in {"persist", "newline", "respond"}
  BY DEF Handling, ResponsesHeld
<1>1. ASSUME NEW s \in Streams, Refuse(w, s) \/ VerifyRefuses(w, s) PROVE Handling'
  BY <1>1, HandlingMoves DEF Refuse, VerifyRefuses, Answer
<1>2. ASSUME NEW s \in Streams,
             DispatchFails(w, s) \/ RegisterFails(w, s) \/ RegisterTimeout(w, s)
      PROVE  Handling'
  BY <1>2, HandlingMoves DEF DispatchFails, RegisterFails, RegisterTimeout, NotSubmitted, Answer
<1>3. ASSUME NEW s \in Streams, RegisterReply(w, s) \/ ConfirmTimeout(w, s) PROVE Handling'
  BY <1>0, <1>3, HandlingMoves DEF RegisterReply, ConfirmTimeout, Settle
<1>4. ASSUME NEW s \in Streams, PersistSkipped(w, s) PROVE Handling'
  BY <1>4, HandlingMoves DEF PersistSkipped
<1>5. ASSUME NEW s \in Streams, NEW m \in Requests,
             \/ VerifyWithoutNullifier(w, s, m) \/ RefuseMalformed(w, s, m)
             \/ RefuseUsed(w, s, m) \/ Reserve(w, s, m)
      PROVE  Handling'
  BY <1>0, <1>5, HandlingMoves DEF VerifyWithoutNullifier, RefuseMalformed, RefuseUsed, Reserve, Answer
<1>6. ASSUME NEW s \in Streams, NEW m \in Requests, NEW c \in Configs, TakeConfig(w, s, c, m)
      PROVE  Handling'
  BY <1>0, <1>6, HandlingMoves DEF TakeConfig
<1>7. ASSUME NEW s \in Streams, NEW m \in Requests, NEW c \in Configs, StartRegister(w, s, m, c)
      PROVE  Handling'
  BY <1>0, <1>7, HandlingMoves DEF StartRegister
<1>8. ASSUME NEW s \in Streams, NEW m \in Requests, NEW c \in Configs, Confirm(w, s, m, c)
      PROVE  Handling'
  BY <1>8, HandlingMoves DEF Confirm, Settle
<1>9. ASSUME NEW s \in Streams, NEW c \in Configs, NEW p \in Paths,
             PersistNewline(w, s, c, p) \/ \E key \in held[w] : Persist(w, s, c, p, key)
      PROVE  Handling'
  BY <1>9, HandlingMoves DEF PersistNewline, Persist
<1> QED
  BY <1>1, <1>2, <1>3, <1>4, <1>5, <1>6, <1>7, <1>8, <1>9, HandlingStreams DEF WorkerStep

\* Handling holds at first.
LEMMA HandlingInit == Init => Handling
  BY DEF Init, Handling, OneHandler, ResponsesHeld, NoCall

\* Every step keeps Handling.
LEMMA HandlingStep == TypeOK /\ Handling /\ [Next]_vars => Handling'
<1> SUFFICES ASSUME TypeOK, Handling, [Next]_vars PROVE Handling'
  OBVIOUS
<1>1. CASE UNCHANGED vars
  BY <1>1 DEF vars, workerVars, chainVars, Handling, OneHandler, ResponsesHeld
<1> QED BY <1>1, HandlingServe, HandlingWorker, HandlingChain, HandlingCrash, HandlingClient
        DEF Next, ServerStep

-----------------------------------------------------------------------------
(***************************************************************************)
(* Where answers come from                                                 *)
(***************************************************************************)

\* What a stream was given, member by member.
LEMMA GivenMembers ==
    ASSUME NEW s
    PROVE  /\ \A r : r \in Given(s) <=>
                 r \in stream[s].resp \/ \E w \in Workers : sid[w] = {s} /\ r \in out[w]
           /\ \A r : r \in Given(s)' <=>
                 r \in stream'[s].resp \/ \E w \in Workers : sid'[w] = {s} /\ r \in out'[w]
  BY DEF Given

\* An answer goes to a stream that the worker has taken.
LEMMA AnsweredIsTaken ==
    ASSUME Handling, NEW s \in Streams, Given(s) # {}
    PROVE  stream[s].st \notin {"unused", "queued"}
<1>1. PICK r : r \in Given(s)
  OBVIOUS
<1>2. CASE r \in stream[s].resp
  BY <1>2 DEF Handling, ResponsesHeld
<1>3. ASSUME NEW w \in Workers, sid[w] = {s} PROVE stream[s].st \notin {"unused", "queued"}
  BY <1>3 DEF Handling, OneHandler
<1> QED BY <1>1, <1>2, <1>3, GivenMembers

\* Worker w leaves handle_request, or the registration, with response r to stream s.
Decides(w, s, r) ==
    /\ sid[w] = {s} /\ out'[w] = {r}
    /\ \/ Refuse(w, s) \/ VerifyRefuses(w, s)
       \/ DispatchFails(w, s) \/ RegisterFails(w, s) \/ RegisterTimeout(w, s)
       \/ ConfirmTimeout(w, s)
       \/ \E m \in Requests : RefuseMalformed(w, s, m) \/ RefuseUsed(w, s, m)
       \/ \E m \in Requests, c \in Configs : Confirm(w, s, m, c)

\* A decision is about the stream that the worker handles.
LEMMA DecisionAnswers ==
    ASSUME TypeOK, NEW w \in Workers, NEW t \in Streams,
           \/ Refuse(w, t) \/ VerifyRefuses(w, t)
           \/ DispatchFails(w, t) \/ RegisterFails(w, t) \/ RegisterTimeout(w, t)
           \/ ConfirmTimeout(w, t)
           \/ \E m \in Requests : RefuseMalformed(w, t, m) \/ RefuseUsed(w, t, m)
           \/ \E m \in Requests, c \in Configs : Confirm(w, t, m, c)
    PROVE  /\ UNCHANGED <<sid, stream>> /\ sid[w] = {t}
           /\ \A v \in Workers : v # w => out'[v] = out[v]
           /\ \E r : out'[w] = {r} /\ Decides(w, t, r)
<1> USE DEF At
<1>1. UNCHANGED <<sid, stream>> /\ sid[w] = {t}
  BY DEF Refuse, VerifyRefuses, DispatchFails, RegisterFails, RegisterTimeout, ConfirmTimeout,
         RefuseMalformed, RefuseUsed, Confirm
<1>2. \E r : out' = [out EXCEPT ![w] = {r}]
  BY DEF Refuse, VerifyRefuses, DispatchFails, RegisterFails, RegisterTimeout, ConfirmTimeout,
         RefuseMalformed, RefuseUsed, Confirm, Answer, NotSubmitted, Settle
<1>3. PICK r : out' = [out EXCEPT ![w] = {r}]
  BY <1>2
<1>4. out'[w] = {r} /\ \A v \in Workers : v # w => out'[v] = out[v]
  BY <1>3 DEF TypeOK
<1>5. Decides(w, t, r)
  BY <1>1, <1>4 DEF Decides
<1> QED BY <1>1, <1>4, <1>5

\* What the worker answers in each of its steps.
LEMMA AnswersWorker ==
    ASSUME TypeOK, Handling, NEW w \in Workers, WorkerStep(w), NEW s \in Streams
    PROVE  /\ stream'[s].msg = stream[s].msg
           /\ \A r \in Given(s)' : r \in Given(s) \/ Decides(w, s, r)
<1> USE DEF TypeOK, At, workerVars
<1> DEFINE Goal == /\ stream'[s].msg = stream[s].msg
                   /\ \A r \in Given(s)' : r \in Given(s) \/ Decides(w, s, r)
<1>0. \A v \in Workers : out[v] # {} => pc[v] \in {"persist", "newline", "respond"}
  BY DEF Handling, ResponsesHeld
<1>a. ASSUME NEW t \in Streams,
             \/ Refuse(w, t) \/ VerifyRefuses(w, t)
             \/ DispatchFails(w, t) \/ RegisterFails(w, t) \/ RegisterTimeout(w, t)
             \/ ConfirmTimeout(w, t)
             \/ \E m \in Requests : RefuseMalformed(w, t, m) \/ RefuseUsed(w, t, m)
             \/ \E m \in Requests, c \in Configs : Confirm(w, t, m, c)
      PROVE  Goal
  <2>1. /\ UNCHANGED <<sid, stream>> /\ sid[w] = {t}
        /\ \A v \in Workers : v # w => out'[v] = out[v]
    BY <1>a, DecisionAnswers
  <2>2. PICK d : out'[w] = {d} /\ Decides(w, t, d)
    BY <1>a, DecisionAnswers
  <2>3. ASSUME NEW r \in Given(s)' PROVE r \in Given(s) \/ Decides(w, s, r)
    <3>1. CASE r \in stream'[s].resp
      BY <2>1, <3>1, GivenMembers
    <3>2. ASSUME NEW v \in Workers, sid'[v] = {s}, r \in out'[v] PROVE r \in Given(s) \/ Decides(w, s, r)
      <4>1. CASE v = w
        BY <2>1, <2>2, <3>2, <4>1
      <4>2. CASE v # w
        BY <2>1, <3>2, <4>2, GivenMembers
      <4> QED BY <4>1, <4>2
    <3> QED BY <2>3, <3>1, <3>2, GivenMembers
  <2> QED BY <2>1, <2>3
<1>b. ASSUME UNCHANGED <<sid, out, stream>> PROVE Goal
  BY <1>b, GivenMembers
<1>c. ASSUME NEW t \in Streams, Accept(w, t) \/ AcceptLost(w, t) \/ ReadFails(w, t) PROVE Goal
  <2>1. /\ \A u \in Streams : stream'[u].msg = stream[u].msg /\ stream'[u].resp = stream[u].resp
        /\ \A v \in Workers : v # w => sid'[v] = sid[v]
        /\ out' = out
    <3>1. /\ \A v \in Workers : v # w => sid'[v] = sid[v]
          /\ out' = out
      BY <1>c DEF Accept, AcceptLost, ReadFails
    <3>2. \E st \in {"accepted", "abandoned"} : stream' = [stream EXCEPT ![t].st = st]
      BY <1>c DEF Accept, AcceptLost, ReadFails
    <3>3. \A u \in Streams : stream'[u].msg = stream[u].msg /\ stream'[u].resp = stream[u].resp
      BY <3>2 DEF StreamRecord
    <3> QED BY <3>1, <3>3
  <2>2. out[w] = {}
    BY <1>0, <1>c DEF Accept, AcceptLost, ReadFails
  <2>3. \A v \in Workers : \A r \in out[v] : sid'[v] = sid[v]
    BY <2>1, <2>2
  <2> QED BY <2>1, <2>3, GivenMembers
<1>d. ASSUME NEW t \in Streams, Respond(w, t) PROVE Goal
  <2>1. /\ \A u \in Streams : stream'[u].msg = stream[u].msg
        /\ \A u \in Streams : u # t => stream'[u].resp = stream[u].resp
        /\ stream'[t].resp \subseteq out[w] /\ sid[w] = {t}
        /\ \A v \in Workers : v # w => sid'[v] = sid[v] /\ out'[v] = out[v]
        /\ out'[w] = {}
    BY <1>d DEF Respond, StreamRecord
  <2>2. ASSUME NEW r \in Given(s)' PROVE r \in Given(s)
    <3>1. CASE r \in stream'[s].resp
      BY <2>1, <3>1, GivenMembers
    <3>2. ASSUME NEW v \in Workers, sid'[v] = {s}, r \in out'[v] PROVE r \in Given(s)
      BY <2>1, <3>2, GivenMembers
    <3> QED BY <2>2, <3>1, <3>2, GivenMembers
  <2> QED BY <2>1, <2>2
<1> HIDE DEF Goal
<1>1. ASSUME NEW t \in Streams, RegisterReply(w, t) \/ PersistSkipped(w, t) PROVE Goal
  BY <1>b, <1>1 DEF RegisterReply, PersistSkipped
<1>2. ASSUME NEW t \in Streams, NEW m \in Requests,
             VerifyWithoutNullifier(w, t, m) \/ Reserve(w, t, m)
      PROVE  Goal
  BY <1>b, <1>2 DEF VerifyWithoutNullifier, Reserve
<1>3. ASSUME NEW t \in Streams, NEW m \in Requests, NEW c \in Configs,
             TakeConfig(w, t, c, m) \/ StartRegister(w, t, m, c)
      PROVE  Goal
  BY <1>b, <1>3 DEF TakeConfig, StartRegister
<1>4. ASSUME NEW t \in Streams, NEW c \in Configs, NEW p \in Paths,
             PersistNewline(w, t, c, p) \/ \E key \in held[w] : Persist(w, t, c, p, key)
      PROVE  Goal
  BY <1>b, <1>4 DEF PersistNewline, Persist
<1>5. Goal
  BY <1>a, <1>c, <1>d, <1>1, <1>2, <1>3, <1>4 DEF WorkerStep
<1> QED BY <1>5 DEF Goal

\* An answer that stream s has after a step is an old one or a worker's decision,
\* and it answers the request that the stream had before.
LEMMA AnswersStep ==
    ASSUME TypeOK, Handling, [Next]_vars, NEW s \in Streams, NEW r \in Given(s)'
    PROVE  /\ stream'[s].msg = stream[s].msg
           /\ r \in Given(s) \/ \E w \in Workers : WorkerStep(w) /\ Decides(w, s, r)
<1>1. ASSUME UNCHANGED <<sid, out, stream>>
      PROVE  stream'[s].msg = stream[s].msg /\ r \in Given(s)
  BY <1>1, GivenMembers
<1>2. ASSUME NEW k \in Callers, ServeStep(k)
      PROVE  stream'[s].msg = stream[s].msg /\ r \in Given(s)
  BY <1>1, <1>2 DEF ServeStep, ServeMerge, ServePublish, ServeSwap, MountFails, MountOk, workerVars
<1>3. CASE ChainStep
  BY <1>1, <1>3, ChainCalls DEF workerVars
<1>4. CASE Crash
  <2>1. stream'[s].msg = stream[s].msg /\ stream'[s].resp = stream[s].resp
    BY <1>4 DEF Crash, TypeOK, StreamRecord
  <2>2. \A w \in Workers : out'[w] = {}
    BY <1>4 DEF Crash
  <2> QED BY <2>1, <2>2, GivenMembers
<1>5. CASE ClientStep
  <2>1. PICK t \in Streams, m \in Option(Requests) : ClientOpens(t, m)
    BY <1>5 DEF ClientStep
  <2>2. /\ UNCHANGED <<sid, out>> /\ stream[t].st = "unused"
        /\ \A u \in Streams : stream'[u].resp = stream[u].resp
        /\ \A u \in Streams : u # t => stream'[u] = stream[u]
    <3>1. /\ UNCHANGED <<sid, out>> /\ stream[t].st = "unused"
          /\ stream' = [stream EXCEPT ![t].st = "queued", ![t].msg = m]
      BY <2>1 DEF ClientOpens, workerVars
    <3>2. \A u \in Streams : stream'[u].resp = stream[u].resp
      BY <3>1 DEF TypeOK, StreamRecord
    <3>3. \A u \in Streams : u # t => stream'[u] = stream[u]
      BY <3>1 DEF TypeOK
    <3> QED BY <3>1, <3>2, <3>3
  <2>3. r \in Given(s)
    BY <2>2, GivenMembers
  <2>4. s # t
    BY <2>2, <2>3, AnsweredIsTaken
  <2> QED BY <2>2, <2>3, <2>4
<1>6. CASE UNCHANGED vars
  BY <1>1, <1>6 DEF vars, workerVars
<1> QED BY <1>2, <1>3, <1>4, <1>5, <1>6, AnswersWorker DEF Next, ServerStep

\* A worker's step makes no call, but for StartRegister, and changes no registry.
LEMMA WorkerCalls ==
    ASSUME NEW w \in Workers, WorkerStep(w)
    PROVE  /\ registry' = registry
           /\ \/ call' = call
              \/ \E s \in Streams, m \in Requests, c \in Configs : StartRegister(w, s, m, c)
<1> USE DEF chainVars
<1>1. ASSUME NEW s \in Streams,
             \/ Accept(w, s) \/ AcceptLost(w, s) \/ ReadFails(w, s) \/ Refuse(w, s)
             \/ VerifyRefuses(w, s) \/ RegisterReply(w, s) \/ ConfirmTimeout(w, s)
             \/ PersistSkipped(w, s) \/ Respond(w, s)
      PROVE  UNCHANGED <<call, registry>>
  BY <1>1 DEF Accept, AcceptLost, ReadFails, Refuse, VerifyRefuses, RegisterReply, ConfirmTimeout,
              PersistSkipped, Respond
<1>2. ASSUME NEW s \in Streams, DispatchFails(w, s) \/ RegisterFails(w, s) \/ RegisterTimeout(w, s)
      PROVE  UNCHANGED <<call, registry>>
  BY <1>2 DEF DispatchFails, RegisterFails, RegisterTimeout
<1>3. ASSUME NEW s \in Streams, NEW m \in Requests,
             \/ VerifyWithoutNullifier(w, s, m) \/ RefuseMalformed(w, s, m)
             \/ RefuseUsed(w, s, m) \/ Reserve(w, s, m)
      PROVE  UNCHANGED <<call, registry>>
  BY <1>3 DEF VerifyWithoutNullifier, RefuseMalformed, RefuseUsed, Reserve
<1>4. ASSUME NEW s \in Streams, NEW m \in Requests, NEW c \in Configs,
             TakeConfig(w, s, c, m) \/ Confirm(w, s, m, c)
      PROVE  UNCHANGED <<call, registry>>
  BY <1>4 DEF TakeConfig, Confirm
<1>5. ASSUME NEW s \in Streams, NEW m \in Requests, NEW c \in Configs, StartRegister(w, s, m, c)
      PROVE  registry' = registry
  BY <1>5 DEF StartRegister
<1>6. ASSUME NEW s \in Streams, NEW c \in Configs, NEW p \in Paths,
             PersistNewline(w, s, c, p) \/ \E key \in held[w] : Persist(w, s, c, p, key)
      PROVE  UNCHANGED <<call, registry>>
  BY <1>6 DEF PersistNewline, Persist
<1> QED BY <1>1, <1>2, <1>3, <1>4, <1>5, <1>6 DEF WorkerStep

\* No call is made for a stream that has an answer.
LEMMA AnswerIsLast ==
    ASSUME TypeOK, Handling, [Next]_vars, NEW s \in Streams, Given(s) # {}
    PROVE  /\ call[s].st = "none" => call'[s].st = "none"
           /\ call[s].st = "rejected" => call'[s].st = "rejected"
<1>1. ASSUME NEW w \in Workers, sid[w] = {s} PROVE pc[w] # "register"
  <2>1. PICK r : r \in Given(s)
    OBVIOUS
  <2>2. stream[s].resp = {}
    BY <1>1 DEF Handling, OneHandler, ResponsesHeld
  <2>3. out[w] # {}
    BY <1>1, <2>1, <2>2, GivenMembers DEF Handling, OneHandler
  <2> QED BY <2>3 DEF Handling, ResponsesHeld
<1>2. CASE call' = call
  BY <1>2
<1>3. ASSUME NEW w \in Workers, WorkerStep(w) PROVE call'[s] = call[s]
  <2>1. CASE call' = call
    BY <2>1
  <2>2. ASSUME NEW t \in Streams, NEW m \in Requests, NEW c \in Configs, StartRegister(w, t, m, c)
        PROVE  call'[s] = call[s]
    <3>1. t # s
      BY <1>1, <2>2 DEF StartRegister, At
    <3> QED BY <2>2, <3>1 DEF StartRegister, TypeOK
  <2> QED BY <1>3, <2>1, <2>2, WorkerCalls
<1>4. CASE ChainStep
  BY <1>4, ChainCalls
<1>5. ASSUME NEW k \in Callers, ServeStep(k) PROVE call' = call
  BY <1>5 DEF ServeStep, ServeMerge, ServePublish, ServeSwap, MountFails, MountOk, chainVars
<1>6. CASE Crash \/ ClientStep \/ UNCHANGED vars
  BY <1>2, <1>6 DEF Crash, ClientStep, ClientOpens, vars, chainVars
<1> QED BY <1>2, <1>3, <1>4, <1>5, <1>6 DEF Next, ServerStep

\* The reason that a decision gives.
LEMMA DecisionKinds ==
    ASSUME TypeOK, NEW w \in Workers, NEW s \in Streams, NEW r, Decides(w, s, r)
    PROVE  \/ Refuse(w, s) /\ r.reason = Screen(stream[s].msg, server) /\ r.success = {}
           \/ /\ VerifyRefuses(w, s)
              /\ r.reason = "verifier" /\ r.auth_success = FALSE /\ r.success = {}
           \/ /\ DispatchFails(w, s) \/ RegisterFails(w, s) \/ RegisterTimeout(w, s)
              /\ r.reason = "not_submitted" /\ r.auth_success = TRUE /\ r.success = {}
           \/ /\ ConfirmTimeout(w, s)
              /\ r.reason = "unconfirmed" /\ r.auth_success = TRUE /\ r.success = {}
           \/ /\ \E m \in Requests : RefuseMalformed(w, s, m)
              /\ r.reason = "malformed" /\ r.auth_success = FALSE /\ r.success = {}
           \/ /\ \E m \in Requests : RefuseUsed(w, s, m)
              /\ r.reason = "used" /\ r.auth_success = FALSE /\ r.success = {}
           \/ /\ \E m \in Requests, c \in Configs : \E leaf \in confirmed_leaf(c, m) :
                    /\ Confirm(w, s, m, c)
                    /\ r.success = {[config |-> c.config, leaf_index |-> leaf]}
              /\ r.reason = "granted" /\ r.auth_success = TRUE
<1>1. out'[w] = {r} /\ out \in [Workers -> Option(Response)]
  BY DEF Decides, TypeOK
<1>2. ASSUME NEW x, out' = [out EXCEPT ![w] = {x}] PROVE r = x
  BY <1>1, <1>2
<1>3. CASE Refuse(w, s)
  <2> DEFINE why == Screen(stream[s].msg, server)
             free == why \in {"length", "unconfigured"}
  <2>1. r = failure_response(free, why)
    BY <1>2, <1>3 DEF Refuse, Answer
  <2> HIDE DEF why, free
  <2>2. r.reason = why /\ r.success = {}
    BY <2>1 DEF failure_response
  <2> QED BY <1>3, <2>2 DEF why
<1>4. CASE VerifyRefuses(w, s)
  <2>1. r = failure_response(FALSE, "verifier")
    BY <1>2, <1>4 DEF VerifyRefuses, Answer
  <2>2. r.reason = "verifier" /\ r.auth_success = FALSE /\ r.success = {}
    BY <2>1 DEF failure_response
  <2> QED BY <1>4, <2>2
<1>5. CASE DispatchFails(w, s) \/ RegisterFails(w, s) \/ RegisterTimeout(w, s)
  <2>1. r = failure_response(TRUE, "not_submitted")
    BY <1>2, <1>5 DEF DispatchFails, RegisterFails, RegisterTimeout, NotSubmitted, Answer
  <2>2. r.reason = "not_submitted" /\ r.auth_success = TRUE /\ r.success = {}
    BY <2>1 DEF failure_response
  <2> QED BY <1>5, <2>2
<1>6. CASE ConfirmTimeout(w, s)
  <2>1. r = failure_response(TRUE, "unconfirmed")
    BY <1>2, <1>6 DEF ConfirmTimeout, Settle
  <2>2. r.reason = "unconfirmed" /\ r.auth_success = TRUE /\ r.success = {}
    BY <2>1 DEF failure_response
  <2> QED BY <1>6, <2>2
<1>7. CASE \E m \in Requests : RefuseMalformed(w, s, m)
  <2>1. r = failure_response(FALSE, "malformed")
    BY <1>2, <1>7 DEF RefuseMalformed, Answer
  <2>2. r.reason = "malformed" /\ r.auth_success = FALSE /\ r.success = {}
    BY <2>1 DEF failure_response
  <2> QED BY <1>7, <2>2
<1>8. CASE \E m \in Requests : RefuseUsed(w, s, m)
  <2>1. r = failure_response(FALSE, "used")
    BY <1>2, <1>8 DEF RefuseUsed, Answer
  <2>2. r.reason = "used" /\ r.auth_success = FALSE /\ r.success = {}
    BY <2>1 DEF failure_response
  <2> QED BY <1>8, <2>2
<1>9. CASE \E m \in Requests, c \in Configs : Confirm(w, s, m, c)
  <2>1. PICK m \in Requests, c \in Configs : Confirm(w, s, m, c)
    BY <1>9
  <2>2. PICK leaf \in confirmed_leaf(c, m) :
           r = [auth_success |-> TRUE, reason |-> "granted",
                success |-> {[config |-> c.config, leaf_index |-> leaf]}]
    BY <1>2, <2>1 DEF Confirm, Settle
  <2>3. /\ r.success = {[config |-> c.config, leaf_index |-> leaf]}
        /\ r.reason = "granted" /\ r.auth_success = TRUE
    BY <2>2
  <2> QED BY <2>1, <2>3
<1> QED BY <1>3, <1>4, <1>5, <1>6, <1>7, <1>8, <1>9 DEF Decides

-----------------------------------------------------------------------------
(***************************************************************************)
(* A membership that is reported is on chain                               *)
(***************************************************************************)

\* The memberships of an account keep their leaves.
LEMMA RegistryGrows ==
    ASSUME TypeOK, [Next]_vars, NEW a \in Accounts
    PROVE  /\ Len(registry[a]) <= Len(registry'[a])
           /\ \A i \in 1..Len(registry[a]) : registry'[a][i] = registry[a][i]
<1>0. registry[a] \in Seq(Commitments)
  BY DEF TypeOK
<1>1. CASE registry' = registry
  BY <1>0, <1>1
<1>2. ASSUME NEW s \in Streams, NEW b \in Accounts, NEW m \in Requests, NEW idc \in Commitments,
             Lands(s, b, m, idc)
      PROVE  registry'[a] = registry[a] \/ registry'[a] = Append(registry[a], idc)
  BY <1>2 DEF Lands, TypeOK
<1>3. ASSUME NEW idc \in Commitments, registry'[a] = Append(registry[a], idc)
      PROVE  /\ Len(registry[a]) <= Len(registry'[a])
             /\ \A i \in 1..Len(registry[a]) : registry'[a][i] = registry[a][i]
  BY <1>0, <1>3
<1>4. CASE ChainStep
  <2>1. PICK s \in Streams :
           \/ LezRejects(s)
           \/ \E b \in Accounts : LezAccepts(s, b)
           \/ \E b \in Accounts, m \in Requests, idc \in Commitments : Lands(s, b, m, idc)
    BY <1>4 DEF ChainStep
  <2>2. CASE LezRejects(s) \/ \E b \in Accounts : LezAccepts(s, b)
    BY <1>1, <2>2 DEF LezRejects, LezAccepts
  <2>3. ASSUME NEW b \in Accounts, NEW m \in Requests, NEW idc \in Commitments, Lands(s, b, m, idc)
        PROVE  /\ Len(registry[a]) <= Len(registry'[a])
               /\ \A i \in 1..Len(registry[a]) : registry'[a][i] = registry[a][i]
    <3>1. CASE registry'[a] = registry[a]
      BY <1>0, <3>1
    <3> QED BY <1>2, <1>3, <2>3, <3>1
  <2> QED BY <2>1, <2>2, <2>3
<1>5. ASSUME NEW k \in Callers, ServeStep(k) PROVE registry' = registry
  BY <1>5 DEF ServeStep, ServeMerge, ServePublish, ServeSwap, MountFails, MountOk, chainVars
<1>6. Crash \/ ClientStep \/ UNCHANGED vars => registry' = registry
  BY DEF Crash, ClientStep, ClientOpens, vars, chainVars
<1> QED BY <1>1, <1>4, <1>5, <1>6, WorkerCalls DEF Next, ServerStep

\* Leaf g is a membership of the request of stream s.
MembershipOf(s, g) ==
    /\ g.config \in Accounts
    /\ g.leaf_index + 1 \in 1..Len(registry[g.config])
    /\ \E m \in stream[s].msg : registry[g.config][g.leaf_index + 1] \in m.idc

ReportsTrue == \A s \in Streams : \A r \in Given(s) : \A g \in r.success : MembershipOf(s, g)

\* A membership stays in its leaf.
LEMMA MembershipStays ==
    ASSUME TypeOK, [Next]_vars, NEW s \in Streams, stream'[s].msg = stream[s].msg,
           NEW g, MembershipOf(s, g)
    PROVE  MembershipOf(s, g)'
<1>1. /\ Len(registry[g.config]) <= Len(registry'[g.config])
      /\ registry'[g.config][g.leaf_index + 1] = registry[g.config][g.leaf_index + 1]
  BY RegistryGrows DEF MembershipOf
<1>2. Len(registry[g.config]) \in Nat /\ Len(registry'[g.config]) \in Nat
  <2>1. TypeOK'
    BY NextType
  <2> QED BY <2>1 DEF MembershipOf, TypeOK
<1>3. g.leaf_index + 1 \in 1..Len(registry'[g.config])
  BY <1>1, <1>2 DEF MembershipOf
<1> QED BY <1>1, <1>3 DEF MembershipOf

\* Every step keeps ReportsTrue.
LEMMA ReportsStep == TypeOK /\ Handling /\ ReportsTrue /\ [Next]_vars => ReportsTrue'
<1> SUFFICES ASSUME TypeOK, Handling, ReportsTrue, [Next]_vars,
                    NEW s \in Streams, NEW r \in Given(s)', NEW g \in r.success
             PROVE  MembershipOf(s, g)'
  BY DEF ReportsTrue
<1>1. stream'[s].msg = stream[s].msg
  BY AnswersStep
<1>2. MembershipOf(s, g)
  <2>1. CASE r \in Given(s)
    BY <2>1 DEF ReportsTrue
  <2>2. ASSUME NEW w \in Workers, Decides(w, s, r) PROVE MembershipOf(s, g)
    <3>1. PICK m \in Requests, c \in Configs : \E leaf \in confirmed_leaf(c, m) :
             /\ Confirm(w, s, m, c)
             /\ r.success = {[config |-> c.config, leaf_index |-> leaf]}
      BY <2>2, DecisionKinds
    <3>3. PICK leaf \in confirmed_leaf(c, m) :
             /\ Confirm(w, s, m, c)
             /\ r.success = {[config |-> c.config, leaf_index |-> leaf]}
      BY <3>1
    <3>4. g.config = c.config /\ g.leaf_index = leaf /\ c.config \in Accounts
      BY <3>3 DEF Accounts
    <3>5. PICK j \in 1..Len(registry[c.config]) : registry[c.config][j] \in m.idc /\ leaf = j - 1
      BY DEF confirmed_leaf
    <3>6. j \in Int /\ leaf + 1 = j
      BY <3>4, <3>5 DEF TypeOK
    <3>7. m \in stream[s].msg
      BY <3>3 DEF Confirm
    <3> QED BY <3>4, <3>5, <3>6, <3>7 DEF MembershipOf
  <2> QED BY <2>1, <2>2, AnswersStep
<1> QED BY <1>1, <1>2, MembershipStays

\* No stream has an answer at first.
LEMMA NoAnswerYet == Init => \A s \in Streams : Given(s) = {}
  BY DEF Init, Given

\* A leaf that a response carries is a leaf of the account the registration went
\* to and holds the requester's commitment: whatever call was lost, and however
\* often serve was called or the process restarted.
THEOREM ReportedMembershipExists == Spec => []SuccessIsOnChain
<1>1. Init => ReportsTrue
  BY NoAnswerYet DEF ReportsTrue
<1>2. ReportsTrue => SuccessIsOnChain
  BY DEF ReportsTrue, MembershipOf, SuccessIsOnChain
<1> QED BY <1>1, <1>2, InitType, NextType, HandlingInit, HandlingStep, ReportsStep, PTL DEF Spec

-----------------------------------------------------------------------------
(***************************************************************************)
(* The configuration is there before it is needed                          *)
(***************************************************************************)

\* SERVER is set from the moment a caller of serve has passed its publication, and
\* as long as a worker lives.
Published ==
    /\ \A k \in Callers : spc[k] = "publish" => sargs[k] # {}
    /\ \A k \in Callers : spc[k] \in {"swap", "mount"} => server # {}
    /\ \A w \in Workers : pc[w] # "off" => server # {}

\* Every step keeps Published.
LEMMA PublishedStep == TypeOK /\ Published /\ [Next]_vars => Published'
<1> SUFFICES ASSUME TypeOK, Published, [Next]_vars PROVE Published'
  OBVIOUS
<1> USE DEF Published, TypeOK, serveVars, workerVars
<1>1. ASSUME NEW k \in Callers, ServeStep(k) PROVE Published'
  <2>1. CASE \E c \in Configs : ServeMerge(k, c)
    BY <2>1 DEF ServeMerge
  <2>2. CASE ServePublish(k)
    BY <2>2 DEF ServePublish
  <2>3. CASE ServeSwap(k)
    BY <2>3 DEF ServeSwap
  <2>4. CASE MountFails(k)
    BY <2>4 DEF MountFails
  <2>5. CASE \E w \in Workers : MountOk(k, w)
    BY <2>5 DEF MountOk
  <2> QED BY <1>1, <2>1, <2>2, <2>3, <2>4, <2>5 DEF ServeStep
<1>2. ASSUME NEW w \in Workers, WorkerStep(w) PROVE Published'
  <2>1. /\ UNCHANGED <<server, spc, sargs>> /\ pc[w] # "off"
        /\ \A v \in Workers : v # w => pc'[v] = pc[v]
    BY <1>2, WorkerAlone
  <2> QED BY <2>1
<1>3. CASE ChainStep
  BY <1>3, ChainCalls
<1>4. CASE Crash
  BY <1>4 DEF Crash
<1>5. CASE ClientStep
  BY <1>5 DEF ClientStep, ClientOpens
<1>6. CASE UNCHANGED vars
  BY <1>6 DEF vars
<1> QED BY <1>1, <1>2, <1>3, <1>4, <1>5, <1>6 DEF Next, ServerStep

\* Every step keeps ConfiguredBeforeServing.
LEMMA ConfiguredStep ==
    TypeOK /\ Handling /\ Published /\ ConfiguredBeforeServing /\ [Next]_vars
       => ConfiguredBeforeServing'
<1> SUFFICES ASSUME TypeOK, Handling, Published, ConfiguredBeforeServing, [Next]_vars,
                    NEW s \in Streams, NEW r \in Given(s)'
             PROVE  r.reason # "unconfigured"
  BY DEF ConfiguredBeforeServing
<1>1. CASE r \in Given(s)
  BY <1>1 DEF ConfiguredBeforeServing
<1>2. ASSUME NEW w \in Workers, Decides(w, s, r) PROVE r.reason # "unconfigured"
  <2>1. CASE Refuse(w, s) /\ r.reason = Screen(stream[s].msg, server)
    <3>1. server # {}
      BY <2>1 DEF Refuse, At, Published
    <3> QED BY <2>1, <3>1 DEF Screen
  <2> QED BY <1>2, <2>1, DecisionKinds
<1> QED BY <1>1, <1>2, AnswersStep

\* A worker never finds SERVER empty: serve publishes the configuration before it
\* mounts, a restart takes the workers with it, and no call of serve unsets it.
THEOREM WorkerFindsConfiguration == Spec => []ConfiguredBeforeServing
<1>1. Init => Published
  BY DEF Init, Published
<1>2. Init => ConfiguredBeforeServing
  BY NoAnswerYet DEF ConfiguredBeforeServing
<1> QED BY <1>1, <1>2, InitType, NextType, HandlingInit, HandlingStep, PublishedStep,
           ConfiguredStep, PTL DEF Spec

-----------------------------------------------------------------------------
(***************************************************************************)
(* What is registered was allowed, by one configuration                    *)
(***************************************************************************)

\* A worker's step touches no other worker's variables.
LEMMA WorkerFrame ==
    ASSUME TypeOK, NEW w \in Workers, WorkerStep(w), NEW v \in Workers, v # w
    PROVE  /\ pc'[v] = pc[v] /\ sid'[v] = sid[v] /\ cfg'[v] = cfg[v]
           /\ rate'[v] = rate[v] /\ held'[v] = held[v] /\ out'[v] = out[v]
<1> USE DEF TypeOK, workerVars
<1> DEFINE Kept == /\ pc'[v] = pc[v] /\ sid'[v] = sid[v] /\ cfg'[v] = cfg[v]
                   /\ rate'[v] = rate[v] /\ held'[v] = held[v] /\ out'[v] = out[v]
<1>1. ASSUME NEW s \in Streams, Accept(w, s) \/ AcceptLost(w, s) \/ ReadFails(w, s) PROVE Kept
  BY <1>1 DEF Accept, AcceptLost, ReadFails
<1>2. ASSUME NEW s \in Streams, Refuse(w, s) \/ VerifyRefuses(w, s) PROVE Kept
  BY <1>2 DEF Refuse, VerifyRefuses, Answer
<1>3. ASSUME NEW s \in Streams, DispatchFails(w, s) \/ RegisterFails(w, s) \/ RegisterTimeout(w, s)
      PROVE  Kept
  BY <1>3 DEF DispatchFails, RegisterFails, RegisterTimeout, NotSubmitted, Answer
<1>4. ASSUME NEW s \in Streams,
             \/ RegisterReply(w, s) \/ ConfirmTimeout(w, s)
             \/ PersistSkipped(w, s) \/ Respond(w, s)
      PROVE  Kept
  BY <1>4 DEF RegisterReply, ConfirmTimeout, Settle, PersistSkipped, Respond
<1>5. ASSUME NEW s \in Streams, NEW m \in Requests,
             \/ VerifyWithoutNullifier(w, s, m) \/ RefuseMalformed(w, s, m)
             \/ RefuseUsed(w, s, m) \/ Reserve(w, s, m)
      PROVE  Kept
  BY <1>5 DEF VerifyWithoutNullifier, RefuseMalformed, RefuseUsed, Reserve, Answer
<1>6. ASSUME NEW s \in Streams, NEW m \in Requests, NEW c \in Configs,
             TakeConfig(w, s, c, m) \/ StartRegister(w, s, m, c) \/ Confirm(w, s, m, c)
      PROVE  Kept
  BY <1>6 DEF TakeConfig, StartRegister, Confirm, Settle
<1>7. ASSUME NEW s \in Streams, NEW c \in Configs, NEW p \in Paths,
             PersistNewline(w, s, c, p) \/ \E key \in held[w] : Persist(w, s, c, p, key)
      PROVE  Kept
  BY <1>7 DEF PersistNewline, Persist
<1> HIDE DEF Kept
<1>8. Kept
  BY <1>1, <1>2, <1>3, <1>4, <1>5, <1>6, <1>7 DEF WorkerStep
<1> QED BY <1>8 DEF Kept

\* The steps that take a worker to the verifier or to the registration.
LEMMA WorkerArrives ==
    ASSUME TypeOK, NEW w \in Workers, WorkerStep(w), pc'[w] \in {"verify", "register"}
    PROVE  \E s \in Streams, m \in Requests :
              \/ \E c \in Configs : TakeConfig(w, s, c, m)
              \/ VerifyWithoutNullifier(w, s, m)
              \/ Reserve(w, s, m)
<1> USE DEF TypeOK, At, workerVars
<1>1. ASSUME NEW s \in Streams, Accept(w, s) \/ AcceptLost(w, s) \/ ReadFails(w, s) PROVE FALSE
  BY <1>1 DEF Accept, AcceptLost, ReadFails
<1>2. ASSUME NEW s \in Streams, Refuse(w, s) \/ VerifyRefuses(w, s) PROVE FALSE
  BY <1>2 DEF Refuse, VerifyRefuses, Answer
<1>3. ASSUME NEW s \in Streams, DispatchFails(w, s) \/ RegisterFails(w, s) \/ RegisterTimeout(w, s)
      PROVE  FALSE
  BY <1>3 DEF DispatchFails, RegisterFails, RegisterTimeout, NotSubmitted, Answer
<1>4. ASSUME NEW s \in Streams,
             \/ RegisterReply(w, s) \/ ConfirmTimeout(w, s)
             \/ PersistSkipped(w, s) \/ Respond(w, s)
      PROVE  FALSE
  BY <1>4 DEF RegisterReply, ConfirmTimeout, Settle, PersistSkipped, Respond
<1>5. ASSUME NEW s \in Streams, NEW m \in Requests, RefuseMalformed(w, s, m) \/ RefuseUsed(w, s, m)
      PROVE  FALSE
  BY <1>5 DEF RefuseMalformed, RefuseUsed, Answer
<1>6. ASSUME NEW s \in Streams, NEW m \in Requests, NEW c \in Configs,
             StartRegister(w, s, m, c) \/ Confirm(w, s, m, c)
      PROVE  FALSE
  BY <1>6 DEF StartRegister, Confirm, Settle
<1>7. ASSUME NEW s \in Streams, NEW c \in Configs, NEW p \in Paths,
             PersistNewline(w, s, c, p) \/ \E key \in held[w] : Persist(w, s, c, p, key)
      PROVE  FALSE
  BY <1>7 DEF PersistNewline, Persist
<1> QED BY <1>1, <1>2, <1>3, <1>4, <1>5, <1>6, <1>7 DEF WorkerStep

\* The request of a stream does not change once the stream is open.
LEMMA RequestKept ==
    ASSUME TypeOK, Handling, [Next]_vars, NEW s \in Streams, stream[s].st # "unused"
    PROVE  stream'[s].msg = stream[s].msg
<1>1. ASSUME NEW k \in Callers, ServeStep(k) PROVE stream' = stream
  BY <1>1 DEF ServeStep, ServeMerge, ServePublish, ServeSwap, MountFails, MountOk
<1>2. ChainStep => stream' = stream
  BY ChainCalls
<1>3. CASE Crash
  BY <1>3 DEF Crash, TypeOK, StreamRecord
<1>4. CASE ClientStep
  <2>1. PICK t \in Streams, m \in Option(Requests) : ClientOpens(t, m)
    BY <1>4 DEF ClientStep
  <2>2. t # s /\ stream' = [stream EXCEPT ![t].st = "queued", ![t].msg = m]
    BY <2>1 DEF ClientOpens
  <2> QED BY <2>2 DEF TypeOK
<1>5. UNCHANGED vars => stream' = stream
  BY DEF vars
<1> QED BY <1>1, <1>2, <1>3, <1>4, <1>5, AnswersWorker DEF Next, ServerStep

\* The configuration a worker cloned allows the request at its verifier, and what
\* it takes to the registration is allowed by that configuration.
Allowed ==
    /\ \A w \in Workers, s \in Streams : sid[w] = {s} /\ pc[w] = "verify" =>
          \E c \in Configs, m \in stream[s].msg :
             /\ cfg[w] = {c} /\ rate[w] <= c.max_rate_limit
             /\ m.type \in c.auth_verifiers
    /\ \A w \in Workers, s \in Streams : sid[w] = {s} /\ pc[w] = "register" =>
          \E c \in Configs, m \in stream[s].msg :
             /\ cfg[w] = {c} /\ rate[w] <= c.max_rate_limit
             /\ \/ c.auth_verifiers = {}
                \/ m.type \in c.auth_verifiers /\ (held[w] = {} => CredentialsOf(m) = {})

\* The steps of the worker keep Allowed.
LEMMA AllowedWorker ==
    ASSUME TypeOK, Handling, Allowed, NEW w \in Workers, WorkerStep(w)
    PROVE  Allowed'
<1>0. ASSUME NEW v \in Workers, v # w, NEW s \in Streams, sid'[v] = {s}
      PROVE  /\ sid[v] = {s} /\ pc'[v] = pc[v] /\ cfg'[v] = cfg[v] /\ rate'[v] = rate[v]
             /\ held'[v] = held[v] /\ stream'[s].msg = stream[s].msg
  <2>1. sid[v] = {s} /\ pc'[v] = pc[v] /\ cfg'[v] = cfg[v] /\ rate'[v] = rate[v] /\ held'[v] = held[v]
    BY <1>0, WorkerFrame
  <2> QED BY <2>1, AnswersWorker
<1>1. ASSUME NEW s \in Streams, sid'[w] = {s}, pc'[w] = "verify"
      PROVE  \E c \in Configs, m \in stream'[s].msg :
                /\ cfg'[w] = {c} /\ rate'[w] <= c.max_rate_limit
                /\ m.type \in c.auth_verifiers
  <2>1. PICK t \in Streams, m \in Requests :
           \/ \E c \in Configs : TakeConfig(w, t, c, m)
           \/ VerifyWithoutNullifier(w, t, m)
           \/ Reserve(w, t, m)
    BY <1>1, WorkerArrives
  <2>2. ~ VerifyWithoutNullifier(w, t, m) /\ ~ Reserve(w, t, m)
    BY <1>1 DEF VerifyWithoutNullifier, Reserve, TypeOK
  <2>3. PICK c \in Configs : TakeConfig(w, t, c, m)
    BY <2>1, <2>2
  <2>4. /\ stream'[t].msg = {m} /\ sid'[w] = {t} /\ cfg'[w] = {c} /\ rate'[w] = EffectiveRate(m, c)
        /\ Screen({m}, {c}) = "verify"
    BY <1>1, <2>3 DEF TakeConfig, At, TypeOK
  <2>5. m.type \in c.auth_verifiers
    BY <2>4 DEF Screen
  <2>6. s = t
    BY <1>1, <2>4
  <2> QED BY <2>4, <2>5, <2>6, RateType
<1>2. ASSUME NEW s \in Streams, sid'[w] = {s}, pc'[w] = "register"
      PROVE  \E c \in Configs, m \in stream'[s].msg :
                /\ cfg'[w] = {c} /\ rate'[w] <= c.max_rate_limit
                /\ \/ c.auth_verifiers = {}
                   \/ m.type \in c.auth_verifiers /\ (held'[w] = {} => CredentialsOf(m) = {})
  <2>1. PICK t \in Streams, m \in Requests :
           \/ \E c \in Configs : TakeConfig(w, t, c, m)
           \/ VerifyWithoutNullifier(w, t, m)
           \/ Reserve(w, t, m)
    BY <1>2, WorkerArrives
  <2>2. ASSUME NEW c \in Configs, TakeConfig(w, t, c, m)
        PROVE  /\ stream'[t].msg = {m} /\ sid'[w] = {t}
               /\ cfg'[w] = {c} /\ rate'[w] <= c.max_rate_limit
               /\ c.auth_verifiers = {}
    <3>1. /\ stream'[t].msg = {m} /\ sid'[w] = {t} /\ cfg'[w] = {c} /\ rate'[w] = EffectiveRate(m, c)
          /\ Screen({m}, {c}) = "open"
      BY <1>2, <2>2 DEF TakeConfig, At, TypeOK
    <3>2. c.auth_verifiers = {}
      BY <3>1 DEF Screen
    <3> QED BY <3>1, <3>2, RateType
  <2>3. ASSUME VerifyWithoutNullifier(w, t, m) \/ Reserve(w, t, m)
        PROVE  \E c \in Configs :
                  /\ stream'[t].msg = {m} /\ sid'[w] = {t}
                  /\ cfg'[w] = {c} /\ rate'[w] <= c.max_rate_limit
                  /\ m.type \in c.auth_verifiers /\ (held'[w] = {} => CredentialsOf(m) = {})
    <3>1. /\ stream[t].msg = {m} /\ stream'[t].msg = {m} /\ sid[w] = {t} /\ sid'[w] = {t}
          /\ pc[w] = "verify" /\ cfg'[w] = cfg[w] /\ rate'[w] = rate[w]
      BY <2>3 DEF VerifyWithoutNullifier, Reserve, At
    <3>2. PICK c \in Configs : /\ cfg[w] = {c} /\ rate[w] <= c.max_rate_limit
                               /\ m.type \in c.auth_verifiers
      BY <3>1 DEF Allowed
    <3>3. CASE VerifyWithoutNullifier(w, t, m)
      <4>1. CredentialsOf(m) = {}
        BY <3>3 DEF VerifyWithoutNullifier, CredentialsOf
      <4> QED BY <3>1, <3>2, <4>1
    <3>4. CASE Reserve(w, t, m)
      <4>1. held'[w] # {}
        BY <3>4 DEF Reserve, TypeOK
      <4> QED BY <3>1, <3>2, <4>1
    <3> QED BY <2>3, <3>3, <3>4
  <2>4. CASE \E c \in Configs : TakeConfig(w, t, c, m)
    BY <1>2, <2>2, <2>4
  <2>5. CASE VerifyWithoutNullifier(w, t, m) \/ Reserve(w, t, m)
    BY <1>2, <2>3, <2>5
  <2> QED BY <2>1, <2>4, <2>5
<1>3. ASSUME NEW v \in Workers, NEW s \in Streams, sid'[v] = {s}, pc'[v] = "verify"
      PROVE  \E c \in Configs, m \in stream'[s].msg :
                /\ cfg'[v] = {c} /\ rate'[v] <= c.max_rate_limit
                /\ m.type \in c.auth_verifiers
  BY <1>0, <1>1, <1>3 DEF Allowed
<1>4. ASSUME NEW v \in Workers, NEW s \in Streams, sid'[v] = {s}, pc'[v] = "register"
      PROVE  \E c \in Configs, m \in stream'[s].msg :
                /\ cfg'[v] = {c} /\ rate'[v] <= c.max_rate_limit
                /\ \/ c.auth_verifiers = {}
                   \/ m.type \in c.auth_verifiers /\ (held'[v] = {} => CredentialsOf(m) = {})
  BY <1>0, <1>2, <1>4 DEF Allowed
<1> QED BY <1>3, <1>4 DEF Allowed

\* Every step keeps Allowed.
LEMMA AllowedStep == TypeOK /\ Handling /\ Allowed /\ [Next]_vars => Allowed'
<1> SUFFICES ASSUME TypeOK, Handling, Allowed, [Next]_vars PROVE Allowed'
  OBVIOUS
<1>1. ASSUME UNCHANGED <<sid, cfg, rate, held, stream>>,
             \A w \in Workers : pc'[w] = pc[w] \/ pc'[w] = "accept"
      PROVE  Allowed'
  BY <1>1 DEF Allowed
<1>2. ASSUME NEW k \in Callers, ServeStep(k) PROVE Allowed'
  <2>1. /\ UNCHANGED <<sid, cfg, rate, held, stream>>
        /\ \A w \in Workers : pc'[w] = pc[w] \/ pc'[w] = "accept"
    BY <1>2 DEF ServeStep, ServeMerge, ServePublish, ServeSwap, MountFails, MountOk, workerVars, TypeOK
  <2> QED BY <1>1, <2>1
<1>3. CASE ChainStep
  BY <1>1, <1>3, ChainCalls DEF workerVars
<1>4. CASE Crash
  BY <1>4 DEF Crash, Allowed
<1>5. CASE ClientStep
  <2>1. UNCHANGED workerVars
    BY <1>5 DEF ClientStep, ClientOpens
  <2>2. \A w \in Workers, s \in Streams : sid[w] = {s} => stream'[s].msg = stream[s].msg
    <3> SUFFICES ASSUME NEW w \in Workers, NEW s \in Streams, sid[w] = {s}
                 PROVE  stream'[s].msg = stream[s].msg
      OBVIOUS
    <3>1. stream[s].st # "unused"
      BY DEF Handling, OneHandler
    <3> QED BY <3>1, RequestKept
  <2> QED BY <2>1, <2>2 DEF Allowed, workerVars
<1>6. CASE UNCHANGED vars
  BY <1>1, <1>6 DEF vars, workerVars
<1> QED BY <1>2, <1>3, <1>4, <1>5, <1>6, AllowedWorker DEF Next, ServerStep

\* A step that is no StartRegister leaves the terms of every call alone.
LEMMA CallTerms ==
    ASSUME TypeOK, [Next]_vars, NEW s \in Streams
    PROVE  \/ /\ call'[s].config = call[s].config /\ call'[s].rate = call[s].rate
              /\ call'[s].by = call[s].by
              /\ call'[s].st # "none" => call[s].st # "none"
           \/ \E w \in Workers, m \in Requests, c \in Configs : StartRegister(w, s, m, c)
<1>1. CASE call' = call
  BY <1>1
<1>2. ASSUME NEW w \in Workers, NEW t \in Streams, NEW m \in Requests, NEW c \in Configs,
             StartRegister(w, t, m, c)
      PROVE  t = s \/ call'[s] = call[s]
  BY <1>2 DEF StartRegister, TypeOK
<1>3. CASE ChainStep
  BY <1>3, ChainCalls
<1>4. ASSUME NEW k \in Callers, ServeStep(k) PROVE call' = call
  BY <1>4 DEF ServeStep, ServeMerge, ServePublish, ServeSwap, MountFails, MountOk, chainVars
<1>5. Crash \/ ClientStep \/ UNCHANGED vars => call' = call
  BY DEF Crash, ClientStep, ClientOpens, vars, chainVars
<1>6. ASSUME NEW w \in Workers, WorkerStep(w)
      PROVE  \/ call'[s] = call[s]
             \/ \E m \in Requests, c \in Configs : StartRegister(w, s, m, c)
  BY <1>2, <1>6, WorkerCalls
<1> QED BY <1>1, <1>3, <1>4, <1>5, <1>6 DEF Next, ServerStep

\* Every step keeps GrantUnderOneConfig.
LEMMA GrantStep ==
    TypeOK /\ Handling /\ Allowed /\ GrantUnderOneConfig /\ [Next]_vars => GrantUnderOneConfig'
<1> SUFFICES ASSUME TypeOK, Handling, Allowed, GrantUnderOneConfig, [Next]_vars,
                    NEW s \in Streams, call'[s].st # "none"
             PROVE  \E c \in Configs, m \in stream'[s].msg :
                       /\ call'[s].config = {c.config}
                       /\ call'[s].rate <= c.max_rate_limit
                       /\ \/ c.auth_verifiers = {}
                          \/ /\ m.type \in c.auth_verifiers
                             /\ call'[s].by = CredentialsOf(m)
  BY DEF GrantUnderOneConfig
<1>1. CASE /\ call'[s].config = call[s].config /\ call'[s].rate = call[s].rate
           /\ call'[s].by = call[s].by
           /\ call'[s].st # "none" => call[s].st # "none"
  <2>1. stream[s].st # "unused"
    BY <1>1 DEF Handling, OneHandler
  <2>2. stream'[s].msg = stream[s].msg
    BY <2>1, RequestKept
  <2> QED BY <1>1, <2>2 DEF GrantUnderOneConfig
<1>2. ASSUME NEW w \in Workers, NEW m \in Requests, NEW d \in Configs, StartRegister(w, s, m, d)
      PROVE  \E c \in Configs : /\ m \in stream'[s].msg
                                /\ call'[s].config = {c.config}
                                /\ call'[s].rate <= c.max_rate_limit
                                /\ \/ c.auth_verifiers = {}
                                   \/ /\ m.type \in c.auth_verifiers
                                      /\ call'[s].by = CredentialsOf(m)
  <2>1. /\ sid[w] = {s} /\ pc[w] = "register" /\ stream[s].msg = {m} /\ stream' = stream
        /\ cfg[w] = {d} /\ call'[s].config = {d.config} /\ call'[s].rate = rate[w]
        /\ call'[s].by = IF held[w] = {} THEN {} ELSE CredentialsOf(m)
    BY <1>2 DEF StartRegister, At, TypeOK
  <2>2. PICK c \in Configs :
           /\ cfg[w] = {c} /\ rate[w] <= c.max_rate_limit
           /\ \/ c.auth_verifiers = {}
              \/ m.type \in c.auth_verifiers /\ (held[w] = {} => CredentialsOf(m) = {})
    BY <2>1 DEF Allowed
  <2>3. c = d
    BY <2>1, <2>2
  <2> QED BY <2>1, <2>2, <2>3
<1> QED BY <1>1, <1>2, CallTerms

\* One configuration authorised, capped and addressed each registration, although
\* serve may replace SERVER between any two steps of the worker; and a registration
\* whose verdict carries a nullifier is made in the name of that nullifier.
THEOREM RegistrationAllowed == Spec => []GrantUnderOneConfig
<1>1. Init => Allowed /\ GrantUnderOneConfig
  BY DEF Init, Allowed, GrantUnderOneConfig, NoCall
<1> QED BY <1>1, InitType, NextType, HandlingInit, HandlingStep, AllowedStep, GrantStep, PTL
        DEF Spec

-----------------------------------------------------------------------------
(***************************************************************************)
(* What a requester that is turned away has paid                           *)
(***************************************************************************)

\* No registration is made for a request whose authentication failed.
RefusedIsFree ==
    \A s \in Streams : \A r \in Given(s) : r.auth_success = FALSE => call[s].st = "none"

\* No registration is left behind by one that is reported as not submitted.
NotSubmittedIsTrue ==
    \A s \in Streams : \A r \in Given(s) :
       r.reason = "not_submitted" => call[s].st \in {"none", "rejected"}

\* Every step keeps RefusedIsFree.
LEMMA RefusedStep == TypeOK /\ Handling /\ RefusedIsFree /\ [Next]_vars => RefusedIsFree'
<1> SUFFICES ASSUME TypeOK, Handling, RefusedIsFree, [Next]_vars,
                    NEW s \in Streams, NEW r \in Given(s)', r.auth_success = FALSE
             PROVE  call'[s].st = "none"
  BY DEF RefusedIsFree
<1>1. CASE r \in Given(s)
  BY <1>1, AnswerIsLast DEF RefusedIsFree
<1>2. ASSUME NEW w \in Workers, Decides(w, s, r) PROVE call'[s].st = "none"
  <2>1. \/ Refuse(w, s) \/ VerifyRefuses(w, s)
        \/ \E m \in Requests : RefuseMalformed(w, s, m) \/ RefuseUsed(w, s, m)
    BY <1>2, DecisionKinds
  <2>2. call' = call /\ sid[w] = {s} /\ pc[w] \in {"read", "verify"}
    BY <2>1 DEF Refuse, VerifyRefuses, RefuseMalformed, RefuseUsed, At, chainVars
  <2> QED BY <2>2 DEF Handling, OneHandler
<1> QED BY <1>1, <1>2, AnswersStep

\* While no reply is lost, every step keeps NotSubmittedIsTrue.
LEMMA NotSubmittedStep ==
    ASSUME "lost_reply" \notin Faults
    PROVE  TypeOK /\ Handling /\ NotSubmittedIsTrue /\ [Next]_vars => NotSubmittedIsTrue'
<1> SUFFICES ASSUME TypeOK, Handling, NotSubmittedIsTrue, [Next]_vars,
                    NEW s \in Streams, NEW r \in Given(s)', r.reason = "not_submitted"
             PROVE  call'[s].st \in {"none", "rejected"}
  BY DEF NotSubmittedIsTrue
<1>1. CASE r \in Given(s)
  BY <1>1, AnswerIsLast DEF NotSubmittedIsTrue
<1>2. ASSUME NEW w \in Workers, Decides(w, s, r) PROVE call'[s].st \in {"none", "rejected"}
  <2>1. ~ (Refuse(w, s) /\ r.reason = Screen(stream[s].msg, server))
    BY DEF Refuse
  <2>2. DispatchFails(w, s) \/ RegisterFails(w, s)
    BY <1>2, <2>1, DecisionKinds DEF RegisterTimeout
  <2>3. call' = call /\ sid[w] = {s} /\ (pc[w] = "register" \/ call[s].st = "rejected")
    BY <2>2 DEF DispatchFails, RegisterFails, At, chainVars
  <2> QED BY <2>3 DEF Handling, OneHandler
<1> QED BY <1>1, <1>2, AnswersStep

\* The steps of a worker that touch a stream.
LEMMA StreamsTouched ==
    ASSUME NEW w \in Workers, WorkerStep(w)
    PROVE  \/ stream' = stream
           \/ \E t \in Streams : \/ Accept(w, t) \/ AcceptLost(w, t)
                               \/ ReadFails(w, t) \/ Respond(w, t)
<1>1. ASSUME NEW t \in Streams,
             \/ Refuse(w, t) \/ VerifyRefuses(w, t) \/ DispatchFails(w, t)
             \/ RegisterFails(w, t) \/ RegisterTimeout(w, t) \/ RegisterReply(w, t)
             \/ ConfirmTimeout(w, t) \/ PersistSkipped(w, t)
      PROVE  stream' = stream
  BY <1>1 DEF Refuse, VerifyRefuses, DispatchFails, RegisterFails, RegisterTimeout, RegisterReply,
              ConfirmTimeout, PersistSkipped
<1>2. ASSUME NEW t \in Streams, NEW m \in Requests,
             \/ VerifyWithoutNullifier(w, t, m) \/ RefuseMalformed(w, t, m)
             \/ RefuseUsed(w, t, m) \/ Reserve(w, t, m)
      PROVE  stream' = stream
  BY <1>2 DEF VerifyWithoutNullifier, RefuseMalformed, RefuseUsed, Reserve
<1>3. ASSUME NEW t \in Streams, NEW m \in Requests, NEW c \in Configs,
             TakeConfig(w, t, c, m) \/ StartRegister(w, t, m, c) \/ Confirm(w, t, m, c)
      PROVE  stream' = stream
  BY <1>3 DEF TakeConfig, StartRegister, Confirm
<1>4. ASSUME NEW t \in Streams, NEW c \in Configs, NEW p \in Paths,
             PersistNewline(w, t, c, p) \/ \E key \in held[w] : Persist(w, t, c, p, key)
      PROVE  stream' = stream
  BY <1>4 DEF PersistNewline, Persist
<1> QED BY <1>1, <1>2, <1>3, <1>4 DEF WorkerStep

\* A stream that its worker left, or that broke, is left alone, and no registration
\* is made for it any more.
LEMMA ClosedKept ==
    ASSUME TypeOK, Handling, [Next]_vars, NEW s \in Streams,
           stream[s].st \in {"released", "abandoned", "broken"}
    PROVE  /\ stream'[s] = stream[s]
           /\ call[s].st = "none" => call'[s].st = "none"
<1>0. \A w \in Workers : sid[w] # {s}
  BY DEF Handling, OneHandler
<1>1. call[s].st = "none" => call'[s].st = "none"
  <2>1. ASSUME NEW w \in Workers, NEW m \in Requests, NEW c \in Configs, StartRegister(w, s, m, c)
        PROVE  FALSE
    BY <1>0, <2>1 DEF StartRegister, At
  <2> QED BY <2>1, CallTerms
<1>2. ASSUME NEW w \in Workers, WorkerStep(w) PROVE stream'[s] = stream[s]
  <2>1. ASSUME NEW t \in Streams, Accept(w, t) \/ AcceptLost(w, t) PROVE stream'[s] = stream[s]
    BY <2>1 DEF Accept, AcceptLost, TypeOK
  <2>2. ASSUME NEW t \in Streams, ReadFails(w, t) \/ Respond(w, t) PROVE stream'[s] = stream[s]
    <3>1. t # s
      BY <1>0, <2>2 DEF ReadFails, Respond, At
    <3> QED BY <2>2, <3>1 DEF ReadFails, Respond, TypeOK
  <2> QED BY <1>2, <2>1, <2>2, StreamsTouched
<1>3. ASSUME NEW k \in Callers, ServeStep(k) PROVE stream' = stream
  BY <1>3 DEF ServeStep, ServeMerge, ServePublish, ServeSwap, MountFails, MountOk
<1>4. ChainStep => stream' = stream
  BY ChainCalls
<1>5. CASE Crash
  BY <1>1, <1>5 DEF Crash
<1>6. CASE ClientStep
  <2>1. stream'[s] = stream[s]
    BY <1>6 DEF ClientStep, ClientOpens, TypeOK
  <2> QED BY <1>1, <2>1
<1>7. UNCHANGED vars => stream' = stream
  BY DEF vars
<1> QED BY <1>1, <1>2, <1>3, <1>4, <1>5, <1>6, <1>7 DEF Next, ServerStep

-----------------------------------------------------------------------------
(***************************************************************************)
(* What the consumed-nullifier store gives back after a restart, and what  *)
(* a refused credential was spent on.  This holds for authentication types *)
(* like those of the two reference vectors (PlainType), and rests on the   *)
(* writes of append_nullifier not being torn.                              *)
(***************************************************************************)

PlainTypes == \A m \in Requests : PlainType(m.type)

\* Every call of serve names the same store.
OneStore == \A c, d \in Configs : c.nullifiers_path = d.nullifiers_path

-----------------------------------------------------------------------------
(***************************************************************************)
(* The keys that workers hold, and the store, whatever else is lost        *)
(***************************************************************************)

\* A key that the store gives back as it was written.
Reloadable(key) == key \in String /\ key # << >> /\ Normalize(key) = key

\* A worker holds a key between its reservation and the end of the request, and
\* the key stays in the consumed set meanwhile.
HeldKeys ==
    /\ \A w \in Workers :
          pc[w] \in {"off", "accept", "read", "verify", "respond"} => held[w] = {}
    /\ \A w \in Workers : held[w] \subseteq consumed
    /\ \A w \in Workers : \A key \in held[w] : Reloadable(key)

\* Worker w is between the two writes of append_nullifier to store p.
Writing(w, p) == pc[w] = "newline" /\ \E c \in cfg[w] : p \in c.nullifiers_path

\* Every line of a store is a key it was given, and an unterminated one is that of
\* the worker that writes it.
StoreSound ==
    \A p \in Paths :
       /\ file[p].tail = << >> \/ \E w \in Workers : Writing(w, p)
       /\ \A w \in Workers : Writing(w, p) => held[w] = {file[p].tail}
       /\ file[p].lines \cup ({file[p].tail} \ {<< >>}) = persisted[p]
       /\ \A key \in persisted[p] : Reloadable(key)

\* From the load of the store to the end of the process, what the store holds is
\* consumed; and a reservation that may be rolled back is not in the store.
StoreLoaded ==
    /\ server # {} \/ (\E k \in Callers : spc[k] = "publish") =>
          \A c \in Configs : \A p \in c.nullifiers_path : persisted[p] \subseteq consumed
    /\ \A w \in Workers : pc[w] \in {"register", "registering"} =>
          \A c \in Configs : \A p \in c.nullifiers_path : held[w] \cap persisted[p] = {}

\* A registration that liblogos_lez_rln_module took on claims the key.
Claimed(key) ==
    \E t \in Streams : call[t].st \in Submitted /\ \E cred \in call[t].by : KeyOf(cred) = key

\* A key that is consumed, or in a store, is claimed or held by the worker whose
\* registration is not decided.
KeysClaimed ==
    /\ \A key \in consumed : Claimed(key) \/ \E w \in Workers : key \in held[w]
    /\ \A p \in Paths : \A key \in persisted[p] : Claimed(key)
    /\ \A w \in Workers : pc[w] \in {"confirm", "persist", "newline"} =>
          \A key \in held[w] : Claimed(key)
    /\ \A w \in Workers, s \in Streams : sid[w] = {s} /\ pc[w] = "registering" =>
          \A key \in held[w] : \E cred \in call[s].by : KeyOf(cred) = key
    /\ \A w \in Workers, s \in Streams : sid[w] = {s} /\ pc[w] = "register" =>
          \A key \in held[w], m \in stream[s].msg : \E cred \in CredentialsOf(m) : KeyOf(cred) = key

-----------------------------------------------------------------------------
(***************************************************************************)
(* Lemmas about the steps                                                  *)
(***************************************************************************)

\* Where a worker holds no key.
Idle == {"off", "accept", "read", "verify", "respond"}

\* A step of worker w that touches neither the keys nor the stores.
Quiet(w) ==
    /\ UNCHANGED <<consumed, held, file, persisted>>
    /\ pc[w] # "newline" /\ pc'[w] # "newline"
    /\ pc'[w] \in Idle => pc[w] \in Idle \/ held[w] = {}
    /\ pc'[w] = "register" => pc[w] \in Idle
    /\ pc'[w] = "registering" =>
          \E s \in Streams, m \in Requests, c \in Configs : StartRegister(w, s, m, c)
    /\ pc'[w] = "confirm" => \E s \in Streams : RegisterReply(w, s)
    /\ pc'[w] = "persist" => pc[w] = "confirm"

\* The kinds of the worker's steps, by what they do to the store.
LEMMA WorkerKinds ==
    ASSUME TypeOK, NEW w \in Workers, WorkerStep(w)
    PROVE  \/ Quiet(w)
           \/ \E s \in Streams : DispatchFails(w, s) \/ RegisterFails(w, s) \/ RegisterTimeout(w, s)
           \/ \E s \in Streams, m \in Requests : Reserve(w, s, m)
           \/ \E s \in Streams : PersistSkipped(w, s)
           \/ \E s \in Streams, c \in Configs, p \in Paths :
                 PersistNewline(w, s, c, p) \/ \E key \in held[w] : Persist(w, s, c, p, key)
<1> USE DEF TypeOK, At, workerVars, storeVars, Idle
<1>1. ASSUME NEW s \in Streams, Accept(w, s) \/ AcceptLost(w, s) \/ ReadFails(w, s)
      PROVE  Quiet(w)
  BY <1>1 DEF Accept, AcceptLost, ReadFails, Quiet
<1>2. ASSUME NEW s \in Streams, Refuse(w, s) \/ VerifyRefuses(w, s) PROVE Quiet(w)
  BY <1>2 DEF Refuse, VerifyRefuses, Answer, Quiet
<1>3. ASSUME NEW s \in Streams, RegisterReply(w, s) PROVE Quiet(w)
  BY <1>3 DEF RegisterReply, Quiet
<1>4. ASSUME NEW s \in Streams, ConfirmTimeout(w, s) PROVE Quiet(w)
  BY <1>4 DEF ConfirmTimeout, Settle, Quiet
<1>5. ASSUME NEW s \in Streams, Respond(w, s) PROVE Quiet(w)
  BY <1>5 DEF Respond, Quiet
<1>6. ASSUME NEW s \in Streams, NEW m \in Requests,
             VerifyWithoutNullifier(w, s, m) \/ RefuseMalformed(w, s, m) \/ RefuseUsed(w, s, m)
      PROVE  Quiet(w)
  BY <1>6 DEF VerifyWithoutNullifier, RefuseMalformed, RefuseUsed, Answer, Quiet
<1>7. ASSUME NEW s \in Streams, NEW m \in Requests, NEW c \in Configs, TakeConfig(w, s, c, m)
      PROVE  Quiet(w)
  BY <1>7 DEF TakeConfig, Quiet
<1>8. ASSUME NEW s \in Streams, NEW m \in Requests, NEW c \in Configs, StartRegister(w, s, m, c)
      PROVE  Quiet(w)
  <2>1. /\ UNCHANGED <<consumed, held, file, persisted>>
        /\ pc[w] = "register" /\ pc'[w] = "registering"
    BY <1>8 DEF StartRegister
  <2> QED BY <1>8, <2>1 DEF Quiet
<1>9. ASSUME NEW s \in Streams, NEW m \in Requests, NEW c \in Configs, Confirm(w, s, m, c)
      PROVE  Quiet(w)
  BY <1>9 DEF Confirm, Settle, Quiet
<1> QED BY <1>1, <1>2, <1>3, <1>4, <1>5, <1>6, <1>7, <1>8, <1>9 DEF WorkerStep

\* The key that a request reserves comes back from the store unchanged.
LEMMA ReservedKey ==
    ASSUME PlainTypes, NEW m \in Requests, NEW cred \in CredentialsOf(m), ~ Malformed(cred[2])
    PROVE  Reloadable(KeyOf(cred))
<1>1. m.type \in String /\ m.nullifier \in Option(String) /\ PlainType(m.type)
  BY RequestsAssumption DEF RequestType, PlainTypes
<1>2. PICK raw \in m.nullifier : cred = <<m.type, Normalize(raw)>>
  BY DEF CredentialsOf
<1>3. raw \in String
  BY <1>1, <1>2, OptionElement
<1>4. KeyOf(cred) = Key(m.type, Normalize(raw)) /\ ~ Malformed(Normalize(raw))
  BY <1>2 DEF KeyOf
<1>5. KeyOf(cred) \in String
  BY CredentialType
<1> QED BY <1>1, <1>3, <1>4, <1>5, ReloadedKey DEF Reloadable

\* While a worker runs, no other one does.
LEMMA AloneRunning ==
    ASSUME OneLicence, NEW w \in Workers, pc[w] # "off"
    PROVE  \A v \in Workers : v # w => pc[v] = "off"
  BY DEF OneLicence, AtMostOneWorker

-----------------------------------------------------------------------------
(***************************************************************************)
(* HeldKeys and StoreSound                                                 *)
(***************************************************************************)

\* Every step keeps HeldKeys.
LEMMA HeldStep ==
    ASSUME PlainTypes
    PROVE  TypeOK /\ OneLicence /\ HeldKeys /\ [Next]_vars => HeldKeys'
<1> SUFFICES ASSUME TypeOK, OneLicence, HeldKeys, [Next]_vars PROVE HeldKeys'
  OBVIOUS
<1>1. ASSUME held' = held, consumed \subseteq consumed',
             \A v \in Workers : pc'[v] = pc[v] \/ pc[v] = "off"
      PROVE  HeldKeys'
  BY <1>1 DEF HeldKeys
<1>2. ASSUME NEW k \in Callers, ServeStep(k) PROVE HeldKeys'
  <2>1. /\ held' = held /\ consumed \subseteq consumed'
        /\ \A v \in Workers : pc'[v] = pc[v] \/ pc[v] = "off"
    BY <1>2 DEF ServeStep, ServeMerge, ServePublish, ServeSwap, MountFails, MountOk, workerVars, TypeOK
  <2> QED BY <1>1, <2>1
<1>3. ASSUME NEW w \in Workers, WorkerStep(w) PROVE HeldKeys'
  <2>1. /\ pc[w] # "off"
        /\ \A v \in Workers : v # w => held'[v] = {} /\ pc'[v] = "off"
    <3>1. pc[w] # "off"
      BY <1>3, WorkerAlone
    <3>2. \A v \in Workers : v # w => pc[v] = "off" /\ held[v] = {}
      BY <3>1, AloneRunning DEF HeldKeys
    <3> QED BY <1>3, <3>1, <3>2, WorkerFrame
  <2>2. CASE Quiet(w)
    BY <2>1, <2>2 DEF Quiet, HeldKeys, Idle
  <2>3. CASE \E s \in Streams : DispatchFails(w, s) \/ RegisterFails(w, s) \/ RegisterTimeout(w, s)
    <3>1. held'[w] = {}
      BY <2>3 DEF DispatchFails, RegisterFails, RegisterTimeout, NotSubmitted, TypeOK
    <3> QED BY <2>1, <3>1 DEF HeldKeys
  <2>4. ASSUME NEW s \in Streams, NEW m \in Requests, Reserve(w, s, m) PROVE HeldKeys'
    <3>1. PICK cred \in CredentialsOf(m) :
             /\ ~ Malformed(cred[2])
             /\ consumed' = consumed \cup {KeyOf(cred)}
             /\ held' = [held EXCEPT ![w] = {KeyOf(cred)}]
      BY <2>4 DEF Reserve
    <3>2. held'[w] = {KeyOf(cred)} /\ pc'[w] = "register"
      BY <2>4, <3>1 DEF Reserve, TypeOK
    <3>3. Reloadable(KeyOf(cred))
      BY <3>1, ReservedKey
    <3> QED BY <2>1, <3>1, <3>2, <3>3 DEF HeldKeys
  <2>5. CASE \E s \in Streams : PersistSkipped(w, s)
    <3>1. held'[w] = {}
      BY <2>5 DEF PersistSkipped, TypeOK
    <3> QED BY <2>1, <3>1 DEF HeldKeys
  <2>6. ASSUME NEW s \in Streams, NEW c \in Configs, NEW p \in Paths, PersistNewline(w, s, c, p)
        PROVE  HeldKeys'
    <3>1. held'[w] = {}
      BY <2>6 DEF PersistNewline, TypeOK
    <3> QED BY <2>1, <3>1 DEF HeldKeys
  <2>7. ASSUME NEW s \in Streams, NEW c \in Configs, NEW p \in Paths, NEW key \in held[w],
               Persist(w, s, c, p, key)
        PROVE  HeldKeys'
    <3>1. UNCHANGED <<consumed, held>> /\ pc'[w] = "newline"
      BY <2>7 DEF Persist, TypeOK
    <3> QED BY <2>1, <3>1 DEF HeldKeys
  <2> QED BY <1>3, <2>2, <2>3, <2>4, <2>5, <2>6, <2>7, WorkerKinds
<1>4. CASE ChainStep
  BY <1>1, <1>4, ChainCalls DEF workerVars
<1>5. CASE Crash
  BY <1>5 DEF Crash, HeldKeys
<1>6. CASE ClientStep \/ UNCHANGED vars
  BY <1>1, <1>6 DEF ClientStep, ClientOpens, vars, workerVars
<1> QED BY <1>2, <1>3, <1>4, <1>5, <1>6 DEF Next, ServerStep

\* Every step keeps StoreSound.
LEMMA SoundStep ==
    ASSUME "torn_write" \notin Faults
    PROVE  TypeOK /\ OneLicence /\ HeldKeys /\ StoreSound /\ [Next]_vars => StoreSound'
<1> SUFFICES ASSUME TypeOK, OneLicence, HeldKeys, StoreSound, [Next]_vars PROVE StoreSound'
  OBVIOUS
<1>1. ASSUME UNCHANGED <<file, persisted>>,
             \A v \in Workers : pc[v] = "newline" =>
                pc'[v] = "newline" /\ cfg'[v] = cfg[v] /\ held'[v] = held[v],
             \A v \in Workers : pc'[v] = "newline" => pc[v] = "newline"
      PROVE  StoreSound'
  BY <1>1 DEF StoreSound, Writing
<1>2. ASSUME NEW k \in Callers, ServeStep(k) PROVE StoreSound'
  <2>1. /\ UNCHANGED <<cfg, held, file, persisted>>
        /\ \A v \in Workers : pc'[v] = pc[v] \/ (pc[v] = "off" /\ pc'[v] = "accept")
    BY <1>2 DEF ServeStep, ServeMerge, ServePublish, ServeSwap, MountFails, MountOk, workerVars,
                storeVars, TypeOK
  <2> QED BY <1>1, <2>1
<1>3. ASSUME NEW w \in Workers, WorkerStep(w) PROVE StoreSound'
  <2>1. /\ pc[w] # "off"
        /\ \A v \in Workers : v # w => pc[v] = "off" /\ pc'[v] = "off"
    <3>1. pc[w] # "off"
      BY <1>3, WorkerAlone
    <3> QED BY <1>3, <3>1, AloneRunning, WorkerAlone
  <2>2. pc[w] # "newline" => \A p \in Paths : file[p].tail = << >>
    BY <2>1 DEF StoreSound, Writing
  <2>3. ASSUME UNCHANGED <<file, persisted>>, pc[w] # "newline", pc'[w] # "newline"
        PROVE  StoreSound'
    BY <1>1, <2>1, <2>3
  <2>4. CASE Quiet(w)
    BY <2>3, <2>4 DEF Quiet
  <2>5. CASE \E s \in Streams : DispatchFails(w, s) \/ RegisterFails(w, s) \/ RegisterTimeout(w, s)
    BY <2>3, <2>5 DEF DispatchFails, RegisterFails, RegisterTimeout, NotSubmitted, Answer, At, TypeOK,
                      storeVars
  <2>6. CASE \E s \in Streams, m \in Requests : Reserve(w, s, m)
    BY <2>3, <2>6 DEF Reserve, At, TypeOK, storeVars
  <2>7. CASE \E s \in Streams : PersistSkipped(w, s)
    BY <2>3, <2>7 DEF PersistSkipped, At, TypeOK, storeVars
  <2>8. ASSUME NEW s \in Streams, NEW c \in Configs, NEW p \in Paths, PersistNewline(w, s, c, p)
        PROVE  StoreSound'
    <3>1. /\ pc[w] = "newline" /\ pc'[w] = "respond" /\ cfg[w] = {c} /\ c.nullifiers_path = {p}
          /\ file' = [file EXCEPT ![p] = WriteNewline(@)] /\ persisted' = persisted
      BY <2>8 DEF PersistNewline, At, TypeOK
    <3>2. /\ file'[p].tail = << >> /\ file'[p].lines = file[p].lines \cup {file[p].tail}
          /\ \A q \in Paths : q # p => file'[q] = file[q] /\ file[q].tail = << >>
      <4>1. /\ file'[p].tail = << >> /\ file'[p].lines = file[p].lines \cup {file[p].tail}
            /\ \A q \in Paths : q # p => file'[q] = file[q]
        BY <3>1 DEF WriteNewline, TypeOK
      <4>2. \A q \in Paths : q # p => file[q].tail = << >>
        BY <2>1, <3>1 DEF StoreSound, Writing
      <4> QED BY <4>1, <4>2
    <3>3. file[p].tail # << >>
      <4>1. held[w] = {file[p].tail}
        BY <3>1 DEF StoreSound, Writing
      <4> QED BY <4>1 DEF HeldKeys, Reloadable
    <3>4. \A v \in Workers, q \in Paths : ~ Writing(v, q)'
      BY <2>1, <3>1 DEF Writing
    <3> QED BY <3>1, <3>2, <3>3, <3>4 DEF StoreSound
  <2>9. ASSUME NEW s \in Streams, NEW c \in Configs, NEW p \in Paths, NEW key \in held[w],
               Persist(w, s, c, p, key)
        PROVE  StoreSound'
    <3>1. /\ pc[w] = "persist" /\ pc'[w] = "newline" /\ cfg'[w] = {c} /\ c.nullifiers_path = {p}
          /\ held'[w] = {key}
          /\ file' = [file EXCEPT ![p] = WriteKey(@, key)]
          /\ persisted' = [persisted EXCEPT ![p] = @ \cup {key}]
      BY <2>9 DEF Persist, At, TypeOK
    <3>2. Reloadable(key)
      BY DEF HeldKeys
    <3>3. /\ \A q \in Paths : file[q].tail = << >>
          /\ \A q \in Paths : q # p => file'[q] = file[q] /\ persisted'[q] = persisted[q]
          /\ persisted'[p] = persisted[p] \cup {key}
          /\ file'[p].lines = file[p].lines /\ file'[p].tail = file[p].tail \o key
      BY <2>2, <3>1 DEF WriteKey, TypeOK, Store
    <3>4. file'[p].tail = key
      BY <3>2, <3>3 DEF Reloadable, String
    <3>5. Writing(w, p)' /\ \A v \in Workers, q \in Paths : Writing(v, q)' => v = w /\ q = p
      BY <2>1, <3>1 DEF Writing
    <3> QED BY <3>1, <3>2, <3>3, <3>4, <3>5 DEF StoreSound, Reloadable
  <2> QED BY <1>3, <2>4, <2>5, <2>6, <2>7, <2>8, <2>9, WorkerKinds
<1>4. CASE ChainStep
  BY <1>1, <1>4, ChainCalls DEF workerVars, storeVars
<1>5. CASE Crash
  BY <1>1, <1>5 DEF Crash, storeVars
<1>6. CASE ClientStep \/ UNCHANGED vars
  BY <1>1, <1>6 DEF ClientStep, ClientOpens, vars, workerVars, storeVars
<1> QED BY <1>2, <1>3, <1>4, <1>5, <1>6 DEF Next, ServerStep

-----------------------------------------------------------------------------
(***************************************************************************)
(* A restart does not forget                                               *)
(***************************************************************************)

\* load_nullifiers finds every key that append_nullifier wrote.
LEMMA LoadFindsAll ==
    ASSUME TypeOK, StoreSound, NEW c \in Configs, NEW p \in c.nullifiers_path
    PROVE  persisted[p] \subseteq Loaded(c)
<1>1. p \in Paths
  BY ConfigsAssumption, OptionElement DEF ServerCfg
<1>2. ASSUME NEW key \in persisted[p] PROVE key \in load_nullifiers(file[p])
  <2>1. key \in file[p].lines \cup {file[p].tail} /\ Reloadable(key)
    BY <1>1, <1>2 DEF StoreSound
  <2> QED BY <2>1 DEF Reloadable, load_nullifiers
<1> QED BY <1>2 DEF Loaded

\* Every step keeps StoreLoaded.
LEMMA LoadedStep ==
    ASSUME OneStore, "unreadable" \notin Faults
    PROVE  TypeOK /\ OneLicence /\ HeldKeys /\ StoreSound /\ Published /\ StoreLoaded /\ [Next]_vars
              => StoreLoaded'
<1> SUFFICES ASSUME TypeOK, OneLicence, HeldKeys, StoreSound, Published, StoreLoaded, [Next]_vars
             PROVE  StoreLoaded'
  OBVIOUS
<1>1. ASSUME UNCHANGED <<held, persisted, server>>, consumed \subseteq consumed',
             (\E k \in Callers : spc'[k] = "publish") => \E k \in Callers : spc[k] = "publish",
             \A w \in Workers : pc'[w] \in {"register", "registering"} => pc[w] = pc'[w]
      PROVE  StoreLoaded'
  BY <1>1 DEF StoreLoaded
<1>2. ASSUME NEW k \in Callers, ServeStep(k) PROVE StoreLoaded'
  <2>1. /\ UNCHANGED <<held, persisted>> /\ consumed \subseteq consumed'
        /\ \A w \in Workers : pc'[w] = pc[w] \/ pc'[w] = "accept"
    BY <1>2 DEF ServeStep, ServeMerge, ServePublish, ServeSwap, MountFails, MountOk, workerVars,
                storeVars, TypeOK
  <2>2. ASSUME NEW c \in Configs, ServeMerge(k, c) PROVE StoreLoaded'
    <3>1. consumed' = consumed \cup Loaded(c)
      BY <2>2 DEF ServeMerge
    <3>2. \A d \in Configs : \A p \in d.nullifiers_path : persisted[p] \subseteq consumed'
      BY <3>1, LoadFindsAll DEF OneStore
    <3> QED BY <2>1, <3>2 DEF StoreLoaded
  <2>3. CASE ServePublish(k)
    <3>1. \A d \in Configs : \A p \in d.nullifiers_path : persisted[p] \subseteq consumed'
      BY <2>1, <2>3 DEF ServePublish, StoreLoaded
    <3> QED BY <2>1, <3>1 DEF StoreLoaded
  <2>4. CASE ServeSwap(k) \/ MountFails(k) \/ \E w \in Workers : MountOk(k, w)
    <3>1. server' = server /\ \A l \in Callers : spc'[l] = "publish" => spc[l] = "publish"
      BY <2>4 DEF ServeSwap, MountFails, MountOk, TypeOK
    <3> QED BY <1>1, <2>1, <3>1
  <2> QED BY <1>2, <2>2, <2>3, <2>4 DEF ServeStep
<1>3. ASSUME NEW w \in Workers, WorkerStep(w) PROVE StoreLoaded'
  <2>1. /\ UNCHANGED <<server, spc>>
        /\ \A v \in Workers : v # w => pc'[v] = "off"
    <3>1. /\ UNCHANGED <<server, spc>> /\ pc[w] # "off"
          /\ \A v \in Workers : v # w => pc'[v] = pc[v]
      BY <1>3, WorkerAlone DEF serveVars
    <3> QED BY <3>1, AloneRunning
  <2>2. CASE Quiet(w)
    <3>1. UNCHANGED <<consumed, held, persisted>>
      BY <2>2 DEF Quiet
    <3>2. pc'[w] = "register" => held[w] = {}
      BY <2>2 DEF Quiet, HeldKeys, Idle
    <3>3. pc'[w] = "registering" => pc[w] = "register"
      BY <2>2 DEF Quiet, StartRegister, At
    <3> QED BY <2>1, <3>1, <3>2, <3>3 DEF StoreLoaded
  <2>3. CASE \E s \in Streams : DispatchFails(w, s) \/ RegisterFails(w, s) \/ RegisterTimeout(w, s)
    <3>1. /\ pc[w] \in {"register", "registering"} /\ held'[w] = {}
          /\ consumed' = consumed \ held[w] /\ persisted' = persisted
      BY <2>3 DEF DispatchFails, RegisterFails, RegisterTimeout, NotSubmitted, At, TypeOK, storeVars
    <3>2. \A c \in Configs : \A p \in c.nullifiers_path : held[w] \cap persisted[p] = {}
      BY <3>1 DEF StoreLoaded
    <3> QED BY <2>1, <3>1, <3>2 DEF StoreLoaded
  <2>4. ASSUME NEW s \in Streams, NEW m \in Requests, Reserve(w, s, m) PROVE StoreLoaded'
    <3>1. PICK cred \in CredentialsOf(m) :
             /\ KeyOf(cred) \notin consumed
             /\ consumed' = consumed \cup {KeyOf(cred)}
             /\ held' = [held EXCEPT ![w] = {KeyOf(cred)}]
      BY <2>4 DEF Reserve
    <3>2. held'[w] = {KeyOf(cred)} /\ persisted' = persisted /\ pc[w] = "verify"
      BY <2>4, <3>1 DEF Reserve, At, TypeOK, storeVars
    <3>3. \A c \in Configs : \A p \in c.nullifiers_path : persisted[p] \subseteq consumed
      BY <3>2 DEF Published, StoreLoaded
    <3> QED BY <2>1, <3>1, <3>2, <3>3 DEF StoreLoaded
  <2>5. CASE \E s \in Streams : PersistSkipped(w, s)
    <3>1. held'[w] = {} /\ UNCHANGED <<consumed, persisted>>
      BY <2>5 DEF PersistSkipped, TypeOK, storeVars
    <3> QED BY <2>1, <3>1 DEF StoreLoaded
  <2>6. ASSUME NEW s \in Streams, NEW c \in Configs, NEW p \in Paths, PersistNewline(w, s, c, p)
        PROVE  StoreLoaded'
    <3>1. held'[w] = {} /\ UNCHANGED <<consumed, persisted>>
      BY <2>6 DEF PersistNewline, TypeOK
    <3> QED BY <2>1, <3>1 DEF StoreLoaded
  <2>7. ASSUME NEW s \in Streams, NEW c \in Configs, NEW p \in Paths, NEW key \in held[w],
               Persist(w, s, c, p, key)
        PROVE  StoreLoaded'
    <3>1. /\ UNCHANGED consumed /\ pc'[w] = "newline"
          /\ persisted' = [persisted EXCEPT ![p] = @ \cup {key}]
      BY <2>7 DEF Persist, TypeOK
    <3>2. key \in consumed
      BY DEF HeldKeys
    <3>3. \A q \in Paths : persisted[q] \subseteq consumed => persisted'[q] \subseteq consumed'
      BY <3>1, <3>2 DEF TypeOK
    <3>4. \A d \in Configs : d.nullifiers_path \subseteq Paths
      BY ConfigsAssumption, OptionElement DEF ServerCfg
    <3> QED BY <2>1, <3>1, <3>3, <3>4 DEF StoreLoaded
  <2> QED BY <1>3, <2>2, <2>3, <2>4, <2>5, <2>6, <2>7, WorkerKinds
<1>4. CASE ChainStep
  BY <1>1, <1>4, ChainCalls DEF serveVars, workerVars, storeVars
<1>5. CASE Crash
  BY <1>5 DEF Crash, StoreLoaded
<1>6. CASE ClientStep \/ UNCHANGED vars
  BY <1>1, <1>6 DEF ClientStep, ClientOpens, vars, serveVars, workerVars, storeVars
<1> QED BY <1>2, <1>3, <1>4, <1>5, <1>6 DEF Next, ServerStep

\* A key that a step gives to a worker without one is in no store of a configuration.
LEMMA FreshReservation ==
    ASSUME TypeOK, Published, StoreLoaded, [Next]_vars, NEW w \in Workers, held[w] = {},
           NEW c \in Configs, NEW p \in c.nullifiers_path
    PROVE  held'[w] \cap persisted[p] = {}
<1>1. ASSUME held'[w] = held[w] \/ held'[w] = {} PROVE held'[w] \cap persisted[p] = {}
  BY <1>1
<1>2. ASSUME NEW k \in Callers, ServeStep(k) PROVE held'[w] = held[w]
  BY <1>2 DEF ServeStep, ServeMerge, ServePublish, ServeSwap, MountFails, MountOk, workerVars
<1>3. ChainStep => held'[w] = held[w]
  BY ChainCalls DEF workerVars
<1>4. Crash \/ ClientStep \/ UNCHANGED vars => held'[w] = held[w] \/ held'[w] = {}
  BY DEF Crash, ClientStep, ClientOpens, vars, workerVars
<1>5. ASSUME NEW v \in Workers, WorkerStep(v), v # w PROVE held'[w] = held[w]
  BY <1>5, WorkerFrame
<1>6. ASSUME WorkerStep(w) PROVE held'[w] \cap persisted[p] = {}
  <2>1. ASSUME NEW s \in Streams, NEW m \in Requests, Reserve(w, s, m)
        PROVE  held'[w] \cap persisted[p] = {}
    <3>1. PICK cred \in CredentialsOf(m) :
             KeyOf(cred) \notin consumed /\ held' = [held EXCEPT ![w] = {KeyOf(cred)}]
      BY <2>1 DEF Reserve
    <3>2. held'[w] = {KeyOf(cred)} /\ pc[w] = "verify"
      BY <2>1, <3>1 DEF Reserve, At, TypeOK
    <3>3. persisted[p] \subseteq consumed
      BY <3>2 DEF Published, StoreLoaded
    <3> QED BY <3>1, <3>2, <3>3
  <2>2. Quiet(w) => held'[w] = held[w]
    BY DEF Quiet
  <2>3. ASSUME NEW s \in Streams,
               \/ DispatchFails(w, s) \/ RegisterFails(w, s) \/ RegisterTimeout(w, s)
               \/ PersistSkipped(w, s)
        PROVE  held'[w] = {}
    BY <2>3 DEF DispatchFails, RegisterFails, RegisterTimeout, NotSubmitted, PersistSkipped, TypeOK
  <2>4. ASSUME NEW s \in Streams, NEW d \in Configs, NEW q \in Paths,
               PersistNewline(w, s, d, q) \/ \E key \in held[w] : Persist(w, s, d, q, key)
        PROVE  held'[w] = {} \/ held'[w] = held[w]
    BY <2>4 DEF PersistNewline, Persist, TypeOK
  <2> QED BY <1>1, <1>6, <2>1, <2>2, <2>3, <2>4, WorkerKinds
<1> QED BY <1>1, <1>2, <1>3, <1>4, <1>5, <1>6 DEF Next, ServerStep

\* The invariants of recovery hold at first.
LEMMA RecoveryInit == Init => HeldKeys /\ StoreSound /\ StoreLoaded /\ Published /\ OneLicence
<1> SUFFICES ASSUME Init PROVE HeldKeys /\ StoreSound /\ StoreLoaded /\ Published /\ OneLicence
  OBVIOUS
<1>1. HeldKeys /\ Published /\ OneLicence /\ StoreLoaded
  BY DEF Init, HeldKeys, Published, OneLicence, AtMostOneWorker, StoreLoaded
<1>2. StoreSound
  BY DEF Init, StoreSound, EmptyStore, Writing
<1> QED BY <1>1, <1>2

\* A credential that the configured store records is not reserved again: however
\* often the process dies between two steps, whatever replies are lost, and whatever
\* is rolled back meanwhile.  The store is one and readable, and a restart finds no
\* half-written line.
THEOREM StoreSurvivesRestart ==
    ASSUME PlainTypes, OneStore, Faults \cap {"unreadable", "torn_write"} = {}
    PROVE  Spec => NeverRegranted
<1> DEFINE Recovery == /\ TypeOK /\ OneLicence /\ HeldKeys /\ StoreSound
                       /\ Published /\ StoreLoaded
<1>1. Init => Recovery
  BY InitType, RecoveryInit
<1>2. Recovery /\ [Next]_vars => Recovery'
  BY NextType, LicenceStep, HeldStep, SoundStep, PublishedStep, LoadedStep
<1>3. Recovery /\ [Next]_vars =>
         [\A w \in Workers : \A c \in cfg[w] : \A p \in c.nullifiers_path :
             held[w] = {} => held'[w] \cap persisted[p] = {}]_vars
  <2> SUFFICES ASSUME Recovery, [Next]_vars,
                      NEW w \in Workers, NEW c \in cfg[w], NEW p \in c.nullifiers_path, held[w] = {}
               PROVE  held'[w] \cap persisted[p] = {}
    OBVIOUS
  <2>1. c \in Configs
    BY OptionElement DEF TypeOK
  <2> QED BY <2>1, FreshReservation
<1> HIDE DEF Recovery
<1>4. Spec => []Recovery
  BY <1>1, <1>2, PTL DEF Spec
<1> QED BY <1>3, <1>4, PTL DEF Spec, NeverRegranted

-----------------------------------------------------------------------------
(***************************************************************************)
(* A credential that is refused was spent                                  *)
(***************************************************************************)

\* A registration that was submitted stays so, and stays the credential's.
LEMMA SubmittedKept ==
    ASSUME TypeOK, Handling, [Next]_vars, NEW t \in Streams, call[t].st \in Submitted
    PROVE  call'[t].st \in Submitted /\ call'[t].by = call[t].by
<1>1. CASE ChainStep
  BY <1>1, ChainCalls DEF Submitted
<1>2. ASSUME NEW w \in Workers, NEW m \in Requests, NEW c \in Configs, StartRegister(w, t, m, c)
      PROVE  FALSE
  BY <1>2 DEF StartRegister, At, Handling, OneHandler, Submitted
<1>3. ASSUME NEW w \in Workers, WorkerStep(w) PROVE call'[t] = call[t]
  <2>1. ASSUME NEW s \in Streams, NEW m \in Requests, NEW c \in Configs, StartRegister(w, s, m, c)
        PROVE  call'[t] = call[t]
    <3>1. s # t
      BY <1>2, <2>1
    <3> QED BY <2>1, <3>1 DEF StartRegister, TypeOK
  <2> QED BY <1>3, <2>1, WorkerCalls
<1>4. ASSUME NEW k \in Callers, ServeStep(k) PROVE call' = call
  BY <1>4 DEF ServeStep, ServeMerge, ServePublish, ServeSwap, MountFails, MountOk, chainVars
<1>5. Crash \/ ClientStep \/ UNCHANGED vars => call' = call
  BY DEF Crash, ClientStep, ClientOpens, vars, chainVars
<1> QED BY <1>1, <1>3, <1>4, <1>5 DEF Next, ServerStep

\* A claim of a key is kept.
LEMMA ClaimKept ==
    ASSUME TypeOK, Handling, [Next]_vars, NEW key, Claimed(key)
    PROVE  Claimed(key)'
  BY SubmittedKept DEF Claimed

\* Nothing but keys that were written comes out of a store.
LEMMA LoadInventsNothing ==
    ASSUME TypeOK, StoreSound, NEW c \in Configs, NEW key \in Loaded(c)
    PROVE  \E p \in Paths : key \in persisted[p]
<1>1. PICK p \in c.nullifiers_path : key \in load_nullifiers(file[p])
  BY DEF Loaded
<1>2. p \in Paths
  BY ConfigsAssumption, OptionElement DEF ServerCfg
<1>3. PICK l \in file[p].lines \cup {file[p].tail} : key = Normalize(l) /\ key # << >>
  BY <1>1 DEF load_nullifiers
<1>4. CASE l = << >>
  <2>1. << >> \in String /\ Len(<< >>) = 0
    BY DEF String
  <2>2. \A i \in 1..Len(<< >>) : FALSE
    BY <2>1
  <2>3. Normalize(<< >>) = << >>
    BY <2>1, <2>2, NormalizeType
  <2> QED BY <1>3, <1>4, <2>3
<1>5. CASE l # << >>
  <2>1. l \in persisted[p]
    BY <1>2, <1>3, <1>5 DEF StoreSound
  <2> QED BY <1>2, <1>3, <2>1 DEF StoreSound, Reloadable
<1> QED BY <1>4, <1>5

\* The credential of every registration is that of a request.
CallsOfRequests ==
    \A t \in Streams : \A cred \in call[t].by : \E m \in Requests : cred \in CredentialsOf(m)

\* Every step keeps CallsOfRequests.
LEMMA CallsOfRequestsStep == TypeOK /\ CallsOfRequests /\ [Next]_vars => CallsOfRequests'
<1> SUFFICES ASSUME TypeOK, CallsOfRequests, [Next]_vars,
                    NEW t \in Streams, NEW cred \in call'[t].by
             PROVE  \E m \in Requests : cred \in CredentialsOf(m)
  BY DEF CallsOfRequests
<1>1. ASSUME NEW w \in Workers, NEW m \in Requests, NEW c \in Configs, StartRegister(w, t, m, c)
      PROVE  cred \in CredentialsOf(m)
  BY <1>1 DEF StartRegister, TypeOK
<1> QED BY <1>1, CallTerms DEF CallsOfRequests

\* The steps of the worker keep KeysClaimed.
LEMMA ClaimedWorker ==
    ASSUME TypeOK, Handling, OneLicence, HeldKeys, KeysClaimed, "empty_reply" \notin Faults,
           [Next]_vars, NEW w \in Workers, WorkerStep(w)
    PROVE  KeysClaimed'
<1>1. \A key : Claimed(key) => Claimed(key)'
  BY ClaimKept
<1>2. \A v \in Workers : v # w => held[v] = {} /\ held'[v] = {} /\ pc'[v] = "off"
  <2>1. pc[w] # "off"
    BY WorkerAlone
  <2>2. \A v \in Workers : v # w => pc[v] = "off" /\ held[v] = {}
    BY <2>1, AloneRunning DEF HeldKeys
  <2> QED BY <2>1, <2>2, WorkerFrame
<1>3. \A key \in consumed : key \notin held[w] => Claimed(key)'
  BY <1>1, <1>2 DEF KeysClaimed
<1>4. \A p \in Paths : \A key \in persisted[p] : Claimed(key)'
  BY <1>1 DEF KeysClaimed
<1>5. CASE Quiet(w)
  <2>1. UNCHANGED <<consumed, held, file, persisted>> /\ pc'[w] # "newline"
    BY <1>5 DEF Quiet
  <2>2. pc'[w] \in {"confirm", "persist"} => \A key \in held[w] : Claimed(key)'
    <3>1. CASE pc'[w] = "persist"
      BY <1>1, <1>5, <3>1 DEF Quiet, KeysClaimed
    <3>2. CASE pc'[w] = "confirm"
      <4>1. PICK s \in Streams : RegisterReply(w, s)
        BY <1>5, <3>2 DEF Quiet
      <4>2. sid[w] = {s} /\ pc[w] = "registering" /\ call[s].st \in Submitted
        BY <4>1 DEF RegisterReply, At
      <4>3. \A key \in held[w] : Claimed(key)
        BY <4>2 DEF KeysClaimed, Claimed
      <4> QED BY <1>1, <4>3
    <3> QED BY <3>1, <3>2
  <2>3. ASSUME NEW s \in Streams, sid'[w] = {s}, pc'[w] = "registering"
        PROVE  \A key \in held[w] : \E cred \in call'[s].by : KeyOf(cred) = key
    <3>1. PICK t \in Streams, m \in Requests, c \in Configs : StartRegister(w, t, m, c)
      BY <1>5, <2>3 DEF Quiet
    <3>2. /\ sid' = sid /\ sid[w] = {t} /\ pc[w] = "register" /\ stream[t].msg = {m}
          /\ call'[t].by = IF held[w] = {} THEN {} ELSE CredentialsOf(m)
      BY <3>1 DEF StartRegister, At, TypeOK
    <3>3. s = t
      BY <2>3, <3>2
    <3>4. \A key \in held[w] : \E cred \in CredentialsOf(m) : KeyOf(cred) = key
      BY <3>2 DEF KeysClaimed
    <3> QED BY <3>2, <3>3, <3>4
  <2>4. pc'[w] = "register" => held[w] = {}
    BY <1>5 DEF Quiet, HeldKeys, Idle
  <2> QED BY <1>2, <1>3, <1>4, <2>1, <2>2, <2>3, <2>4 DEF KeysClaimed
<1>6. CASE \E s \in Streams : DispatchFails(w, s) \/ RegisterFails(w, s) \/ RegisterTimeout(w, s)
  <2>1. held'[w] = {} /\ consumed' = consumed \ held[w] /\ persisted' = persisted
    BY <1>6 DEF DispatchFails, RegisterFails, RegisterTimeout, NotSubmitted, TypeOK, storeVars
  <2> QED BY <1>2, <1>3, <1>4, <2>1 DEF KeysClaimed
<1>7. ASSUME NEW s \in Streams, NEW m \in Requests, Reserve(w, s, m) PROVE KeysClaimed'
  <2>1. PICK cred \in CredentialsOf(m) :
           /\ consumed' = consumed \cup {KeyOf(cred)}
           /\ held' = [held EXCEPT ![w] = {KeyOf(cred)}]
    BY <1>7 DEF Reserve
  <2>2. /\ held'[w] = {KeyOf(cred)} /\ persisted' = persisted /\ pc'[w] = "register"
        /\ sid' = sid /\ sid[w] = {s} /\ stream' = stream /\ stream[s].msg = {m}
        /\ held[w] = {}
    BY <1>7, <2>1 DEF Reserve, At, TypeOK, storeVars, HeldKeys
  <2>3. \A t \in Streams : sid'[w] = {t} => t = s
    BY <2>2
  <2> QED BY <1>2, <1>3, <1>4, <2>1, <2>2, <2>3 DEF KeysClaimed
<1>8. ASSUME pc[w] \in {"persist", "newline"}, held'[w] = {}, UNCHANGED <<consumed, persisted>>
      PROVE  KeysClaimed'
  <2>1. \A key \in held[w] : Claimed(key)'
    BY <1>1, <1>8 DEF KeysClaimed
  <2> QED BY <1>2, <1>3, <1>4, <1>8, <2>1 DEF KeysClaimed
<1>9. CASE \E s \in Streams : PersistSkipped(w, s)
  BY <1>8, <1>9 DEF PersistSkipped, At, TypeOK, storeVars
<1>10. ASSUME NEW s \in Streams, NEW c \in Configs, NEW p \in Paths, PersistNewline(w, s, c, p)
       PROVE  KeysClaimed'
  BY <1>8, <1>10 DEF PersistNewline, At, TypeOK
<1>11. ASSUME NEW s \in Streams, NEW c \in Configs, NEW p \in Paths, NEW key \in held[w],
              Persist(w, s, c, p, key)
       PROVE  KeysClaimed'
  <2>1. /\ UNCHANGED <<consumed, held>> /\ pc[w] = "persist" /\ pc'[w] = "newline"
        /\ persisted' = [persisted EXCEPT ![p] = @ \cup {key}]
    BY <1>11 DEF Persist, At, TypeOK
  <2>2. \A k \in held[w] : Claimed(k)'
    BY <1>1, <2>1 DEF KeysClaimed
  <2>3. \A q \in Paths : \A k \in persisted'[q] : k \in persisted[q] \/ k = key
    BY <2>1 DEF TypeOK
  <2> QED BY <1>2, <1>3, <1>4, <2>1, <2>2, <2>3 DEF KeysClaimed
<1> QED BY <1>5, <1>6, <1>7, <1>9, <1>10, <1>11, WorkerKinds

\* While no reply is empty, every step keeps KeysClaimed.
LEMMA ClaimedStep ==
    ASSUME "empty_reply" \notin Faults
    PROVE  TypeOK /\ Handling /\ OneLicence /\ HeldKeys /\ StoreSound /\ KeysClaimed /\ [Next]_vars
              => KeysClaimed'
<1> SUFFICES ASSUME TypeOK, Handling, OneLicence, HeldKeys, StoreSound, KeysClaimed, [Next]_vars
             PROVE  KeysClaimed'
  OBVIOUS
<1>1. \A key : Claimed(key) => Claimed(key)'
  BY ClaimKept
<1>2. ASSUME UNCHANGED <<held, sid, persisted>>,
             \A key \in consumed' : key \in consumed \/ Claimed(key),
             \A w \in Workers : pc'[w] = pc[w] \/ pc'[w] = "accept",
             \A t \in Streams : call'[t].by = call[t].by,
             \A w \in Workers, s \in Streams : sid[w] = {s} => stream'[s].msg = stream[s].msg
      PROVE  KeysClaimed'
  BY <1>1, <1>2 DEF KeysClaimed
<1>3. \A w \in Workers, s \in Streams : sid[w] = {s} => stream'[s].msg = stream[s].msg
  <2> SUFFICES ASSUME NEW w \in Workers, NEW s \in Streams, sid[w] = {s}
               PROVE  stream'[s].msg = stream[s].msg
    OBVIOUS
  <2>1. stream[s].st # "unused"
    BY DEF Handling, OneHandler
  <2> QED BY <2>1, RequestKept
<1>4. ASSUME NEW k \in Callers, ServeStep(k) PROVE KeysClaimed'
  <2>1. /\ UNCHANGED <<held, sid, persisted, call>>
        /\ \A w \in Workers : pc'[w] = pc[w] \/ pc'[w] = "accept"
    BY <1>4 DEF ServeStep, ServeMerge, ServePublish, ServeSwap, MountFails, MountOk, workerVars,
                storeVars, chainVars, TypeOK
  <2>2. consumed' = consumed \/ \E c \in Configs : consumed' = consumed \cup Loaded(c)
    BY <1>4 DEF ServeStep, ServeMerge, ServePublish, ServeSwap, MountFails, MountOk
  <2>3. \A c \in Configs : \A key \in Loaded(c) : Claimed(key)
    BY LoadInventsNothing DEF KeysClaimed
  <2> QED BY <1>2, <1>3, <2>1, <2>2, <2>3
<1>5. CASE ChainStep
  BY <1>2, <1>3, <1>5, ChainCalls DEF workerVars, storeVars
<1>6. CASE Crash
  BY <1>1, <1>6 DEF Crash, KeysClaimed, storeVars
<1>7. CASE ClientStep \/ UNCHANGED vars
  BY <1>2, <1>3, <1>7 DEF ClientStep, ClientOpens, vars, workerVars, storeVars, chainVars
<1> QED BY <1>4, <1>5, <1>6, <1>7, ClaimedWorker DEF Next, ServerStep

\* With plain types, every step keeps RefusalIsTrue.
LEMMA RefusalStep ==
    ASSUME PlainTypes
    PROVE  /\ TypeOK /\ Handling /\ OneLicence /\ HeldKeys /\ KeysClaimed /\ CallsOfRequests
           /\ RefusalIsTrue /\ [Next]_vars
           => RefusalIsTrue'
<1> SUFFICES ASSUME TypeOK, Handling, OneLicence, HeldKeys, KeysClaimed, CallsOfRequests,
                    RefusalIsTrue, [Next]_vars,
                    NEW s \in Streams, NEW r \in Given(s)', r.reason = "used"
             PROVE  \E t \in Streams, m \in stream'[s].msg :
                       call'[t].st \in Submitted /\ call'[t].by = CredentialsOf(m)
  BY DEF RefusalIsTrue
<1>1. ASSUME NEW w \in Workers, Decides(w, s, r)
      PROVE  \E t \in Streams, m \in stream[s].msg :
                call[t].st \in Submitted /\ call[t].by = CredentialsOf(m)
  <2>1. PICK m \in Requests : RefuseUsed(w, s, m)
    <3>1. ~ (Refuse(w, s) /\ r.reason = Screen(stream[s].msg, server))
      BY DEF Refuse
    <3> QED BY <1>1, <3>1, DecisionKinds
  <2>2. stream[s].msg = {m} /\ pc[w] = "verify"
    BY <2>1 DEF RefuseUsed, At
  <2>3. PICK cred \in CredentialsOf(m) : KeyOf(cred) \in consumed
    BY <2>1 DEF RefuseUsed
  <2>4. \A v \in Workers : held[v] = {}
    BY <2>2, AloneRunning DEF HeldKeys
  <2>5. PICK t \in Streams : /\ call[t].st \in Submitted
                             /\ \E other \in call[t].by : KeyOf(other) = KeyOf(cred)
    BY <2>3, <2>4 DEF KeysClaimed, Claimed
  <2>6. PICK other \in call[t].by : KeyOf(other) = KeyOf(cred)
    BY <2>5
  <2>7. PICK n \in Requests : other \in CredentialsOf(n)
    BY DEF CallsOfRequests
  <2>8. /\ other[1] \in String /\ other[2] \in String /\ PlainType(other[1])
        /\ cred[1] \in String /\ cred[2] \in String /\ PlainType(cred[1])
    <3>1. other[1] = n.type /\ other[1] \in String /\ other[2] \in String
      BY <2>7, CredentialType
    <3>2. cred[1] = m.type /\ cred[1] \in String /\ cred[2] \in String
      BY CredentialType
    <3> QED BY <3>1, <3>2 DEF PlainTypes
  <2>9. other[1] = cred[1] /\ other[2] = cred[2]
    BY <2>6, <2>8, KeyInjective DEF KeyOf
  <2>10. other = cred
    <3>1. cred \in String \X String /\ other \in String \X String
      BY <2>7, CredentialType, OptionElement
    <3> QED BY <2>9, <3>1
  <2>11. call[t].by = {other} /\ CredentialsOf(m) = {cred}
    <3>1. call[t].by \in Option(String \X String) /\ CredentialsOf(m) \in Option(String \X String)
      BY CredentialType DEF TypeOK, CallRecord
    <3> QED BY <3>1, OptionSingle
  <2> QED BY <2>2, <2>5, <2>10, <2>11
<1>2. \E t \in Streams, m \in stream[s].msg :
         call[t].st \in Submitted /\ call[t].by = CredentialsOf(m)
  BY <1>1, AnswersStep DEF RefusalIsTrue
<1>3. stream'[s].msg = stream[s].msg
  BY AnswersStep
<1> QED BY <1>2, <1>3, SubmittedKept

\* A requester is told that its credential is used only if that very credential was
\* handed in for a registration the chain's module took on, before or after any
\* number of restarts: no other credential or authentication type, no rolled back
\* reservation and no line of a store uses it up.
THEOREM RefusedWasSpent ==
    ASSUME PlainTypes, Faults \cap {"torn_write", "empty_reply"} = {}
    PROVE  Spec => []RefusalIsTrue
<1> DEFINE Spending == /\ TypeOK /\ Handling /\ OneLicence /\ HeldKeys /\ StoreSound
                       /\ KeysClaimed /\ CallsOfRequests /\ RefusalIsTrue
<1>1. Init => Spending
  <2>1. Init => KeysClaimed /\ CallsOfRequests
    BY DEF Init, KeysClaimed, CallsOfRequests, NoCall
  <2>2. Init => RefusalIsTrue
    BY NoAnswerYet DEF RefusalIsTrue
  <2> QED BY <2>1, <2>2, InitType, HandlingInit, RecoveryInit
<1>2. Spending /\ [Next]_vars => Spending'
  <2>1. Spending /\ [Next]_vars => TypeOK' /\ Handling' /\ OneLicence' /\ HeldKeys' /\ StoreSound'
    BY NextType, HandlingStep, LicenceStep, HeldStep, SoundStep
  <2>2. Spending /\ [Next]_vars => KeysClaimed' /\ CallsOfRequests' /\ RefusalIsTrue'
    BY ClaimedStep, CallsOfRequestsStep, RefusalStep
  <2> QED BY <2>1, <2>2
<1>3. Spending => RefusalIsTrue
  OBVIOUS
<1> HIDE DEF Spending
<1> QED BY <1>1, <1>2, <1>3, PTL DEF Spec

=============================================================================
