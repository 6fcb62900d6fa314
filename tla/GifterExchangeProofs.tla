------------------------ MODULE GifterExchangeProofs ------------------------
(***************************************************************************)
(* Proofs about GifterExchange: with its requesters the gifter is still    *)
(* the gifter of GifterServer, and what request() returns is true.         *)
(***************************************************************************)
EXTENDS GifterExchange, GifterAnswerProofs

-----------------------------------------------------------------------------
(***************************************************************************)
(* The exchange is a run of the server                                     *)
(***************************************************************************)

\* A step of the exchange is one of the server, or one it does not see.
LEMMA ExchangeIsServerStep ==
    ASSUME ExchangeTypeOK, [ExchangeNext]_exchangeVars
    PROVE  [Next]_vars
<1>1. ASSUME NEW s \in Streams, RequestSent(s) PROVE Next
  <2>1. want[s] \in Option(Requests) /\ ClientOpens(s, want[s])
    BY <1>1 DEF RequestSent, ExchangeTypeOK
  <2> QED BY <2>1 DEF Next, ClientStep
<1>2. ASSUME NEW s \in Streams,
             \/ \E m \in Requests : RequestCalled(s, m)
             \/ PayloadReady(s) \/ PayloadFails(s) \/ DialFails(s) \/ RequestTimeout(s)
             \/ \E r \in stream[s].resp : ResponseRead(s, r)
      PROVE  UNCHANGED vars
  BY <1>2 DEF RequestCalled, PayloadReady, PayloadFails, DialFails, RequestTimeout, ResponseRead
<1>3. UNCHANGED exchangeVars => UNCHANGED vars
  BY DEF exchangeVars
<1> QED BY <1>1, <1>2, <1>3 DEF ExchangeNext, ClientNext, Next

\* Type correctness holds at first.
LEMMA ExchangeInitType == ExchangeInit => ExchangeTypeOK
<1>1. \A S : {} \in Option(S)
  BY OptionNone
<1> QED BY <1>1, InitType DEF ExchangeInit, ExchangeTypeOK, AttemptStates

\* Every step of the exchange keeps type correctness.
LEMMA ExchangeNextType ==
    ExchangeTypeOK /\ [ExchangeNext]_exchangeVars => ExchangeTypeOK'
<1> SUFFICES ASSUME ExchangeTypeOK, [ExchangeNext]_exchangeVars PROVE ExchangeTypeOK'
  OBVIOUS
<1>1. TypeOK'
  BY ExchangeIsServerStep, NextType DEF ExchangeTypeOK
<1> USE DEF AttemptStates
<1>2. ASSUME NEW s \in Streams, NEW m \in Requests, RequestCalled(s, m) PROVE ExchangeTypeOK'
  <2>1. {m} \in Option(Requests)
    BY OptionSome
  <2> QED BY <1>1, <1>2, <2>1 DEF RequestCalled, ExchangeTypeOK
<1>3. ASSUME NEW s \in Streams,
             \/ PayloadReady(s) \/ PayloadFails(s) \/ RequestSent(s)
             \/ DialFails(s) \/ RequestTimeout(s)
      PROVE  ExchangeTypeOK'
  BY <1>1, <1>3 DEF PayloadReady, PayloadFails, RequestSent, DialFails, RequestTimeout, Finish,
                    ExchangeTypeOK
<1>4. ASSUME NEW s \in Streams, NEW r \in stream[s].resp, ResponseRead(s, r) PROVE ExchangeTypeOK'
  <2>1. stream[s].resp \in Option(Response)
    BY DEF ExchangeTypeOK, TypeOK, StreamRecord
  <2>2. r \in Response
    BY <2>1, OptionElement
  <2>3. r.success \in Option(Membership)
    BY <2>2 DEF Response, Membership
  <2> QED BY <1>1, <1>4, <2>3 DEF ResponseRead, ExchangeTypeOK
<1>5. CASE UNCHANGED clientVars
  BY <1>1, <1>5 DEF clientVars, ExchangeTypeOK
<1> QED BY <1>2, <1>3, <1>4, <1>5 DEF ExchangeNext, ClientNext, exchangeVars

\* Requesters and server together keep the types of both.
THEOREM ExchangeTypeCorrect == ExchangeSpec => []ExchangeTypeOK
<1> QED BY ExchangeInitType, ExchangeNextType, PTL DEF ExchangeSpec

\* The exchange implements the server alone: whatever is proved of GifterServer with
\* arbitrary clients holds of it with requesters that follow client.rs.
THEOREM ExchangeImplementsServer == ExchangeSpec => Spec
<1>1. ExchangeInit => Init
  BY DEF ExchangeInit
<1>2. ExchangeTypeOK /\ [ExchangeNext]_exchangeVars => [Next]_vars
  BY ExchangeIsServerStep
<1> QED BY <1>1, <1>2, ExchangeTypeCorrect, PTL DEF ExchangeSpec, Spec

-----------------------------------------------------------------------------
(***************************************************************************)
(* What request() returns                                                  *)
(***************************************************************************)

\* An attempt that waits has sent what it wants; one that was granted a membership
\* reports a leaf of that request; one that was turned away left a closed stream, for
\* which no call was made.
Told ==
    /\ \A s \in Streams : attempt[s] = "wait" =>
          want[s] = stream[s].msg /\ stream[s].st # "unused"
    /\ \A s \in Streams : attempt[s] = "granted" =>
          /\ want[s] = stream[s].msg /\ stream[s].st # "unused"
          /\ \E g \in report[s] : MembershipOf(s, g)
    /\ \A s \in Streams : attempt[s] = "unauthorised" =>
          /\ stream[s].st \in {"released", "abandoned", "broken"}
          /\ call[s].st = "none"

\* A membership stays where it is, and an open stream does not become unused.
LEMMA MembershipKept ==
    ASSUME TypeOK, Handling, [Next]_vars, NEW s \in Streams, stream[s].st # "unused"
    PROVE  /\ stream'[s].msg = stream[s].msg /\ stream'[s].st # "unused"
           /\ \A g : MembershipOf(s, g) => MembershipOf(s, g)'
<1>1. stream'[s].msg = stream[s].msg
  BY RequestKept
<1>2. stream'[s].st # "unused"
  <2>1. ASSUME NEW w \in Workers, WorkerStep(w) PROVE stream'[s].st # "unused"
    <3>1. stream' = stream \/ \E t \in Streams :
             Accept(w, t) \/ AcceptLost(w, t) \/ ReadFails(w, t) \/ Respond(w, t)
      BY <2>1, StreamsTouched
    <3>2. ASSUME NEW t \in Streams, Accept(w, t) \/ AcceptLost(w, t) \/ ReadFails(w, t)
          PROVE  stream'[s].st # "unused"
      BY <3>2 DEF Accept, AcceptLost, ReadFails, TypeOK, StreamRecord
    <3>3. ASSUME NEW t \in Streams, Respond(w, t) PROVE stream'[s].st # "unused"
      BY <3>3 DEF Respond, TypeOK, StreamRecord
    <3> QED BY <3>1, <3>2, <3>3
  <2>2. ASSUME NEW k \in Callers, ServeStep(k) PROVE stream' = stream
    BY <2>2 DEF ServeStep, ServeMerge, ServePublish, ServeSwap, MountFails, MountOk
  <2>3. ChainStep => stream' = stream
    BY ChainCalls
  <2>4. CASE Crash
    BY <2>4 DEF Crash, TypeOK, StreamRecord
  <2>5. CASE ClientStep
    <3>1. PICK t \in Streams, m \in Option(Requests) : ClientOpens(t, m)
      BY <2>5 DEF ClientStep
    <3> QED BY <3>1 DEF ClientOpens, TypeOK
  <2>6. UNCHANGED vars => stream' = stream
    BY DEF vars
  <2> QED BY <2>1, <2>2, <2>3, <2>4, <2>5, <2>6 DEF Next, ServerStep
<1>3. ASSUME NEW g, MembershipOf(s, g) PROVE MembershipOf(s, g)'
  BY <1>1, <1>3, MembershipStays
<1> QED BY <1>1, <1>2, <1>3

\* Every step of the exchange keeps Told.
LEMMA ToldStep ==
    /\ ExchangeTypeOK /\ Handling /\ ReportsTrue /\ RefusedIsFree /\ Told
    /\ [ExchangeNext]_exchangeVars
    => Told'
<1> SUFFICES ASSUME ExchangeTypeOK, Handling, ReportsTrue, RefusedIsFree, Told,
                    [ExchangeNext]_exchangeVars
             PROVE  Told'
  OBVIOUS
<1>0. TypeOK /\ [Next]_vars
  BY ExchangeIsServerStep DEF ExchangeTypeOK
<1> DEFINE Kept(s) == /\ \/ attempt'[s] = attempt[s]
                         \/ attempt'[s] \notin {"wait", "granted", "unauthorised"}
                      /\ want'[s] = want[s] \/ attempt[s] = "idle"
                      /\ report'[s] = report[s]
           Fine(s) == /\ attempt[s] = "wait" => want[s] = stream[s].msg /\ stream[s].st # "unused"
                      /\ attempt[s] = "granted" =>
                            /\ want[s] = stream[s].msg /\ stream[s].st # "unused"
                            /\ \E g \in report[s] : MembershipOf(s, g)
                      /\ attempt[s] = "unauthorised" =>
                            /\ stream[s].st \in {"released", "abandoned", "broken"}
                            /\ call[s].st = "none"
<1>1. ASSUME NEW s \in Streams, Kept(s) PROVE Fine(s)'
  <2>1. Fine(s)
    BY DEF Told
  <2>2. stream[s].st # "unused" =>
           /\ stream'[s].msg = stream[s].msg /\ stream'[s].st # "unused"
           /\ \A g : MembershipOf(s, g) => MembershipOf(s, g)'
    BY <1>0, MembershipKept
  <2>3. stream[s].st \in {"released", "abandoned", "broken"} =>
           /\ stream'[s] = stream[s]
           /\ call[s].st = "none" => call'[s].st = "none"
    BY <1>0, ClosedKept
  <2>4. CASE attempt'[s] = "wait"
    BY <1>1, <2>1, <2>2, <2>4
  <2>5. CASE attempt'[s] = "granted"
    BY <1>1, <2>1, <2>2, <2>5
  <2>6. CASE attempt'[s] = "unauthorised"
    BY <1>1, <2>1, <2>3, <2>6
  <2> QED BY <2>4, <2>5, <2>6
<1>2. (\A s \in Streams : Fine(s)') => Told'
  BY DEF Told
<1>3. CASE UNCHANGED clientVars
  <2>1. \A s \in Streams : Kept(s)
    BY <1>3 DEF clientVars
  <2> QED BY <1>1, <1>2, <2>1
<1>4. ASSUME NEW s \in Streams,
             \/ \E m \in Requests : RequestCalled(s, m)
             \/ PayloadReady(s) \/ PayloadFails(s) \/ DialFails(s) \/ RequestTimeout(s)
      PROVE  Told'
  <2>1. \A t \in Streams : Kept(t)
    BY <1>4 DEF RequestCalled, PayloadReady, PayloadFails, DialFails, RequestTimeout, Finish,
                ExchangeTypeOK, AttemptStates
  <2> QED BY <1>1, <1>2, <2>1
<1>5. ASSUME NEW s \in Streams, RequestSent(s) PROVE Told'
  <2>1. /\ attempt'[s] = "wait" /\ UNCHANGED <<want, report>>
        /\ \A t \in Streams : t # s => attempt'[t] = attempt[t]
    BY <1>5 DEF RequestSent, Finish, ExchangeTypeOK
  <2>2. stream'[s].msg = want[s] /\ stream'[s].st = "queued"
    BY <1>0, <1>5 DEF RequestSent, ClientOpens, TypeOK, StreamRecord
  <2>3. Fine(s)'
    BY <2>1, <2>2
  <2>4. \A t \in Streams : t # s => Kept(t)
    BY <2>1
  <2> QED BY <1>1, <1>2, <2>3, <2>4
<1>6. ASSUME NEW s \in Streams, NEW r \in stream[s].resp, ResponseRead(s, r) PROVE Told'
  <2>1. /\ UNCHANGED <<vars, want>> /\ attempt[s] = "wait"
        /\ attempt'[s] = IF ~ r.auth_success THEN "unauthorised"
                         ELSE IF r.success = {} THEN "failed" ELSE "granted"
        /\ report'[s] = r.success
        /\ \A t \in Streams : t # s => attempt'[t] = attempt[t] /\ report'[t] = report[t]
    BY <1>6 DEF ResponseRead, ExchangeTypeOK
  <2>2. want[s] = stream[s].msg /\ stream[s].st # "unused"
    BY <2>1 DEF Told
  <2>3. r \in Given(s) /\ r \in Response
    <3>1. stream[s].resp \in Option(Response)
      BY DEF ExchangeTypeOK, TypeOK, StreamRecord
    <3> QED BY <3>1, OptionElement, GivenMembers
  <2>4. stream[s].st \in {"released", "abandoned", "broken"}
    BY DEF Handling, ResponsesHeld, ExchangeTypeOK, TypeOK, StreamRecord
  <2>5. UNCHANGED <<stream, call, registry>>
    BY <2>1 DEF vars, chainVars
  <2>6. CASE attempt'[s] = "granted"
    <3>1. PICK g : g \in r.success
      BY <2>1, <2>6
    <3>2. MembershipOf(s, g)
      BY <2>3, <3>1 DEF ReportsTrue
    <3>3. MembershipOf(s, g)'
      BY <2>5, <3>2 DEF MembershipOf
    <3> QED BY <1>1, <1>2, <2>1, <2>2, <2>5, <2>6, <3>1, <3>3
  <2>7. CASE attempt'[s] = "unauthorised"
    <3>1. r.auth_success = FALSE
      BY <2>1, <2>3, <2>7 DEF Response
    <3>2. call[s].st = "none"
      BY <2>3, <3>1 DEF RefusedIsFree
    <3> QED BY <1>1, <1>2, <2>1, <2>4, <2>5, <2>7, <3>2
  <2>8. CASE attempt'[s] = "failed"
    BY <1>1, <1>2, <2>1, <2>8
  <2> QED BY <2>1, <2>6, <2>7, <2>8
<1> QED BY <1>3, <1>4, <1>5, <1>6 DEF ExchangeNext, ClientNext, exchangeVars

\* What the server has told, the requesters report.
ExchangeInvariant ==
    ExchangeTypeOK /\ Handling /\ ReportsTrue /\ RefusedIsFree /\ Told

\* The invariant of the exchange holds in every state.
LEMMA ExchangeInvariantHolds == ExchangeSpec => []ExchangeInvariant
<1>1. ExchangeInit => ExchangeInvariant
  <2> SUFFICES ASSUME ExchangeInit PROVE ExchangeInvariant
    OBVIOUS
  <2>1. Init /\ ExchangeTypeOK
    BY ExchangeInitType DEF ExchangeInit
  <2>2. ReportsTrue /\ RefusedIsFree
    BY <2>1, NoAnswerYet DEF ReportsTrue, RefusedIsFree
  <2>3. Told
    BY DEF ExchangeInit, Told
  <2> QED BY <2>1, <2>2, <2>3, HandlingInit DEF ExchangeInvariant
<1>2. ExchangeInvariant /\ [ExchangeNext]_exchangeVars => ExchangeInvariant'
  <2> SUFFICES ASSUME ExchangeInvariant, [ExchangeNext]_exchangeVars PROVE ExchangeInvariant'
    OBVIOUS
  <2>1. TypeOK /\ [Next]_vars
    BY ExchangeIsServerStep DEF ExchangeInvariant, ExchangeTypeOK
  <2>2. Handling' /\ ReportsTrue' /\ RefusedIsFree'
    BY <2>1, HandlingStep, ReportsStep, RefusedStep DEF ExchangeInvariant
  <2> QED BY <2>2, ExchangeNextType, ToldStep DEF ExchangeInvariant
<1> QED BY <1>1, <1>2, PTL DEF ExchangeSpec

\* A membership that request() returns is one: the commitment that was asked for is
\* in that leaf of that account, whatever the gifter lost, answered late or restarted
\* through.
THEOREM GrantedIsOnChain == ExchangeSpec => []GrantIsReal
<1>1. ExchangeInvariant => GrantIsReal
  BY DEF ExchangeInvariant, Told, MembershipOf, GrantIsReal
<1> QED BY <1>1, ExchangeInvariantHolds, PTL

\* An attempt that request() reports as not authorised costs nothing: no registration
\* was made for it, and none is made later.
THEOREM UnauthorisedPaysNothing == ExchangeSpec => []UnauthorisedIsFree
<1>1. ExchangeInvariant => UnauthorisedIsFree
  BY DEF ExchangeInvariant, Told, UnauthorisedIsFree
<1> QED BY <1>1, ExchangeInvariantHolds, PTL

\* As long as no reply misses its time limit, a requester that is told that nothing
\* was submitted finds no registration of that attempt on chain, and a crash of the
\* gifter does not change that.
THEOREM NotSubmittedLeavesNothing ==
    ASSUME "lost_reply" \notin Faults
    PROVE  ExchangeSpec => []NotSubmittedIsFinal
<1>1. Init => TypeOK /\ Handling /\ NotSubmittedIsTrue
  BY InitType, HandlingInit, NoAnswerYet DEF NotSubmittedIsTrue
<1>2. NotSubmittedIsTrue => NotSubmittedIsFinal
  <2> SUFFICES ASSUME NotSubmittedIsTrue, NEW s \in Streams, NEW r \in stream[s].resp,
                      r.reason = "not_submitted"
               PROVE  call[s].st \notin Live
    BY DEF NotSubmittedIsFinal
  <2>1. r \in Given(s)
    BY GivenMembers
  <2> QED BY <2>1 DEF NotSubmittedIsTrue, Live, Submitted
<1>3. Spec => []NotSubmittedIsFinal
  BY <1>1, <1>2, NextType, HandlingStep, NotSubmittedStep, PTL DEF Spec
<1> QED BY <1>3, ExchangeImplementsServer, PTL

=============================================================================
