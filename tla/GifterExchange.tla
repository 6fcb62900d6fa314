--------------------------- MODULE GifterExchange ---------------------------
(***************************************************************************)
(* A requester (client.rs) and the gifter node, end to end: request()      *)
(* checks its arguments, obtains the authentication payload, sends one     *)
(* request over a stream, waits for the answer for at most                 *)
(* REQUEST_TIMEOUT_MS, and reports a membership or an error.  The gifter   *)
(* is GifterServer; a requester that gives up tells it nothing.            *)
(*                                                                         *)
(* One attempt is made per stream.  A requester that tries again makes     *)
(* another attempt, with the same arguments or with others.                *)
(***************************************************************************)
EXTENDS GifterServer

VARIABLES
    want,     \* what each attempt asks for: the request it will send
    attempt,  \* where it is
    report    \* what request() returned: the membership, if it is one

clientVars == <<want, attempt, report>>
exchangeVars == <<vars, clientVars>>

Membership == [config : STRING, leaf_index : Nat]

AttemptStates == {"idle", "produce", "send", "wait", "refused", "timeout", "failed",
                  "unauthorised", "granted"}

ExchangeTypeOK ==
    /\ TypeOK
    /\ want \in [Streams -> Option(Requests)]
    /\ attempt \in [Streams -> AttemptStates]
    /\ report \in [Streams -> Option(Membership)]

ExchangeInit ==
    /\ Init
    /\ want = [s \in Streams |-> {}]
    /\ attempt = [s \in Streams |-> "idle"]
    /\ report = [s \in Streams |-> {}]

Finish(s, st) == attempt' = [attempt EXCEPT ![s] = st] /\ UNCHANGED report

-----------------------------------------------------------------------------
\* request() accepts its arguments: a commitment in hexadecimal (its length is
\* not checked), and a payload source exactly when there is an authentication
\* type.  A call with other arguments returns an error and changes nothing.
RequestCalled(s, m) ==
    /\ attempt[s] = "idle"
    /\ want' = [want EXCEPT ![s] = {m}]
    /\ attempt' = [attempt EXCEPT ![s] = IF m.type = << >> THEN "send" ELSE "produce"]
    /\ UNCHANGED <<vars, report>>

\* The payload is at hand, or its provider module produced it.
PayloadReady(s) ==
    /\ attempt[s] = "produce"
    /\ Finish(s, "send")
    /\ UNCHANGED <<vars, want>>

\* The payload is not hexadecimal, or the provider fails or times out: nothing
\* is sent.
PayloadFails(s) ==
    /\ attempt[s] = "produce"
    /\ Finish(s, "refused")
    /\ UNCHANGED <<vars, want>>

\* protocolRequest dials the gifter and sends the request.
RequestSent(s) ==
    /\ attempt[s] = "send"
    /\ ClientOpens(s, want[s])
    /\ Finish(s, "wait")
    /\ UNCHANGED want

\* The gifter cannot be dialled.
DialFails(s) ==
    /\ attempt[s] = "send"
    /\ Finish(s, "refused")
    /\ UNCHANGED <<vars, want>>

\* protocolRequest gives up, or the stream breaks; the gifter may go on.
RequestTimeout(s) ==
    /\ attempt[s] = "wait"
    /\ Finish(s, "timeout")
    /\ UNCHANGED <<vars, want>>

\* Mutant: an authorised response is taken for a membership.
ResponseTrusted(s, r) ==
    /\ attempt[s] = "wait"
    /\ stream[s].resp = {r}
    /\ attempt' = [attempt EXCEPT ![s] = IF r.auth_success THEN "granted" ELSE "unauthorised"]
    /\ report' = [report EXCEPT ![s] = r.success]
    /\ UNCHANGED <<vars, want>>

\* The response decodes and carries the request's id (that of a request which
\* decodes always does): not authorised, or a failure, or a membership.
ResponseRead(s, r) ==
    /\ attempt[s] = "wait"
    /\ stream[s].resp = {r}
    /\ attempt' = [attempt EXCEPT ![s] = IF ~ r.auth_success THEN "unauthorised"
                                         ELSE IF r.success = {} THEN "failed"
                                         ELSE "granted"]
    /\ report' = [report EXCEPT ![s] = r.success]
    /\ UNCHANGED <<vars, want>>

-----------------------------------------------------------------------------
ClientNext ==
    \E s \in Streams :
       \/ \E m \in Requests : RequestCalled(s, m)
       \/ PayloadReady(s)
       \/ PayloadFails(s)
       \/ RequestSent(s)
       \/ DialFails(s)
       \/ RequestTimeout(s)
       \/ \E r \in stream[s].resp : ResponseRead(s, r)

ExchangeNext == ClientNext \/ (ServerStep /\ UNCHANGED clientVars)

ExchangeSpec == ExchangeInit /\ [][ExchangeNext]_exchangeVars

-----------------------------------------------------------------------------
(***************************************************************************)
(* Properties                                                              *)
(***************************************************************************)

\* What request() reports as a membership is one: the commitment that was asked
\* for sits in that leaf of that account, whatever the gifter lost or restarted.
GrantIsReal ==
    \A s \in Streams : attempt[s] = "granted" =>
       \E g \in report[s], m \in want[s] :
          /\ g.leaf_index + 1 \in 1..Len(registry[g.config])
          /\ registry[g.config][g.leaf_index + 1] \in m.idc

\* A requester that is told its authentication failed pays nothing: no
\* registration is ever made for that attempt.
UnauthorisedIsFree ==
    \A s \in Streams : attempt[s] = "unauthorised" => call[s].st = "none"

\* A requester that is told that nothing was submitted will not find a
\* registration of that attempt on chain later.
NotSubmittedIsFinal ==
    \A s \in Streams : \A r \in stream[s].resp :
       r.reason = "not_submitted" => call[s].st \notin Live

=============================================================================
