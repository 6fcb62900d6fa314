----------------------------- MODULE WireFrames -----------------------------
(***************************************************************************)
(* The frames that two peers exchange: one encodes a message, perhaps in a *)
(* later version of the protocol that adds fields of its own, the frame    *)
(* may lose its end on the way, and the other decodes what arrives.        *)
(***************************************************************************)
EXTENDS Wire

CONSTANTS
    RequestMessages,    \* the requests to encode
    ResponseMessages,   \* the responses to encode
    UnknownFields,      \* field numbers of a later version
    MaxUnknown          \* bound: unknown fields added to a frame

Octets == {s \in Seq(Nat) : Len(s) < WORD}

Word == 0..(WORD - 1)

Optional(S) == {T \in SUBSET S : \A x, y \in T : x = y}

Requests ==
    [request_id : Octets, authentication_type : Octets, authentication_payload : Octets,
     identity_commitment : Octets, rate_limit : Optional(Word)]

Successes ==
    [leaf_index : Word, merkle_root : Octets, block_number : Word, transaction_hash : Octets,
     config_account_id : Optional(Octets)]

Failures == [error_message : Octets]

Responses ==
    [request_id : Octets, auth_success : BOOLEAN, error : Optional(Octets),
     success : Optional({s \in Successes : Len(EncodeSuccess(s)) < WORD}),
     failure : Optional({f \in Failures : Len(EncodeFailure(f)) < WORD})]

\* The messages have the types of the code, and a length is a machine word.
ASSUME MessagesAssumption == RequestMessages \subseteq Requests /\ ResponseMessages \subseteq Responses

\* A later version adds fields with numbers of its own, and keys are machine words.
ASSUME UnknownAssumption ==
    /\ UnknownFields \subseteq {f \in Nat \ 1..5 : f * 8 + 2 < WORD}
    /\ MaxUnknown \in Nat

VARIABLES
    kind,      \* "request" or "response"
    msg,       \* the message that was encoded
    frame,     \* the bytes that arrive
    unknown,   \* how many unknown fields were added
    cut        \* the frame has lost its end

vars == <<kind, msg, frame, unknown, cut>>

Init ==
    /\ \/ kind = "request" /\ msg \in RequestMessages /\ frame = EncodeRequest(msg)
       \/ kind = "response" /\ msg \in ResponseMessages /\ frame = EncodeResponse(msg)
    /\ unknown = 0
    /\ cut = FALSE

\* A later version of the sender ends the message with a field of its own.
Extend(field, data) ==
    /\ ~ cut /\ unknown < MaxUnknown
    /\ frame' = frame \o put_len_field(field, data)
    /\ unknown' = unknown + 1
    /\ UNCHANGED <<kind, msg, cut>>

Cut ==
    /\ frame # << >>
    /\ frame' = SubSeq(frame, 1, Len(frame) - 1)
    /\ cut' = TRUE
    /\ UNCHANGED <<kind, msg, unknown>>

Next == Cut \/ \E field \in UnknownFields, data \in {<< >>, <<0>>} : Extend(field, data)

Spec == Init /\ [][Next]_vars

Decoded == IF kind = "request" THEN DecodeRequest(frame) ELSE DecodeResponse(frame)

\* What one peer encodes the other decodes, at every boundary of the varints and
\* with or without fields that it does not know.
RoundTrip == ~ cut => Decoded = {msg}

\* A frame that lost its end is refused, or decodes to the message without some of
\* its optional parts: a request keeps everything but its rate, and a response
\* never reports a membership or an error that was not sent.
CutNeverInvents ==
    \A m \in Decoded :
       IF kind = "request" THEN m \in {msg, [msg EXCEPT !.rate_limit = {}]}
       ELSE /\ m.request_id = msg.request_id /\ m.auth_success = msg.auth_success
            /\ m.error \subseteq msg.error
            /\ m.success \subseteq msg.success
            /\ m.failure \subseteq msg.failure

=============================================================================
