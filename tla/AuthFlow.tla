------------------------------ MODULE AuthFlow ------------------------------
(***************************************************************************)
(* The way of one authentication payload: a card is captured, or a wallet  *)
(* signs; the payload may be damaged before it arrives; a verifier module  *)
(* judges it for some commitment under the operator's configuration; and   *)
(* the protocol delivers the verifier's reply, whole or not, to the        *)
(* gifter.  The same conversions serve the replies of libp2p_module.       *)
(***************************************************************************)
EXTENDS AuthVectors

CONSTANTS
    Cards,         \* [ident, ca_rs, ca_recid, issuer]
    Commitments,   \* identity commitments
    Configs,       \* auth_type -> set of [auth_type, value, trusts, sound]: what the
                   \* operator wrote, meant by it, and whether it is well formed
    Damage,        \* the bytes that damage leaves behind: no signature among them
    MaxEdits       \* bound: bytes of a payload that are damaged

VARIABLES
    stage,     \* "start", "failed", "transit", "judged", "delivered" or "relayed"
    source,    \* who made the payload
    made,      \* the credential: [auth_type, key, issuer, digest, low_s]
    payload,   \* its bytes, until they are judged
    edits,     \* how many of them were damaged
    asked,     \* what the verifier was asked
    reply,     \* the object that the called module replied with
    raw        \* the text that the caller received for it

ASSUME BoundsAssumption ==
    /\ HALF > 4 /\ Damage \subseteq Byte /\ MaxEdits \in Nat
    /\ Commitments \subseteq {idc \in Seq(Byte) : Len(idc) = COMMITMENT_LEN}

\* A card has its CA's signature over its identity key.
ASSUME CardsAssumption ==
    /\ Cards \subseteq [ident : Points \cap Byte, ca_rs : DOMAIN CaSignatures \cap Byte,
                        ca_recid : 0..3, issuer : Byte]
    /\ \A card \in Cards : LET ca == CaSignatures[card.ca_rs]
                            IN /\ ca.signer = card.issuer /\ ca.recid = card.ca_recid
                               /\ ca.digest = IdentDigest(card.ident)

vars == <<stage, source, made, payload, edits, asked, reply, raw>>

Nothing == [none |-> TRUE]

Init ==
    /\ stage = "start" /\ source = "none" /\ payload = << >> /\ edits = 0
    /\ made = Nothing /\ asked = Nothing /\ reply = Nothing /\ raw = NoText

\* The answer of a card to IDENTIFY: the certificate and one of its signatures, in
\* a template whose length takes a long form.
CardTlv(card, sig, form) ==
    LET body == <<TAG_CERTIFICATE, CERTIFICATE_LEN, card.ident, card.ca_rs, card.ca_recid,
                  TAG_DER_SEQUENCE, 1, sig>>
        length == IF form = 1 THEN <<HALF + 1, Len(body)>> ELSE <<HALF + 2, 0, Len(body)>>
    IN <<TAG_SIGNATURE_TEMPLATE>> \o length \o body

\* A wallet's signature, with the recovery id raw or with its offset.
WalletPayload(sig, offset) == <<sig, EthSignatures[sig].recid + offset>>

\* A credential, and whether the signature that its signer is recovered from (the CA's on
\* a card, the wallet's) has a low s.
Signed(auth_type, key, issuer, digest, low_s) ==
    [auth_type |-> auth_type, key |-> key, issuer |-> issuer, digest |-> digest, low_s |-> low_s]

SignedByCard(card, sig) ==
    Signed(KEYCARD_ATTEST_AUTH_TYPE, card.ident, card.issuer, CardSignatures[sig].digest,
           ~ CaSignatures[card.ca_rs].high)

SignedByWallet(sig) ==
    LET s == EthSignatures[sig]
    IN Signed(ETH_ALLOWLIST_AUTH_TYPE, s.signer, s.signer, s.digest, ~ s.high)

CardMakes(card, sig) == card \in Cards /\ sig \in DOMAIN CardSignatures
                        /\ CardSignatures[sig].signer = card.ident

\* The bytes of a payload and those that damage may leave in it.
AtHand(bytes) == ToSet(bytes) \cup Damage

\* Nobody forges: whatever is at hand with a card's answer holds no certificate but the
\* card's own, no signature of the card but this one, and with a wallet's signature no
\* other wallet signature is at hand.
ASSUME UnforgedAssumption ==
    /\ \A card \in Cards, sig \in DOMAIN CardSignatures, form \in 1..2 :
          CardMakes(card, sig) =>
             /\ \A x \in AtHand(CardTlv(card, sig, form)),
                   b \in AtHand(CardTlv(card, sig, form)) \cap DOMAIN CaSignatures :
                      CaSignatures[b].digest = IdentDigest(x) =>
                         x = card.ident /\ CaSignatures[b].signer = card.issuer
             /\ \A b \in AtHand(CardTlv(card, sig, form)) \cap DOMAIN CardSignatures :
                   CardSignatures[b].signer = card.ident =>
                      CardSignatures[b].digest = CardSignatures[sig].digest
    /\ \A sig \in DOMAIN EthSignatures, offset \in {0, RECID_OFFSET} :
          AtHand(WalletPayload(sig, offset)) \cap DOMAIN EthSignatures = {sig}

\* What the operator's text says: an array, not empty, of the hex of a key each, or of
\* addresses.
IsCa(entry, key) == entry.is_str /\ FromHex(entry.text) = {<<key>>}
IsAddress(entry, key) == entry.is_str /\ to_lowercase(entry.text) = KeyHash[key]

ASSUME ConfigsAssumption ==
    /\ \A c \in Configs[KEYCARD_ATTEST_AUTH_TYPE] :
          /\ c.auth_type = KEYCARD_ATTEST_AUTH_TYPE
          /\ \A arr \in c.value : \A i \in 1..Len(arr) :
                arr[i].is_str => arr[i].text \in Seq(0..NotHex)
          /\ c.sound <=> \E arr \in c.value :
                /\ 1..Len(arr) # {}
                /\ \A i \in 1..Len(arr) : \E key \in Byte : IsCa(arr[i], key)
          /\ c.sound => \A key \in Byte \cup {Nobody} :
                key \in c.trusts <=> \E arr \in c.value : \E i \in 1..Len(arr) : IsCa(arr[i], key)
    /\ \A c \in Configs[ETH_ALLOWLIST_AUTH_TYPE] :
          /\ c.auth_type = ETH_ALLOWLIST_AUTH_TYPE
          /\ c.sound <=> \E arr \in c.value :
                1..Len(arr) # {} /\ \A i \in 1..Len(arr) : arr[i].is_str
          /\ c.sound => \A key \in DOMAIN KeyHash :
                key \in c.trusts <=>
                   \E arr \in c.value : \E i \in 1..Len(arr) : IsAddress(arr[i], key)
    /\ \A t \in {KEYCARD_ATTEST_AUTH_TYPE, ETH_ALLOWLIST_AUTH_TYPE} : \A c \in Configs[t] :
          Nobody \notin c.trusts /\ \A a, b \in c.value : a = b

\* The requester has keycard-capture produce a payload for idc, and decodes it.  The
\* card may fail, be blank, or answer with a signature over something else.
Capture(card, sig, form, idc, answers, initialized) ==
    /\ stage = "start"
    /\ LET out == parse_produce_reply(produce_auth(
                    {[auth_type |-> KEYCARD_ATTEST_AUTH_TYPE, id_commitment_hex |-> hex_encode(idc)]},
                    [answers |-> answers, initialized |-> initialized,
                     tlv |-> CardTlv(card, sig, form)]))
       IN IF out = {} THEN stage' = "failed" /\ payload' = << >>
          ELSE stage' = "transit" /\ \E text \in out : payload' \in FromHex(text)
    /\ source' = "capture"
    /\ made' = SignedByCard(card, sig)
    /\ asked' = [idc |-> idc]
    /\ UNCHANGED <<edits, reply, raw>>

\* A payload of another producer: a card of another issuer, a tool, a wallet, which
\* gives the recovery id raw or with its offset.
Submit(credential, bytes) ==
    /\ stage = "start"
    /\ stage' = "transit" /\ source' = "other" /\ payload' = bytes
    /\ made' = credential
    /\ UNCHANGED <<edits, asked, reply, raw>>

SubmitCard(card, sig, form) == Submit(SignedByCard(card, sig), CardTlv(card, sig, form))
SubmitWallet(sig, offset) == Submit(SignedByWallet(sig), WalletPayload(sig, offset))

Damaged(bytes) ==
    /\ stage = "transit" /\ edits < MaxEdits
    /\ payload' = bytes /\ edits' = edits + 1
    /\ UNCHANGED <<stage, source, made, asked, reply, raw>>

Replace(i, b) == i \in 1..Len(payload) /\ Damaged([payload EXCEPT ![i] = b])
Append1(b) == Damaged(payload \o <<b>>)
Cut == payload # << >> /\ Damaged(SubSeq(payload, 1, Len(payload) - 1))

\* Hex text as the server writes it, or as another caller of the method may.
TextForms == {"plain", "prefixed", "odd"}

TextOf(form, bytes) ==
    CASE form = "plain" -> hex_encode(bytes)
      [] form = "prefixed" -> <<PREFIX>> \o hex_encode(bytes)
      [] form = "odd" -> hex_encode(bytes) \o <<0>>

\* A verifier module judges the payload.
Judge(module, idc, config, pform, iform) ==
    /\ stage = "transit"
    /\ edits = 0 \/ (pform = "plain" /\ iform = "plain")
    /\ LET req == [auth_type |-> config.auth_type, payload_hex |-> TextOf(pform, payload),
                   id_commitment_hex |-> TextOf(iform, idc), config |-> config.value]
       IN reply' = verify_auth(module, {req})
    /\ asked' = [module |-> module, idc |-> idc, config |-> config, parsed |-> TRUE,
                 legible |-> pform # "odd" /\ iform # "odd"]
    /\ stage' = "judged" /\ payload' = << >>
    /\ UNCHANGED <<source, made, edits, raw>>

\* The argument of the call is not the JSON of a request.
JudgeGarbled(module, config) ==
    /\ stage = "transit" /\ edits = 0
    /\ reply' = verify_auth(module, {})
    /\ asked' = [module |-> module, idc |-> << >>, config |-> config, parsed |-> FALSE,
                 legible |-> FALSE]
    /\ stage' = "judged" /\ payload' = << >>
    /\ UNCHANGED <<source, made, edits, raw>>

\* How the text of an object may arrive: as a string in JSON, bare, or lost.
Whole(body) == {Json(Str(Json(Obj(body)))), Json(Obj(body))}
Broken == {NoText, Noise, Json(Str(NoText)), Json(Str(Noise)), Json(Null)}

Deliver ==
    /\ stage = "judged"
    /\ stage' = "delivered" /\ raw' \in Whole(reply) \cup Broken
    /\ UNCHANGED <<source, made, payload, edits, asked, reply>>

\* libp2p_module replies with its envelope.
Relay(success) ==
    /\ stage = "start"
    /\ \/ reply' = [success |-> success]
       \/ reply' = [success |-> success, value |-> Obj([streamId |-> 1])]
    /\ stage' = "relayed" /\ raw' \in Whole(reply') \cup Broken
    /\ UNCHANGED <<source, made, payload, edits, asked>>

Next ==
    \/ \E card \in Cards, sig \in DOMAIN CardSignatures, form \in 1..2 :
          /\ CardMakes(card, sig)
          /\ \/ SubmitCard(card, sig, form)
             \/ \E idc \in Commitments, answers, initialized \in BOOLEAN :
                   Capture(card, sig, form, idc, answers, initialized)
    \/ \E sig \in DOMAIN EthSignatures, offset \in {0, RECID_OFFSET} : SubmitWallet(sig, offset)
    \/ \E b \in Damage : Append1(b) \/ \E i \in 1..Len(payload) : Replace(i, b)
    \/ Cut
    \/ /\ stage = "transit"
       /\ \E module \in Verifiers, config \in Configs[made.auth_type] :
             \/ JudgeGarbled(module, config)
             \/ \E idc \in Commitments, pform, iform \in TextForms :
                   Judge(module, idc, config, pform, iform)
    \/ Deliver
    \/ \E success \in {"true", "false", "other"} : Relay(success)

Spec == Init /\ [][Next]_vars

-----------------------------------------------------------------------------

\* What the credential was made for: the commitment idc, in the terms of its vector.
MadeFor(idc) ==
    made.digest = IF made.auth_type = ETH_ALLOWLIST_AUTH_TYPE
                  THEN eip191_digest(idc) ELSE <<"attest", idc>>

\* The configuration is sound and lists the key that vouches for the credential.
Trusted == asked.config.sound /\ made.issuer \in asked.config.trusts

\* Routed to a verifier that hosts the type, with a request that parses.
WellAsked == asked.parsed /\ Hosts(asked.module) = asked.config.auth_type

Accepted == stage \in {"judged", "delivered"} /\ "ok" \in DOMAIN reply /\ reply.ok

\* Type correctness: a judged payload has the error envelope, a refusal, or an
\* acceptance under exactly one nullifier, which the server's replay protection needs.
FlowTypeOK ==
    /\ payload \in Seq(Byte) /\ edits \in 0..MaxEdits
    /\ stage \in {"start", "failed", "transit", "judged", "delivered", "relayed"}
    /\ stage \in {"judged", "delivered"} =>
          \/ reply \in {error_reply, reject}
          \/ \E k \in DOMAIN KeyHash : reply = Verdict(TRUE, {KeyHash[k]})

\* An undamaged payload is accepted for the commitment it was made for, in every
\* encoding of its lengths, recovery id and hex text and whatever the s of the card's
\* signature, with the one nullifier of its holder, which the server's normalisation
\* leaves as it is.  The signature of the wallet or of the CA has a low s: nothing
\* normalises those, and one with a high s is refused.
IntactIsAccepted ==
    (/\ stage = "judged" /\ edits = 0 /\ WellAsked /\ asked.legible
     /\ Trusted /\ MadeFor(asked.idc))
    => IF ~ made.low_s THEN reply = reject ELSE
       /\ Accepted /\ reply.nullifier = {KeyHash[made.key]}
       /\ Normalize(KeyHash[made.key]) = KeyHash[made.key]
       /\ ~ Malformed(KeyHash[made.key])

\* A payload is accepted for no other commitment and under no other nullifier than its
\* holder signed for, and only when the operator trusts the holder, whatever bytes of
\* it were damaged.
AcceptedIsGenuine ==
    Accepted => /\ MadeFor(asked.idc) /\ Trusted
                /\ reply.nullifier = {KeyHash[made.key]}

\* The error envelope tells the operator of a bad request or configuration, and
\* nothing in the payload or the commitment can cause it.
EnvelopeMeansOperator ==
    stage = "judged" => (reply = error_reply <=> ~ (WellAsked /\ asked.config.sound))

\* What keycard-capture hands out is accepted, for the commitment it was asked for,
\* wherever the production CA is trusted.
CapturedVerifies ==
    (stage = "transit" /\ source = "capture" /\ edits = 0) =>
       /\ MadeFor(asked.idc)
       /\ \A c \in Configs[KEYCARD_ATTEST_AUTH_TYPE] :
             c.sound /\ STATUS_PRODUCTION_CA \in c.trusts =>
             verify_auth("keycard_auth_module",
                {[auth_type |-> KEYCARD_ATTEST_AUTH_TYPE, payload_hex |-> hex_encode(payload),
                  id_commitment_hex |-> hex_encode(asked.idc), config |-> c.value]}).ok

\* The gifter acts on the verdict that the verifier gave, or on none: a reply that was
\* lost, emptied or mangled is an error, never a verdict.
ReplyIsVerdict ==
    stage = "delivered" =>
       LET parsed == UNION {parse_verdict(v) : v \in call_module_json(raw)}
       IN /\ parsed \subseteq {reply}
          /\ raw \in Whole(reply) => (parsed = {} <=> reply = error_reply)

\* A failure that libp2p_module reports is never taken for a success, and its value
\* arrives unchanged, with or without the second encoding.
FailureIsHonoured ==
    (stage = "relayed" /\ raw \in Whole(reply)) =>
       call_libp2p(raw) = IF reply.success = "false" THEN {}
                          ELSE IF "value" \in DOMAIN reply THEN {reply.value} ELSE {Null}

\* The two readers of the card's data agree: what the verifier's finds, the card
\* client's finds too.
ParsersAgree ==
    \A tag \in {TAG_SIGNATURE_TEMPLATE, TAG_CERTIFICATE, TAG_DER_SEQUENCE} :
       \A e \in attest_find_tag(payload, tag) : apdu_find_tag(payload, tag) = {e.value}

\* Bytes that arrive after an element do not change what was read of it.
SuffixIsIgnored ==
    [][\A b \in Damage : Append1(b) =>
          \A tag \in {TAG_SIGNATURE_TEMPLATE, TAG_CERTIFICATE} :
             attest_find_tag(payload, tag) # {} =>
                attest_find_tag(payload', tag) = attest_find_tag(payload, tag)]_vars

=============================================================================
