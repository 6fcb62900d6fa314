----------------------------- MODULE AuthVectors ----------------------------
(***************************************************************************)
(* The authentication vectors: the contract of rln-auth-vector and the     *)
(* modules that ship its roles, eth-auth and keycard-auth (verifiers) and  *)
(* keycard-capture (producer), with the attestation check of               *)
(* keycard-attest.                                                         *)
(*                                                                         *)
(* Lengths are scaled: a public key, a commitment and the r and s of a     *)
(* signature are one byte each.  Cryptography is symbolic: the constant    *)
(* tables say which signatures exist, who made them and over what, and     *)
(* hashes are the terms that they are computed from.  The reason of a      *)
(* refusal and the message of an error are left out.                       *)
(***************************************************************************)
EXTENDS BerTlv, LpReply, NullifierKey, FiniteSets

CONSTANTS
    NIBBLE,            \* the number of hex digits: a byte has two
    CaSignatures,      \* byte -> [signer, digest, recid, high]: signatures over identity keys
    CardSignatures,    \* byte -> [signer, digest, high]: a card's over challenges
    EthSignatures,     \* byte -> [signer, digest, recid, high]: a wallet's
    Points,            \* the bytes that encode a public key
    Nobody,            \* what a signature recovers to over another digest
    KeyHash,           \* key -> String: the lowercase hex of its Keccak hash
    STATUS_PRODUCTION_CA,
    TAG_SIGNATURE_TEMPLATE, TAG_CERTIFICATE, TAG_DER_SEQUENCE,
    RECID_OFFSET       \* 27

ASSUME NibbleAssumption == NIBBLE \in Nat /\ NIBBLE * NIBBLE = BYTE

ASSUME TagsAssumption ==
    /\ {TAG_SIGNATURE_TEMPLATE, TAG_CERTIFICATE, TAG_DER_SEQUENCE} \subseteq Byte
    /\ TAG_CERTIFICATE # TAG_DER_SEQUENCE

\* Signatures, with the recovery ids 0 to 3 and a low or a high s, and the hashes of all
\* keys that may turn up.
ASSUME TablesAssumption ==
    /\ CaSignatures \in [DOMAIN CaSignatures ->
                           [signer : Byte, digest : {"ident"} \X Seq(Byte), recid : 0..3,
                            high : BOOLEAN]]
    /\ CardSignatures \in [DOMAIN CardSignatures ->
                             [signer : Byte, digest : {"attest"} \X Seq(Byte), high : BOOLEAN]]
    /\ EthSignatures \in [DOMAIN EthSignatures ->
                            [signer : Byte, digest : {"eip191"} \X Seq(Nat), recid : 0..3,
                             high : BOOLEAN]]
    /\ DOMAIN CardSignatures \cup DOMAIN EthSignatures \subseteq Byte
    /\ KeyHash \in [DOMAIN KeyHash -> Seq({"a", "b"}) \ {<< >>}]
    /\ Points \cup {Nobody} \cup {EthSignatures[b].signer : b \in DOMAIN EthSignatures}
          \subseteq DOMAIN KeyHash
    /\ STATUS_PRODUCTION_CA \in Byte /\ STATUS_PRODUCTION_CA # Nobody

ASSUME OffsetAssumption == RECID_OFFSET \in 4..(BYTE - 4)

KEYCARD_ATTEST_AUTH_TYPE == "keycard-attestation"
ETH_ALLOWLIST_AUTH_TYPE == "eth-allowlist"

CERTIFICATE_LEN == 3       \* ident_pub(1) || ca_sig(r||s, recid)
ETH_SIGNATURE_LEN == 2     \* r||s, recid
COMMITMENT_LEN == 1
KEY_LEN == 1

-----------------------------------------------------------------------------
(* Hex text: a sequence of digits, two for a byte, and of what is no digit.  *)
(* Upper case digits read like lower case ones and have no place here.      *)

PREFIX == NIBBLE          \* "0x"
NotHex == NIBBLE + 1      \* any other character

\* hex::encode
hex_encode(bytes) ==
    [i \in 1..(2 * Len(bytes)) |->
        LET b == bytes[(i + 1) \div 2] IN IF i % 2 = 1 THEN b \div NIBBLE ELSE b % NIBBLE]

\* str::trim_start_matches("0x"), as often as the prefix is there.
trim_0x(text) ==
    LET rest == {i \in 1..Len(text) : text[i] # PREFIX}
    IN IF rest = {} THEN << >>
       ELSE SubSeq(text, CHOOSE i \in rest : \A j \in rest : i <= j, Len(text))

\* hex::decode
hex_decode(text) ==
    IF Len(text) % 2 = 0 /\ \A i \in 1..Len(text) : text[i] < NIBBLE
      THEN {[i \in 1..(Len(text) \div 2) |-> NIBBLE * text[2 * i - 1] + text[2 * i]]} ELSE {}

FromHex(text) == hex_decode(trim_0x(text))

-----------------------------------------------------------------------------
(* Verdicts and the error envelope.                                        *)

Verdict(ok, nullifier) == [ok |-> ok, nullifier |-> nullifier]
reject == Verdict(FALSE, {})
error_reply == [error |-> TRUE]

\* Mutant of parse_verdict: a missing "ok" reads as a refusal.
ParseVerdictLenient(reply) ==
    IF reply.kind = "object" /\ "error" \in DOMAIN reply.body THEN {}
    ELSE IF reply.kind = "object" THEN {reply.body} ELSE {reject}

\* rln_auth_vector::parse_verdict: the envelope, looked for first, and whatever is no
\* verdict, is an error.
parse_verdict(reply) ==
    IF /\ reply.kind = "object" /\ "error" \notin DOMAIN reply.body
       /\ "ok" \in DOMAIN reply.body
      THEN {reply.body} ELSE {}

\* rln_auth_vector::parse_produce_reply
parse_produce_reply(reply) ==
    IF "error" \notin DOMAIN reply /\ "payload_hex" \in DOMAIN reply
      THEN {reply.payload_hex} ELSE {}

-----------------------------------------------------------------------------
(* k256: recovery and verification, from how the modules use them.         *)

\* VerifyingKey::recover_from_prehash.  A signature recovers to its maker over the
\* digest it was made for, and to a key that nobody holds over any other; the key is then
\* verified, which refuses a high s.
RecoverKey(made, rs, recid, digest) ==
    IF rs \notin DOMAIN made \/ made[rs].high THEN {}
    ELSE IF made[rs].digest = digest /\ made[rs].recid = recid THEN {made[rs].signer}
    ELSE {Nobody}

\* RecoveryId::from_byte
ValidRecid(recid) == recid \in 0..3

\* Signature::from_der: the strict encoding only.
from_der(der) ==
    IF Len(der) = 3 /\ der[2] = 1 /\ der[3] \in DOMAIN CardSignatures
      THEN {CardSignatures[der[3]]} ELSE {}

\* Signature::normalize_s
normalize_s(sig) == [sig EXCEPT !.high = FALSE]

\* PrehashVerifier::verify_prehash, which refuses a high s.
verify_prehash(key, digest, sig) == ~ sig.high /\ sig.signer = key /\ sig.digest = digest

-----------------------------------------------------------------------------
(* keycard-attest                                                          *)

\* SHA256(domain || id_commitment)
bound_challenge(id_commitment) == <<"attest", id_commitment>>

\* The hash that a CA signs of an identity key.
IdentDigest(ident_pub) == <<"ident", <<ident_pub>>>>

\* attest.rs parse_attestation: the certificate and the signature of the template.
AttestationsIn(template) ==
    {[ident_pub |-> c.value[1], ca_rs |-> c.value[2], ca_recid |-> c.value[3],
      challenge_sig |-> s] :
        c \in {e \in attest_find_tag(template, TAG_CERTIFICATE) : Len(e.value) = CERTIFICATE_LEN},
        s \in UNION {from_der(d.full) : d \in attest_find_tag(template, TAG_DER_SEQUENCE)}}

parse_attestation(tlv) ==
    UNION {AttestationsIn(t.value) : t \in attest_find_tag(tlv, TAG_SIGNATURE_TEMPLATE)}

\* Mutant of verify_attestation: a high s is not normalised.
VerifyNoNormalize(att, trusted_cas, challenge) ==
    IF /\ RecoverKey(CaSignatures, att.ca_rs, att.ca_recid, IdentDigest(att.ident_pub))
             \cap trusted_cas # {}
       /\ verify_prehash(att.ident_pub, challenge, att.challenge_sig)
      THEN {KeyHash[att.ident_pub]} ELSE {}

\* Mutant of verify_attestation: the card's signature over the challenge is not checked.
VerifyUnbound(att, trusted_cas, challenge) ==
    IF RecoverKey(CaSignatures, att.ca_rs, att.ca_recid, IdentDigest(att.ident_pub))
          \cap trusted_cas # {}
      THEN {KeyHash[att.ident_pub]} ELSE {}

\* attest.rs verify_attestation: the nullifier of the card.
verify_attestation(att, trusted_cas, challenge) ==
    IF /\ ValidRecid(att.ca_recid)
       /\ RecoverKey(CaSignatures, att.ca_rs, att.ca_recid, IdentDigest(att.ident_pub))
             \cap trusted_cas # {}
       /\ att.ident_pub \in Points
       /\ verify_prehash(att.ident_pub, challenge, normalize_s(att.challenge_sig))
      THEN {KeyHash[att.ident_pub]} ELSE {}

-----------------------------------------------------------------------------
(* Configuration: the array that the operator wrote, if there is one; an   *)
(* entry is a string or something else.                                    *)

\* One entry of trusted_cas: a string with the hex of a key.
CaOf(entry) ==
    IF entry.is_str THEN {ca[1] : ca \in {b \in FromHex(entry.text) : Len(b) = KEY_LEN}} ELSE {}

\* Mutant of parse_trusted_cas: a bad entry is passed over.
CasSkipBad(config) == {UNION {CaOf(arr[i]) : i \in 1..Len(arr)} : arr \in config}

\* keycard-auth parse_trusted_cas: one bad entry fails them all.
parse_trusted_cas(config) ==
    {UNION {CaOf(arr[i]) : i \in 1..Len(arr)} :
        arr \in {a \in config : \A i \in 1..Len(a) : CaOf(a[i]) # {}}}

\* eth-auth: the allowlist, lowercased.
Allowlist(config) ==
    {{to_lowercase(arr[i].text) : i \in 1..Len(arr)} :
        arr \in {a \in config : \A i \in 1..Len(a) : a[i].is_str}}

-----------------------------------------------------------------------------
(* The verifiers: a verdict, or nothing for the error envelope.            *)

\* keycard-auth KeycardVector::verify: the nullifier, and the verdict.
Nullifiers(req, cas) ==
    UNION {UNION {verify_attestation(att, cas, bound_challenge(idc)) :
                     att \in UNION {parse_attestation(p) : p \in FromHex(req.payload_hex)}} :
              idc \in FromHex(req.id_commitment_hex)}

KeycardVerify(req) ==
    {IF Nullifiers(req, cas) = {} THEN reject ELSE Verdict(TRUE, Nullifiers(req, cas)) :
        cas \in parse_trusted_cas(req.config) \ {{}}}

\* eth-auth eip191_digest: over the hex text of the commitment, as a wallet shows it.
eip191_digest(id_commitment) == <<"eip191", hex_encode(id_commitment)>>

\* eth-auth recover_signer: the address of the signer.
recover_signer(id_commitment, sig) ==
    IF Len(sig) # ETH_SIGNATURE_LEN THEN {}
    ELSE LET recid == IF sig[2] >= RECID_OFFSET THEN sig[2] - RECID_OFFSET ELSE sig[2]
         IN IF ~ ValidRecid(recid) THEN {}
            ELSE {KeyHash[k] : k \in RecoverKey(EthSignatures, sig[1], recid,
                                                eip191_digest(id_commitment))}

\* eth-auth EthAllowlistVector::verify: the signer, and the verdict.
Signers(req) ==
    UNION {UNION {recover_signer(idc, sig) : sig \in FromHex(req.payload_hex)} :
              idc \in FromHex(req.id_commitment_hex)}

\* Mutant of EthVerify: the verdict names no nullifier.
EthVerifyNoNullifier(req) ==
    {Verdict(Signers(req) \cap allowlist # {}, {}) : allowlist \in Allowlist(req.config) \ {{}}}

EthVerify(req) ==
    {IF Signers(req) \cap allowlist = {} THEN reject ELSE Verdict(TRUE, Signers(req)) :
        allowlist \in Allowlist(req.config) \ {{}}}

\* The modules that ship a verifier, and the vector each hosts.
Verifiers == {"eth_auth_module", "keycard_auth_module"}

Hosts(module) ==
    IF module = "eth_auth_module" THEN ETH_ALLOWLIST_AUTH_TYPE ELSE KEYCARD_ATTEST_AUTH_TYPE

\* A verifier module's verify_auth, through dispatch_verify: parse the request, route
\* it to the vector of its type, and serialize the verdict or the error.  The
\* argument holds no request when it is not the JSON of one.
verify_auth(module, args) ==
    LET verdict == UNION {IF module = "eth_auth_module" THEN EthVerify(req) ELSE KeycardVerify(req) :
                             req \in {r \in args : r.auth_type = Hosts(module)}}
    IN IF verdict = {} THEN error_reply ELSE CHOOSE v \in verdict : TRUE

-----------------------------------------------------------------------------
(* The producer, keycard-capture.                                          *)

\* Mutant of produce_auth: the attestation is handed out unchecked.
ProduceUnchecked(args, card) ==
    LET tlvs == {card.tlv : req \in {r \in args :
                   /\ r.auth_type = KEYCARD_ATTEST_AUTH_TYPE
                   /\ card.answers /\ card.initialized}}
    IN IF tlvs = {} THEN error_reply ELSE [payload_hex |-> hex_encode(card.tlv)]

\* keycard-capture produce_auth, through dispatch_produce.  The card answers, or a
\* step of the session (connect, select, identify) fails; what it answers to
\* IDENTIFY is checked against the production CA and the challenge.
produce_auth(args, card) ==
    LET Checked(idc) ==
          UNION {verify_attestation(att, {STATUS_PRODUCTION_CA}, bound_challenge(idc)) :
                    att \in parse_attestation(card.tlv)}
        served == {r \in args : /\ r.auth_type = KEYCARD_ATTEST_AUTH_TYPE
                                /\ card.answers /\ card.initialized
                                /\ \E idc \in FromHex(r.id_commitment_hex) :
                                      Len(idc) = COMMITMENT_LEN /\ Checked(idc) # {}}
    IN IF served = {} THEN error_reply ELSE [payload_hex |-> hex_encode(card.tlv)]

=============================================================================
