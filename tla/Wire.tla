-------------------------------- MODULE Wire --------------------------------
(***************************************************************************)
(* The protobuf codec of the gifter's messages (wire.rs).                  *)
(*                                                                         *)
(* A byte is a number below 2 * GROUP: a varint carries one base-GROUP     *)
(* digit per byte and marks every byte but its last by adding GROUP; the   *)
(* numbers are those of a machine word, below WORD.  The code has          *)
(* GROUP = 2^7 and WORD = 2^64; a small instance keeps the shape (the last *)
(* digit of a word is a partial one) with smaller numbers.                 *)
(*                                                                         *)
(* An optional value, and the outcome of a function that may fail, is a    *)
(* set with at most one element.  A string is the sequence of its bytes:   *)
(* what is encoded comes from a Rust string, which is UTF-8 and which      *)
(* from_utf8_lossy therefore returns as it is.                             *)
(***************************************************************************)
EXTENDS Integers, Sequences

CONSTANTS
    GROUP,                 \* 2^7
    WORD,                  \* 2^64
    CONFIG_ACCOUNT_FIELD   \* 100

ASSUME WireAssumption ==
    /\ GROUP \in Nat \ {0, 1} /\ WORD \in Nat
    /\ CONFIG_ACCOUNT_FIELD * 8 + 7 < WORD
    /\ CONFIG_ACCOUNT_FIELD \in Nat \ 0..5

-----------------------------------------------------------------------------
(***************************************************************************)
(* Varints                                                                 *)
(***************************************************************************)

\* One byte per digit, the least first.
put_varint[v \in Nat] ==
    IF v < GROUP THEN <<v>> ELSE <<GROUP + (v % GROUP)>> \o put_varint[v \div GROUP]

\* What a reader finds at each position of a buffer, if it may go on for ever: the
\* value of the digits up to the first byte that is not marked, and the position
\* after that byte.
Varints(buf) ==
    LET read[i \in 1..(Len(buf) + 1)] ==
            IF i > Len(buf) THEN {}
            ELSE IF buf[i] < GROUP THEN {[value |-> buf[i], next |-> i + 1]}
            ELSE {[value |-> (buf[i] % GROUP) + GROUP * r.value, next |-> r.next] : r \in read[i + 1]}
    IN read

\* The digits of the largest word: read_varint gives up after as many bytes.
MaxGroups == Len(put_varint[WORD - 1])

\* Mutant: the reader gives up one byte early.
read_varint_short(buf, i) ==
    {[value |-> r.value % WORD, next |-> r.next] :
        r \in {x \in Varints(buf)[i] : x.next - i < MaxGroups}}

\* The varint at position i and the position after it.  Bits of the last digit
\* that do not fit the word are shifted out.
read_varint(buf, i) ==
    {[value |-> r.value % WORD, next |-> r.next] :
        r \in {x \in Varints(buf)[i] : x.next - i <= MaxGroups}}

-----------------------------------------------------------------------------
(***************************************************************************)
(* Fields.  A decoded field has its number and both of its readings: the   *)
(* number of a varint field (0 for the others) and the bytes of a          *)
(* length-delimited one (none for the others), as as_u64 and as_bytes do.  *)
(***************************************************************************)

put_len_field(field, data) == put_varint[field * 8 + 2] \o put_varint[Len(data)] \o data

put_varint_field(field, v) == put_varint[field * 8] \o put_varint[v]

\* Mutant: a length that exceeds the buffer is cut to what is there.
FieldClamped(buf, key) ==
    CASE key.value % 8 = 0 ->
           {[field |-> key.value \div 8, num |-> v.value, data |-> << >>, next |-> v.next] :
              v \in read_varint(buf, key.next)}
      [] key.value % 8 = 2 ->
           {[field |-> key.value \div 8, num |-> 0,
             data |-> SubSeq(buf, l.next, l.end - 1), next |-> l.end] :
              l \in {[next |-> len.next, end |-> CHOOSE e \in {len.next + len.value, Len(buf) + 1} :
                                                  e <= len.next + len.value /\ e <= Len(buf) + 1] :
                       len \in read_varint(buf, key.next)}}
      [] OTHER -> {}

\* The field that follows its key, and the position after it.
FieldOf(buf, key) ==
    CASE key.value % 8 = 0 ->
           {[field |-> key.value \div 8, num |-> v.value, data |-> << >>, next |-> v.next] :
              v \in read_varint(buf, key.next)}
      [] key.value % 8 = 2 ->
           {[field |-> key.value \div 8, num |-> 0,
             data |-> SubSeq(buf, len.next, len.next + len.value - 1), next |-> len.next + len.value] :
              len \in {l \in read_varint(buf, key.next) : l.next + l.value <= Len(buf) + 1}}
      [] OTHER -> {}

FieldAt(buf, i) == UNION {FieldOf(buf, key) : key \in read_varint(buf, i)}

\* The fields of a buffer in order, or nothing if one is malformed.
walk_fields(buf) ==
    LET walk[i \in 1..(Len(buf) + 1)] ==
            IF i = Len(buf) + 1 THEN {<< >>}
            ELSE UNION {{<<f>> \o rest : rest \in walk[f.next]} : f \in FieldAt(buf, i)}
    IN walk[1]

\* The occurrences of field n, and its last one, which counts.
Occurrences(fs, n) == {k \in 1..Len(fs) : fs[k].field = n}

LastOf(fs, n) == {fs[k] : k \in {j \in Occurrences(fs, n) : \A i \in Occurrences(fs, n) : i <= j}}

\* A required or defaulted bytes field, and an optional one.
Bytes(fs, n) == IF Occurrences(fs, n) = {} THEN << >> ELSE (CHOOSE f \in LastOf(fs, n) : TRUE).data

Number(fs, n) == IF Occurrences(fs, n) = {} THEN 0 ELSE (CHOOSE f \in LastOf(fs, n) : TRUE).num

-----------------------------------------------------------------------------
(***************************************************************************)
(* RlnGifterRequest                                                        *)
(***************************************************************************)

\* The bytes of an optional field: those of its one encoding, or none.
PutOptional(encodings) == IF encodings = {} THEN << >> ELSE CHOOSE e \in encodings : TRUE

EncodeRequest(m) ==
    put_len_field(1, m.request_id)
    \o put_len_field(2, m.authentication_type)
    \o put_len_field(3, m.authentication_payload)
    \o put_len_field(4, m.identity_commitment)
    \o PutOptional({put_varint_field(5, r) : r \in m.rate_limit})

DecodeRequest(buf) ==
    {[request_id |-> Bytes(fs, 1), authentication_type |-> Bytes(fs, 2),
      authentication_payload |-> Bytes(fs, 3), identity_commitment |-> Bytes(fs, 4),
      rate_limit |-> {f.num : f \in LastOf(fs, 5)}] :
        fs \in {w \in walk_fields(buf) : Occurrences(w, 1) # {} /\ Occurrences(w, 4) # {}}}

-----------------------------------------------------------------------------
(***************************************************************************)
(* RlnGifterResponse and the messages inside it                            *)
(***************************************************************************)

EncodeSuccess(m) ==
    put_varint_field(1, m.leaf_index)
    \o put_len_field(2, m.merkle_root)
    \o put_varint_field(3, m.block_number)
    \o put_len_field(4, m.transaction_hash)
    \o PutOptional({put_len_field(CONFIG_ACCOUNT_FIELD, c) : c \in m.config_account_id})

DecodeSuccess(buf) ==
    {[leaf_index |-> Number(fs, 1), merkle_root |-> Bytes(fs, 2), block_number |-> Number(fs, 3),
      transaction_hash |-> Bytes(fs, 4),
      config_account_id |-> {f.data : f \in LastOf(fs, CONFIG_ACCOUNT_FIELD)}] :
        fs \in walk_fields(buf)}

EncodeFailure(m) == put_len_field(1, m.error_message)

DecodeFailure(buf) == {[error_message |-> Bytes(fs, 1)] : fs \in walk_fields(buf)}

EncodeResponse(m) ==
    put_len_field(1, m.request_id)
    \o put_varint_field(2, IF m.auth_success THEN 1 ELSE 0)
    \o PutOptional({put_len_field(3, e) : e \in m.error})
    \o PutOptional({put_len_field(4, EncodeSuccess(s)) : s \in m.success})
    \o PutOptional({put_len_field(5, EncodeFailure(f)) : f \in m.failure})

\* Every occurrence of a nested message must decode, and the last one counts.
DecodeResponse(buf) ==
    {[request_id |-> Bytes(fs, 1), auth_success |-> Number(fs, 2) # 0,
      error |-> {f.data : f \in LastOf(fs, 3)},
      success |-> UNION {DecodeSuccess(f.data) : f \in LastOf(fs, 4)},
      failure |-> UNION {DecodeFailure(f.data) : f \in LastOf(fs, 5)}] :
        fs \in {w \in walk_fields(buf) :
                  /\ Occurrences(w, 1) # {} /\ Occurrences(w, 2) # {}
                  /\ \A k \in Occurrences(w, 4) : DecodeSuccess(w[k].data) # {}
                  /\ \A k \in Occurrences(w, 5) : DecodeFailure(w[k].data) # {}}}

=============================================================================
