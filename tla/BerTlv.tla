------------------------------- MODULE BerTlv -------------------------------
(***************************************************************************)
(* The two readers of BER-TLV data in the Keycard crates: the verifier's,  *)
(* in keycard-attest, and the card client's, in keycard-client.  They were *)
(* written apart and differ in the length forms they take.                 *)
(*                                                                         *)
(* A byte is a number below BYTE, and HALF is its top bit (0x80), from     *)
(* which a length byte announces a long form.  Positions count from 1.  An *)
(* operation that may fail returns the empty set or the set of its result. *)
(***************************************************************************)
EXTENDS Naturals, Sequences, SequencesExt

CONSTANT HALF      \* 0x80

BYTE == 2 * HALF
Byte == 0..(BYTE - 1)

ASSUME HalfAssumption == HALF \in Nat /\ HALF > 2

\* Mutant of attest_read_len: 0x80 itself is taken for a short length.
ReadLenShort80(buf, i) ==
    IF i > Len(buf) THEN {}
    ELSE CASE buf[i] <= HALF -> {<<buf[i], 1>>}
           [] buf[i] = HALF + 1 /\ i < Len(buf) -> {<<buf[i + 1], 2>>}
           [] OTHER -> {}

\* attest.rs read_len: the length that is encoded at position i and the number of
\* bytes that encode it.  Only the short form and the long forms of one and of two
\* bytes are known.
attest_read_len(buf, i) ==
    IF i > Len(buf) THEN {}
    ELSE CASE buf[i] < HALF -> {<<buf[i], 1>>}
           [] buf[i] = HALF + 1 /\ i + 1 <= Len(buf) -> {<<buf[i + 1], 2>>}
           [] buf[i] = HALF + 2 /\ i + 2 <= Len(buf) -> {<<buf[i + 1] * BYTE + buf[i + 2], 3>>}
           [] OTHER -> {}

\* Mutant of attest_find_tag: the search does not stop at the first match.
FindTagLast(buf, tag) ==
    LET Scan[i \in 1..(Len(buf) + 1)] ==
          IF i >= Len(buf) THEN {}
          ELSE UNION {LET vstart == i + 1 + l[2]
                          vend == vstart + l[1]
                      IN IF vend > Len(buf) + 1 THEN {}
                         ELSE IF buf[i] = tag /\ Scan[vend] = {}
                           THEN {[value |-> SubSeq(buf, vstart, vend - 1),
                                  full |-> SubSeq(buf, i, vend - 1)]}
                         ELSE Scan[vend] : l \in attest_read_len(buf, i + 1)}
    IN Scan[1]

\* attest.rs find_tag: the first element with this tag, its value and the whole of
\* it.  An element before it that cannot be read fails the search.
attest_find_tag(buf, tag) ==
    LET Scan[i \in 1..(Len(buf) + 1)] ==
          IF i >= Len(buf) THEN {}
          ELSE UNION {LET vstart == i + 1 + l[2]
                          vend == vstart + l[1]
                      IN IF vend > Len(buf) + 1 THEN {}
                         ELSE IF buf[i] = tag
                           THEN {[value |-> SubSeq(buf, vstart, vend - 1),
                                  full |-> SubSeq(buf, i, vend - 1)]}
                         ELSE Scan[vend] : l \in attest_read_len(buf, i + 1)}
    IN Scan[1]

\* apdu.rs read_len: long forms of any number of bytes, none included (0x80 is a
\* length of zero).  The sum is not bounded here; the code's is a machine word, which
\* loses its upper bits from nine length bytes on.  attest_read_len refuses such forms.
apdu_read_len(data, i) ==
    LET n == data[i] - HALF
        len[k \in 0..n] == IF k = 0 THEN 0 ELSE len[k - 1] * BYTE + data[i + k]
    IN CASE data[i] < HALF -> {<<data[i], 1>>}
         [] data[i] >= HALF /\ i + n <= Len(data) -> {<<len[n], 1 + n>>}
         [] OTHER -> {}

\* apdu.rs find_tag: the value of the first element with this tag.
apdu_find_tag(data, tag) ==
    LET Scan[i \in 1..(Len(data) + 1)] ==
          IF i + 1 > Len(data) THEN {}
          ELSE UNION {LET vstart == i + 1 + l[2]
                          vend == vstart + l[1]
                      IN IF vend > Len(data) + 1 THEN {}
                         ELSE IF data[i] = tag THEN {SubSeq(data, vstart, vend - 1)}
                         ELSE Scan[vend] : l \in apdu_read_len(data, i + 1)}
    IN Scan[1]

=============================================================================
