---------------------------- MODULE NullifierKey ----------------------------
(***************************************************************************)
(* The strings of the gifter's replay protection, and what the server and  *)
(* the consumed-nullifier store do to them: a verdict's nullifier is       *)
(* trimmed and lowercased, prefixed with its authentication type, appended *)
(* to the store as a line, and lowercased again, type included, when the   *)
(* store is loaded.                                                        *)
(*                                                                         *)
(* A string is a sequence of characters.  The alphabet keeps one character *)
(* for each class the code tells apart: two letters in both cases, the     *)
(* separator of the key, white space (" ") and a control character ("^").  *)
(***************************************************************************)
EXTENDS Naturals, Sequences

Char == {"a", "b", "A", "B", ":", " ", "^"}

String == Seq(Char)

\* char::to_lowercase on the alphabet.
LowerChar == [c \in Char |-> IF c = "A" THEN "a" ELSE IF c = "B" THEN "b" ELSE c]

\* str::to_lowercase
to_lowercase(s) == [i \in 1..Len(s) |-> LowerChar[s[i]]]

\* str::trim: what is left between the first and the last character that is
\* not white space.
trim(s) ==
    LET ink == {i \in 1..Len(s) : s[i] # " "}
        first == CHOOSE i \in ink : \A j \in ink : i <= j
        last == CHOOSE i \in ink : \A j \in ink : j <= i
    IN IF ink = {} THEN << >> ELSE SubSeq(s, first, last)

\* The normalisation of a nullifier at the trust boundary of the server, and
\* of every line of the store.
Normalize(s) == to_lowercase(trim(s))

\* What the server refuses as a nullifier once it is normalised.
Malformed(nul) == nul = << >> \/ \E i \in 1..Len(nul) : nul[i] \in {" ", "^"}

\* Mutant: keys are not namespaced by the authentication type.
KeyUnscoped(auth_type, nul) == nul

\* format!("{auth_type}:{nul}")
Key(auth_type, nul) == auth_type \o << ":" >> \o nul

-----------------------------------------------------------------------------
(***************************************************************************)
(* The store is a text file: its terminated lines, and the unterminated    *)
(* text after the last newline.  The order of the lines is not observable: *)
(* the file is only ever loaded into a set.                                *)
(***************************************************************************)

Store == [lines : SUBSET String, tail : String]

EmptyStore == [lines |-> {}, tail |-> << >>]

\* auth::load_nullifiers: every non-empty line, trimmed and lowercased; an
\* unterminated last line is a line (str::lines).
load_nullifiers(f) == {Normalize(l) : l \in f.lines \cup {f.tail}} \ {<< >>}

\* auth::append_nullifier issues two writes for its writeln!: the nullifier ...
WriteKey(f, key) == [f EXCEPT !.tail = @ \o key]

\* ... and then the newline.
WriteNewline(f) == [lines |-> f.lines \cup {f.tail}, tail |-> << >>]

-----------------------------------------------------------------------------
(***************************************************************************)
(* The authentication types for which the key of a credential survives the *)
(* store and belongs to one credential only: lowercase, without the        *)
(* separator and without white space, as the two reference vectors'        *)
(* "keycard-attestation" and "eth-allowlist" are.                          *)
(***************************************************************************)
PlainType(t) == \A i \in 1..Len(t) : t[i] \in {"a", "b"}

=============================================================================
