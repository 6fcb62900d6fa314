--------------------------- MODULE KeycardChannel ---------------------------
(***************************************************************************)
(* A Keycard session of keycard-client: SELECT, pairing, the secure        *)
(* channel and the commands that travel in it, with a reader that is       *)
(* shared with other applications and transmissions that may fail before   *)
(* or after the card has acted.                                            *)
(*                                                                         *)
(* Cryptography is symbolic.  Random values, ephemeral keys and MACs are   *)
(* identifiers; an identifier that nobody holds any more stands for a new  *)
(* one.  Session keys are the term they are derived from.  A protected     *)
(* message has the IV it was encrypted under, and its MAC covers its       *)
(* content but not that IV: a receiver with the same keys and another IV   *)
(* accepts the message and decrypts something else.  The card is external  *)
(* and follows the protocol that the client speaks.                        *)
(***************************************************************************)
EXTENDS Integers, Sequences, FiniteSets, Functions

CONSTANTS
    Ivs, Salts, Challenges,   \* identifiers, more of each than are ever held at once
    Slots,     \* the card's pairing slots, 0 among them
    Others,    \* the slots that other clients have paired
    Indices,   \* the bytes that the answer of another applet may begin with
    BLOCK,     \* 16
    HALF,      \* 0x80
    AnswerTo   \* the contents of commands, and of the answer to each

\* There are n identifiers to choose from.
Enough(ids, n) == \E few \in SUBSET ids : IsFiniteSet(few) /\ Cardinality(few) = n

ASSUME SlotsAssumption ==
    /\ Slots \subseteq Nat /\ IsFiniteSet(Slots) /\ 0 \in Slots /\ Others \subseteq Slots
    /\ Indices \subseteq Nat
ASSUME BlockAssumption == BLOCK \in Nat \ {0} /\ HALF \in Nat \ {0}
ASSUME IdentifiersAssumption ==
    /\ Ivs \subseteq Nat \ {0} /\ Enough(Ivs, 4)
    /\ Salts \subseteq Nat \ {0} /\ Enough(Salts, 3)
    /\ Challenges \subseteq Nat \ {0} /\ Enough(Challenges, Cardinality(Slots) + 6)
ASSUME AnswersAssumption ==
    /\ << >> \in DOMAIN AnswerTo
    /\ \A sent \in DOMAIN AnswerTo : sent \in Seq(Nat) /\ AnswerTo[sent] \in Seq(Nat)

VARIABLES
    sc,            \* the client's channel: [open, secret, keys, iv]
    initialized,   \* what the client knows of the card
    pairing,       \* the client's pairing_index and pairing_key
    pc,            \* where the client is between the two steps of pair and of open
    card,          \* the card: [app, blank, open, keys, iv, slots, pending]
    ready,         \* the caller's view: open_secure_channel succeeded, no SELECT since
    failed,        \* a command failed since the session keys were derived
    last           \* the last exchange

vars == <<sc, initialized, pairing, pc, card, ready, failed, last>>

None == 0
OtherKey == -1     \* the pairing key of another client
StrayKey == -2     \* a pairing key that no card holds
NoKeys == [secret |-> "none", pairing |-> None, salt |-> None]
NoChannel == [open |-> FALSE, secret |-> "none", keys |-> NoKeys, iv |-> None]

\* crypto.rs derive_session_keys.  The card finds the client's secret with the
\* ephemeral key of the very OPEN command, so all that tells two secrets apart is
\* whether the client has made one.
derive_session_keys(secret, pairing_key, salt) ==
    [secret |-> secret, pairing |-> pairing_key, salt |-> salt]

\* Identifiers that somebody holds, and the n-th of a set that nobody does.
HeldSalts == {k.salt : k \in {sc.keys, card.keys}}
HeldChallenges ==
    {k.pairing : k \in {sc.keys, card.keys}} \cup {pairing.key, pc.id, card.pending}
       \cup Range(card.slots)

New(ids, n) == CHOOSE x \in ids : Cardinality({y \in ids : y < x}) = n - 1
NewIv(n) == New(Ivs \ {sc.iv, card.iv}, n)
NewSalt == New(Salts \ HeldSalts, 1)
NewChallenge == New(Challenges \ HeldChallenges, 1)

\* crypto.rs append_padding: 0x80 and zeros up to the next block, at least one byte.
append_padding(data) ==
    data \o [i \in 1..(BLOCK - (Len(data) % BLOCK)) |-> IF i = 1 THEN HALF ELSE 0]

\* crypto.rs remove_padding: up to the last 0x80, or nothing when there is none.
remove_padding(data) ==
    LET marks == {i \in 1..Len(data) : data[i] = HALF}
    IN IF marks = {} THEN << >>
       ELSE SubSeq(data, 1, (CHOOSE i \in marks : \A j \in marks : j <= i) - 1)

\* encrypt_data and calculate_mac: a protected message.
Protect(keys, iv, mac, data) ==
    [kind |-> "protected", keys |-> keys, iv |-> iv, mac |-> mac, data |-> append_padding(data)]
Clear(data) == [kind |-> "clear", data |-> data]
Refusal == [kind |-> "refused"]
Lost == [kind |-> "lost"]

\* decrypt_data: the content under the right IV, and no telling under another.
Decrypt(msg, iv) == IF msg.iv = iv THEN {remove_padding(msg.data)} ELSE {}

Idle == [at |-> "idle", id |-> None]

Init ==
    /\ sc = NoChannel /\ initialized = FALSE
    /\ pairing = [index |-> 0, key |-> None]
    /\ pc = Idle
    /\ \E blank \in BOOLEAN : card =
              [app |-> "keycard", blank |-> blank, open |-> FALSE, keys |-> NoKeys, iv |-> None,
               slots |-> [i \in Slots |-> IF i \in Others /\ ~ blank THEN OtherKey ELSE None],
               pending |-> None]
    /\ ready = FALSE /\ failed = FALSE
    /\ last = [op |-> "none"]

\* The outcome of an operation outside of the channel.
Done(op, ok) == last' = [op |-> op, ok |-> ok, sealed |-> FALSE]

Closed(c) == [c EXCEPT !.open = FALSE, !.keys = NoKeys, !.iv = None, !.pending = None]

-----------------------------------------------------------------------------
(* Another application uses the reader, or the card is reset.  It may      *)
(* select its own applet, and it may pair with the card.                   *)

Disturb ==
    /\ \E app \in {"keycard", "another"} : card' = [Closed(card) EXCEPT !.app = app]
    /\ Done("disturb", FALSE)
    /\ UNCHANGED <<initialized, sc, pairing, pc, ready, failed>>

OtherPairs ==
    /\ ~ card.blank
    /\ \E i \in Slots : card.slots[i] = None /\ card' = [Closed(card) EXCEPT !.slots[i] = OtherKey]
    /\ Done("disturb", FALSE)
    /\ UNCHANGED <<initialized, sc, pairing, pc, ready, failed>>

\* Keycard::connect: a new client, without pairing, for the card as it is, or reset
\* because the handle of the last one was dropped.
Connect ==
    /\ pc = Idle /\ (sc.secret # "none" \/ pairing.key # None)
    /\ sc' = NoChannel /\ initialized' = FALSE
    /\ pairing' = [index |-> 0, key |-> None]
    /\ card' \in {card, Closed(card)}
    /\ ready' = FALSE /\ failed' = FALSE
    /\ Done("connect", TRUE)
    /\ UNCHANGED pc

-----------------------------------------------------------------------------
(* SELECT.  The card closes its channel; the client closes its own when it *)
(* has understood the answer.  The keys of a closed channel stay behind    *)
(* and are derived anew before their next use: the model drops them.       *)

\* What the client then knows of the card: a full answer says whether it is
\* initialized, and one that turns out incomplete may have said so already.
LearnsInitialized(fate) ==
    CASE fate = "ok" -> {~ card.blank}
      [] fate = "incomplete" -> IF card.blank THEN {FALSE} ELSE {initialized, TRUE}
      [] OTHER -> {initialized}

\* Mutant of Select: the client closes its channel before it transmits.
SelectClosesFirst(fate) ==
    /\ pc = Idle
    /\ card' = IF fate = "lost" THEN card ELSE [Closed(card) EXCEPT !.app = "keycard"]
    /\ sc' = IF fate = "ok" THEN [NoChannel EXCEPT !.secret = "ecdh"]
             ELSE [sc EXCEPT !.open = FALSE]
    /\ initialized' \in LearnsInitialized(fate)
    /\ ready' = (ready /\ fate # "ok")
    /\ Done("SELECT", fate = "ok")
    /\ UNCHANGED <<pairing, pc, failed>>

Select(fate) ==
    /\ pc = Idle
    /\ card' = IF fate = "lost" THEN card ELSE [Closed(card) EXCEPT !.app = "keycard"]
    /\ sc' = IF fate = "ok" THEN [NoChannel EXCEPT !.secret = "ecdh"] ELSE sc
    /\ initialized' \in LearnsInitialized(fate)
    /\ ready' = (ready /\ fate # "ok")
    /\ Done("SELECT", fate = "ok")
    /\ UNCHANGED <<pairing, pc, failed>>

-----------------------------------------------------------------------------
(* PAIR in two steps.  The card's challenge is the identifier from which   *)
(* the pairing key will be derived.                                        *)

\* The first step, with the right password or another one.  The card has no slot
\* left, or does not answer as a Keycard, or its cryptogram does not match, or the
\* client goes on.
PairFirst(fate, knows_password) ==
    /\ pc = Idle
    /\ LET acts == fate # "lost" /\ card.app = "keycard" /\ ~ card.open /\ ~ card.blank
                     /\ \E i \in Slots : card.slots[i] = None
           goes_on == acts /\ fate = "ok" /\ knows_password
       IN /\ card' = IF acts THEN [card EXCEPT !.pending = NewChallenge] ELSE card
          /\ pc' = IF goes_on THEN [at |-> "pair", id |-> NewChallenge] ELSE Idle
    /\ Done("PAIR", FALSE)
    /\ UNCHANGED <<initialized, sc, pairing, ready, failed>>

\* What the client takes from a successful answer to the second step: index and key.
\* The card gives the slot that it took, its first free one.  The applet of another
\* application may answer with any byte, and with a key that no card holds.
PairAnswers(acts, slot) ==
    CASE acts -> {[index |-> slot, key |-> pc.id]}
      [] card.app = "another" -> {[index |-> i, key |-> StrayKey] : i \in Indices}
      [] OTHER -> {}

\* Mutant of PairFinal: the index is stored before the status is looked at.
PairFinalStoresFirst(fate) ==
    /\ pc.at = "pair"
    /\ \E index \in Indices : pairing' = [pairing EXCEPT !.index = index]
    /\ Done("PAIR", FALSE)
    /\ pc' = Idle
    /\ UNCHANGED <<initialized, sc, card, ready, failed>>

\* The second step: the card checks the cryptogram over its challenge and takes a slot.
\* The client checks nothing but the status of the answer.
PairFinal(fate) ==
    /\ pc.at = "pair"
    /\ LET acts == fate # "lost" /\ card.app = "keycard" /\ card.pending = pc.id
           slot == CHOOSE i \in Slots : card.slots[i] = None /\
                      \A j \in Slots : card.slots[j] = None => i <= j
           answers == IF fate = "ok" THEN PairAnswers(acts, slot) ELSE {}
       IN /\ card' = IF acts THEN [card EXCEPT !.pending = None, !.slots[slot] = pc.id] ELSE card
          /\ IF answers = {} THEN pairing' = pairing ELSE pairing' \in answers
          /\ Done("PAIR", answers # {})
    /\ pc' = Idle
    /\ UNCHANGED <<initialized, sc, ready, failed>>

-----------------------------------------------------------------------------
(* Commands: send_sc protects a command when the client's channel is open. *)

\* The card's answer to a message, r being a new identifier: its next state, the
\* answer, and the content that it acted on.
CardAnswer(msg, cmd, r) ==
    LET unpaired == [i \in Slots |-> IF cmd.op = "UNPAIR" /\ i = cmd.index THEN None ELSE card.slots[i]]
        public == msg.kind = "clear" /\ cmd.op = "IDENTIFY"
    IN CASE card.open /\ msg.kind = "protected" /\ msg.keys = card.keys ->
              [card |-> [card EXCEPT !.iv = r, !.slots = unpaired], acted |-> TRUE,
               reply |-> Protect(card.keys, msg.mac, r, cmd.answer), seen |-> Decrypt(msg, card.iv)]
         [] card.open /\ ~ (msg.kind = "protected" /\ msg.keys = card.keys) ->
              [card |-> Closed(card), acted |-> FALSE, reply |-> Refusal, seen |-> {}]
         [] ~ card.open ->
              [card |-> card, acted |-> public,
               reply |-> IF public THEN Clear(cmd.answer) ELSE Refusal,
               seen |-> IF public THEN {msg.data} ELSE {}]

\* Every end of a transmission: the answer, and the loss of the command or of the
\* answer.  The applet of another application refuses, or answers in the clear.
Exchanges(msg, cmd, r) ==
    LET a == CardAnswer(msg, cmd, r)
        nothing == [card |-> card, acted |-> FALSE, reply |-> Lost, seen |-> {}]
    IN {nothing} \cup
       IF card.app = "keycard" THEN {a, [a EXCEPT !.reply = Lost]}
       ELSE {[nothing EXCEPT !.reply = Refusal], [nothing EXCEPT !.reply = Clear(cmd.answer)]}

\* Mutant of AcceptReply: the MAC of the answer is not compared.
AcceptAnyMac(reply, iv) ==
    CASE reply.kind = "protected" -> [ok |-> TRUE, got |-> Decrypt(reply, iv), iv |-> reply.mac]
      [] reply.kind = "clear" -> [ok |-> TRUE, got |-> {}, iv |-> iv]
      [] OTHER -> [ok |-> FALSE, got |-> {}, iv |-> iv]

\* Mutant of AcceptReply: the IV does not move to the MAC of the answer.
AcceptKeepsIv(reply, iv) ==
    IF reply.kind = "protected" /\ reply.keys = sc.keys
      THEN [ok |-> TRUE, got |-> Decrypt(reply, iv), iv |-> iv]
    ELSE [ok |-> FALSE, got |-> {}, iv |-> iv]

\* The end of send_sc on an open channel: outer status, MAC, and the new IV.
AcceptReply(reply, iv) ==
    IF reply.kind = "protected" /\ reply.keys = sc.keys
      THEN [ok |-> TRUE, got |-> Decrypt(reply, iv), iv |-> reply.mac]
    ELSE [ok |-> FALSE, got |-> {}, iv |-> iv]

\* send_sc: the client's IV moves to the MAC of the command before it is transmitted,
\* and to that of the answer once that is accepted.  inner says whether the status
\* inside of the answer is a success.
send_sc(cmd, inner) ==
    LET m == NewIv(1)
        msg == IF sc.open THEN Protect(sc.keys, sc.iv, m, cmd.sent) ELSE Clear(cmd.sent)
    IN \E x \in Exchanges(msg, cmd, NewIv(2)) :
          LET plain == x.reply.kind = "clear"
              res == IF sc.open THEN AcceptReply(x.reply, m)
                     ELSE [ok |-> plain, got |-> IF plain THEN {x.reply.data} ELSE {}, iv |-> sc.iv]
          IN /\ sc' = [sc EXCEPT !.iv = res.iv]
             /\ card' = x.card
             /\ failed' = (failed \/ (sc.open /\ ~ res.ok))
             /\ last' = [op |-> cmd.op, ok |-> res.ok /\ inner, sealed |-> sc.open,
                         accepted |-> res.ok, exact |-> res.got = {cmd.answer},
                         acted |-> x.acted, arrived |-> x.seen = {cmd.sent}, before |-> failed]

Cmd(op, index, sent) == [op |-> op, index |-> index, sent |-> sent, answer |-> AnswerTo[sent]]

\* verify_pin, export_key and identify: at any time, on an open channel or in the clear.
\* A failure inside of an accepted answer is told to the caller and changes no state.
Command(op, sent) ==
    /\ pc = Idle
    /\ send_sc(Cmd(op, 0, sent), TRUE)
    /\ UNCHANGED <<initialized, pairing, pc, ready>>

Unpair(index) ==
    /\ pc = Idle
    /\ send_sc(Cmd("UNPAIR", index, << >>), TRUE)
    /\ UNCHANGED <<initialized, pairing, pc, ready>>

-----------------------------------------------------------------------------
(* OPEN SECURE CHANNEL in two steps.                                       *)

\* The card opens its end when the slot is taken; another applet may answer too.
OpenAnswered(fate) ==
    /\ fate # "lost"
    /\ card.app = "keycard" =>
          sc.secret # "none" /\ pairing.index \in Slots /\ card.slots[pairing.index] # None

CardOpens(fate) ==
    IF OpenAnswered(fate) /\ card.app = "keycard"
      THEN [card EXCEPT !.open = TRUE, !.pending = None, !.iv = NewIv(1),
              !.keys = derive_session_keys(sc.secret, card.slots[pairing.index], NewSalt)]
    ELSE card

ClientOpens ==
    /\ sc' = [sc EXCEPT !.open = TRUE, !.iv = NewIv(1),
                !.keys = derive_session_keys(sc.secret, pairing.key, NewSalt)]
    /\ failed' = FALSE

\* Mutant of OpenFirst: without mutual authentication.
OpenUnauthenticated(fate) ==
    /\ pc = Idle
    /\ card' = CardOpens(fate)
    /\ IF OpenAnswered(fate) /\ fate = "ok"
         THEN ClientOpens /\ ready' = TRUE /\ Done("OPEN", TRUE)
       ELSE UNCHANGED <<sc, failed, ready>> /\ Done("OPEN", FALSE)
    /\ UNCHANGED <<initialized, pairing, pc>>

\* The client derives its keys and counts the channel as open, before it knows
\* whether the card has the same keys.
OpenFirst(fate) ==
    /\ pc = Idle
    /\ card' = CardOpens(fate)
    /\ IF OpenAnswered(fate) /\ fate = "ok"
         THEN ClientOpens /\ pc' = [Idle EXCEPT !.at = "open"]
       ELSE UNCHANGED <<sc, failed, pc>>
    /\ Done("OPEN", FALSE)
    /\ UNCHANGED <<initialized, pairing, ready>>

\* MUTUALLY AUTHENTICATE, the first command in the channel.
OpenFinal(sent, inner) ==
    /\ pc.at = "open"
    /\ send_sc(Cmd("OPEN", 0, sent), inner)
    /\ ready' = (ready \/ last'.ok)
    /\ pc' = Idle
    /\ UNCHANGED <<initialized, pairing>>

-----------------------------------------------------------------------------

\* How a transmission ends: with the answer, without it, or before the card acts.
Fates == {"ok", "unanswered", "lost"}

Next ==
    \/ Disturb
    \/ OtherPairs
    \/ Connect
    \/ \E fate \in Fates \cup {"incomplete"} : Select(fate)
    \/ \E fate \in Fates :
          \/ \E knows_password \in BOOLEAN : PairFirst(fate, knows_password)
          \/ PairFinal(fate)
          \/ OpenFirst(fate)
    \/ \E sent \in DOMAIN AnswerTo :
          \/ \E inner \in BOOLEAN : OpenFinal(sent, inner)
          \/ \E op \in {"VERIFY_PIN", "EXPORT_KEY", "IDENTIFY"} : Command(op, sent)
    \/ \E index \in Slots \cup Indices : Unpair(index)

Spec == Init /\ [][Next]_vars

-----------------------------------------------------------------------------

\* The last exchange was a command of send_sc.
Exchanged == "accepted" \in DOMAIN last

\* Type correctness: the client's index may be any byte, but there is none without a
\* key; and there is always an identifier left for the next message.
ChannelTypeOK ==
    /\ sc.open \in BOOLEAN /\ sc.secret \in {"none", "ecdh"} /\ sc.iv \in Ivs \cup {None}
    /\ pairing \in [index : Slots \cup Indices, key : Challenges \cup {None, StrayKey}]
    /\ pairing.key = None => pairing.index = 0
    /\ card.slots \in [Slots -> Challenges \cup {None, OtherKey}]
    /\ Salts \ HeldSalts # {} /\ Challenges \ HeldChallenges # {}

\* The PIN, the command that exports a key and UNPAIR do not travel in the clear once the
\* caller's open_secure_channel has succeeded and until its next successful select, also
\* after a SELECT or an OPEN that failed.  That the caller opens a channel first is its
\* own discipline: send_sc asks for none, and sends them in the clear without one.
SecretsStaySealed ==
    (ready /\ last.op \in {"VERIFY_PIN", "EXPORT_KEY", "UNPAIR"}) => last.sealed

\* An answer that an open channel accepts is the card's own to this very command, and
\* leaves both ends with the same keys and the same IV, whatever failed before.
AcceptedIsExact ==
    (Exchanged /\ last.sealed /\ last.accepted) =>
       /\ last.acted /\ last.exact
       /\ card.open /\ card.keys = sc.keys /\ card.iv = sc.iv

\* The card acts on the very content that the client sent, unless an earlier command of
\* this channel has failed and its caller went on regardless.
CommandArrives ==
    (Exchanged /\ last.acted /\ ~ last.before) => last.arrived

\* open_secure_channel succeeds only when the card holds the client's pairing key in the
\* client's slot: a client that never paired, or whose slot is another client's, fails, and so does one
\* that has not seen the card to be initialized.
OpenMeansSamePairing ==
    (last.op = "OPEN" /\ last.ok) =>
       /\ card.open /\ card.keys = sc.keys /\ initialized
       /\ pairing.key # None /\ pairing.index \in Slots
       /\ card.slots[pairing.index] = pairing.key

=============================================================================
