------------------------ MODULE KeycardChannelProofs ------------------------
(***************************************************************************)
(* The secure channel of keycard-client, for every number of pairing       *)
(* slots, every block size and all contents: padding loses nothing, there  *)
(* is always a new identifier, and the two ends of a channel agree.        *)
(***************************************************************************)
EXTENDS KeycardChannel, FiniteSetTheorems, WellFoundedInduction, TLAPS

-----------------------------------------------------------------------------
(* Padding.                                                                *)

\* append_padding adds at least one byte: the mark, and zeros behind it.
LEMMA PaddingShape ==
    ASSUME NEW data \in Seq(Nat)
    PROVE  /\ append_padding(data) \in Seq(Nat)
           /\ Len(append_padding(data)) > Len(data)
           /\ \A i \in 1..Len(data) : append_padding(data)[i] = data[i]
           /\ append_padding(data)[Len(data) + 1] = HALF
           /\ \A i \in 1..Len(append_padding(data)) :
                 i > Len(data) + 1 => append_padding(data)[i] = 0
<1> DEFINE n == BLOCK - (Len(data) % BLOCK)
           pad == [i \in 1..n |-> IF i = 1 THEN HALF ELSE 0]
<1>1. n \in Nat /\ n >= 1
  <2>1. BLOCK \in Nat /\ BLOCK > 0 /\ Len(data) \in Nat
    BY BlockAssumption
  <2>2. Len(data) % BLOCK \in 0..(BLOCK - 1)
    BY <2>1
  <2> QED BY <2>1, <2>2
<1> HIDE DEF n
<1>2. pad \in Seq(Nat) /\ Len(pad) = n
  BY <1>1, BlockAssumption
<1>3. pad[1] = HALF /\ \A i \in 1..n : i > 1 => pad[i] = 0
  BY <1>1
<1> HIDE DEF pad
<1>4. append_padding(data) = data \o pad
  BY DEF append_padding, pad, n
<1>5. /\ data \o pad \in Seq(Nat)
      /\ Len(data \o pad) = Len(data) + n
      /\ \A i \in 1..(Len(data) + n) :
            (data \o pad)[i] = IF i <= Len(data) THEN data[i] ELSE pad[i - Len(data)]
  BY <1>1, <1>2, SMTT(30)
<1> HIDE DEF append_padding
<1>6. Len(data) \in Nat
  OBVIOUS
<1>7. \A i \in 1..(Len(data) + n) : i > Len(data) + 1 => (data \o pad)[i] = 0
  BY <1>1, <1>3, <1>5, <1>6
<1>8. (data \o pad)[Len(data) + 1] = HALF
  BY <1>1, <1>3, <1>5, <1>6
<1>9. \A i \in 1..Len(data) : (data \o pad)[i] = data[i]
  BY <1>1, <1>5, <1>6
<1> QED BY <1>1, <1>4, <1>5, <1>6, <1>7, <1>8, <1>9

\* remove_padding undoes append_padding for every content, those that end with a byte
\* 0x80 or with zeros, and those that fill their last block, included.
LEMMA PaddingRemoved ==
    ASSUME NEW data \in Seq(Nat)
    PROVE  remove_padding(append_padding(data)) = data
<1> DEFINE padded == append_padding(data)
           marks == {i \in 1..Len(padded) : padded[i] = HALF}
           mark == CHOOSE i \in marks : \A j \in marks : j <= i
<1>1. /\ padded \in Seq(Nat) /\ Len(data) \in Nat /\ Len(padded) \in Nat
      /\ Len(padded) > Len(data)
      /\ \A i \in 1..Len(data) : padded[i] = data[i]
      /\ padded[Len(data) + 1] = HALF
      /\ \A i \in 1..Len(padded) : i > Len(data) + 1 => padded[i] = 0
  BY PaddingShape
<1> HIDE DEF padded
<1>2. Len(data) + 1 \in marks
  BY <1>1
<1>3. \A j \in marks : j <= Len(data) + 1
  BY <1>1, BlockAssumption, SMTT(30)
<1>4. \A i \in marks : i \in Nat
  BY <1>1
<1>5. mark = Len(data) + 1
  <2> HIDE DEF marks
  <2>1. mark \in marks /\ \A j \in marks : j <= mark
    BY <1>2, <1>3
  <2> HIDE DEF mark
  <2> QED BY <1>1, <1>2, <1>3, <1>4, <2>1
<1>6. remove_padding(padded) = SubSeq(padded, 1, mark - 1)
  BY <1>2 DEF remove_padding
<1>7. SubSeq(padded, 1, Len(data)) = data
  BY <1>1
<1>8. mark - 1 = Len(data)
  <2> HIDE DEF mark
  <2> QED BY <1>1, <1>5
<1>9. remove_padding(padded) = data
  <2> HIDE DEF mark
  <2> QED BY <1>6, <1>7, <1>8
<1> QED BY <1>9 DEF padded

-----------------------------------------------------------------------------
(* Identifiers.                                                            *)

\* A set of identifiers that is not empty has a least one.
LEMMA LeastIdentifier ==
    ASSUME NEW S \in SUBSET Nat, S # {}
    PROVE  \E i \in S : \A j \in S : i <= j
<1> DEFINE R == OpToRel(<, Nat)
<1>1. \A i, j \in Nat : j < i => <<j, i>> \in R
  BY DEF OpToRel
<1>2. IsWellFoundedOn(R, Nat)
  BY NatLessThanWellFounded
<1> HIDE DEF R
<1>3. PICK i \in S : \A j \in S : ~ (<<j, i>> \in R)
  BY <1>2, WFMin
<1>4. \A j \in S : ~ (j < i)
  BY <1>1, <1>3
<1> QED BY <1>4

\* Fewer identifiers are held than there are: one is left.
LEMMA OneLeft ==
    ASSUME NEW ids, NEW n \in Nat, Enough(ids, n),
           NEW held, IsFiniteSet(held), Cardinality(held) < n
    PROVE  ids \ held # {}
<1>1. PICK few \in SUBSET ids : IsFiniteSet(few) /\ Cardinality(few) = n
  BY DEF Enough
<1>2. few \ held # {}
  <2> SUFFICES ASSUME few \subseteq held PROVE FALSE
    OBVIOUS
  <2>1. Cardinality(few) <= Cardinality(held)
    BY FS_Subset
  <2>2. Cardinality(few) \in Nat /\ Cardinality(held) \in Nat
    BY <1>1, FS_CardinalityType
  <2> QED BY <1>1, <2>1, <2>2
<1> QED BY <1>1, <1>2

\* The first new identifier is one of the set.
LEMMA FirstNew ==
    ASSUME NEW ids \in SUBSET Nat, ids # {}
    PROVE  New(ids, 1) \in ids
<1>1. PICK x \in ids : \A y \in ids : x <= y
  BY LeastIdentifier
<1>2. {y \in ids : y < x} = {}
  <2>1. \A y \in ids : ~ (y < x)
    BY <1>1
  <2> QED BY <2>1
<1>3. Cardinality({y \in ids : y < x}) = 1 - 1
  BY <1>2, FS_EmptySet
<1>4. \E i \in ids : Cardinality({y \in ids : y < i}) = 1 - 1
  BY <1>3
<1> QED BY <1>4, Zenon DEF New

\* So is the second one, when there are two.
LEMMA SecondNew ==
    ASSUME NEW ids \in SUBSET Nat, \A x : ids \ {x} # {}
    PROVE  New(ids, 2) \in ids
<1>1. PICK x \in ids : \A y \in ids : x <= y
  BY LeastIdentifier
<1>2. PICK z \in ids \ {x} : \A y \in ids \ {x} : z <= y
  BY LeastIdentifier
<1>3. {y \in ids : y < z} = {x}
  <2>1. x < z /\ \A y \in ids : y < z => y = x
    BY <1>1, <1>2
  <2> QED BY <2>1
<1>4. Cardinality({y \in ids : y < z}) = 2 - 1
  BY <1>3, FS_Singleton
<1>5. \E i \in ids : Cardinality({y \in ids : y < i}) = 2 - 1
  BY <1>2, <1>4
<1> QED BY <1>5, Zenon DEF New

\* Two elements, or three, are at most as many as they are written.
LEMMA FewElements ==
    ASSUME NEW a, NEW b, NEW c
    PROVE  /\ IsFiniteSet({a, b}) /\ Cardinality({a, b}) <= 2
           /\ IsFiniteSet({a, b, c}) /\ Cardinality({a, b, c}) <= 3
<1>1. IsFiniteSet({a}) /\ Cardinality({a}) = 1
  BY FS_Singleton
<1>2. {a} \cup {b} = {a, b} /\ {a, b} \cup {c} = {a, b, c}
  OBVIOUS
<1>3. IsFiniteSet({a} \cup {b}) /\ Cardinality({a} \cup {b}) <= 2
  BY <1>1, FS_AddElement
<1>4. Cardinality({a, b}) \in Nat
  BY <1>2, <1>3, FS_CardinalityType
<1>5. IsFiniteSet({a, b} \cup {c}) /\ Cardinality({a, b} \cup {c}) <= 3
  <2>1. IsFiniteSet({a, b}) /\ Cardinality({a, b}) <= 2
    BY <1>2, <1>3
  <2>2. /\ IsFiniteSet({a, b} \cup {c})
        /\ Cardinality({a, b} \cup {c}) =
              IF c \in {a, b} THEN Cardinality({a, b}) ELSE Cardinality({a, b}) + 1
    BY <2>1, FS_AddElement
  <2> QED BY <1>4, <2>1, <2>2
<1> QED BY <1>2, <1>3, <1>5

\* The identifiers that the next messages take: IVs and MACs that neither end uses.
LEMMA NewIvs ==
    /\ NewIv(1) \in Ivs /\ NewIv(2) \in Ivs
    /\ NewIv(1) \notin {sc.iv, card.iv} /\ NewIv(2) \notin {sc.iv, card.iv}
<1> DEFINE ids == Ivs \ {sc.iv, card.iv}
<1>1. Ivs \in SUBSET Nat /\ Enough(Ivs, 4)
  BY IdentifiersAssumption
<1>2. \A x : ids \ {x} # {}
  <2> TAKE x
  <2>1. IsFiniteSet({sc.iv, card.iv, x}) /\ Cardinality({sc.iv, card.iv, x}) <= 3
    BY FewElements
  <2>2. Cardinality({sc.iv, card.iv, x}) \in Nat
    BY <2>1, FS_CardinalityType
  <2>3. Ivs \ {sc.iv, card.iv, x} # {}
    BY <1>1, <2>1, <2>2, OneLeft
  <2> QED BY <2>3
<1>3. ids \in SUBSET Nat /\ ids # {}
  BY <1>1, <1>2
<1>4. New(ids, 1) \in ids /\ New(ids, 2) \in ids
  <2> HIDE DEF ids
  <2> QED BY <1>2, <1>3, FirstNew, SecondNew
<1> QED BY <1>4 DEF NewIv

\* A salt that neither end has derived its keys from.
LEMMA NewSaltIsNew ==
    /\ Salts \ HeldSalts # {}
    /\ NewSalt \in Salts /\ NewSalt # sc.keys.salt /\ NewSalt # card.keys.salt
<1>1. HeldSalts = {sc.keys.salt, card.keys.salt}
  BY DEF HeldSalts
<1>2. Salts \in SUBSET Nat /\ Enough(Salts, 3)
  BY IdentifiersAssumption
<1>3. IsFiniteSet(HeldSalts) /\ Cardinality(HeldSalts) <= 2
  BY <1>1, FewElements
<1>4. Cardinality(HeldSalts) \in Nat
  BY <1>3, FS_CardinalityType
<1>5. Salts \ HeldSalts # {}
  BY <1>2, <1>3, <1>4, OneLeft
<1>6. New(Salts \ HeldSalts, 1) \in Salts \ HeldSalts
  BY <1>2, <1>5, FirstNew
<1> QED BY <1>1, <1>5, <1>6 DEF NewSalt

-----------------------------------------------------------------------------
(* The shape of the state.                                                 *)

KeyTerms ==
    [secret : {"none", "ecdh"}, pairing : Challenges \cup {None, OtherKey, StrayKey},
     salt : Salts \cup {None}]

ClientShape ==
    /\ sc \in [open : BOOLEAN, secret : {"none", "ecdh"}, keys : KeyTerms, iv : Ivs \cup {None}]
    /\ initialized \in BOOLEAN /\ ready \in BOOLEAN /\ failed \in BOOLEAN
    /\ pairing \in [index : Slots \cup Indices, key : Challenges \cup {None, StrayKey}]
    /\ pairing.key = None => pairing.index = 0
    /\ pc \in [at : {"idle", "pair", "open"}, id : Challenges \cup {None}]

CardShape ==
    card \in [app : {"keycard", "another"}, blank : BOOLEAN, open : BOOLEAN, keys : KeyTerms,
              iv : Ivs \cup {None}, slots : [Slots -> Challenges \cup {None, OtherKey}],
              pending : Challenges \cup {None}]

\* The card's challenge in a pairing is one that nobody holds.
LEMMA NewChallengeIsNew ==
    CardShape =>
      /\ Challenges \ HeldChallenges # {}
      /\ NewChallenge \in Challenges /\ NewChallenge \notin HeldChallenges
<1> SUFFICES ASSUME CardShape
             PROVE  /\ Challenges \ HeldChallenges # {}
                    /\ NewChallenge \in Challenges /\ NewChallenge \notin HeldChallenges
  OBVIOUS
<1> DEFINE keys == {sc.keys.pairing, card.keys.pairing}
           steps == {pairing.key, pc.id, card.pending}
           taken == Range(card.slots)
<1>1. HeldChallenges = (keys \cup steps) \cup taken
  BY DEF HeldChallenges
<1>2. IsFiniteSet(keys) /\ Cardinality(keys) <= 2 /\ IsFiniteSet(steps) /\ Cardinality(steps) <= 3
  BY FewElements
<1>3. IsFiniteSet(taken) /\ Cardinality(taken) <= Cardinality(Slots)
  <2>1. card.slots \in [Slots -> Challenges \cup {None, OtherKey}]
    BY DEF CardShape
  <2>2. card.slots \in Surjection(Slots, taken)
    BY <2>1 DEF Surjection, Range
  <2> QED BY <2>2, SlotsAssumption, FS_Surjection
<1> HIDE DEF keys, steps, taken
<1>4. IsFiniteSet(keys \cup steps) /\ Cardinality(keys \cup steps) <= 5
  <2>1. IsFiniteSet(keys \cap steps)
    BY <1>2, FS_Intersection
  <2>2. /\ Cardinality(keys) \in Nat /\ Cardinality(steps) \in Nat
        /\ Cardinality(keys \cap steps) \in Nat
    BY <1>2, <2>1, FS_CardinalityType
  <2>3. /\ IsFiniteSet(keys \cup steps)
        /\ Cardinality(keys \cup steps) =
              Cardinality(keys) + Cardinality(steps) - Cardinality(keys \cap steps)
    BY <1>2, FS_Union
  <2> QED BY <1>2, <2>2, <2>3
<1>5. /\ IsFiniteSet((keys \cup steps) \cup taken)
      /\ Cardinality((keys \cup steps) \cup taken) < Cardinality(Slots) + 6
  <2> DEFINE others == keys \cup steps
  <2> HIDE DEF others
  <2>0. IsFiniteSet(others) /\ Cardinality(others) <= 5
    BY <1>4 DEF others
  <2>1. IsFiniteSet(others \cap taken)
    BY <1>3, <2>0, FS_Intersection
  <2>2. /\ Cardinality(others) \in Nat /\ Cardinality(taken) \in Nat
        /\ Cardinality(others \cap taken) \in Nat /\ Cardinality(Slots) \in Nat
    BY <1>3, <2>0, <2>1, SlotsAssumption, FS_CardinalityType
  <2>3. /\ IsFiniteSet(others \cup taken)
        /\ Cardinality(others \cup taken) =
              Cardinality(others) + Cardinality(taken) - Cardinality(others \cap taken)
    BY <1>3, <2>0, FS_Union
  <2>4. IsFiniteSet(others \cup taken) /\ Cardinality(others \cup taken) < Cardinality(Slots) + 6
    BY <1>3, <2>0, <2>2, <2>3
  <2> QED BY <2>4 DEF others
<1>6. Challenges \in SUBSET Nat /\ Enough(Challenges, Cardinality(Slots) + 6)
  BY IdentifiersAssumption
<1>7. Cardinality(Slots) + 6 \in Nat
  BY SlotsAssumption, FS_CardinalityType
<1>8. Challenges \ HeldChallenges # {}
  BY <1>1, <1>5, <1>6, <1>7, OneLeft
<1>9. New(Challenges \ HeldChallenges, 1) \in Challenges \ HeldChallenges
  BY <1>6, <1>8, FirstNew
<1> QED BY <1>8, <1>9 DEF NewChallenge


-----------------------------------------------------------------------------
(* One exchange of send_sc.                                                *)

\* The slots after a command, UNPAIR or another.
Unpaired(cmd) == [i \in Slots |-> IF cmd.op = "UNPAIR" /\ i = cmd.index THEN None ELSE card.slots[i]]

\* An exchange ends in one of three ways: the card has not acted, it has answered a
\* public command in the clear, or it has acted on a message under its own keys.
LEMMA ExchangeEnds ==
    ASSUME CardShape, NEW msg, NEW cmd, NEW r, NEW x \in Exchanges(msg, cmd, r)
    PROVE  \/ /\ x.card \in {card, Closed(card)} /\ x.acted = FALSE
              /\ x.reply \in {Lost, Refusal, Clear(cmd.answer)}
           \/ /\ ~ card.open /\ msg.kind = "clear" /\ x.card = card
              /\ x.acted = TRUE /\ x.seen = {msg.data}
              /\ x.reply \in {Lost, Refusal, Clear(cmd.answer)}
           \/ /\ card.open /\ msg.kind = "protected" /\ msg.keys = card.keys
              /\ x.card = [card EXCEPT !.iv = r,
                             !.slots = Unpaired(cmd)]
              /\ x.acted = TRUE /\ x.seen = Decrypt(msg, card.iv)
              /\ x.reply \in {Lost, Protect(card.keys, msg.mac, r, cmd.answer)}
<1> DEFINE a == CardAnswer(msg, cmd, r)
           nothing == [card |-> card, acted |-> FALSE, reply |-> Lost, seen |-> {}]
<1>1. \/ x = nothing
      \/ x \in {[nothing EXCEPT !.reply = Refusal], [nothing EXCEPT !.reply = Clear(cmd.answer)]}
      \/ x \in {a, [a EXCEPT !.reply = Lost]}
  BY DEF Exchanges
<1>2. CASE x = nothing
  BY <1>2
<1>3. CASE x \in {[nothing EXCEPT !.reply = Refusal], [nothing EXCEPT !.reply = Clear(cmd.answer)]}
  <2>1. x.card = card /\ x.acted = FALSE /\ x.reply \in {Refusal, Clear(cmd.answer)}
    BY <1>3
  <2> QED BY <2>1
<1>4. CASE x \in {a, [a EXCEPT !.reply = Lost]}
  <2>1. a = [card |-> a.card, acted |-> a.acted, reply |-> a.reply, seen |-> a.seen]
    <3>1. card.open \in BOOLEAN
      BY DEF CardShape
    <3> QED BY <3>1 DEF CardAnswer
  <2> DEFINE mine == msg.kind = "protected" /\ msg.keys = card.keys
  <2>2. CASE card.open /\ mine
    <3>1. /\ a.card = [card EXCEPT !.iv = r,
                         !.slots = Unpaired(cmd)]
          /\ a.reply = Protect(card.keys, msg.mac, r, cmd.answer)
          /\ a.acted = TRUE /\ a.seen = Decrypt(msg, card.iv)
      BY <2>2 DEF CardAnswer, Unpaired
    <3> HIDE DEF a
    <3>2. /\ x.card = a.card /\ x.acted = a.acted /\ x.seen = a.seen
          /\ x.reply \in {a.reply, Lost}
      BY <1>4, <2>1
    <3> QED BY <2>2, <3>1, <3>2
  <2>3. CASE card.open /\ ~ mine
    <3>1. a.card = Closed(card) /\ a.reply = Refusal /\ a.acted = FALSE
      BY <2>3 DEF CardAnswer
    <3> HIDE DEF a
    <3>2. /\ x.card = a.card /\ x.acted = a.acted /\ x.seen = a.seen
          /\ x.reply \in {a.reply, Lost}
      BY <1>4, <2>1
    <3> QED BY <3>1, <3>2
  <2>4. CASE ~ card.open
    <3>1. /\ a.card = card
          /\ a.reply \in {Refusal, Clear(cmd.answer)}
          /\ a.acted = (msg.kind = "clear" /\ cmd.op = "IDENTIFY")
          /\ msg.kind = "clear" /\ cmd.op = "IDENTIFY" => a.seen = {msg.data}
      BY <2>4 DEF CardAnswer
    <3> HIDE DEF a
    <3>2. /\ x.card = a.card /\ x.acted = a.acted /\ x.seen = a.seen
          /\ x.reply \in {a.reply, Lost}
      BY <1>4, <2>1
    <3>3. CASE msg.kind = "clear" /\ cmd.op = "IDENTIFY"
      BY <2>4, <3>1, <3>2, <3>3
    <3>4. CASE ~ (msg.kind = "clear" /\ cmd.op = "IDENTIFY")
      BY <3>1, <3>2, <3>4
    <3> QED BY <3>3, <3>4
  <2>5. card.open \in BOOLEAN
    BY DEF CardShape
  <2> QED BY <2>2, <2>3, <2>4, <2>5
<1> QED BY <1>1, <1>2, <1>3, <1>4


\* What send_sc leaves behind.  The card opens no channel and changes no keys; an answer
\* accepted in the channel is exact and brings both ends to the same IV; and what the
\* card acts on has arrived when both ends had the same IV before.
LEMMA SendOutcome ==
    ASSUME ClientShape, CardShape,
           NEW op, NEW index, NEW sent \in DOMAIN AnswerTo, NEW inner \in BOOLEAN,
           send_sc(Cmd(op, index, sent), inner)
    PROVE  /\ sc' = [sc EXCEPT !.iv = sc'.iv] /\ sc'.iv \in Ivs \cup {None}
           /\ CardShape' /\ card'.app = card.app /\ card'.blank = card.blank
           /\ card'.open => card.open /\ card'.keys = card.keys
           /\ card'.pending \in {None, card.pending}
           /\ \A i \in Slots : card'.slots[i] \in {None, card.slots[i]}
           /\ op # "UNPAIR" => card'.slots = card.slots
           /\ failed' \in BOOLEAN /\ (failed => failed')
           /\ last'.op = op /\ (last'.sealed <=> sc.open) /\ (last'.ok => last'.accepted)
           /\ (last'.before <=> failed)
           /\ (last'.sealed /\ last'.accepted) =>
                 /\ last'.acted /\ last'.exact
                 /\ card'.open /\ card'.keys = sc.keys /\ card'.iv = sc'.iv
           /\ sc.open /\ ~ last'.accepted => failed'
           /\ ~ sc.open => sc' = sc /\ (card'.open => card' = card)
           /\ last'.acted /\ (sc.open /\ card.open /\ sc.keys = card.keys => sc.iv = card.iv) =>
                 last'.arrived
<1> DEFINE cmd == Cmd(op, index, sent)
           m == NewIv(1)
           r == NewIv(2)
           msg == IF sc.open THEN Protect(sc.keys, sc.iv, m, sent) ELSE Clear(sent)
<1>1. /\ cmd.op = op /\ cmd.index = index /\ cmd.sent = sent /\ cmd.answer = AnswerTo[sent]
      /\ sent \in Seq(Nat) /\ AnswerTo[sent] \in Seq(Nat)
  BY AnswersAssumption DEF Cmd
<1>2. m \in Ivs /\ r \in Ivs
  BY NewIvs
<1>3. /\ sc.open \in BOOLEAN /\ failed \in BOOLEAN
      /\ sc.keys \in KeyTerms /\ sc.iv \in Ivs \cup {None}
      /\ sc = [sc EXCEPT !.iv = sc.iv]
      /\ \A v : [sc EXCEPT !.iv = v].iv = v
  BY DEF ClientShape
<1>4. PICK x \in Exchanges(msg, cmd, r) :
         LET plain == x.reply.kind = "clear"
             res == IF sc.open THEN AcceptReply(x.reply, m)
                    ELSE [ok |-> plain, got |-> IF plain THEN {x.reply.data} ELSE {}, iv |-> sc.iv]
         IN /\ sc' = [sc EXCEPT !.iv = res.iv]
            /\ card' = x.card
            /\ failed' = (failed \/ (sc.open /\ ~ res.ok))
            /\ last' = [op |-> cmd.op, ok |-> res.ok /\ inner, sealed |-> sc.open,
                        accepted |-> res.ok, exact |-> res.got = {cmd.answer},
                        acted |-> x.acted, arrived |-> x.seen = {cmd.sent}, before |-> failed]
  BY <1>1 DEF send_sc
<1> DEFINE plain == x.reply.kind = "clear"
           res == IF sc.open THEN AcceptReply(x.reply, m)
                  ELSE [ok |-> plain, got |-> IF plain THEN {x.reply.data} ELSE {}, iv |-> sc.iv]
<1>5. /\ sc' = [sc EXCEPT !.iv = res.iv]
      /\ card' = x.card
      /\ failed' = (failed \/ (sc.open /\ ~ res.ok))
      /\ last'.op = op /\ last'.ok = (res.ok /\ inner) /\ last'.sealed = sc.open
      /\ last'.accepted = res.ok /\ last'.exact = (res.got = {cmd.answer})
      /\ last'.acted = x.acted /\ last'.arrived = (x.seen = {sent}) /\ last'.before = failed
  BY <1>1, <1>4
<1>6. \/ /\ x.card \in {card, Closed(card)} /\ x.acted = FALSE
         /\ x.reply \in {Lost, Refusal, Clear(cmd.answer)}
      \/ /\ ~ card.open /\ msg.kind = "clear" /\ x.card = card
         /\ x.acted = TRUE /\ x.seen = {msg.data}
         /\ x.reply \in {Lost, Refusal, Clear(cmd.answer)}
      \/ /\ card.open /\ msg.kind = "protected" /\ msg.keys = card.keys
         /\ x.card = [card EXCEPT !.iv = r,
                        !.slots = Unpaired(cmd)]
         /\ x.acted = TRUE /\ x.seen = Decrypt(msg, card.iv)
         /\ x.reply \in {Lost, Protect(card.keys, msg.mac, r, cmd.answer)}
  <2> HIDE DEF msg, cmd, r
  <2> QED BY ExchangeEnds
<1>7. msg.kind \in {"protected", "clear"} /\ (msg.kind = "protected" <=> sc.open)
  BY <1>3 DEF Protect, Clear
<1> DEFINE unanswered == x.reply \in {Lost, Refusal, Clear(cmd.answer)}
           answered == /\ card.open /\ sc.open /\ sc.keys = card.keys
                       /\ x.card = [card EXCEPT !.iv = r,
                                      !.slots = Unpaired(cmd)]
                       /\ x.acted = TRUE /\ x.seen = Decrypt(msg, card.iv)
                       /\ x.reply \in {Lost, Protect(card.keys, m, r, cmd.answer)}
<1>8. \/ x.card \in {card, Closed(card)} /\ x.acted = FALSE /\ unanswered
      \/ /\ ~ card.open /\ ~ sc.open /\ x.card = card
         /\ x.acted = TRUE /\ x.seen = {sent} /\ unanswered
      \/ answered
  <2>1. sc.open => msg.keys = sc.keys /\ msg.mac = m
    BY DEF Protect
  <2>2. ~ sc.open => msg.data = sent
    BY DEF Clear
  <2> QED BY <1>1, <1>6, <1>7, <2>1, <2>2
<1>9. unanswered => (sc.open => res.ok = FALSE /\ res.iv = m)
  BY DEF AcceptReply, Lost, Refusal, Clear
<1>10. ~ sc.open => res.iv = sc.iv /\ res.ok \in BOOLEAN
  OBVIOUS
<1>11. answered /\ x.reply = Lost => res.ok = FALSE /\ res.iv = m
  BY DEF AcceptReply, Lost
<1>12. answered /\ x.reply # Lost => res.ok = TRUE /\ res.got = {AnswerTo[sent]} /\ res.iv = r
  <2> SUFFICES ASSUME answered, x.reply # Lost
               PROVE  res.ok = TRUE /\ res.got = {AnswerTo[sent]} /\ res.iv = r
    OBVIOUS
  <2>1. x.reply = Protect(sc.keys, m, r, AnswerTo[sent])
    BY <1>1
  <2>2. /\ x.reply.kind = "protected" /\ x.reply.keys = sc.keys /\ x.reply.mac = r
        /\ x.reply.iv = m /\ x.reply.data = append_padding(AnswerTo[sent])
    BY <2>1 DEF Protect
  <2>3. Decrypt(x.reply, m) = {AnswerTo[sent]}
    BY <1>1, <2>2, PaddingRemoved DEF Decrypt
  <2>4. AcceptReply(x.reply, m) = [ok |-> TRUE, got |-> {AnswerTo[sent]}, iv |-> r]
    BY <2>2, <2>3 DEF AcceptReply
  <2>5. sc.open
    OBVIOUS
  <2> QED BY <2>4, <2>5
<1>13. answered /\ sc.iv = card.iv => x.seen = {sent}
  <2> SUFFICES ASSUME answered, sc.iv = card.iv PROVE x.seen = {sent}
    OBVIOUS
  <2>1. msg.iv = sc.iv /\ msg.data = append_padding(sent)
    BY DEF Protect
  <2>2. Decrypt(msg, card.iv) = {sent}
    BY <1>1, <2>1, PaddingRemoved DEF Decrypt
  <2> QED BY <2>2
<1>14. /\ x.card \in [app : {"keycard", "another"}, blank : BOOLEAN, open : BOOLEAN, keys : KeyTerms,
                      iv : Ivs \cup {None}, slots : [Slots -> Challenges \cup {None, OtherKey}],
                      pending : Challenges \cup {None}]
       /\ x.card.app = card.app /\ x.card.blank = card.blank
       /\ x.card.open => card.open /\ x.card.keys = card.keys
       /\ x.card.pending \in {None, card.pending}
       /\ \A i \in Slots : x.card.slots[i] \in {None, card.slots[i]}
       /\ op # "UNPAIR" => x.card.slots = card.slots
  <2> HIDE DEF cmd, m, r, msg, plain, res
  <2>1. CASE x.card = card
    BY <2>1 DEF CardShape
  <2>2. CASE x.card = Closed(card)
    <3>1. NoKeys \in KeyTerms
      BY DEF NoKeys, KeyTerms
    <3> QED BY <2>2, <3>1 DEF CardShape, Closed
  <2>3. CASE answered
    <3> DEFINE slots == Unpaired(cmd)
    <3>1. card.slots \in [Slots -> Challenges \cup {None, OtherKey}]
      BY DEF CardShape
    <3>2. /\ slots \in [Slots -> Challenges \cup {None, OtherKey}]
          /\ \A i \in Slots : slots[i] \in {None, card.slots[i]}
          /\ op # "UNPAIR" => slots = card.slots
      BY <1>1, <3>1 DEF Unpaired
    <3>3. x.card = [card EXCEPT !.iv = r, !.slots = slots]
      BY <2>3
    <3> HIDE DEF slots, answered
    <3> QED BY <1>2, <3>2, <3>3 DEF CardShape
  <2> QED BY <1>8, <2>1, <2>2, <2>3
<1>15. answered => x.card.open /\ x.card.keys = sc.keys /\ x.card.iv = r
  <2> HIDE DEF cmd, m, r, msg, plain, res
  <2> QED BY DEF CardShape
<1>16. x.card.open /\ ~ sc.open => x.card = card
  <2>1. CardShape => Closed(card).open = FALSE
    BY DEF CardShape, Closed
  <2> QED BY <1>8, <2>1
<1> HIDE DEF cmd, m, r, msg, plain, res, unanswered
<1>17. res.ok \in BOOLEAN /\ res.iv \in {m, r, sc.iv} /\ (~ sc.open => res.iv = sc.iv)
  BY <1>3, <1>8, <1>9, <1>10, <1>11, <1>12
<1>18. sc.open /\ res.ok =>
         /\ x.acted = TRUE /\ res.got = {cmd.answer}
         /\ x.card.open /\ x.card.keys = sc.keys /\ x.card.iv = res.iv
  <2> SUFFICES ASSUME sc.open, res.ok
               PROVE  /\ x.acted = TRUE /\ res.got = {cmd.answer}
                      /\ x.card.open /\ x.card.keys = sc.keys /\ x.card.iv = res.iv
    OBVIOUS
  <2>1. answered
    BY <1>8, <1>9
  <2>2. x.reply # Lost
    BY <1>11, <2>1
  <2> QED BY <1>1, <1>12, <1>15, <2>1, <2>2
<1>19. x.acted /\ (sc.open /\ card.open /\ sc.keys = card.keys => sc.iv = card.iv) => x.seen = {sent}
  BY <1>8, <1>13
<1> HIDE DEF answered
<1>20. sc'.iv = res.iv /\ sc' = [sc EXCEPT !.iv = sc'.iv] /\ sc'.iv \in Ivs \cup {None}
  BY <1>2, <1>3, <1>5, <1>17
<1>21. ~ sc.open => sc' = sc /\ (card'.open => card' = card)
  BY <1>3, <1>5, <1>16, <1>17
<1>22. failed' \in BOOLEAN /\ (failed => failed') /\ (sc.open /\ ~ last'.accepted => failed')
  BY <1>3, <1>5, <1>17
<1>23. /\ CardShape' /\ card'.app = card.app /\ card'.blank = card.blank
       /\ card'.open => card.open /\ card'.keys = card.keys
       /\ card'.pending \in {None, card.pending}
       /\ \A i \in Slots : card'.slots[i] \in {None, card.slots[i]}
       /\ op # "UNPAIR" => card'.slots = card.slots
  BY <1>5, <1>14 DEF CardShape
<1>24. last'.op = op /\ (last'.sealed <=> sc.open) /\ (last'.before <=> failed)
  BY <1>5
<1>25. last'.ok => last'.accepted
  BY <1>5
<1>26. (last'.sealed /\ last'.accepted) =>
          /\ last'.acted /\ last'.exact
          /\ card'.open /\ card'.keys = sc.keys /\ card'.iv = sc'.iv
  BY <1>5, <1>18, <1>20
<1>27. last'.acted /\ (sc.open /\ card.open /\ sc.keys = card.keys => sc.iv = card.iv) =>
          last'.arrived
  BY <1>5, <1>19
<1> QED BY <1>20, <1>21, <1>22, <1>23, <1>24, <1>25, <1>26, <1>27


-----------------------------------------------------------------------------
(* The inductive invariant.                                                *)

\* The two ends of the channel.  Channel and caller agree on what is open; another
\* applet closes the card's end; and until a command fails, two ends with the same keys
\* have the same IV.
InStep ==
    /\ ready => sc.open
    /\ pc.at = "open" => sc.open
    /\ card.app = "another" => ~ card.open
    /\ (~ failed /\ sc.open /\ card.open /\ sc.keys = card.keys) => sc.iv = card.iv

\* Pairing.  A client with a shared secret knows an initialized card to be so; a blank
\* card has no pairings; a challenge is given out only with a slot left for it; and ends
\* that share their keys between the two steps of OPEN share the pairing key.
Paired ==
    /\ sc.secret # "none" /\ ~ card.blank => initialized
    /\ card.blank => \A i \in Slots : card.slots[i] = None
    /\ card.pending # None => ~ card.blank /\ \E i \in Slots : card.slots[i] = None
    /\ pc.at = "pair" => pc.id \in Challenges
    /\ pc.at = "open" /\ card.open /\ card.keys = sc.keys =>
          /\ initialized /\ pairing.key # None /\ pairing.index \in Slots
          /\ card.slots[pairing.index] = pairing.key

Channel == ClientShape /\ CardShape /\ InStep /\ Paired

\* What the properties say of the last exchange.
LastExchange == SecretsStaySealed /\ AcceptedIsExact /\ CommandArrives /\ OpenMeansSamePairing

\* An operation outside of the channel exchanges no command.
LEMMA DoneOutside ==
    ASSUME NEW op \in {"disturb", "connect", "SELECT", "PAIR", "OPEN"}, NEW ok \in BOOLEAN,
           Done(op, ok), op = "OPEN" => ok = FALSE
    PROVE  LastExchange'
<1>1. last' = [op |-> op, ok |-> ok, sealed |-> FALSE]
  BY DEF Done
<1>2. last'.op = op /\ last'.ok = ok /\ ~ ("accepted" \in DOMAIN last')
  BY <1>1
<1>3. SecretsStaySealed'
  BY <1>2 DEF SecretsStaySealed
<1>4. AcceptedIsExact' /\ CommandArrives'
  BY <1>2 DEF AcceptedIsExact, CommandArrives, Exchanged
<1>5. OpenMeansSamePairing'
  BY <1>2 DEF OpenMeansSamePairing
<1> QED BY <1>3, <1>4, <1>5 DEF LastExchange

\* A card that loses its channel, keeping its slots or giving a free one to another client.
LEMMA ClosedShape ==
    ASSUME CardShape, NEW app \in {"keycard", "another"}
    PROVE  LET c == [Closed(card) EXCEPT !.app = app]
           IN /\ c \in [app : {"keycard", "another"}, blank : BOOLEAN, open : BOOLEAN,
                        keys : KeyTerms, iv : Ivs \cup {None},
                        slots : [Slots -> Challenges \cup {None, OtherKey}],
                        pending : Challenges \cup {None}]
              /\ c.app = app /\ c.open = FALSE /\ c.blank = card.blank
              /\ c.slots = card.slots /\ c.pending = None
<1>1. NoKeys \in KeyTerms
  BY DEF NoKeys, KeyTerms
<1> QED BY <1>1 DEF CardShape, Closed

\* While the card's end is closed the two ends have nothing to disagree about.
LEMMA ClosedAgrees ==
    ASSUME Channel, CardShape', UNCHANGED <<initialized, sc, pairing, pc, ready, failed>>,
           card'.open = FALSE, card'.blank = card.blank, card'.pending = None,
           card.blank => card'.slots = card.slots
    PROVE  Channel'
<1>1. ClientShape'
  BY DEF Channel, ClientShape
<1>2. InStep'
  BY DEF Channel, InStep
<1>3. Paired'
  BY DEF Channel, Paired
<1> QED BY <1>1, <1>2, <1>3 DEF Channel

\* A disturbance of the exchange keeps Channel.
LEMMA DisturbKeeps ==
    ASSUME Channel, Disturb
    PROVE  Channel' /\ LastExchange'
<1>1. LastExchange'
  BY DoneOutside DEF Disturb
<1>2. PICK app \in {"keycard", "another"} : card' = [Closed(card) EXCEPT !.app = app]
  BY DEF Disturb
<1>3. CardShape' /\ card'.open = FALSE /\ card'.blank = card.blank /\ card'.pending = None
      /\ card'.slots = card.slots
  BY <1>2, ClosedShape DEF Channel, CardShape
<1>4. UNCHANGED <<initialized, sc, pairing, pc, ready, failed>>
  BY DEF Disturb
<1> QED BY <1>1, <1>3, <1>4, ClosedAgrees

\* A pairing of another client keeps Channel.
LEMMA OtherPairsKeeps ==
    ASSUME Channel, OtherPairs
    PROVE  Channel' /\ LastExchange'
<1>1. LastExchange'
  BY DoneOutside DEF OtherPairs
<1>2. PICK i \in Slots : card.slots[i] = None /\ card' = [Closed(card) EXCEPT !.slots[i] = OtherKey]
  BY DEF OtherPairs
<1>3. CardShape
  BY DEF Channel
<1>4. NoKeys \in KeyTerms
  BY DEF NoKeys, KeyTerms
<1>5. CardShape' /\ card'.open = FALSE /\ card'.blank = card.blank /\ card'.pending = None
  BY <1>2, <1>3, <1>4 DEF CardShape, Closed
<1>6. ~ card.blank /\ UNCHANGED <<initialized, sc, pairing, pc, ready, failed>>
  BY DEF OtherPairs
<1> QED BY <1>1, <1>5, <1>6, ClosedAgrees


\* Connecting keeps Channel.
LEMMA ConnectKeeps ==
    ASSUME Channel, Connect
    PROVE  Channel' /\ LastExchange'
<1>1. LastExchange'
  BY DoneOutside DEF Connect
<1>2. /\ pc = Idle /\ pc' = Idle /\ sc' = NoChannel /\ initialized' = FALSE
      /\ pairing' = [index |-> 0, key |-> None] /\ ready' = FALSE /\ failed' = FALSE
  BY DEF Connect
<1>3. NoKeys \in KeyTerms
  BY DEF NoKeys, KeyTerms
<1>4. CardShape
  BY DEF Channel
<1>5. card' = card \/ card' = Closed(card)
  BY DEF Connect
<1>6. /\ CardShape' /\ card'.app = card.app /\ card'.blank = card.blank
      /\ card'.slots = card.slots
      /\ card'.pending = card.pending \/ card'.pending = None
      /\ card'.open = card.open \/ card'.open = FALSE
  BY <1>3, <1>4, <1>5 DEF CardShape, Closed
<1>7. ClientShape'
  BY <1>2, <1>3, SlotsAssumption DEF ClientShape, NoChannel, Idle
<1>8. /\ sc'.open = FALSE /\ sc'.secret = "none" /\ pc'.at = "idle"
  BY <1>2 DEF NoChannel, Idle
<1>9. InStep'
  BY <1>2, <1>6, <1>8 DEF Channel, InStep
<1>10. Paired'
  BY <1>6, <1>8 DEF Channel, Paired
<1> QED BY <1>1, <1>6, <1>7, <1>9, <1>10 DEF Channel

\* SELECT keeps Channel.
LEMMA SelectKeeps ==
    ASSUME Channel, NEW fate \in Fates \cup {"incomplete"}, Select(fate)
    PROVE  Channel' /\ LastExchange'
<1>1. LastExchange'
  BY DoneOutside DEF Select
<1>2. /\ pc = Idle /\ pc' = pc /\ pairing' = pairing /\ failed' = failed
      /\ card' = IF fate = "lost" THEN card ELSE [Closed(card) EXCEPT !.app = "keycard"]
      /\ sc' = IF fate = "ok" THEN [NoChannel EXCEPT !.secret = "ecdh"] ELSE sc
      /\ initialized' \in LearnsInitialized(fate)
      /\ ready' = (ready /\ fate # "ok")
  BY DEF Select
<1>3. ClientShape /\ CardShape /\ InStep /\ Paired /\ card.blank \in BOOLEAN
  BY DEF Channel, CardShape
<1>4. NoKeys \in KeyTerms
  BY DEF NoKeys, KeyTerms
<1>5. pc.at = "idle"
  BY <1>2 DEF Idle
<1>6. /\ initialized' \in BOOLEAN
      /\ fate = "ok" => (initialized' <=> ~ card.blank)
      /\ fate # "ok" /\ ~ card.blank /\ initialized => initialized'
  <2>1. CASE fate = "ok"
    BY <1>2, <1>3, <2>1 DEF LearnsInitialized
  <2>2. CASE fate = "incomplete"
    BY <1>2, <1>3, <2>2 DEF LearnsInitialized, ClientShape
  <2>3. CASE fate # "ok" /\ fate # "incomplete"
    <3>1. LearnsInitialized(fate) = {initialized}
      BY <2>3 DEF LearnsInitialized
    <3> QED BY <1>2, <1>3, <2>3, <3>1 DEF ClientShape
  <2> QED BY <2>1, <2>2, <2>3
<1>7. /\ sc' \in [open : BOOLEAN, secret : {"none", "ecdh"}, keys : KeyTerms, iv : Ivs \cup {None}]
      /\ fate = "ok" => sc'.open = FALSE
      /\ fate # "ok" => sc' = sc
  BY <1>2, <1>3, <1>4 DEF ClientShape, NoChannel
<1>8. ClientShape'
  BY <1>2, <1>3, <1>6, <1>7 DEF ClientShape
<1>9. CASE fate = "lost"
  <2>1. card' = card /\ sc' = sc
    BY <1>2, <1>9
  <2>2. CardShape'
    BY <1>3, <2>1 DEF CardShape
  <2>3. InStep'
    BY <1>2, <1>3, <1>5, <1>9, <2>1 DEF InStep
  <2>4. Paired'
    BY <1>2, <1>3, <1>5, <1>6, <1>9, <2>1 DEF Paired
  <2> QED BY <1>1, <1>8, <2>2, <2>3, <2>4 DEF Channel
<1>10. CASE fate # "lost"
  <2>1. /\ CardShape' /\ card'.app = "keycard" /\ card'.open = FALSE /\ card'.blank = card.blank
        /\ card'.slots = card.slots /\ card'.pending = None
    BY <1>2, <1>3, <1>10, ClosedShape DEF CardShape
  <2>2. InStep'
    BY <1>2, <1>3, <1>5, <1>7, <2>1 DEF InStep
  <2>3. Paired'
    BY <1>2, <1>3, <1>5, <1>6, <1>7, <2>1 DEF Paired
  <2> QED BY <1>1, <1>8, <2>1, <2>2, <2>3 DEF Channel
<1> QED BY <1>9, <1>10

\* The first step of PAIR keeps Channel.
LEMMA PairFirstKeeps ==
    ASSUME Channel, NEW fate \in Fates, NEW knows_password \in BOOLEAN,
           PairFirst(fate, knows_password)
    PROVE  Channel' /\ LastExchange'
<1>1. LastExchange'
  BY DoneOutside DEF PairFirst
<1> DEFINE acts == fate # "lost" /\ card.app = "keycard" /\ ~ card.open /\ ~ card.blank
                     /\ \E i \in Slots : card.slots[i] = None
<1>2. /\ pc = Idle
      /\ card' = IF acts THEN [card EXCEPT !.pending = NewChallenge] ELSE card
      /\ pc' = (IF acts /\ fate = "ok" /\ knows_password
                  THEN [at |-> "pair", id |-> NewChallenge] ELSE Idle)
      /\ UNCHANGED <<initialized, sc, pairing, ready, failed>>
  BY DEF PairFirst
<1>3. ClientShape /\ CardShape /\ InStep /\ Paired
  BY DEF Channel
<1>4. NewChallenge \in Challenges
  BY <1>3, NewChallengeIsNew
<1>5. pc' \in [at : {"idle", "pair", "open"}, id : Challenges \cup {None}] /\ pc'.at # "open"
      /\ (pc'.at = "pair" => pc'.id \in Challenges)
  BY <1>2, <1>4 DEF Idle
<1>6. ClientShape'
  BY <1>2, <1>3, <1>5 DEF ClientShape
<1>7. /\ CardShape' /\ card'.app = card.app /\ card'.blank = card.blank
      /\ card'.open = card.open /\ card'.keys = card.keys /\ card'.iv = card.iv
      /\ card'.slots = card.slots
      /\ card'.pending = card.pending \/ acts
  BY <1>2, <1>3, <1>4 DEF CardShape
<1>8. InStep'
  BY <1>2, <1>3, <1>5, <1>7 DEF InStep
<1>9. Paired'
  BY <1>2, <1>3, <1>5, <1>7 DEF Paired
<1> QED BY <1>1, <1>6, <1>7, <1>8, <1>9 DEF Channel

\* The final step of PAIR keeps Channel.
LEMMA PairFinalKeeps ==
    ASSUME Channel, NEW fate \in Fates, PairFinal(fate)
    PROVE  Channel' /\ LastExchange'
<1> DEFINE acts == fate # "lost" /\ card.app = "keycard" /\ card.pending = pc.id
           slot == CHOOSE i \in Slots : card.slots[i] = None /\
                      \A j \in Slots : card.slots[j] = None => i <= j
           answers == IF fate = "ok" THEN PairAnswers(acts, slot) ELSE {}
<1>1. LastExchange'
  <2>1. Done("PAIR", answers # {})
    BY DEF PairFinal
  <2> HIDE DEF answers
  <2> QED BY <2>1, DoneOutside
<1>2. /\ pc.at = "pair" /\ pc' = Idle /\ UNCHANGED <<initialized, sc, ready, failed>>
      /\ card' = IF acts THEN [card EXCEPT !.pending = None, !.slots[slot] = pc.id] ELSE card
      /\ pairing' = pairing \/ pairing' \in PairAnswers(acts, slot)
  BY DEF PairFinal
<1>3. ClientShape /\ CardShape /\ InStep /\ Paired /\ pc.id \in Challenges /\ pc'.at = "idle"
  BY <1>2 DEF Channel, Paired, Idle
<1>4. acts => slot \in Slots /\ card.slots[slot] = None
  <2> SUFFICES ASSUME acts PROVE slot \in Slots /\ card.slots[slot] = None
    OBVIOUS
  <2> DEFINE free == {i \in Slots : card.slots[i] = None}
  <2>1. card.pending # None
    BY <1>3, IdentifiersAssumption DEF None
  <2>2. free # {} /\ free \in SUBSET Nat
    BY <1>3, <2>1, SlotsAssumption DEF Paired
  <2>3. \E i \in free : \A j \in free : i <= j
    <3> HIDE DEF free
    <3> QED BY <2>2, LeastIdentifier
  <2>4. \E i \in Slots : card.slots[i] = None /\ \A j \in Slots : card.slots[j] = None => i <= j
    BY <2>3
  <2> QED BY <2>4
<1>5. acts => ~ card.blank
  BY <1>3, IdentifiersAssumption DEF None, Paired
<1> HIDE DEF slot, acts, answers
<1>6. ClientShape'
  <2>1. \A p \in PairAnswers(acts, slot) :
           /\ p \in [index : Slots \cup Indices, key : Challenges \cup {None, StrayKey}]
           /\ p.key # None
    <3>1. CASE acts
      <4>1. PairAnswers(acts, slot) = {[index |-> slot, key |-> pc.id]}
        BY <3>1 DEF PairAnswers, acts
      <4>2. slot \in Slots \cup Indices /\ pc.id \in Challenges /\ pc.id # None
        BY <1>3, <1>4, <3>1, IdentifiersAssumption DEF None
      <4> QED BY <4>1, <4>2
    <3>2. CASE ~ acts /\ card.app = "another"
      <4>1. PairAnswers(acts, slot) = {[index |-> i, key |-> StrayKey] : i \in Indices}
        BY <3>2 DEF PairAnswers
      <4> QED BY <4>1 DEF None, StrayKey
    <3>3. CASE ~ acts /\ card.app # "another"
      BY <3>3 DEF PairAnswers
    <3> QED BY <3>1, <3>2, <3>3
  <2>2. /\ pairing' \in [index : Slots \cup Indices, key : Challenges \cup {None, StrayKey}]
        /\ pairing'.key = None => pairing'.index = 0
    BY <1>2, <1>3, <2>1 DEF ClientShape
  <2> QED BY <1>2, <1>3, <2>2 DEF ClientShape, Idle
<1>7. /\ CardShape' /\ card'.app = card.app /\ card'.blank = card.blank
      /\ card'.open = card.open /\ card'.keys = card.keys /\ card'.iv = card.iv
      /\ acts => card'.pending = None
      /\ ~ acts => card' = card
  BY <1>2, <1>3, <1>4 DEF CardShape
<1>8. InStep'
  BY <1>2, <1>3, <1>7 DEF InStep
<1>9. Paired'
  BY <1>2, <1>3, <1>5, <1>7 DEF Paired
<1> QED BY <1>1, <1>6, <1>7, <1>8, <1>9 DEF Channel


\* OPEN SECURE CHANNEL keeps Channel.
LEMMA OpenFirstKeeps ==
    ASSUME Channel, NEW fate \in Fates, OpenFirst(fate)
    PROVE  Channel' /\ LastExchange'
<1> DEFINE cardopens == OpenAnswered(fate) /\ card.app = "keycard"
           clientopens == OpenAnswered(fate) /\ fate = "ok"
           clientkeys == derive_session_keys(sc.secret, pairing.key, NewSalt)
           cardkeys == derive_session_keys(sc.secret, card.slots[pairing.index], NewSalt)
<1>1. LastExchange'
  BY DoneOutside DEF OpenFirst
<1>2. /\ pc = Idle /\ UNCHANGED <<initialized, pairing, ready>>
      /\ card' = CardOpens(fate)
      /\ clientopens => ClientOpens /\ pc' = [Idle EXCEPT !.at = "open"]
      /\ ~ clientopens => UNCHANGED <<sc, failed, pc>>
  BY DEF OpenFirst
<1>3. /\ ClientShape /\ CardShape /\ InStep /\ Paired /\ pc.at = "idle"
      /\ sc.secret \in {"none", "ecdh"}
      /\ pairing.key \in Challenges \cup {None, StrayKey}
      /\ card.slots \in [Slots -> Challenges \cup {None, OtherKey}]
      /\ card.app \in {"keycard", "another"} /\ card.open \in BOOLEAN
  BY <1>2 DEF Channel, Idle, ClientShape, CardShape
<1>4. NewIv(1) \in Ivs
  BY NewIvs
<1>5. NewSalt \in Salts /\ NewSalt # sc.keys.salt /\ NewSalt # card.keys.salt
  BY NewSaltIsNew
<1>6. /\ clientkeys \in KeyTerms /\ (pairing.index \in Slots => cardkeys \in KeyTerms)
      /\ clientkeys.salt = NewSalt /\ cardkeys.salt = NewSalt
      /\ clientkeys = cardkeys => pairing.key = card.slots[pairing.index]
  BY <1>3, <1>5 DEF derive_session_keys, KeyTerms
<1>7. /\ clientopens => /\ sc' = [sc EXCEPT !.open = TRUE, !.iv = NewIv(1), !.keys = clientkeys]
                        /\ failed' = FALSE /\ pc' = [at |-> "open", id |-> None]
      /\ cardopens => card' = [card EXCEPT !.open = TRUE, !.pending = None, !.iv = NewIv(1),
                                 !.keys = cardkeys]
      /\ ~ cardopens => card' = card
  BY <1>2 DEF ClientOpens, CardOpens, Idle
<1>8. cardopens => sc.secret # "none" /\ pairing.index \in Slots /\ card.slots[pairing.index] # None
  BY DEF OpenAnswered
<1>9. cardopens => ~ card.blank /\ initialized
  BY <1>3, <1>8 DEF Paired, CardShape
<1>10. clientopens /\ ~ cardopens => card.app = "another"
  BY <1>3
<1> HIDE DEF clientopens, cardopens, clientkeys, cardkeys
<1>11. /\ clientopens => /\ sc'.open = TRUE /\ sc'.keys = clientkeys /\ sc'.iv = NewIv(1)
                         /\ sc'.secret = sc.secret /\ pc'.at = "open" /\ failed' = FALSE
       /\ ~ clientopens => sc' = sc /\ failed' = failed /\ pc' = pc
  BY <1>2, <1>3, <1>7 DEF ClientShape
<1>12. ClientShape'
  <2>1. CASE clientopens
    BY <1>2, <1>3, <1>4, <1>6, <1>7, <2>1 DEF ClientShape
  <2>2. CASE ~ clientopens
    BY <1>2, <1>3, <1>11, <2>2 DEF ClientShape
  <2> QED BY <2>1, <2>2
<1>13. /\ CardShape' /\ card'.app = card.app /\ card'.blank = card.blank
       /\ card'.slots = card.slots
       /\ cardopens => card'.open = TRUE /\ card'.keys = cardkeys /\ card'.iv = NewIv(1)
                         /\ card'.pending = None
       /\ ~ cardopens => card' = card
  <2>1. CASE cardopens
    BY <1>3, <1>4, <1>6, <1>7, <1>8, <2>1 DEF CardShape
  <2>2. CASE ~ cardopens
    BY <1>3, <1>7, <2>2 DEF CardShape
  <2> QED BY <2>1, <2>2
<1>14. InStep'
  <2>1. (ready => sc.open)' /\ (pc.at = "open" => sc.open)'
    BY <1>2, <1>3, <1>11 DEF InStep
  <2>2. (card.app = "another" => ~ card.open)'
    <3>1. cardopens => card.app = "keycard"
      BY DEF cardopens
    <3> QED BY <1>3, <1>13, <3>1 DEF InStep
  <2>3. ((~ failed /\ sc.open /\ card.open /\ sc.keys = card.keys) => sc.iv = card.iv)'
    <3>1. CASE clientopens /\ cardopens
      BY <1>11, <1>13, <3>1
    <3>2. CASE clientopens /\ ~ cardopens
      BY <1>3, <1>10, <1>13, <3>2 DEF InStep
    <3>3. CASE ~ clientopens /\ cardopens
      BY <1>5, <1>6, <1>11, <1>13, <3>3
    <3>4. CASE ~ clientopens /\ ~ cardopens
      BY <1>3, <1>11, <1>13, <3>4 DEF InStep
    <3> QED BY <3>1, <3>2, <3>3, <3>4
  <2> QED BY <2>1, <2>2, <2>3 DEF InStep
<1>15. Paired'
  <2>1. /\ (sc.secret # "none" /\ ~ card.blank => initialized)'
        /\ (card.blank => \A i \in Slots : card.slots[i] = None)'
        /\ (card.pending # None => ~ card.blank /\ \E i \in Slots : card.slots[i] = None)'
    BY <1>2, <1>3, <1>11, <1>13 DEF Paired
  <2>2. pc'.at # "pair"
    BY <1>3, <1>11
  <2>3. (pc.at = "open" /\ card.open /\ card.keys = sc.keys =>
           /\ initialized /\ pairing.key # None /\ pairing.index \in Slots
           /\ card.slots[pairing.index] = pairing.key)'
    <3>1. CASE clientopens /\ cardopens
      BY <1>2, <1>6, <1>8, <1>9, <1>11, <1>13, <3>1
    <3>2. CASE clientopens /\ ~ cardopens
      BY <1>3, <1>10, <1>13, <3>2 DEF InStep
    <3>3. CASE ~ clientopens
      BY <1>3, <1>11, <3>3
    <3> QED BY <3>1, <3>2, <3>3
  <2> QED BY <2>1, <2>2, <2>3 DEF Paired
<1> QED BY <1>1, <1>12, <1>13, <1>14, <1>15 DEF Channel

\* A command in the channel, or in the clear while there is none: OPEN's second step
\* only after its first.
LEMMA SendKeeps ==
    ASSUME Channel, UNCHANGED <<initialized, pairing>>,
           NEW op, NEW index, NEW sent \in DOMAIN AnswerTo, NEW inner \in BOOLEAN,
           send_sc(Cmd(op, index, sent), inner),
           pc' = Idle, ready' \in BOOLEAN, ready' => sc.open,
           op = "OPEN" => pc.at = "open"
    PROVE  Channel' /\ LastExchange'
<1>1. ClientShape /\ CardShape /\ InStep /\ Paired /\ pc'.at = "idle"
  BY DEF Channel, Idle
<1>2. /\ sc' = [sc EXCEPT !.iv = sc'.iv] /\ sc'.iv \in Ivs \cup {None}
      /\ CardShape' /\ card'.app = card.app /\ card'.blank = card.blank
      /\ card'.open => card.open /\ card'.keys = card.keys
      /\ card'.pending \in {None, card.pending}
      /\ \A i \in Slots : card'.slots[i] \in {None, card.slots[i]}
      /\ op # "UNPAIR" => card'.slots = card.slots
      /\ failed' \in BOOLEAN /\ (failed => failed')
  BY <1>1, SendOutcome
<1>3. /\ last'.op = op /\ (last'.sealed <=> sc.open) /\ (last'.ok => last'.accepted)
      /\ (last'.before <=> failed)
      /\ (last'.sealed /\ last'.accepted) =>
            /\ last'.acted /\ last'.exact
            /\ card'.open /\ card'.keys = sc.keys /\ card'.iv = sc'.iv
      /\ sc.open /\ ~ last'.accepted => failed'
      /\ ~ sc.open => sc' = sc /\ (card'.open => card' = card)
      /\ last'.acted /\ (sc.open /\ card.open /\ sc.keys = card.keys => sc.iv = card.iv) =>
            last'.arrived
  BY <1>1, SendOutcome
<1>4. sc'.open = sc.open /\ sc'.keys = sc.keys /\ sc'.secret = sc.secret
  BY <1>1, <1>2 DEF ClientShape
<1>5. ClientShape'
  BY <1>1, <1>2 DEF ClientShape, Idle
<1>6. InStep'
  BY <1>1, <1>2, <1>3, <1>4 DEF InStep
<1>7. Paired'
  BY <1>1, <1>2, <1>4 DEF Paired
<1>8. SecretsStaySealed'
  BY <1>3 DEF SecretsStaySealed
<1>9. AcceptedIsExact'
  BY <1>3, <1>4 DEF AcceptedIsExact
<1>10. CommandArrives'
  BY <1>1, <1>3 DEF CommandArrives, InStep
<1>11. OpenMeansSamePairing'
  <2> SUFFICES ASSUME last'.op = "OPEN", last'.ok
               PROVE  /\ card'.open /\ card'.keys = sc'.keys /\ initialized'
                      /\ pairing'.key # None /\ pairing'.index \in Slots
                      /\ card'.slots[pairing'.index] = pairing'.key
    BY DEF OpenMeansSamePairing
  <2>1. pc.at = "open" /\ sc.open /\ card'.slots = card.slots
    BY <1>1, <1>2, <1>3 DEF InStep
  <2>2. card'.open /\ card'.keys = sc.keys /\ card.open /\ card.keys = sc.keys
    BY <1>2, <1>3, <2>1
  <2> QED BY <1>1, <1>4, <2>1, <2>2 DEF Paired
<1> QED BY <1>2, <1>5, <1>6, <1>7, <1>8, <1>9, <1>10, <1>11 DEF Channel, LastExchange

\* A command keeps Channel.
LEMMA CommandKeeps ==
    ASSUME Channel, NEW op \in {"VERIFY_PIN", "EXPORT_KEY", "IDENTIFY"},
           NEW sent \in DOMAIN AnswerTo, Command(op, sent)
    PROVE  Channel' /\ LastExchange'
<1>1. /\ pc' = Idle /\ send_sc(Cmd(op, 0, sent), TRUE) /\ UNCHANGED <<initialized, pairing>>
      /\ ready' = ready
  BY DEF Command
<1>2. ready \in BOOLEAN /\ (ready => sc.open)
  BY DEF Channel, ClientShape, InStep
<1>3. op # "OPEN"
  OBVIOUS
<1> QED BY <1>1, <1>2, <1>3, SendKeeps

\* UNPAIR keeps Channel.
LEMMA UnpairKeeps ==
    ASSUME Channel, NEW index, Unpair(index)
    PROVE  Channel' /\ LastExchange'
<1>1. /\ pc' = Idle /\ send_sc(Cmd("UNPAIR", index, << >>), TRUE)
      /\ UNCHANGED <<initialized, pairing>> /\ ready' = ready
  BY DEF Unpair
<1>2. ready \in BOOLEAN /\ (ready => sc.open)
  BY DEF Channel, ClientShape, InStep
<1>3. << >> \in DOMAIN AnswerTo
  BY AnswersAssumption
<1> QED BY <1>1, <1>2, <1>3, SendKeeps

\* MUTUALLY AUTHENTICATE keeps Channel.
LEMMA OpenFinalKeeps ==
    ASSUME Channel, NEW sent \in DOMAIN AnswerTo, NEW inner \in BOOLEAN, OpenFinal(sent, inner)
    PROVE  Channel' /\ LastExchange'
<1>1. /\ pc.at = "open" /\ pc' = Idle /\ send_sc(Cmd("OPEN", 0, sent), inner)
      /\ UNCHANGED <<initialized, pairing>> /\ ready' = (ready \/ last'.ok)
  BY DEF OpenFinal
<1>2. sc.open
  BY <1>1 DEF Channel, InStep
<1>3. ready' \in BOOLEAN
  BY <1>1
<1> QED BY <1>1, <1>2, <1>3, SendKeeps

-----------------------------------------------------------------------------
(* The theorems.                                                           *)

\* Every step of client, card and other applications keeps the invariant, and leaves an
\* exchange of which the properties hold.
LEMMA ChannelStep == Channel /\ LastExchange /\ [Next]_vars => Channel' /\ LastExchange'
<1> SUFFICES ASSUME Channel, LastExchange, [Next]_vars
             PROVE  Channel' /\ LastExchange'
  OBVIOUS
<1>1. CASE Disturb
  BY <1>1, DisturbKeeps
<1>2. CASE OtherPairs
  BY <1>2, OtherPairsKeeps
<1>3. CASE Connect
  BY <1>3, ConnectKeeps
<1>4. CASE \E fate \in Fates \cup {"incomplete"} : Select(fate)
  BY <1>4, SelectKeeps
<1>5. CASE \E fate \in Fates :
             \/ \E knows_password \in BOOLEAN : PairFirst(fate, knows_password)
             \/ PairFinal(fate)
             \/ OpenFirst(fate)
  BY <1>5, PairFirstKeeps, PairFinalKeeps, OpenFirstKeeps
<1>6. CASE \E sent \in DOMAIN AnswerTo :
             \/ \E inner \in BOOLEAN : OpenFinal(sent, inner)
             \/ \E op \in {"VERIFY_PIN", "EXPORT_KEY", "IDENTIFY"} : Command(op, sent)
  BY <1>6, OpenFinalKeeps, CommandKeeps
<1>7. CASE \E index \in Slots \cup Indices : Unpair(index)
  BY <1>7, UnpairKeeps
<1>8. CASE UNCHANGED vars
  <2>1. /\ sc' = sc /\ initialized' = initialized /\ pairing' = pairing /\ pc' = pc
        /\ card' = card /\ ready' = ready /\ failed' = failed /\ last' = last
    BY <1>8 DEF vars
  <2>2. Channel'
    BY <2>1 DEF Channel, ClientShape, CardShape, InStep, Paired
  <2>3. LastExchange'
    BY <2>1 DEF LastExchange, SecretsStaySealed, AcceptedIsExact, CommandArrives,
                OpenMeansSamePairing, Exchanged
  <2> QED BY <2>2, <2>3
<1> QED BY <1>1, <1>2, <1>3, <1>4, <1>5, <1>6, <1>7, <1>8 DEF Next

\* Channel holds at first.
LEMMA ChannelInit == Init => Channel /\ LastExchange
<1> SUFFICES ASSUME Init PROVE Channel /\ LastExchange
  OBVIOUS
<1>1. PICK blank \in BOOLEAN : card =
         [app |-> "keycard", blank |-> blank, open |-> FALSE, keys |-> NoKeys, iv |-> None,
          slots |-> [i \in Slots |-> IF i \in Others /\ ~ blank THEN OtherKey ELSE None],
          pending |-> None]
  BY DEF Init
<1>2. /\ sc = NoChannel /\ initialized = FALSE /\ pairing = [index |-> 0, key |-> None]
      /\ pc = Idle /\ ready = FALSE /\ failed = FALSE /\ last = [op |-> "none"]
  BY DEF Init
<1>3. NoKeys \in KeyTerms
  BY DEF NoKeys, KeyTerms
<1>4. ClientShape
  BY <1>2, <1>3, SlotsAssumption DEF ClientShape, NoChannel, Idle
<1>5. /\ CardShape /\ card.app = "keycard" /\ card.open = FALSE /\ card.pending = None
      /\ card.blank => \A i \in Slots : card.slots[i] = None
  BY <1>1, <1>3 DEF CardShape
<1>6. sc.open = FALSE /\ sc.secret = "none" /\ pc.at = "idle"
  BY <1>2 DEF NoChannel, Idle
<1>7. InStep
  BY <1>2, <1>5, <1>6 DEF InStep
<1>8. Paired
  BY <1>5, <1>6 DEF Paired
<1>9. last.op = "none" /\ ~ ("accepted" \in DOMAIN last)
  BY <1>2
<1>10. LastExchange
  BY <1>9 DEF LastExchange, SecretsStaySealed, AcceptedIsExact, CommandArrives,
              OpenMeansSamePairing, Exchanged
<1> QED BY <1>4, <1>5, <1>7, <1>8, <1>10 DEF Channel

\* Channel and LastExchange hold in every state.
LEMMA ChannelAlways == Spec => [](Channel /\ LastExchange)
BY ChannelInit, ChannelStep, PTL DEF Spec

\* Type correctness of the client and the card.  The client's pairing index may be any
\* byte, for PAIR takes the answer of another applet too, but an index comes with a key;
\* and there is always a new identifier for the next message (client.rs, crypto.rs).
THEOREM ChannelTypeCorrect == Spec => []ChannelTypeOK
<1>1. Channel => ChannelTypeOK
  <2> SUFFICES ASSUME Channel PROVE ChannelTypeOK
    OBVIOUS
  <2>1. ClientShape /\ CardShape
    BY DEF Channel
  <2>2. Salts \ HeldSalts # {} /\ Challenges \ HeldChallenges # {}
    BY <2>1, NewSaltIsNew, NewChallengeIsNew
  <2> QED BY <2>1, <2>2 DEF ChannelTypeOK, ClientShape, CardShape
<1> QED BY <1>1, ChannelAlways, PTL

\* Once the caller's open_secure_channel has succeeded, and until its next successful
\* select, the PIN, the command that exports a key and the one that gives up a pairing do
\* not travel in the clear, whatever SELECT or OPEN failed in between.  Before that
\* send_sc does send them in the clear, and the theorem says nothing (client.rs send_sc).
THEOREM SecretsSealed == Spec => []SecretsStaySealed
<1>1. LastExchange => SecretsStaySealed
  BY DEF LastExchange
<1> QED BY <1>1, ChannelAlways, PTL

\* An answer that an open channel accepts is the card's own to this very command, with
\* all of its content, and both ends go on from the same keys and the same IV
\* (client.rs send_sc, crypto.rs remove_padding).
THEOREM AcceptedAnswersAreExact == Spec => []AcceptedIsExact
<1>1. LastExchange => AcceptedIsExact
  BY DEF LastExchange
<1> QED BY <1>1, ChannelAlways, PTL

\* The card acts on the very content that the client sent while no command of the channel
\* has failed (client.rs send_sc, crypto.rs encrypt_data and append_padding).
THEOREM CommandsArrive == Spec => []CommandArrives
<1>1. LastExchange => CommandArrives
  BY DEF LastExchange
<1> QED BY <1>1, ChannelAlways, PTL

\* open_secure_channel succeeds only when the card holds the client's pairing key in the
\* client's slot and the client knows the card to be initialized (client.rs).
THEOREM OpenedWithPairing == Spec => []OpenMeansSamePairing
<1>1. LastExchange => OpenMeansSamePairing
  BY DEF LastExchange
<1> QED BY <1>1, ChannelAlways, PTL


=============================================================================
