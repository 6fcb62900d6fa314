# A TLA+ model of the RLN membership gifter

This directory holds TLA+ specifications of `logos-rln-gifter`, the TLC
configurations that check them on small instances, and proofs checked by TLAPS.
A *gifter* is a node that pays for RLN memberships on behalf of others: a
requester proves that it owns a credential, the gifter registers the requester's
identity commitment on chain, and the credential is spent.

The promise worth verifying is in the replay protection: **a credential buys one
membership**, although the registration is a slow call to another module, its
reply may be lost, the configuration may be replaced while it runs, and the
process may die at any point.

All source paths below are relative to the repository's root; `gifter/` stands for
`rust/rln-gifter-module/rust-lib/src/`.

## 1. The system

| Component | State | Operations | Module |
|---|---|---|---|
| Gifter server, `gifter/server.rs` | `SERVER`, `CONSUMED_NULLIFIERS`, `SERVING`; the worker's locals | `serve`, `worker_loop`, `handle_stream`, `handle_request`, `register` | `GifterServer` |
| Consumed-nullifier store, `gifter/auth.rs` | one text file per configured path | `load_nullifiers`, `append_nullifier` | `NullifierKey`, `GifterServer` |
| Requester, `gifter/client.rs` | none beyond the call | `request` | `GifterExchange` |
| Cross-module calls, `gifter/lp.rs` | `OWNER`, `CLIENTS`, a boxed sender per asynchronous call | `init`, `ensure_client`, `call_json`, `reply_trampoline`; `parse_ok`, `call_libp2p`, `call_module_json` | `LpCall`; `LpReply` |
| Wire codec, `gifter/wire.rs` | none | encode and decode of four messages | `Wire`, `WireFrames` |
| Module entry points, `gifter/lib.rs` | none | `on_context_ready`, JSON results | in `LpCall` (`init`) |
| Vector contract, `crates/rln-auth-vector` | none | dispatch by type, reply envelopes | `AuthVectors`, `AuthFlow` |
| Keycard attestation, `crates/keycard-attest` | none | TLV parsing, verification | `BerTlv`, `AuthVectors`, `AuthFlow` |
| Keycard client, `crates/keycard-client` | pairing, secure channel | select, pair, open, PIN, IDENTIFY | `KeycardChannel`, `BerTlv` |
| Verifier and producer modules, `rust/eth-auth-module`, `rust/keycard-auth-module`, `rust/keycard-capture-module` | none | `verify_auth`, `produce_auth`, `card_status` | `AuthVectors`, `AuthFlow` |
| `tools/mint_attest.py` | none | makes test vectors | no |

**How they interact.** The host's thread (the *owner*) calls `serve`. `serve` merges
the configured store into the consumed set, publishes the configuration, and, if
`SERVING` was false, has libp2p_module mount the protocol and spawns the worker. The
worker takes one stream at a time: it reads and decodes the request, clones the
configuration, asks the verifier module that the configuration names for the
request's authentication type, reserves the verdict's nullifier in the consumed set,
calls `register_member` of liblogos_lez_rln_module, polls `get_membership` until the
chain shows the commitment, then appends the nullifier to the store (granted or
unconfirmed) or rolls the reservation back (nothing submitted), writes the response
and releases the stream. Every one of these calls is a message to another process
with a time limit on the caller's side. The owner's own calls are synchronous, and
their wait runs the event loop, which is also where the replies to the worker's
calls are delivered. A verifier answers with a verdict, accepting or refusing, or with
an error envelope; its reply is text that is encoded and decoded once per layer.
On the requester's side `keycard-capture` has a card sign the commitment: it selects the
applet through `keycard-client` and checks the card's answer before it hands it out.

**What is hard.** The calls of `serve` overlap each other (nested event loops) and the
worker; a call that times out may still be executed; the process may die between
the submission and the append, or between the two writes of one append; the consumed
set is changed by three parties (the load, the reservation, the rollback) over a
window of minutes; the key in memory and the key in the file are normalised in
different places; the sender half of a channel is lent across a C interface. Three
parsers read data that comes from outside: the wire codec and two TLV readers that were
written apart. The card's channel chains its IVs through the MACs of both ends, so one
lost message puts them out of step, and the reader is shared with other applications.

**What makes each part correct.** Server: one worker, one registration at a time, a
credential spent once, released only if nothing was submitted, a grant under one
configuration, an answer that is true of the chain, every stream left in the end.
Store: what was recorded is recognised after a restart. Requester: a report that is
true, a refusal that cost nothing. Calls: every box freed once, nobody waits for
himself, every call returns. Codec: a round trip at every boundary, nothing invented.
Vectors: an intact payload is accepted and no other is, an error is the operator's and a
refusal the requester's, a reply that was lost is no verdict. Card channel: an accepted
answer belongs to its command, no secret travels in the clear once a channel was opened, an
open channel means a shared pairing.
`PROJECT.json` lists the hazards behind these, each at its line.

## 2. Modules

An optional value is a set with at most one element throughout (`Option(S)`).

**`NullifierKey`** has the strings: `Normalize` (trim and lowercase), `Malformed`, `Key`
(`"{auth_type}:{nul}"`), and the store as its terminated lines plus an unterminated
tail. `writeln!` makes two writes, so `WriteKey` and `WriteNewline` are separate. The
alphabet has one character for each class the code distinguishes: letters in both
cases, the separator, white space, a control character.

**`GifterServer`** is the server. Its threads are the callers of `serve` and the workers
`serve` spawns. A step is what happens between two points at which another thread,
another process or a crash can intervene: each lock scope is one step
(`ServeMerge`, `ServePublish`, `Reserve`, the rollback in `NotSubmitted`), each
outgoing call is a step that starts it and steps for its outcomes, and each write to
the store is a step. `Screen` gives the checks before authentication in the code's
order. `Answer` and `Settle` are the two ways out of the registration: `NotSubmitted`
rolls back, `Confirm` and `ConfirmTimeout` keep the credential and go on to the
append. The verifier's verdict is part of the request (which nullifier its payload
proves), except that any verdict may also be a refusal, an error or a time-out.

The chain side is external and marked so: `call[s]` is the `register_member` call made for
stream `s` (sent, rejected, or taken on: pending, landed, moot when the commitment is
already a member, void when it became one meanwhile), and `registry` is the sequence of
members of each account, whose positions are the leaves. A transaction that was
submitted may land at any later time or never. `Faults` says what the environment may
do beyond answering: lose replies, answer with nothing, crash the process, tear a write,
or fail to read a store that exists. `persisted` is a history variable.

**`CredentialLedger`** is what the gifter promises, with no threads, calls or files: a key is
free, reserved or spent; a reserved key becomes free again only if it bought nothing; a
spent key stays spent; a key buys one membership. `GifterServer` implements it under the
mapping `reserved <- ReservedKeys` (what workers hold), `spent <- SpentKeys` (consumed
and held by nobody) and `paid <- PaidKeys` (the calls that landed, with the key each was
made for). Every step of the server is a ledger step or leaves the ledger alone; a store
that is merged is `LearnKeys`, whatever was read of it.

**`GifterExchange`** puts `request()` in front of `GifterServer`: an attempt per stream, with the
payload producer, the dial, the time limit and the reading of the response. A retry
is another attempt. A requester that gives up tells the gifter nothing.

**`LpCall`** is `lp.rs` by itself: who may open clients, the owner's nested synchronous calls
as a stack, and the box of an asynchronous call, which is lent to the runtime and freed
by the callback or by the caller whose dispatch failed. The runtime is external: it
calls back at most once per accepted call, from the owner's event loop, or never.

**`Wire`** translates the codec with the size of a varint digit (`GROUP`, 2^7 in the code) and of
a word (`WORD`, 2^64) as parameters. The loops of `put_varint` and `read_varint` are stated digit by
digit: a value is its last digit plus `GROUP` times the rest (`Varints`), cut to the word and
refused after as many bytes as the largest word has (`MaxGroups`). **`WireFrames`** encodes a
message, lets a later version append unknown fields, cuts the frame anywhere, and decodes it. Its
assumptions give the messages the types of the code's structures, with lengths that are
machine words, and unknown fields numbers that the protocol does not use.

**`LpReply`** is the other half of `lp.rs`: what becomes of a raw reply. A text is empty, JSON or
something else, and JSON may hold a string that is such a text again.

**`BerTlv`** holds the two TLV readers, `find_tag` of `attest.rs` and of `apdu.rs`, with the size of a
byte as a parameter. They know different length forms and are translated separately. The
card client's takes long forms of any number of bytes; its sum is not cut to a machine word
here (section 5).

**`AuthVectors`** has the decision procedures: routing by type and the envelopes of
`rln-auth-vector`, `verify` of both verifier modules with their configurations,
`verify_attestation`, and `produce_auth`. Signatures are symbolic: constant tables say which
exist, who made them, over what, and whether their s is high. Recovery over another digest
yields a key that is nobody's, and recovery from a signature with a high s fails, since the
library verifies the key that it recovers (`RecoverKey`). Only the card's signature over the
challenge is normalised before (`attest.rs:132`). **`AuthFlow`** puts them in sequence: a card or a wallet makes a payload, its bytes
are damaged on the way, a verifier judges it for some commitment under some
configuration, the reply reaches the gifter whole or broken. The conversions between
bytes and hex text are those of the code, prefixes and odd lengths included.

**`KeycardChannel`** is the card client's session. Its state is that of `SecureChannel` and `Keycard`,
the card's (external), and the caller's knowledge that an open succeeded (`ready`). That
knowledge guards nothing: `send_sc` sends a command in the clear when no channel is open, the
PIN included, and so do `Command` and `Unpair`; only `SecretsStaySealed` is stated for a caller
that has opened one. A step is one
transmission, so `pair` and `open_secure_channel` take two, and another application can
select its applet, reset the card or pair in between. Every transmission may be lost
before or after the card has acted. `pair` authenticates the first answer of the card and not
the second, so `PairFinal` also takes a successful answer of another applet
(`PairAnswers`): its first byte becomes the index, one of `Indices`, and the key is one that no
card holds (`StrayKey`). Encryption is symbolic: a message has keys, an IV
and a MAC; the MAC does not cover the IV (`calculate_mac` in `crypto.rs`), so a receiver with
another IV accepts the message and decrypts something else. Padding is computed.

The modules whose names begin with `MC` hold the instances.
Operators introduced by "Mutant:" are plausible bugs in the definition that follows;
they are used in no specification and document what each property would catch.

## 3. What the runs check

Passing runs:

| Run | Instance | Shows |
|---|---|---|
| `server_core` | 2 callers, 2 workers, 2 streams, a verifying and an open configuration, 6 kinds of request, unreadable stores and empty replies; 474 000 states | type correctness; at most one worker, however the calls of `serve` overlap; registrations do not overlap; a credential that may be submitted is consumed and pays for one membership; rate, account and verdict of a grant come from one configuration; a reported leaf holds the commitment; no request finds the gifter unconfigured; `SERVING` is set only while someone mounts or serves; the inductive invariant of the proof; the server implements `CredentialLedger` |
| `server_recovery` | 1 caller, 2 workers, 3 streams, two authentication types with one nullifier, lost replies and crashes; 1.1 million states | "already used" is only said of a credential that was itself handed in; a recorded credential is never reserved again |
| `server_live` | 1 caller, 1 worker, 2 streams, lost replies and torn writes, weak fairness of the worker; 24 000 states | a queued stream is answered or given up; a rejected registration gives the credential back |
| `exchange` | 2 attempts, 3 kinds of request, crashes and reconfiguration; 924 000 states | what the requester is told is true: a membership exists, a refusal cost nothing, "not submitted" is final |
| `lp_calls` | owner and 2 threads, 2 targets, 3 calls, weak fairness of each call; 67 000 states | a box is freed once and not forgotten; the owner never waits on a channel; a call of a worker returns although the runtime owes nobody a callback |
| `wire_frames` | 2-bit digits, 7-bit words, 650 messages with up to 2 unknown fields and all their prefixes; 113 000 states | round trip with unknown fields; a cut frame is refused or lacks only optional parts |
| `auth_vectors` | 2 cards of 2 issuers and a twin of one whose CA signature has a high s, 3 signatures of 2 wallets, one of them with a high s, 2 commitments, 12 configurations, up to 2 damaged bytes; 138 000 states | an intact payload is accepted under its holder's nullifier, unless its signer would have to be recovered from a high s, a damaged or misdirected one is not accepted for anybody else; the error envelope is about the operator's part only; what the producer hands out verifies; a broken reply is never a verdict and a reported failure never a success; the TLV readers agree, and bytes after an element do not matter |
| `secure_channel` | 2 pairing slots, one of another client, an index outside of them, 2 contents, lost messages, other applications that may answer PAIR; 908 000 states | an accepted answer is the card's to this command; the card acts on what was sent unless a failure was ignored; no secret in the clear once the caller has opened a channel; an open channel means a shared pairing |

Runs that expect a violation, each a disagreement between what the repository says and
what its code does (`findings` in `PROJECT.json` has the quotations):

| Run | Trace |
|---|---|
| `lost_reply_releases` | `register_member` outlives its time limit; the credential is released; the registration is still under way |
| `crash_regrants` | the process dies between submission and append; the credential buys a second membership |
| `uppercase_type` | the store is lowercased on load, the authentication type in memory is not |
| `separator_squats` | `a` + `b:a` and `a:b` + `a` are one key |

These runs delimit the passing ones. `lost_reply_releases` also has the worker make its next
`register_member` call while the first is still under way, so that one serialized worker
does not mean one registration at a time (`OneRegistrationInFlight` fails in that instance
too). `NeverRegranted` holds in `server_recovery` under crashes and lost replies because its
types are lowercase and free of the separator, one store is configured, and no newline
is lost. `uppercase_type` gives up the first. The others are not checked in a run, since the code
does nothing against them; TLC finds the property violated in either case:

- *Two stores* (`Paths` with two elements, a configuration for each, faults `{"crash"}`): a credential
  is recorded in one store and reserved anew after a restart with the other; while
  `register_member` runs, `serve` is called with the first path and loads the key; the
  registration is rejected, and the rollback (`server.rs:326`) removes the loaded key.
- *A lost newline* (faults `{"crash", "torn_write"}`): the next append continues the unterminated line
  (`auth.rs:37`), and a restart loads the two keys as one.

In `exchange` the report of an attempt is checked against that attempt: a requester whose
first attempt timed out and was granted is refused as "already used" on its second, which
`UnauthorisedIsFree` allows, since nothing was registered for the second.

**Bounds.** Two workers are enough to have one too many, and a crash returns a worker to
the pool. Two streams are enough for a credential to be spent twice; the third in
`server_recovery` allows a spending before the crash, one after it, and one that
interferes. Two requests that share a credential differ in their commitments, so that
a second membership is not absorbed by the first. Rates lie on both sides of the caps.
A stream is used once, which bounds the number of requests but neither the calls of
`serve` nor the crashes. In `wire_frames` the last digit of a word is partial (one bit of
two), as it is in the code (one of seven), and values sit on both sides of every digit
boundary. In `auth_vectors` a byte has four bits, so that the length of an attestation template
needs a long form, as it does in a real one; keys, commitments and signature halves are
one byte; the card and the wallet's signature with a high s are twins of others, so
that their refusal has no other cause; two damaged bytes are enough to change a length and what it covers, and damage
writes no byte that is a signature, since nobody forges one. `secure_channel` has no bound on
the number of exchanges: an identifier that nobody holds any more is used again, and
the type invariant says that one is always left; its eight challenges are the fewest
for which the assumption behind that holds (`Enough`). Of its two indices one is a slot of the
card and one is not. Symmetry is used only in runs without liveness properties, and only over
interchangeable identities.

**Fairness.** `server_live` assumes weak fairness of each worker's steps: a worker is an operating
system thread in a loop, and every call it makes has a time limit (`lp.rs:305`), so it
always gets on. Nothing is assumed of the chain, of libp2p_module, of clients or of
the callers of `serve`. Since a time-out is among the worker's steps, it is enough that
*some* step is taken. `lp_calls` assumes the same of a thread inside `lp_invoke_async` or
`recv_timeout`, and nothing of the runtime.

**Deadlock** is checked in every run but `wire_frames`, where a frame that has been cut to
nothing is the end, and `auth_vectors`, where a delivered reply is.

## 4. What is proved

Every safety property that the passing runs check is a theorem as well. A theorem holds for
every value of the constants that satisfies the named assumptions of its module: any number of
callers, workers, streams, cards, wallets and configurations, messages and payloads of any
length, any number of damaged bytes, any width of a digit and of a word. TLC evaluates the
assumptions on the instances of the runs. Where a theorem has a hypothesis, a run or a
remark below says what goes wrong without it.

| Module | Theorem | Property | Hypotheses |
|---|---|---|---|
| `NullifierKeyProofs` | `ReloadedKey`, `KeyInjective` | lemmas on keys | `PlainType` |
| `GifterServerProofs` | `TypeCorrect` | `TypeOK` | |
| | `SingleWorker` | `AtMostOneWorker` | |
| | `ServingIsServed` | `NeverStuck` | |
| | `ReplayProtected` | `ReplayInvariant` | `Undisturbed` |
| | `CredentialSpentOnce` | `SpentStaysSpent`, `OneMembershipPerCredential` | `Undisturbed` |
| | `RegistrationsInOrder` | `OneRegistrationInFlight` | `Undisturbed` |
| | `ServerImplementsLedger` | `ImplementsLedger` | `Undisturbed` |
| `GifterAnswerProofs` | `ReportedMembershipExists` | `SuccessIsOnChain` | |
| | `WorkerFindsConfiguration` | `ConfiguredBeforeServing` | |
| | `RegistrationAllowed` | `GrantUnderOneConfig` | |
| | `StoreSurvivesRestart` | `NeverRegranted` | `PlainTypes`, `OneStore`, no unreadable store or torn write |
| | `RefusedWasSpent` | `RefusalIsTrue` | `PlainTypes`, no torn write or empty reply |
| `GifterExchangeProofs` | `ExchangeTypeCorrect` | `ExchangeTypeOK` | |
| | `ExchangeImplementsServer` | `ExchangeSpec => Spec` | |
| | `GrantedIsOnChain` | `GrantIsReal` | |
| | `UnauthorisedPaysNothing` | `UnauthorisedIsFree` | |
| | `NotSubmittedLeavesNothing` | `NotSubmittedIsFinal` | no lost reply |
| `LpCallProofs` | `BoxSafe`, `BoxKept` | `BoxFreedOnce`, `NoBoxForgotten` | |
| | `OwnerFree` | `OwnerNeverWaits` | |
| `KeycardChannelProofs` | `ChannelTypeCorrect` | `ChannelTypeOK` | |
| | `SecretsSealed` | `SecretsStaySealed` | in the property: the caller has opened a channel |
| | `AcceptedAnswersAreExact` | `AcceptedIsExact` | |
| | `CommandsArrive` | `CommandArrives` | |
| | `OpenedWithPairing` | `OpenMeansSamePairing` | |
| `AuthFlowProofs` | `FlowTypeCorrect` | `FlowTypeOK` | |
| | `IntactAccepted` | `IntactIsAccepted` | |
| | `AcceptancesGenuine` | `AcceptedIsGenuine` | |
| | `EnvelopesForOperators` | `EnvelopeMeansOperator` | |
| | `CapturesVerify` | `CapturedVerifies` | |
| | `VerdictsAreGiven` | `ReplyIsVerdict` | |
| | `FailuresAreHonoured` | `FailureIsHonoured` | |
| | `TlvReadersAgree` | `ParsersAgree` | |
| | `SuffixesIgnored` | `SuffixIsIgnored` | |
| `WireProofs` | `FramesRoundTrip` | `RoundTrip` | |
| | `CutFramesInventNothing` | `CutNeverInvents` | |

**Keys.** `ReloadedKey`: for a `PlainType` (lowercase letters only) and a well-formed nullifier, a line
of the store that holds the key is loaded as that key. `KeyInjective`: for plain types, equal
keys mean equal credentials. Both are about strings of every length and rest on lemmas on
what `trim` and `to_lowercase` return; `uppercase_type` and `separator_squats` show that the
hypothesis is needed.

**The server.** `AtMostOneWorker` is not inductive; `OneLicence` says that `SERVING` is a licence that
exists once: it is with the caller that mounts, or with the worker, or with nobody.
`NeverStuck` follows from the same count, so a failed or lost mount cannot leave the flag set
with nobody behind it. Both hold with all faults.

`OneMembershipPerCredential` says nothing about the states in which a second registration could
begin, so its proof goes through `ReplayInvariant`: a stream has one handler, which makes one
call (`OneHandler`); a held key is consumed and held by one worker (`KeysHeld`); a key that a
live call claims is consumed, claimed by that call only, and held by nobody but its
handler (`OneClaimPerKey`). `Undisturbed` (no reply is lost and the process lives) is needed, as
`lost_reply_releases` and `crash_regrants` show. `OneRegistrationInFlight` adds that a call that is
sent is awaited by its handler (`SentIsAwaited`). For the refinement, the steps that change a
mapped variable are few: the merge learns, `Reserve` reserves, `NotSubmitted` releases (nothing
of the key landed, by `OneClaimPerKey`), the append's end and the end of the request spend,
the landing of a call buys. For all others the mapping is unchanged.

**What the server says.** These theorems hold with all faults: the worker may lose every reply, the
process may die between any two steps, and `serve` may replace the configuration at any time.
They rest on `Handling`: a stream has one handler, and a worker has a response only between
its decision and the end of the stream. Then `ReportsTrue` says of every response, written or
about to be, that the leaf it names holds the commitment of the request it answers;
`Published` says that `SERVER` is set from the publication on and while a worker lives; `Allowed`
says that what a worker has cloned and carries to the registration (account, rate, verdict)
belongs together.

**Recovery.** `NeverRegranted` needs a chain from the reservation to the reload: a worker holds a key
only between its reservation and the end of the request, and the key can be reloaded
(`HeldKeys`); every line of a store is a key it was given, and an unterminated one is that of
the worker that is writing (`StoreSound`); from the load on, what the store holds is consumed,
and a reservation that may still be rolled back is not in the store (`StoreLoaded`). Crashes
and lost replies are allowed. For `RefusalIsTrue`, every consumed or stored key is claimed by a
call that the chain's module took on, or is held by the worker whose registration is not
decided yet (`KeysClaimed`). Section 3 has the counterexamples without `PlainTypes`, `OneStore` and
the newline; an empty reply to `register_member` counts as a submission (`server.rs`), which is
why it is excluded there.

**The requester.** `ExchangeImplementsServer` says that the requesters of `client.rs` do nothing that the
clients of `GifterServer` may not do, so that the theorems above hold of the composition. `Told` connects
what an attempt reports to the stream it was sent on.

**Calls.** `BoxOwned` gives the box one owner at any time: nobody before the dispatch, the caller until
the runtime takes the call on, the runtime until it calls back. The freeing party is the last
owner, whatever interleaving of callback and time limit happens. `OwnerNeverWaits` needs that no
client exists before the owner is recorded (`ClientsAfterOwner`).

**The card channel.** The invariant is `Channel`: the types of both ends; `InStep`, which says that until a
command fails two open ends with the same keys have the same IV; and `Paired`, which follows a
pairing through its two steps while other applications select, reset and pair. Identifiers are
drawn from finite sets and reused when nobody holds them, and that one is always left is proved
by counting the places that can hold one (`Enough`). A pairing that another applet answered has a
key that is in no slot of the card, so nothing opens under it. `SecretsStaySealed` has the caller's
part in its hypothesis: from a successful `open_secure_channel` to the next successful `select`.
Outside of it the code sends the PIN in the clear, and so does the model.

**Payloads and verdicts.** What makes these proofs longer than the others is data: the TLV readers are
recursive functions over payloads of any length, and hex text is converted back and forth.

- *Recursion.* A recursive definition is a `CHOOSE`, so the function must be shown to exist.
  `RecursionAhead` (in `NullifierKeyProofs`, since the codec needs it too) does so for a function
  that looks only at later positions: of the positions from
  which on a solution exists the least is the first. Both readers are of that kind
  (`FindTagIsSearch`, `ApduFindIsSearch`), which turns them into searches about which one
  can reason: that they agree (`ReadersAgree`, for any sequence of numbers), that a suffix does not
  matter (`FoundInPrefix`), that what is found lies within the buffer (`FoundWithin`).
- *Text.* `TextRead`: the hex of any bytes, plain or prefixed, reads as those bytes, and an
  odd number of digits as nothing.
- *Replies.* `Replies`: a reply is the envelope, a refusal or an acceptance, and what arrives
  is that reply, wrapped or bare, or something broken.
- *Payloads.* `Travelling`: the bytes on the way are among those that the card or wallet sent and
  those that damage writes; undamaged, they are what was sent; and what the capture module
  handed out has passed its own check.
- *Judgements.* `Judged`: a request that is none, or reached the wrong module, has the envelope;
  any other has the reply it should have (`Fair`): the envelope exactly if the configuration is
  not sound, an acceptance only of what was signed for this commitment by a trusted maker, and
  of that, if it is intact and legible, always or, when the signer's signature has a high s,
  never (an undamaged answer of a card reads as one attestation and no other, `CardRead`). `KeycardFair` and `EthFair` show this of the verifiers.

The assumptions say what is meant by the constants: `TablesAssumption` types the signature tables;
`CardsAssumption` says that a card has its CA's signature over its identity key; `ConfigsAssumption` ties
what an operator meant (`trusts`, `sound`) to the text, entry by entry; `UnforgedAssumption` is the
cryptographic one: among the bytes of a payload and those that damage may write there is no
signature but those that the payload was made with. Which of them end up as key, certificate,
recovery id or signature, and whether the lengths still fit, is left open, and is what the
proof is about.

**The wire codec.** Messages of any length and words of any width leave nothing to enumerate, so
the argument goes from digits to frames.

- *Varints.* `put_varint` recurs on smaller numbers, and `RecursionBelow` shows that such a function
  exists (`PutVarint`). The encoding of a larger number is not shorter (`VarintMonotone`), so no word
  needs more than `MaxGroups` bytes and the reader never stops short (`VarintOfWord`). The reader
  looks ahead only (`VarintsEquation`), and where a buffer holds an encoding it finds the value and
  the position after it (`VarintsFind`, `VarintRead`); where the buffer ends before the last digit it
  finds nothing.
- *Fields.* An *item* is a field that was put. Where a buffer holds one, `FieldAt` returns it, and if
  only a beginning of it is there, nothing (`NumberFound`, `BytesFound`).
- *Frames.* A `Layout` gives the position of each item. `WalkRead`: over a buffer
  that is laid out so, whole or cut, what `walk_fields` returns, unless it refuses the frame, are the
  first of the items, and over a whole frame it returns them all.
- *Messages.* `Built` says of a buffer which items it consists of and what each field number carries,
  and `Put` that appending a field changes that field only. `RequestBuilt`, `SuccessBuilt`,
  `FailureRoundTrip` and `ResponseBuilt` follow the encoders field by field; `RequestRead` and
  `ResponseRead` follow the decoders, the nested messages included.

The invariant is `FrameHolds`: there are items that carry the message (`Meant`), of which the frame is a
beginning (`Truncated`), and all of them as long as nothing is cut. It is needed because neither
property says anything of the bytes: a step cuts the frame, not the message. For a request it
also says that the first four items are its four required fields in order (`Ordered`), since a decoded
request keeps everything but its rate only because the required identity commitment comes
fourth. Its quantifier ranges over all sequences of items, so TLC checks its two consequences
on `wire_frames` and not `FrameHolds` itself.

**Only model-checked.** Liveness: `EveryStreamLeaves` and `RejectedIsReleased` in `server_live`, and
`WorkerCallReturns` in `lp_calls`. Fairness and `ENABLED` are out of the prover's reach.

## 5. Not modelled

Cryptography itself (ECDSA, hashes, AES, key agreement) and PC/SC; JSON and base64 syntax;
wallet and transaction data that the gifter passes on; the wording of messages; the
internals of libp2p_module, of the host runtime and of liblogos_lez_rln_module, which are
modelled by the answers the code distinguishes. A string on the wire is taken to be UTF-8.

Of the card client: `reader_card_present` (one query of the reader, reported by `card_status`),
`decode_path` and `instance_uid` (data passed on), the bytes of an APDU, answers shorter than
the slices that the code takes of them, and TLV lengths of eight or more bytes: with eight the sum
of length and position overflows (`apdu.rs:57`), from nine on the length itself loses its
upper bits (`apdu.rs:80`), where `apdu_read_len` goes on counting. No property depends on it: the
verifier's reader, with which it is compared, refuses those forms. The last two are listed as a
hazard. `tools/mint_attest.py` makes test
vectors and is no part of the running system.

## 6. Plan

Done: sections 2 to 4; every part of the running system has a module, and every safety
property that a run checks has a proof. What is left are the hazards without a property,
should the code come to rely on them: unreleased streams after a failed read or a lost reply to
the accept call, and card answers that are shorter than the slices taken of them.
