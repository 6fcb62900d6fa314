---------------------------- MODULE GifterServer ----------------------------
(***************************************************************************)
(* The gifter node of rln-gifter-module (server.rs, with the nullifier     *)
(* store of auth.rs): serve() publishes a configuration, mounts the        *)
(* protocol and spawns the worker; the worker accepts streams one at a     *)
(* time, authenticates the request through a verifier module, reserves the *)
(* credential's nullifier, registers the membership on chain through       *)
(* liblogos_lez_rln_module, persists or rolls back the reservation, and    *)
(* answers.                                                                *)
(*                                                                         *)
(* The threads are the callers of serve (the host's wait loop pumps, so a  *)
(* second call can start while the first waits for mountProtocol) and the  *)
(* workers that serve spawns.  libp2p_module, the verifier modules and     *)
(* liblogos_lez_rln_module are external: they are modelled by the answers  *)
(* the code distinguishes.                                                 *)
(*                                                                         *)
(* An optional value is a set with at most one element.                    *)
(***************************************************************************)
EXTENDS NullifierKey, Integers, FiniteSets

CONSTANTS
    Callers,       \* threads (or nested event loops) that call serve
    Workers,       \* threads serve may spawn
    Streams,       \* inbound streams
    Commitments,   \* well-formed (32-byte) identity commitments
    Requests,      \* requests a client may send
    Configs,       \* configurations serve may be given
    Paths,         \* nullifier store files
    DEFAULT_MAX_RATE,
    Faults         \* which of AllFaults the environment may inflict

Option(S) == {X \in SUBSET S : \A x, y \in X : x = y}

AllFaults == {"lost_reply",  \* a call's reply misses the caller's time limit
              "crash",       \* the process dies and restarts
              "torn_write",  \* the nullifier is written and its newline is not
              "unreadable",  \* the store is there and cannot be read
              "empty_reply"} \* a failed call's reply is the raw empty string

\* What wire.rs decodes, as far as the server reads it.  The credential the
\* verifier finds in the payload is the raw nullifier of its verdict.
RequestType == [type : String, nullifier : Option(String),
                idc : Option(Commitments), rate : Option(Nat)]

\* ServerCfg.  The wallet and the verifiers' modules and opaque configurations
\* are only passed on.
ServerCfg == [config : STRING, auth_verifiers : SUBSET String,
              nullifiers_path : Option(Paths), max_rate_limit : Nat]

ASSUME RequestsAssumption == Requests \subseteq RequestType
ASSUME ConfigsAssumption == Configs \subseteq ServerCfg
ASSUME RateAssumption == DEFAULT_MAX_RATE \in Nat
ASSUME FaultsAssumption == Faults \subseteq AllFaults

VARIABLES
    server,     \* SERVER
    consumed,   \* CONSUMED_NULLIFIERS
    serving,    \* SERVING
    mounted,    \* external: libp2p_module routes the protocol's streams here
    spc,        \* where each caller is in serve
    sargs,      \* the configuration it was called with
    pc,         \* where each worker is
    sid,        \* the stream it handles
    cfg,        \* its clone of SERVER
    rate,       \* the rate it settled on
    held,       \* authorized_nullifier: the key it reserved
    out,        \* the response it is about to write
    stream,     \* external: the inbound streams
    call,       \* external: the register_member call made for each stream
    registry,   \* external: the memberships of each account, in leaf order
    file,       \* the nullifier stores
    persisted   \* history: the keys append_nullifier wrote to each store

serveVars == <<server, serving, mounted, spc, sargs>>
workerVars == <<pc, sid, cfg, rate, held, out>>
chainVars == <<call, registry>>
storeVars == <<file, persisted>>
vars == <<serveVars, consumed, workerVars, stream, chainVars, storeVars>>

Accounts == {c.config : c \in Configs}

Reasons == {"decode", "length", "unconfigured", "unsupported", "verifier",
            "malformed", "used", "not_submitted", "unconfirmed", "granted"}

\* RlnGifterResponse: auth_success, which return of handle_request produced it,
\* and the membership when it is a success.
Response == [auth_success : BOOLEAN, reason : Reasons,
             success : Option([config : STRING, leaf_index : Nat])]

failure_response(auth_success, reason) ==
    [auth_success |-> auth_success, reason |-> reason, success |-> {}]

NoCall == [st |-> "none", config |-> {}, rate |-> 0, by |-> {}]

\* The calls that liblogos_lez_rln_module took on, and those it still may.
Submitted == {"pending", "landed", "moot", "void"}
Live == {"sent"} \cup Submitted

CallerLocations == {"idle", "publish", "swap", "mount"}

WorkerLocations == {"off", "accept", "read", "verify", "register", "registering",
                    "confirm", "persist", "newline", "respond"}

StreamRecord == [st : {"unused", "queued", "accepted", "released", "abandoned", "broken"},
                 msg : Option(Requests), resp : Option(Response)]

CallRecord == [st : {"none", "rejected"} \cup Live, config : Option(Accounts),
               rate : Nat, by : Option(String \X String)]

TypeOK ==
    /\ server \in Option(Configs)
    /\ consumed \in SUBSET String
    /\ serving \in BOOLEAN
    /\ mounted \in BOOLEAN
    /\ spc \in [Callers -> CallerLocations]
    /\ sargs \in [Callers -> Option(Configs)]
    /\ pc \in [Workers -> WorkerLocations]
    /\ sid \in [Workers -> Option(Streams)]
    /\ cfg \in [Workers -> Option(Configs)]
    /\ rate \in [Workers -> Nat]
    /\ held \in [Workers -> Option(String)]
    /\ out \in [Workers -> Option(Response)]
    /\ stream \in [Streams -> StreamRecord]
    /\ call \in [Streams -> CallRecord]
    /\ registry \in [Accounts -> Seq(Commitments)]
    /\ file \in [Paths -> Store]
    /\ persisted \in [Paths -> SUBSET String]

Init ==
    /\ server = {}
    /\ consumed = {}
    /\ serving = FALSE
    /\ mounted = FALSE
    /\ spc = [c \in Callers |-> "idle"]
    /\ sargs = [c \in Callers |-> {}]
    /\ pc = [w \in Workers |-> "off"]
    /\ sid = [w \in Workers |-> {}]
    /\ cfg = [w \in Workers |-> {}]
    /\ rate = [w \in Workers |-> 0]
    /\ held = [w \in Workers |-> {}]
    /\ out = [w \in Workers |-> {}]
    /\ stream = [s \in Streams |-> [st |-> "unused", msg |-> {}, resp |-> {}]]
    /\ call = [s \in Streams |-> NoCall]
    /\ registry = [a \in Accounts |-> << >>]
    /\ file = [p \in Paths |-> EmptyStore]
    /\ persisted = [p \in Paths |-> {}]

-----------------------------------------------------------------------------
(***************************************************************************)
(* serve                                                                   *)
(***************************************************************************)

\* The keys the configured store holds; none without a path.
Loaded(c) == UNION {load_nullifiers(file[p]) : p \in c.nullifiers_path}

\* Mutant: a re-serve replaces the consumed set.
ServeReplaces(k, c) ==
    /\ spc[k] = "idle"
    /\ consumed' = Loaded(c)
    /\ spc' = [spc EXCEPT ![k] = "publish"]
    /\ sargs' = [sargs EXCEPT ![k] = {c}]
    /\ UNCHANGED <<server, serving, mounted, workerVars, stream, chainVars, storeVars>>

\* serve parses and checks its arguments (a refused call changes nothing) and
\* merges the store into the consumed set, the lock held over the load.  A store
\* that cannot be read is loaded as an empty one.
ServeMerge(k, c) ==
    /\ spc[k] = "idle"
    /\ \/ consumed' = consumed \cup Loaded(c)
       \/ "unreadable" \in Faults /\ consumed' = consumed
    /\ spc' = [spc EXCEPT ![k] = "publish"]
    /\ sargs' = [sargs EXCEPT ![k] = {c}]
    /\ UNCHANGED <<server, serving, mounted, workerVars, stream, chainVars, storeVars>>

\* Mutant: the configuration is only published when the gifter already serves.
PublishRefreshOnly(k) ==
    /\ spc[k] = "publish"
    /\ server' = IF serving THEN sargs[k] ELSE server
    /\ spc' = [spc EXCEPT ![k] = "swap"]
    /\ sargs' = [sargs EXCEPT ![k] = {}]
    /\ UNCHANGED <<serving, mounted, consumed, workerVars, stream, chainVars, storeVars>>

ServePublish(k) ==
    /\ spc[k] = "publish"
    /\ server' = sargs[k]
    /\ spc' = [spc EXCEPT ![k] = "swap"]
    /\ sargs' = [sargs EXCEPT ![k] = {}]
    /\ UNCHANGED <<serving, mounted, consumed, workerVars, stream, chainVars, storeVars>>

\* Mutant: SERVING is stored without a look at what it was.
ServeStore(k) ==
    /\ spc[k] = "swap"
    /\ serving' = TRUE
    /\ spc' = [spc EXCEPT ![k] = "mount"]
    /\ UNCHANGED <<server, mounted, sargs, consumed, workerVars, stream, chainVars, storeVars>>

\* SERVING.swap(true): only the call that finds it false goes on to mount.
ServeSwap(k) ==
    /\ spc[k] = "swap"
    /\ serving' = TRUE
    /\ spc' = [spc EXCEPT ![k] = IF serving THEN "idle" ELSE "mount"]
    /\ UNCHANGED <<server, mounted, sargs, consumed, workerVars, stream, chainVars, storeVars>>

\* Mutant: SERVING stays set after a failed mount.
MountFailsStuck(k) ==
    /\ spc[k] = "mount"
    /\ spc' = [spc EXCEPT ![k] = "idle"]
    /\ UNCHANGED <<server, serving, mounted, sargs, consumed, workerVars, stream, chainVars, storeVars>>

\* mountProtocol returns an error; if only its reply was lost, the protocol is
\* mounted all the same.
MountFails(k) ==
    /\ spc[k] = "mount"
    /\ serving' = FALSE
    /\ mounted' \in {mounted} \cup {TRUE : f \in Faults \cap {"lost_reply"}}
    /\ spc' = [spc EXCEPT ![k] = "idle"]
    /\ UNCHANGED <<server, sargs, consumed, workerVars, stream, chainVars, storeVars>>

MountOk(k, w) ==
    /\ spc[k] = "mount"
    /\ pc[w] = "off"
    /\ mounted' = TRUE
    /\ spc' = [spc EXCEPT ![k] = "idle"]
    /\ pc' = [pc EXCEPT ![w] = "accept"]
    /\ UNCHANGED <<server, serving, sargs, consumed, sid, cfg, rate, held, out, stream,
                   chainVars, storeVars>>

-----------------------------------------------------------------------------
(***************************************************************************)
(* The inbound streams (external: libp2p_module and the clients)           *)
(***************************************************************************)

\* A client dials and sends the bytes of a request, or bytes that do not decode.
ClientOpens(s, m) ==
    /\ mounted
    /\ stream[s].st = "unused"
    /\ stream' = [stream EXCEPT ![s].st = "queued", ![s].msg = m]
    /\ UNCHANGED <<serveVars, consumed, workerVars, chainVars, storeVars>>

-----------------------------------------------------------------------------
(***************************************************************************)
(* worker_loop and handle_stream, up to handle_request                     *)
(***************************************************************************)

\* A worker at location l of the code, handling stream s.
At(w, s, l) == pc[w] = l /\ sid[w] = {s}

Accept(w, s) ==
    /\ pc[w] = "accept"
    /\ stream[s].st = "queued"
    /\ stream' = [stream EXCEPT ![s].st = "accepted"]
    /\ pc' = [pc EXCEPT ![w] = "read"]
    /\ sid' = [sid EXCEPT ![w] = {s}]
    /\ UNCHANGED <<serveVars, consumed, cfg, rate, held, out, chainVars, storeVars>>

\* The accept poll times out after libp2p_module took the stream off its queue:
\* nobody handles it, and the worker polls again.
AcceptLost(w, s) ==
    /\ "lost_reply" \in Faults
    /\ pc[w] = "accept"
    /\ stream[s].st = "queued"
    /\ stream' = [stream EXCEPT ![s].st = "abandoned"]
    /\ UNCHANGED <<serveVars, consumed, workerVars, chainVars, storeVars>>

\* streamReadLpJson fails, or answers without decodable dataB64: handle_stream
\* returns early, and the stream is neither answered nor released.
ReadFails(w, s) ==
    /\ At(w, s, "read")
    /\ stream' = [stream EXCEPT ![s].st = "abandoned"]
    /\ pc' = [pc EXCEPT ![w] = "accept"]
    /\ sid' = [sid EXCEPT ![w] = {}]
    /\ UNCHANGED <<serveVars, consumed, cfg, rate, held, out, chainVars, storeVars>>

-----------------------------------------------------------------------------
(***************************************************************************)
(* handle_request                                                          *)
(***************************************************************************)

\* The request's rate, or the default, under the operator's cap.
EffectiveRate(m, c) ==
    LET asked == IF m.rate = {} THEN DEFAULT_MAX_RATE ELSE CHOOSE r \in m.rate : TRUE
    IN IF asked > c.max_rate_limit THEN c.max_rate_limit ELSE asked

\* The worker leaves handle_request with response r.
Answer(w, r) ==
    /\ out' = [out EXCEPT ![w] = {r}]
    /\ pc' = [pc EXCEPT ![w] = "respond"]

\* What the checks before authentication make of the decoded bytes b under the
\* configuration option co, in the order of the code.
Screen(b, co) ==
    IF b = {} THEN "decode"
    ELSE IF \E m \in b : m.idc = {} THEN "length"
    ELSE IF co = {} THEN "unconfigured"
    ELSE IF \E c \in co : c.auth_verifiers = {} THEN "open"
    ELSE IF \E c \in co, m \in b : m.type \in c.auth_verifiers THEN "verify"
    ELSE "unsupported"

\* The bytes do not decode, or the commitment is not 32 bytes long, or there is
\* no configuration, or it does not verify the request's authentication type.
Refuse(w, s) ==
    LET why == Screen(stream[s].msg, server)
    IN  /\ At(w, s, "read")
        /\ why \in {"decode", "length", "unconfigured", "unsupported"}
        /\ Answer(w, failure_response(why \in {"length", "unconfigured"}, why))
        /\ UNCHANGED <<serveVars, consumed, sid, cfg, rate, held, stream, chainVars, storeVars>>

\* The worker clones SERVER, settles the rate, and goes on to the verifier, or
\* straight to the registration when the gifter is open.
TakeConfig(w, s, c, m) ==
    /\ At(w, s, "read")
    /\ server = {c}
    /\ stream[s].msg = {m}
    /\ cfg' = [cfg EXCEPT ![w] = {c}]
    /\ rate' = [rate EXCEPT ![w] = EffectiveRate(m, c)]
    /\ \/ /\ Screen({m}, {c}) = "open"
          /\ pc' = [pc EXCEPT ![w] = "register"]
       \/ /\ Screen({m}, {c}) = "verify"
          /\ pc' = [pc EXCEPT ![w] = "verify"]
    /\ UNCHANGED <<serveVars, consumed, sid, held, out, stream, chainVars, storeVars>>

\* The verifier call fails, its reply does not parse, or its verdict is no.
VerifyRefuses(w, s) ==
    /\ At(w, s, "verify")
    /\ Answer(w, failure_response(FALSE, "verifier"))
    /\ UNCHANGED <<serveVars, consumed, sid, cfg, rate, held, stream, chainVars, storeVars>>

\* The verdict is yes and carries no nullifier: no replay protection.
VerifyWithoutNullifier(w, s, m) ==
    /\ At(w, s, "verify")
    /\ stream[s].msg = {m}
    /\ m.nullifier = {}
    /\ pc' = [pc EXCEPT ![w] = "register"]
    /\ UNCHANGED <<serveVars, consumed, sid, cfg, rate, held, out, stream, chainVars, storeVars>>

RefuseMalformed(w, s, m) ==
    /\ At(w, s, "verify")
    /\ stream[s].msg = {m}
    /\ \E raw \in m.nullifier : Malformed(Normalize(raw))
    /\ Answer(w, failure_response(FALSE, "malformed"))
    /\ UNCHANGED <<serveVars, consumed, sid, cfg, rate, held, stream, chainVars, storeVars>>

\* The credentials (authentication type and normalised nullifier) that a
\* well-formed verdict on request m spends: one or none.
CredentialsOf(m) ==
    {<<m.type, nul>> : nul \in {Normalize(raw) : raw \in m.nullifier}}

KeyOf(cred) == Key(cred[1], cred[2])

RefuseUsed(w, s, m) ==
    /\ At(w, s, "verify")
    /\ stream[s].msg = {m}
    /\ \E cred \in CredentialsOf(m) : ~ Malformed(cred[2]) /\ KeyOf(cred) \in consumed
    /\ Answer(w, failure_response(FALSE, "used"))
    /\ UNCHANGED <<serveVars, consumed, sid, cfg, rate, held, stream, chainVars, storeVars>>

\* Mutant: the key is inserted without a look at the set.
ReserveUnchecked(w, s, m) ==
    /\ At(w, s, "verify")
    /\ stream[s].msg = {m}
    /\ \E cred \in CredentialsOf(m) :
          /\ ~ Malformed(cred[2])
          /\ consumed' = consumed \cup {KeyOf(cred)}
          /\ held' = [held EXCEPT ![w] = {KeyOf(cred)}]
    /\ pc' = [pc EXCEPT ![w] = "register"]
    /\ UNCHANGED <<serveVars, sid, cfg, rate, out, stream, chainVars, storeVars>>

\* contains and insert, under one lock.
Reserve(w, s, m) ==
    /\ At(w, s, "verify")
    /\ stream[s].msg = {m}
    /\ \E cred \in CredentialsOf(m) :
          /\ ~ Malformed(cred[2])
          /\ KeyOf(cred) \notin consumed
          /\ consumed' = consumed \cup {KeyOf(cred)}
          /\ held' = [held EXCEPT ![w] = {KeyOf(cred)}]
    /\ pc' = [pc EXCEPT ![w] = "register"]
    /\ UNCHANGED <<serveVars, sid, cfg, rate, out, stream, chainVars, storeVars>>

-----------------------------------------------------------------------------
(***************************************************************************)
(* register                                                                *)
(***************************************************************************)

\* Mutant: register reads SERVER again instead of the worker's clone.
StartRegisterAfresh(w, s, m, c) ==
    /\ At(w, s, "register")
    /\ stream[s].msg = {m}
    /\ server = {c}
    /\ call' = [call EXCEPT ![s] = [st |-> "sent", config |-> {c.config}, rate |-> rate[w],
                                    by |-> IF held[w] = {} THEN {} ELSE CredentialsOf(m)]]
    /\ pc' = [pc EXCEPT ![w] = "registering"]
    /\ UNCHANGED <<serveVars, consumed, sid, cfg, rate, held, out, stream, registry, storeVars>>

\* The register_member call leaves the worker.
StartRegister(w, s, m, c) ==
    /\ At(w, s, "register")
    /\ stream[s].msg = {m}
    /\ cfg[w] = {c}
    /\ call' = [call EXCEPT ![s] = [st |-> "sent", config |-> {c.config}, rate |-> rate[w],
                                    by |-> IF held[w] = {} THEN {} ELSE CredentialsOf(m)]]
    /\ pc' = [pc EXCEPT ![w] = "registering"]
    /\ UNCHANGED <<serveVars, consumed, sid, cfg, rate, held, out, stream, registry, storeVars>>

\* Mutant: the reservation is never rolled back.
KeepReservation(w) ==
    /\ consumed' = consumed
    /\ held' = [held EXCEPT ![w] = {}]
    /\ Answer(w, failure_response(TRUE, "not_submitted"))

\* Mutant: a failed registration is answered as a failed authentication.
BlameCredential(w) ==
    /\ consumed' = consumed \ held[w]
    /\ held' = [held EXCEPT ![w] = {}]
    /\ Answer(w, failure_response(FALSE, "not_submitted"))

\* RegisterError::NotSubmitted: the reservation is rolled back.
NotSubmitted(w) ==
    /\ consumed' = consumed \ held[w]
    /\ held' = [held EXCEPT ![w] = {}]
    /\ Answer(w, failure_response(TRUE, "not_submitted"))

\* There is no client for the module, or lp_invoke_async refuses the call.
DispatchFails(w, s) ==
    /\ At(w, s, "register")
    /\ NotSubmitted(w)
    /\ UNCHANGED <<serveVars, sid, cfg, rate, stream, chainVars, storeVars>>

\* Mutant: a call whose transaction was accepted may still be read as an error.
RegisterFailsLate(w, s) ==
    /\ At(w, s, "registering")
    /\ call[s].st \in {"rejected", "pending"}
    /\ NotSubmitted(w)
    /\ UNCHANGED <<serveVars, sid, cfg, rate, stream, chainVars, storeVars>>

\* The module answers with an error.
RegisterFails(w, s) ==
    /\ At(w, s, "registering")
    /\ call[s].st = "rejected"
    /\ NotSubmitted(w)
    /\ UNCHANGED <<serveVars, sid, cfg, rate, stream, chainVars, storeVars>>

\* Mutant: the worker waits for the reply without a time limit.
RegisterWaits(w, s) == FALSE

\* No reply arrives in time: to the worker, an error like any other.
RegisterTimeout(w, s) ==
    /\ "lost_reply" \in Faults
    /\ At(w, s, "registering")
    /\ NotSubmitted(w)
    /\ UNCHANGED <<serveVars, sid, cfg, rate, stream, chainVars, storeVars>>

\* The call returns Ok.  call_module_json turns a JSON string into an error when
\* it is empty, but parse_ok makes null of a raw empty reply, and null is Ok.
RegisterReply(w, s) ==
    /\ At(w, s, "registering")
    /\ \/ call[s].st \in Submitted
       \/ "empty_reply" \in Faults /\ call[s].st = "rejected"
    /\ pc' = [pc EXCEPT ![w] = "confirm"]
    /\ UNCHANGED <<serveVars, consumed, sid, cfg, rate, held, out, stream, chainVars, storeVars>>

\* Mutant: leaves are counted from one below the first.
LeafOffByOne(c, m) ==
    {i - 2 : i \in {j \in 1..Len(registry[c.config]) : registry[c.config][j] \in m.idc}}

\* Mutant: the leaf is estimated from the size of the tree.
LeafEstimate(c, m) ==
    {Len(registry[c.config]) - 1 : i \in {j \in 1..Len(registry[c.config]) :
                                             registry[c.config][j] \in m.idc}}

\* The leaves get_membership may report for the commitment of request m.
confirmed_leaf(c, m) ==
    {i - 1 : i \in {j \in 1..Len(registry[c.config]) : registry[c.config][j] \in m.idc}}

\* The worker leaves register with response r and a credential that stays spent.
Settle(w, r) ==
    /\ out' = [out EXCEPT ![w] = {r}]
    /\ pc' = [pc EXCEPT ![w] = IF held[w] = {} THEN "respond" ELSE "persist"]

\* A poll finds the membership on chain.
Confirm(w, s, m, c) ==
    /\ At(w, s, "confirm")
    /\ stream[s].msg = {m}
    /\ cfg[w] = {c}
    /\ \E leaf \in confirmed_leaf(c, m) :
          Settle(w, [auth_success |-> TRUE, reason |-> "granted",
                     success |-> {[config |-> c.config, leaf_index |-> leaf]}])
    /\ UNCHANGED <<serveVars, consumed, sid, cfg, rate, held, stream, chainVars, storeVars>>

\* Mutant: an unconfirmed registration is treated as not submitted.
ConfirmTimeoutReleases(w, s) ==
    /\ At(w, s, "confirm")
    /\ NotSubmitted(w)
    /\ UNCHANGED <<serveVars, sid, cfg, rate, stream, chainVars, storeVars>>

\* CONFIRM_BUDGET runs out; RegisterError::Unconfirmed.
ConfirmTimeout(w, s) ==
    /\ At(w, s, "confirm")
    /\ Settle(w, failure_response(TRUE, "unconfirmed"))
    /\ UNCHANGED <<serveVars, consumed, sid, cfg, rate, held, stream, chainVars, storeVars>>

-----------------------------------------------------------------------------
(***************************************************************************)
(* append_nullifier, and the end of handle_stream                          *)
(***************************************************************************)

\* Mutant: a credential that cannot be recorded is given back.
PersistFailsReleases(w, s) ==
    /\ At(w, s, "persist")
    /\ pc' = [pc EXCEPT ![w] = "respond"]
    /\ consumed' = consumed \ held[w]
    /\ held' = [held EXCEPT ![w] = {}]
    /\ UNCHANGED <<serveVars, sid, cfg, rate, out, stream, chainVars, storeVars>>

\* There is no path, or the store cannot be opened or written: logged at most.
PersistSkipped(w, s) ==
    /\ At(w, s, "persist")
    /\ pc' = [pc EXCEPT ![w] = "respond"]
    /\ held' = [held EXCEPT ![w] = {}]
    /\ UNCHANGED <<serveVars, consumed, sid, cfg, rate, out, stream, chainVars, storeVars>>

Persist(w, s, c, p, key) ==
    /\ At(w, s, "persist")
    /\ cfg[w] = {c}
    /\ c.nullifiers_path = {p}
    /\ held[w] = {key}
    /\ file' = [file EXCEPT ![p] = WriteKey(@, key)]
    /\ persisted' = [persisted EXCEPT ![p] = @ \cup {key}]
    /\ pc' = [pc EXCEPT ![w] = "newline"]
    /\ UNCHANGED <<serveVars, consumed, sid, cfg, rate, held, out, stream, chainVars>>

PersistNewline(w, s, c, p) ==
    /\ At(w, s, "newline")
    /\ cfg[w] = {c}
    /\ c.nullifiers_path = {p}
    /\ \/ file' = [file EXCEPT ![p] = WriteNewline(@)]
       \/ "torn_write" \in Faults /\ file' = file
    /\ pc' = [pc EXCEPT ![w] = "respond"]
    /\ held' = [held EXCEPT ![w] = {}]
    /\ UNCHANGED <<serveVars, consumed, sid, cfg, rate, out, stream, chainVars, persisted>>

\* The response is written, or the write fails and nobody looks; the stream is
\* released and the worker polls for the next one.
Respond(w, s) ==
    /\ At(w, s, "respond")
    /\ \E r \in {out[w], {}} :
          stream' = [stream EXCEPT ![s].st = "released", ![s].resp = r]
    /\ pc' = [pc EXCEPT ![w] = "accept"]
    /\ sid' = [sid EXCEPT ![w] = {}]
    /\ cfg' = [cfg EXCEPT ![w] = {}]
    /\ rate' = [rate EXCEPT ![w] = 0]
    /\ out' = [out EXCEPT ![w] = {}]
    /\ UNCHANGED <<serveVars, consumed, held, chainVars, storeVars>>

-----------------------------------------------------------------------------
(***************************************************************************)
(* liblogos_lez_rln_module and the chain (external)                        *)
(***************************************************************************)

\* register_member fails and submits nothing.
LezRejects(s) ==
    /\ call[s].st = "sent"
    /\ call' = [call EXCEPT ![s].st = "rejected"]
    /\ UNCHANGED <<serveVars, consumed, workerVars, stream, registry, storeVars>>

Registered(a, s) ==
    \E i \in 1..Len(registry[a]), m \in stream[s].msg : registry[a][i] \in m.idc

\* register_member submits the transaction, unless the commitment is a member
\* already, which is not an error.
LezAccepts(s, a) ==
    /\ call[s].st = "sent"
    /\ call[s].config = {a}
    /\ call' = [call EXCEPT ![s].st = IF Registered(a, s) THEN "moot" ELSE "pending"]
    /\ UNCHANGED <<serveVars, consumed, workerVars, stream, registry, storeVars>>

\* The transaction is included: the tree assigns the next leaf, once per
\* commitment.
Lands(s, a, m, idc) ==
    /\ call[s].st = "pending"
    /\ call[s].config = {a}
    /\ stream[s].msg = {m}
    /\ m.idc = {idc}
    /\ \/ /\ ~ Registered(a, s)
          /\ call' = [call EXCEPT ![s].st = "landed"]
          /\ registry' = [registry EXCEPT ![a] = Append(@, idc)]
       \/ /\ Registered(a, s)
          /\ call' = [call EXCEPT ![s].st = "void"]
          /\ registry' = registry
    /\ UNCHANGED <<serveVars, consumed, workerVars, stream, storeVars>>

-----------------------------------------------------------------------------
\* The process dies: everything in memory is lost, the stores, the calls on
\* their way and the chain are not.  Between the two writes of append_nullifier
\* this is a torn write.
Crash ==
    /\ "crash" \in Faults
    /\ "torn_write" \in Faults \/ \A w \in Workers : pc[w] # "newline"
    /\ server' = {}
    /\ consumed' = {}
    /\ serving' = FALSE
    /\ mounted' = FALSE
    /\ spc' = [c \in Callers |-> "idle"]
    /\ sargs' = [c \in Callers |-> {}]
    /\ pc' = [w \in Workers |-> "off"]
    /\ sid' = [w \in Workers |-> {}]
    /\ cfg' = [w \in Workers |-> {}]
    /\ rate' = [w \in Workers |-> 0]
    /\ held' = [w \in Workers |-> {}]
    /\ out' = [w \in Workers |-> {}]
    /\ stream' = [s \in Streams |-> IF stream[s].st \in {"queued", "accepted"}
                                    THEN [stream[s] EXCEPT !.st = "broken"]
                                    ELSE stream[s]]
    /\ UNCHANGED <<chainVars, storeVars>>

-----------------------------------------------------------------------------
ServeStep(k) ==
    \/ \E c \in Configs : ServeMerge(k, c)
    \/ ServePublish(k)
    \/ ServeSwap(k)
    \/ MountFails(k)
    \/ \E w \in Workers : MountOk(k, w)

WorkerStep(w) ==
    \E s \in Streams :
       \/ Accept(w, s)
       \/ AcceptLost(w, s)
       \/ ReadFails(w, s)
       \/ Refuse(w, s)
       \/ VerifyRefuses(w, s)
       \/ DispatchFails(w, s)
       \/ RegisterFails(w, s)
       \/ RegisterTimeout(w, s)
       \/ RegisterReply(w, s)
       \/ ConfirmTimeout(w, s)
       \/ PersistSkipped(w, s)
       \/ Respond(w, s)
       \/ \E m \in Requests : \/ VerifyWithoutNullifier(w, s, m)
                              \/ RefuseMalformed(w, s, m)
                              \/ RefuseUsed(w, s, m)
                              \/ Reserve(w, s, m)
       \/ \E m \in Requests, c \in Configs : \/ TakeConfig(w, s, c, m)
                                             \/ StartRegister(w, s, m, c)
                                             \/ Confirm(w, s, m, c)
       \/ \E c \in Configs, p \in Paths : \/ PersistNewline(w, s, c, p)
                                          \/ \E key \in held[w] : Persist(w, s, c, p, key)

ChainStep ==
    \E s \in Streams :
       \/ LezRejects(s)
       \/ \E a \in Accounts : LezAccepts(s, a)
       \/ \E a \in Accounts, m \in Requests, idc \in Commitments : Lands(s, a, m, idc)

ClientStep == \E s \in Streams, m \in Option(Requests) : ClientOpens(s, m)

ServerStep ==
    \/ \E k \in Callers : ServeStep(k)
    \/ \E w \in Workers : WorkerStep(w)
    \/ ChainStep
    \/ Crash

Next == ServerStep \/ ClientStep

Spec == Init /\ [][Next]_vars

\* A worker that runs keeps running: every call it makes returns or times out.
FairSpec == Spec /\ \A w \in Workers : WF_vars(WorkerStep(w))

-----------------------------------------------------------------------------
(***************************************************************************)
(* Properties                                                              *)
(***************************************************************************)

\* However calls of serve overlap and mounts fail, SERVING lets at most one
\* worker live: the "single serialized worker" of server.rs.
AtMostOneWorker ==
    \A v, w \in Workers : pc[v] # "off" /\ pc[w] # "off" => v = w

\* The gifter is never stuck: while SERVING keeps calls of serve from mounting, a
\* mount is under way, or the protocol is mounted and a worker accepts streams.
NeverStuck ==
    serving => \/ \E k \in Callers : spc[k] = "mount"
               \/ mounted /\ \E w \in Workers : pc[w] # "off"

\* Two register_member calls never wait in liblogos_lez_rln_module together, which
\* is how the worker keeps the payer's nonces ordered.
OneRegistrationInFlight ==
    \A s, t \in Streams : call[s].st = "sent" /\ call[t].st = "sent" => s = t

\* A credential whose registration may have been, or may still be, submitted is
\* in the consumed set: handle_request releases it only when nothing was.
SpentStaysSpent ==
    \A s \in Streams : \A cred \in call[s].by :
       call[s].st \in Live => KeyOf(cred) \in consumed

\* The memberships one credential pays for are one membership.
OneMembershipPerCredential ==
    \A s, t \in Streams :
       /\ call[s].st = "landed" /\ call[t].st = "landed"
       /\ call[s].by # {} /\ call[s].by = call[t].by
       => s = t

\* What is sent to register_member was authorised, capped and addressed by one
\* and the same configuration, although serve may replace it at any moment; and
\* a nullifier in the verdict is always put under replay protection.
GrantUnderOneConfig ==
    \A s \in Streams : call[s].st # "none" =>
       \E c \in Configs, m \in stream[s].msg :
          /\ call[s].config = {c.config}
          /\ call[s].rate <= c.max_rate_limit
          /\ \/ c.auth_verifiers = {}
             \/ /\ m.type \in c.auth_verifiers
                /\ call[s].by = CredentialsOf(m)

\* Every response a worker has ready or a client was sent.
Given(s) == stream[s].resp \cup UNION {out[w] : w \in {v \in Workers : sid[v] = {s}}}

\* A membership the gifter reports is on chain: that leaf of that account holds
\* the commitment of the request.
SuccessIsOnChain ==
    \A s \in Streams : \A r \in Given(s) : \A g \in r.success :
       /\ g.leaf_index + 1 \in 1..Len(registry[g.config])
       /\ \E m \in stream[s].msg : registry[g.config][g.leaf_index + 1] \in m.idc

\* "credential already used" is only said of a credential that was itself handed
\* in for registration: no other credential, and no other authentication type,
\* can use it up.
RefusalIsTrue ==
    \A s \in Streams : \A r \in Given(s) :
       r.reason = "used" =>
          \E t \in Streams, m \in stream[s].msg :
             call[t].st \in Submitted /\ call[t].by = CredentialsOf(m)

\* serve publishes the configuration before a worker can read it.
ConfiguredBeforeServing ==
    \A s \in Streams : \A r \in Given(s) : r.reason # "unconfigured"

\* A credential recorded in the configured store is never reserved again,
\* whatever calls were lost and however often the gifter restarted.
NeverRegranted ==
    [][\A w \in Workers : \A c \in cfg[w] : \A p \in c.nullifiers_path :
          held[w] = {} => held'[w] \cap persisted[p] = {}]_vars

\* A stream that is queued while a worker lives is answered or given up, however
\* many replies are lost on the way.
EveryStreamLeaves ==
    \A s \in Streams :
       (stream[s].st = "queued" /\ \E w \in Workers : pc[w] # "off")
          ~> stream[s].st \in {"released", "abandoned"}

\* A credential whose registration was rejected becomes usable again, unless
\* another registration it pays for is under way.
RejectedIsReleased ==
    \A s \in Streams :
       call[s].st = "rejected" ~>
          \A cred \in call[s].by :
             \/ KeyOf(cred) \notin consumed
             \/ \E w \in Workers : held[w] = {KeyOf(cred)}
             \/ \E t \in Streams : call[t].by = {cred} /\ call[t].st \in Submitted

\* No reply misses its time limit and the process does not die.
Undisturbed == Faults \cap {"lost_reply", "crash"} = {}

\* The server as a ledger of keys: held by a worker, otherwise consumed, and
\* the memberships that landed.
ReservedKeys == UNION {held[w] : w \in Workers}
SpentKeys == consumed \ ReservedKeys
PaidKeys == UNION {{<<KeyOf(cred), s>> : cred \in call[s].by} :
                     s \in {t \in Streams : call[t].st = "landed"}}

Ledger == INSTANCE CredentialLedger
              WITH Purchases <- Streams,
                   reserved <- ReservedKeys, spent <- SpentKeys, paid <- PaidKeys

\* The server implements the ledger: through every interleaving of serve, worker
\* and chain, a key is released only if it bought nothing, never comes back once
\* spent, and pays for a membership only while it is reserved or spent.
ImplementsLedger == Ledger!LedgerSpec

-----------------------------------------------------------------------------
(***************************************************************************)
(* Inductive invariants                                                    *)
(***************************************************************************)

\* SERVING is the licence to mount and to run, and there is one: it is with a
\* caller that mounts, or with the worker, or with nobody.
OneLicence ==
    /\ ~ serving => /\ \A k \in Callers : spc[k] # "mount"
                    /\ \A w \in Workers : pc[w] = "off"
    /\ \A k, l \in Callers : spc[k] = "mount" /\ spc[l] = "mount" => k = l
    /\ \A k \in Callers, w \in Workers : spc[k] = "mount" => pc[w] = "off"
    /\ AtMostOneWorker

\* A stream is handled by one worker, which makes at most one call for it.
OneHandler ==
    /\ \A v, w \in Workers, s \in Streams : sid[v] = {s} /\ sid[w] = {s} => v = w
    /\ \A w \in Workers, s \in Streams : sid[w] = {s} => stream[s].st = "accepted"
    /\ \A s \in Streams : stream[s].st \in {"unused", "queued"} => call[s].st = "none"
    /\ \A w \in Workers, s \in Streams :
          sid[w] = {s} /\ pc[w] \in {"read", "verify", "register"} => call[s].st = "none"

\* A worker holds a key between its reservation and the end of the request.
KeysHeld ==
    /\ \A w \in Workers :
          pc[w] \in {"off", "accept", "read", "verify", "respond"} => held[w] = {}
    /\ \A w \in Workers : held[w] \subseteq consumed
    /\ \A v, w \in Workers : held[v] \cap held[w] # {} => v = w
    /\ \A w \in Workers, s \in Streams : \A m \in stream[s].msg :
          sid[w] = {s} /\ pc[w] = "register" /\ held[w] # {} =>
             \A cred \in CredentialsOf(m) : KeyOf(cred) \in held[w]

\* One registration claims a key, that of the worker holding it if there is one.
OneClaimPerKey ==
    \A t \in Streams : \A cred \in call[t].by : call[t].st \in Live =>
       /\ KeyOf(cred) \in consumed
       /\ \A w \in Workers : KeyOf(cred) \in held[w] => sid[w] = {t}
       /\ \A s \in Streams : \A other \in call[s].by :
             call[s].st \in Live /\ KeyOf(other) = KeyOf(cred) => s = t

\* The worker that made a call waits as long as the module has not decided it.
SentIsAwaited ==
    \A s \in Streams : call[s].st = "sent" =>
       \E w \in Workers : pc[w] = "registering" /\ sid[w] = {s}

\* The credentials of the server's replay protection, claimed once each.
ReplayInvariant == OneHandler /\ KeysHeld /\ OneClaimPerKey

=============================================================================
