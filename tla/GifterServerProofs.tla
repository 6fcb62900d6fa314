------------------------- MODULE GifterServerProofs -------------------------
(***************************************************************************)
(* The server: its types, its single worker, its replay protection, and    *)
(* that it implements CredentialLedger.                                    *)
(***************************************************************************)
EXTENDS GifterServer, NullifierKeyProofs

-----------------------------------------------------------------------------
(***************************************************************************)
(* Optional values and the operators of the model                          *)
(***************************************************************************)

\* None is an option of every set.
LEMMA OptionNone == \A S : {} \in Option(S)
  BY DEF Option

\* Some is an option of the set of its element.
LEMMA OptionSome == \A S : \A x \in S : {x} \in Option(S)
  BY DEF Option

\* The element of an option is of its set.
LEMMA OptionElement == \A S : \A X \in Option(S) : X \subseteq S
  BY DEF Option

\* An optional value that has an element has no other.
LEMMA OptionSingle == \A S : \A X \in Option(S) : \A x \in X : X = {x}
  BY DEF Option

\* A request has at most one credential, which is a pair of strings.
LEMMA CredentialType ==
    ASSUME NEW m \in Requests
    PROVE  /\ CredentialsOf(m) \in Option(String \X String)
           /\ \A cred \in CredentialsOf(m) :
                 /\ cred[1] = m.type
                 /\ cred[1] \in String /\ cred[2] \in String
                 /\ KeyOf(cred) \in String
<1>1. m.type \in String /\ m.nullifier \in Option(String)
  BY RequestsAssumption DEF RequestType
<1>2. \A raw \in m.nullifier : raw \in String /\ Normalize(raw) \in String
  BY <1>1, OptionElement, NormalizeType
<1>3. \A cred \in CredentialsOf(m) : \E raw \in m.nullifier : cred = <<m.type, Normalize(raw)>>
  BY DEF CredentialsOf
<1>4. CredentialsOf(m) \in SUBSET (String \X String)
  BY <1>1, <1>2, <1>3
<1>5. \A c, d \in CredentialsOf(m) : c = d
  BY <1>1, <1>3 DEF Option
<1>6. CredentialsOf(m) \in Option(String \X String)
  BY <1>4, <1>5 DEF Option
<1>7. ASSUME NEW cred \in CredentialsOf(m)
      PROVE  /\ cred[1] = m.type
             /\ cred[1] \in String /\ cred[2] \in String
             /\ KeyOf(cred) \in String
  <2>1. cred[1] = m.type /\ cred[1] \in String /\ cred[2] \in String
    BY <1>1, <1>2, <1>3
  <2> QED BY <2>1, KeyType DEF KeyOf
<1> QED BY <1>6, <1>7

\* Type correctness of the rate that a registration asks for.
LEMMA RateType ==
    ASSUME NEW m \in Requests, NEW c \in Configs
    PROVE  EffectiveRate(m, c) \in Nat /\ EffectiveRate(m, c) <= c.max_rate_limit
<1>1. m.rate \in Option(Nat) /\ c.max_rate_limit \in Nat
  BY RequestsAssumption, ConfigsAssumption DEF RequestType, ServerCfg
<1>2. \A r \in m.rate : r \in Nat
  BY <1>1, OptionElement
<1>3. m.rate # {} => (CHOOSE r \in m.rate : TRUE) \in Nat
  BY <1>2
<1> QED BY <1>1, <1>3, RateAssumption DEF EffectiveRate

\* The store's operators keep it a store, and loading one gives strings.
LEMMA StoreType ==
    ASSUME NEW f \in Store, NEW key \in String
    PROVE  /\ WriteKey(f, key) \in Store
           /\ WriteNewline(f) \in Store
           /\ load_nullifiers(f) \in SUBSET String
<1>1. f.tail \in String /\ f.lines \in SUBSET String /\ << >> \in String
  BY DEF Store, String
<1>2. f.tail \o key \in String
  BY <1>1 DEF String
<1>3. WriteKey(f, key) \in Store
  BY <1>2 DEF WriteKey, Store
<1>4. WriteNewline(f) \in Store
  BY <1>1 DEF WriteNewline, Store
<1>5. load_nullifiers(f) \in SUBSET String
  BY <1>1, NormalizeType DEF load_nullifiers
<1> QED BY <1>3, <1>4, <1>5

\* Type correctness of what is loaded from the store.
LEMMA LoadedType ==
    ASSUME TypeOK, NEW c \in Configs
    PROVE  Loaded(c) \in SUBSET String
<1>1. c.nullifiers_path \subseteq Paths
  BY ConfigsAssumption, OptionElement DEF ServerCfg
<1>2. << >> \in String /\ \A p \in Paths : file[p] \in Store
  BY DEF TypeOK, String
<1>3. \A p \in c.nullifiers_path : load_nullifiers(file[p]) \in SUBSET String
  BY <1>1, <1>2, StoreType
<1> QED BY <1>3 DEF Loaded

\* Type correctness of the answers to failures.
LEMMA FailureType ==
    ASSUME NEW b \in BOOLEAN, NEW why \in Reasons
    PROVE  failure_response(b, why) \in Response
<1>1. {} \in Option([config : STRING, leaf_index : Nat])
  BY OptionNone
<1> QED BY <1>1 DEF failure_response, Response

-----------------------------------------------------------------------------
(***************************************************************************)
(* Type correctness                                                        *)
(***************************************************************************)

\* Type correctness holds at first.
LEMMA InitType == Init => TypeOK
<1> SUFFICES ASSUME Init PROVE TypeOK
  OBVIOUS
<1>1. \A S : {} \in Option(S)
  BY OptionNone
<1>2. EmptyStore \in Store
  BY DEF EmptyStore, Store, String
<1>3. [st |-> "unused", msg |-> {}, resp |-> {}] \in StreamRecord
  BY <1>1 DEF StreamRecord
<1>4. NoCall \in CallRecord
  BY <1>1 DEF NoCall, CallRecord
<1>5. /\ server \in Option(Configs)
      /\ sargs \in [Callers -> Option(Configs)]
      /\ sid \in [Workers -> Option(Streams)]
      /\ cfg \in [Workers -> Option(Configs)]
      /\ held \in [Workers -> Option(String)]
      /\ out \in [Workers -> Option(Response)]
  BY <1>1 DEF Init
<1>6. /\ stream \in [Streams -> StreamRecord]
      /\ call \in [Streams -> CallRecord]
      /\ file \in [Paths -> Store]
  BY <1>2, <1>3, <1>4 DEF Init
<1>7. registry \in [Accounts -> Seq(Commitments)]
  BY DEF Init
<1> QED BY <1>5, <1>6, <1>7 DEF Init, TypeOK, CallerLocations, WorkerLocations

\* The steps of serve keep type correctness.
LEMMA ServeType ==
    ASSUME TypeOK, NEW k \in Callers, ServeStep(k)
    PROVE  TypeOK'
<1> USE DEF serveVars, workerVars, chainVars, storeVars, TypeOK, CallerLocations
<1>1. CASE \E c \in Configs : ServeMerge(k, c)
  <2>1. PICK c \in Configs : ServeMerge(k, c)
    BY <1>1
  <2>2. {c} \in Option(Configs) /\ Loaded(c) \in SUBSET String
    BY OptionSome, LoadedType
  <2> QED BY <2>1, <2>2 DEF ServeMerge
<1>2. CASE ServePublish(k)
  BY <1>2, OptionNone DEF ServePublish
<1>3. CASE ServeSwap(k)
  BY <1>3 DEF ServeSwap
<1>4. CASE MountFails(k)
  BY <1>4 DEF MountFails
<1>5. CASE \E w \in Workers : MountOk(k, w)
  BY <1>5 DEF MountOk, WorkerLocations
<1> QED BY <1>1, <1>2, <1>3, <1>4, <1>5 DEF ServeStep

\* The steps of the chain keep type correctness.
LEMMA ChainType ==
    ASSUME TypeOK, ChainStep
    PROVE  TypeOK'
<1> USE DEF serveVars, workerVars, chainVars, storeVars, TypeOK
<1>1. PICK s \in Streams :
         \/ LezRejects(s)
         \/ \E a \in Accounts : LezAccepts(s, a)
         \/ \E a \in Accounts, m \in Requests, idc \in Commitments : Lands(s, a, m, idc)
  BY DEF ChainStep
<1>2. CASE LezRejects(s)
  BY <1>2 DEF LezRejects, CallRecord
<1>3. ASSUME NEW a \in Accounts, LezAccepts(s, a) PROVE TypeOK'
  BY <1>3, ZenonT(60) DEF LezAccepts, CallRecord, Live, Submitted
<1>4. ASSUME NEW a \in Accounts, NEW m \in Requests, NEW idc \in Commitments, Lands(s, a, m, idc)
      PROVE  TypeOK'
  <2>1. \A st \in {"landed", "void"} : [call EXCEPT ![s].st = st] \in [Streams -> CallRecord]
    BY DEF CallRecord, Live, Submitted
  <2>2. Append(registry[a], idc) \in Seq(Commitments)
    OBVIOUS
  <2>3. call' \in [Streams -> CallRecord] /\ registry' \in [Accounts -> Seq(Commitments)]
    BY <1>4, <2>1, <2>2 DEF Lands
  <2> QED BY <1>4, <2>3 DEF Lands
<1> QED BY <1>1, <1>2, <1>3, <1>4

\* A crash keeps type correctness.
LEMMA CrashType ==
    ASSUME TypeOK, Crash
    PROVE  TypeOK'
<1>1. \A S : {} \in Option(S)
  BY OptionNone
<1>2. stream' \in [Streams -> StreamRecord]
  BY DEF Crash, TypeOK, StreamRecord
<1> QED BY <1>1, <1>2 DEF Crash, TypeOK, chainVars, storeVars, CallerLocations, WorkerLocations

\* The steps of the clients keep type correctness.
LEMMA ClientType ==
    ASSUME TypeOK, ClientStep
    PROVE  TypeOK'
<1>1. PICK s \in Streams, m \in Option(Requests) : ClientOpens(s, m)
  BY DEF ClientStep
<1>2. stream' \in [Streams -> StreamRecord]
  BY <1>1 DEF ClientOpens, TypeOK, StreamRecord
<1> QED BY <1>1, <1>2 DEF ClientOpens, TypeOK, serveVars, workerVars, chainVars, storeVars

\* The steps of the worker keep type correctness.
LEMMA WorkerType ==
    ASSUME TypeOK, NEW w \in Workers, WorkerStep(w)
    PROVE  TypeOK'
<1> USE DEF serveVars, workerVars, chainVars, storeVars
<1>0. /\ {} \in Option(Streams) /\ {} \in Option(Configs) /\ {} \in Option(String)
      /\ {} \in Option(Response)
  BY OptionNone
<1>f. \A b \in BOOLEAN, why \in Reasons : {failure_response(b, why)} \in Option(Response)
  BY FailureType, OptionSome
<1>1. ASSUME NEW s \in Streams, Accept(w, s) PROVE TypeOK'
  <2>1. {s} \in Option(Streams)
    BY OptionSome
  <2> QED BY <1>1, <2>1 DEF Accept, TypeOK, StreamRecord, WorkerLocations
<1>2. ASSUME NEW s \in Streams, AcceptLost(w, s) PROVE TypeOK'
  BY <1>2 DEF AcceptLost, TypeOK, StreamRecord
<1>3. ASSUME NEW s \in Streams, ReadFails(w, s) PROVE TypeOK'
  BY <1>0, <1>3 DEF ReadFails, TypeOK, StreamRecord, WorkerLocations
<1>4. ASSUME NEW s \in Streams, Refuse(w, s) PROVE TypeOK'
  <2> DEFINE why == Screen(stream[s].msg, server)
             r == failure_response(why \in {"length", "unconfigured"}, why)
  <2>1. why \in {"decode", "length", "unconfigured", "unsupported"} /\ Answer(w, r)
    BY <1>4 DEF Refuse
  <2> HIDE DEF why
  <2>2. {r} \in Option(Response)
    <3>1. (why \in {"length", "unconfigured"}) \in BOOLEAN
      OBVIOUS
    <3>2. why \in Reasons
      BY <2>1 DEF Reasons
    <3> QED BY <1>f, <3>1, <3>2, Zenon
  <2> HIDE DEF r
  <2> QED BY <1>4, <2>1, <2>2 DEF Refuse, Answer, TypeOK, WorkerLocations
<1>5. ASSUME NEW s \in Streams, VerifyRefuses(w, s) PROVE TypeOK'
  BY <1>5, <1>f DEF VerifyRefuses, Answer, TypeOK, WorkerLocations, Reasons
<1>6. ASSUME NotSubmitted(w), UNCHANGED <<serveVars, sid, cfg, rate, stream, chainVars, storeVars>>
      PROVE  TypeOK'
  BY <1>0, <1>6, <1>f DEF NotSubmitted, Answer, TypeOK, WorkerLocations, Reasons
<1>7. ASSUME NEW s \in Streams, DispatchFails(w, s) \/ RegisterFails(w, s) \/ RegisterTimeout(w, s)
      PROVE  TypeOK'
  BY <1>6, <1>7 DEF DispatchFails, RegisterFails, RegisterTimeout
<1>8. ASSUME NEW s \in Streams, RegisterReply(w, s) PROVE TypeOK'
  BY <1>8 DEF RegisterReply, TypeOK, WorkerLocations
<1>9. ASSUME NEW s \in Streams, ConfirmTimeout(w, s) PROVE TypeOK'
  BY <1>9, <1>f DEF ConfirmTimeout, Settle, TypeOK, WorkerLocations, Reasons
<1>10. ASSUME NEW s \in Streams, PersistSkipped(w, s) PROVE TypeOK'
  BY <1>0, <1>10 DEF PersistSkipped, TypeOK, WorkerLocations
<1>11. ASSUME NEW s \in Streams, Respond(w, s) PROVE TypeOK'
  <2>1. PICK r \in {out[w], {}} :
           stream' = [stream EXCEPT ![s].st = "released", ![s].resp = r]
    BY <1>11 DEF Respond
  <2>2. r \in Option(Response)
    BY <1>0 DEF TypeOK
  <2>3. stream' \in [Streams -> StreamRecord]
    BY <2>1, <2>2 DEF TypeOK, StreamRecord
  <2> QED BY <1>0, <1>11, <2>3 DEF Respond, TypeOK, WorkerLocations
<1>12. ASSUME NEW s \in Streams, NEW m \in Requests,
              VerifyWithoutNullifier(w, s, m) \/ RefuseMalformed(w, s, m) \/ RefuseUsed(w, s, m)
       PROVE  TypeOK'
  BY <1>12, <1>f DEF VerifyWithoutNullifier, RefuseMalformed, RefuseUsed, Answer, TypeOK,
                     WorkerLocations, Reasons
<1>13. ASSUME NEW s \in Streams, NEW m \in Requests, Reserve(w, s, m) PROVE TypeOK'
  <2>1. PICK cred \in CredentialsOf(m) : /\ consumed' = consumed \cup {KeyOf(cred)}
                                         /\ held' = [held EXCEPT ![w] = {KeyOf(cred)}]
    BY <1>13 DEF Reserve
  <2>2. KeyOf(cred) \in String /\ {KeyOf(cred)} \in Option(String)
    BY CredentialType, OptionSome
  <2> QED BY <1>13, <2>1, <2>2 DEF Reserve, TypeOK, WorkerLocations
<1>14. ASSUME NEW s \in Streams, NEW m \in Requests, NEW c \in Configs, TakeConfig(w, s, c, m)
       PROVE  TypeOK'
  <2>1. {c} \in Option(Configs) /\ EffectiveRate(m, c) \in Nat
    BY OptionSome, RateType
  <2> QED BY <1>14, <2>1 DEF TakeConfig, TypeOK, WorkerLocations
<1>15. ASSUME NEW s \in Streams, NEW m \in Requests, NEW c \in Configs, StartRegister(w, s, m, c)
       PROVE  TypeOK'
  <2> DEFINE record == [st |-> "sent", config |-> {c.config}, rate |-> rate[w],
                        by |-> IF held[w] = {} THEN {} ELSE CredentialsOf(m)]
  <2>1. {c.config} \in Option(Accounts)
    BY OptionSome DEF Accounts
  <2>2. (IF held[w] = {} THEN {} ELSE CredentialsOf(m)) \in Option(String \X String)
    BY OptionNone, CredentialType
  <2>3. record \in CallRecord
    BY <2>1, <2>2 DEF CallRecord, Live, TypeOK
  <2>4. call' = [call EXCEPT ![s] = record]
    BY <1>15 DEF StartRegister
  <2> HIDE DEF record
  <2>5. call' \in [Streams -> CallRecord]
    BY <2>3, <2>4 DEF TypeOK
  <2> QED BY <1>15, <2>5 DEF StartRegister, TypeOK, WorkerLocations
<1>16. ASSUME NEW s \in Streams, NEW m \in Requests, NEW c \in Configs, Confirm(w, s, m, c)
       PROVE  TypeOK'
  <2>1. PICK leaf \in confirmed_leaf(c, m) :
           Settle(w, [auth_success |-> TRUE, reason |-> "granted",
                      success |-> {[config |-> c.config, leaf_index |-> leaf]}])
    BY <1>16 DEF Confirm
  <2>2. leaf \in Nat
    BY DEF confirmed_leaf, TypeOK, Accounts
  <2>3. c.config \in STRING
    BY ConfigsAssumption DEF ServerCfg
  <2> DEFINE r == [auth_success |-> TRUE, reason |-> "granted",
                   success |-> {[config |-> c.config, leaf_index |-> leaf]}]
  <2>4. r.success \in Option([config : STRING, leaf_index : Nat])
    BY <2>2, <2>3, OptionSome
  <2>5. r \in Response
    BY <2>4 DEF Response, Reasons
  <2>6. {r} \in Option(Response) /\ Settle(w, r)
    BY <2>1, <2>5, OptionSome
  <2> HIDE DEF r
  <2> QED BY <1>16, <2>6 DEF Confirm, Settle, TypeOK, WorkerLocations
<1>17. ASSUME NEW s \in Streams, NEW c \in Configs, NEW p \in Paths, PersistNewline(w, s, c, p)
       PROVE  TypeOK'
  <2>0. << >> \in String /\ file[p] \in Store
    BY DEF TypeOK, String
  <2>1. WriteNewline(file[p]) \in Store
    BY <2>0, StoreType
  <2>2. file' \in [Paths -> Store]
    BY <1>17, <2>1 DEF PersistNewline, TypeOK
  <2> QED BY <1>0, <1>17, <2>2 DEF PersistNewline, TypeOK, WorkerLocations
<1>18. ASSUME NEW s \in Streams, NEW c \in Configs, NEW p \in Paths, NEW key \in held[w],
              Persist(w, s, c, p, key)
       PROVE  TypeOK'
  <2>1. key \in String
    BY OptionElement DEF TypeOK
  <2>2. file[p] \in Store /\ WriteKey(file[p], key) \in Store
    BY <2>1, StoreType DEF TypeOK
  <2> QED BY <1>18, <2>1, <2>2 DEF Persist, TypeOK, WorkerLocations
<1> QED
  BY <1>1, <1>2, <1>3, <1>4, <1>5, <1>7, <1>8, <1>9, <1>10, <1>11, <1>12, <1>13, <1>14,
     <1>15, <1>16, <1>17, <1>18 DEF WorkerStep

\* TypeOK is inductive, whatever the faults.
LEMMA NextType == TypeOK /\ [Next]_vars => TypeOK'
<1> SUFFICES ASSUME TypeOK, [Next]_vars PROVE TypeOK'
  OBVIOUS
<1>1. CASE Next
  BY <1>1, ServeType, WorkerType, ChainType, CrashType, ClientType DEF Next, ServerStep
<1>2. CASE UNCHANGED vars
  BY <1>2 DEF vars, serveVars, workerVars, chainVars, storeVars, TypeOK
<1> QED BY <1>1, <1>2

\* Every variable of the server keeps its type, for any number of callers,
\* workers, streams and configurations and whatever the faults.
THEOREM TypeCorrect == Spec => []TypeOK
<1> QED BY InitType, NextType, PTL DEF Spec

-----------------------------------------------------------------------------
(***************************************************************************)
(* The single worker                                                       *)
(***************************************************************************)

\* A worker's step leaves serve alone, and neither ends it nor starts another.
LEMMA WorkerAlone ==
    ASSUME TypeOK, NEW w \in Workers, WorkerStep(w)
    PROVE  /\ UNCHANGED serveVars
           /\ pc[w] # "off" /\ pc'[w] # "off"
           /\ \A v \in Workers : v # w => pc'[v] = pc[v]
<1> USE DEF TypeOK, At, serveVars, workerVars
<1>1. PICK s \in Streams :
       \/ Accept(w, s) \/ AcceptLost(w, s) \/ ReadFails(w, s) \/ Refuse(w, s)
       \/ VerifyRefuses(w, s) \/ DispatchFails(w, s) \/ RegisterFails(w, s)
       \/ RegisterTimeout(w, s) \/ RegisterReply(w, s) \/ ConfirmTimeout(w, s)
       \/ PersistSkipped(w, s) \/ Respond(w, s)
       \/ \E m \in Requests : \/ VerifyWithoutNullifier(w, s, m) \/ RefuseMalformed(w, s, m)
                              \/ RefuseUsed(w, s, m) \/ Reserve(w, s, m)
       \/ \E m \in Requests, c \in Configs : \/ TakeConfig(w, s, c, m)
                                             \/ StartRegister(w, s, m, c)
                                             \/ Confirm(w, s, m, c)
       \/ \E c \in Configs, p \in Paths : \/ PersistNewline(w, s, c, p)
                                          \/ \E key \in held[w] : Persist(w, s, c, p, key)
  BY DEF WorkerStep
<1>2. CASE Accept(w, s) \/ AcceptLost(w, s) \/ ReadFails(w, s)
  BY <1>2 DEF Accept, AcceptLost, ReadFails
<1>3. CASE Refuse(w, s) \/ VerifyRefuses(w, s)
  BY <1>3 DEF Refuse, VerifyRefuses, Answer
<1>4. CASE DispatchFails(w, s) \/ RegisterFails(w, s) \/ RegisterTimeout(w, s)
  BY <1>4 DEF DispatchFails, RegisterFails, RegisterTimeout, NotSubmitted, Answer
<1>5. CASE RegisterReply(w, s) \/ ConfirmTimeout(w, s)
  BY <1>5 DEF RegisterReply, ConfirmTimeout, Settle
<1>6. CASE PersistSkipped(w, s) \/ Respond(w, s)
  BY <1>6 DEF PersistSkipped, Respond
<1>7. ASSUME NEW m \in Requests, VerifyWithoutNullifier(w, s, m) \/ RefuseMalformed(w, s, m)
                                 \/ RefuseUsed(w, s, m) \/ Reserve(w, s, m)
      PROVE  /\ UNCHANGED serveVars
             /\ pc[w] # "off" /\ pc'[w] # "off"
             /\ \A v \in Workers : v # w => pc'[v] = pc[v]
  BY <1>7 DEF VerifyWithoutNullifier, RefuseMalformed, RefuseUsed, Reserve, Answer
<1>8. ASSUME NEW m \in Requests, NEW c \in Configs,
             TakeConfig(w, s, c, m) \/ StartRegister(w, s, m, c) \/ Confirm(w, s, m, c)
      PROVE  /\ UNCHANGED serveVars
             /\ pc[w] # "off" /\ pc'[w] # "off"
             /\ \A v \in Workers : v # w => pc'[v] = pc[v]
  BY <1>8 DEF TakeConfig, StartRegister, Confirm, Settle
<1>9. ASSUME NEW c \in Configs, NEW p \in Paths,
             PersistNewline(w, s, c, p) \/ \E key \in held[w] : Persist(w, s, c, p, key)
      PROVE  /\ UNCHANGED serveVars
             /\ pc[w] # "off" /\ pc'[w] # "off"
             /\ \A v \in Workers : v # w => pc'[v] = pc[v]
  BY <1>9 DEF PersistNewline, Persist
<1> QED BY <1>1, <1>2, <1>3, <1>4, <1>5, <1>6, <1>7, <1>8, <1>9

\* Every step keeps OneLicence.
LEMMA LicenceStep == TypeOK /\ OneLicence /\ [Next]_vars => OneLicence'
<1> SUFFICES ASSUME TypeOK, OneLicence, [Next]_vars PROVE OneLicence'
  OBVIOUS
<1> USE DEF OneLicence, AtMostOneWorker, TypeOK, serveVars, workerVars
<1>1. ASSUME NEW k \in Callers, ServeStep(k) PROVE OneLicence'
  <2>1. CASE \E c \in Configs : ServeMerge(k, c)
    BY <2>1 DEF ServeMerge
  <2>2. CASE ServePublish(k)
    BY <2>2 DEF ServePublish
  <2>3. CASE ServeSwap(k)
    <3>1. CASE serving
      BY <2>3, <3>1 DEF ServeSwap
    <3>2. CASE ~ serving
      BY <2>3, <3>2 DEF ServeSwap
    <3> QED BY <3>1, <3>2
  <2>4. CASE MountFails(k)
    BY <2>4 DEF MountFails
  <2>5. CASE \E w \in Workers : MountOk(k, w)
    BY <2>5 DEF MountOk
  <2> QED BY <1>1, <2>1, <2>2, <2>3, <2>4, <2>5 DEF ServeStep
<1>2. ASSUME NEW w \in Workers, WorkerStep(w) PROVE OneLicence'
  <2>1. /\ serving' = serving /\ spc' = spc
        /\ pc[w] # "off" /\ pc'[w] # "off"
        /\ \A v \in Workers : v # w => pc'[v] = pc[v]
    BY <1>2, WorkerAlone
  <2> QED BY <2>1
<1>3. CASE ChainStep
  BY <1>3 DEF ChainStep, LezRejects, LezAccepts, Lands
<1>4. CASE Crash
  BY <1>4 DEF Crash
<1>5. CASE ClientStep
  BY <1>5 DEF ClientStep, ClientOpens
<1>6. CASE UNCHANGED vars
  BY <1>6 DEF vars
<1> QED BY <1>1, <1>2, <1>3, <1>4, <1>5, <1>6 DEF Next, ServerStep

\* SERVING lets at most one worker live, however many callers overlap in serve,
\* mounts fail and the process restarts.
THEOREM SingleWorker == Spec => []AtMostOneWorker
<1>1. Init => OneLicence
  BY DEF Init, OneLicence, AtMostOneWorker
<1>2. OneLicence => AtMostOneWorker
  BY DEF OneLicence
<1> QED BY <1>1, <1>2, InitType, NextType, LicenceStep, PTL DEF Spec

\* Every step keeps NeverStuck.
LEMMA StuckStep == TypeOK /\ NeverStuck /\ [Next]_vars => NeverStuck'
<1> SUFFICES ASSUME TypeOK, NeverStuck, [Next]_vars PROVE NeverStuck'
  OBVIOUS
<1> USE DEF NeverStuck, TypeOK, serveVars, workerVars
<1>1. ASSUME NEW k \in Callers, ServeStep(k) PROVE NeverStuck'
  <2>1. CASE \E c \in Configs : ServeMerge(k, c)
    BY <2>1 DEF ServeMerge
  <2>2. CASE ServePublish(k)
    BY <2>2 DEF ServePublish
  <2>3. CASE ServeSwap(k)
    <3>1. CASE serving
      BY <2>3, <3>1 DEF ServeSwap
    <3>2. CASE ~ serving
      BY <2>3, <3>2 DEF ServeSwap
    <3> QED BY <3>1, <3>2
  <2>4. CASE MountFails(k)
    BY <2>4 DEF MountFails
  <2>5. CASE \E w \in Workers : MountOk(k, w)
    BY <2>5 DEF MountOk
  <2> QED BY <1>1, <2>1, <2>2, <2>3, <2>4, <2>5 DEF ServeStep
<1>2. ASSUME NEW w \in Workers, WorkerStep(w) PROVE NeverStuck'
  <2>1. UNCHANGED <<serving, mounted, spc>> /\ pc[w] # "off" /\ pc'[w] # "off"
    BY <1>2, WorkerAlone
  <2>2. \A v \in Workers : v # w => pc'[v] = pc[v]
    BY <1>2, WorkerAlone
  <2> QED BY <2>1, <2>2
<1>3. CASE ChainStep
  <2>1. UNCHANGED <<serving, mounted, spc, pc>>
    BY <1>3 DEF ChainStep, LezRejects, LezAccepts, Lands
  <2> QED BY <2>1
<1>4. CASE Crash
  BY <1>4 DEF Crash
<1>5. CASE ClientStep
  BY <1>5 DEF ClientStep, ClientOpens
<1>6. CASE UNCHANGED vars
  BY <1>6 DEF vars
<1> QED BY <1>1, <1>2, <1>3, <1>4, <1>5, <1>6 DEF Next, ServerStep

\* SERVING is never left set by a call that mounts nothing: the next call of serve
\* mounts, or one is mounting, or a worker accepts streams, whatever the faults.
THEOREM ServingIsServed == Spec => []NeverStuck
<1>1. Init => NeverStuck
  BY DEF Init, NeverStuck
<1> QED BY <1>1, InitType, NextType, StuckStep, PTL DEF Spec

-----------------------------------------------------------------------------
(***************************************************************************)
(* One membership per credential                                           *)
(***************************************************************************)

\* The steps of serve keep ReplayInvariant.
LEMMA ReplayServe ==
    ASSUME TypeOK, ReplayInvariant, NEW k \in Callers, ServeStep(k)
    PROVE  ReplayInvariant'
<1>1. /\ consumed \subseteq consumed'
      /\ UNCHANGED <<sid, held, stream, call>>
      /\ \A w \in Workers : pc'[w] = pc[w] \/ (pc[w] = "off" /\ pc'[w] = "accept")
  BY DEF ServeStep, ServeMerge, ServePublish, ServeSwap, MountFails, MountOk, TypeOK,
         serveVars, workerVars, chainVars
<1>2. OneHandler'
  BY <1>1 DEF ReplayInvariant, OneHandler
<1>3. KeysHeld'
  BY <1>1 DEF ReplayInvariant, KeysHeld
<1>4. OneClaimPerKey'
  BY <1>1 DEF ReplayInvariant, OneClaimPerKey
<1> QED BY <1>2, <1>3, <1>4 DEF ReplayInvariant

\* The steps of the chain keep ReplayInvariant.
LEMMA ReplayChain ==
    ASSUME TypeOK, ReplayInvariant, ChainStep
    PROVE  ReplayInvariant'
<1>1. UNCHANGED <<consumed, pc, sid, held, stream>>
  BY DEF ChainStep, LezRejects, LezAccepts, Lands, workerVars
<1>2. \A t \in Streams : /\ call'[t].by = call[t].by
                         /\ call'[t].st \in Live => call[t].st \in Live
                         /\ call[t].st = "none" => call'[t].st = "none"
  <2>1. PICK s \in Streams :
           \/ LezRejects(s)
           \/ \E a \in Accounts : LezAccepts(s, a)
           \/ \E a \in Accounts, m \in Requests, idc \in Commitments : Lands(s, a, m, idc)
    BY DEF ChainStep
  <2>2. /\ call[s].st \in {"sent", "pending"}
        /\ \E st \in {"rejected", "moot", "pending", "landed", "void"} :
              call' = [call EXCEPT ![s].st = st]
    BY <2>1 DEF LezRejects, LezAccepts, Lands
  <2> QED BY <2>2 DEF TypeOK, CallRecord, Live, Submitted
<1>3. OneHandler'
  BY <1>1, <1>2 DEF ReplayInvariant, OneHandler
<1>4. KeysHeld'
  BY <1>1 DEF ReplayInvariant, KeysHeld
<1>5. OneClaimPerKey'
  BY <1>1, <1>2 DEF ReplayInvariant, OneClaimPerKey
<1> QED BY <1>3, <1>4, <1>5 DEF ReplayInvariant

\* The steps of the clients keep ReplayInvariant.
LEMMA ReplayClient ==
    ASSUME TypeOK, ReplayInvariant, ClientStep
    PROVE  ReplayInvariant'
<1>1. PICK s \in Streams, m \in Option(Requests) : ClientOpens(s, m)
  BY DEF ClientStep
<1>2. /\ UNCHANGED <<consumed, pc, sid, held, call>>
      /\ stream[s].st = "unused" /\ stream'[s].st = "queued"
      /\ \A t \in Streams : t # s => stream'[t] = stream[t]
  BY <1>1 DEF ClientOpens, TypeOK, StreamRecord, workerVars, chainVars
<1>3. OneHandler'
  BY <1>2 DEF ReplayInvariant, OneHandler
<1>4. KeysHeld'
  BY <1>2 DEF ReplayInvariant, KeysHeld, OneHandler
<1>5. OneClaimPerKey'
  BY <1>2 DEF ReplayInvariant, OneClaimPerKey
<1> QED BY <1>3, <1>4, <1>5 DEF ReplayInvariant

\* The steps of a worker that neither touch the consumed set nor make a call.
LEMMA ReplayMoves ==
    ASSUME TypeOK, ReplayInvariant, NEW w \in Workers,
           UNCHANGED <<consumed, sid, stream, call>>,
           \A v \in Workers : v # w => pc'[v] = pc[v] /\ held'[v] = held[v],
           held'[w] \in {held[w], {}},
           pc'[w] \in {"read", "verify", "register"} => pc[w] \in {"read", "verify", "register"},
           pc'[w] \in {"off", "accept", "read", "verify", "register", "respond"} => held'[w] = {}
    PROVE  ReplayInvariant'
<1>1. OneHandler'
  BY DEF ReplayInvariant, OneHandler
<1>2. KeysHeld'
  BY DEF ReplayInvariant, KeysHeld
<1>3. OneClaimPerKey'
  BY DEF ReplayInvariant, OneClaimPerKey
<1> QED BY <1>1, <1>2, <1>3 DEF ReplayInvariant

\* The steps that take a stream or leave it.
LEMMA ReplayStreams ==
    ASSUME TypeOK, ReplayInvariant, NEW w \in Workers, NEW s \in Streams,
           Accept(w, s) \/ AcceptLost(w, s) \/ ReadFails(w, s) \/ Respond(w, s)
    PROVE  ReplayInvariant'
<1> USE DEF workerVars, chainVars
<1>1. /\ UNCHANGED <<consumed, held, call>>
      /\ \A v \in Workers : v # w => pc'[v] = pc[v] /\ sid'[v] = sid[v]
      /\ \A t \in Streams : /\ t # s => stream'[t] = stream[t]
                            /\ stream'[t].msg = stream[t].msg
      /\ held[w] = {}
  BY DEF Accept, AcceptLost, ReadFails, Respond, At, TypeOK, StreamRecord,
         ReplayInvariant, KeysHeld
<1>2. CASE Accept(w, s)
  <2>1. /\ sid'[w] = {s} /\ pc'[w] = "read"
        /\ stream[s].st = "queued" /\ stream'[s].st = "accepted"
    BY <1>2 DEF Accept, TypeOK, StreamRecord
  <2>2. \A v \in Workers : sid[v] # {s}
    BY <2>1 DEF ReplayInvariant, OneHandler
  <2>3. OneHandler'
    BY <1>1, <2>1, <2>2 DEF ReplayInvariant, OneHandler
  <2>4. KeysHeld'
    BY <1>1, <2>1 DEF ReplayInvariant, KeysHeld
  <2>5. OneClaimPerKey'
    BY <1>1 DEF ReplayInvariant, OneClaimPerKey
  <2> QED BY <2>3, <2>4, <2>5 DEF ReplayInvariant
<1>3. CASE AcceptLost(w, s)
  <2>1. /\ UNCHANGED <<sid, pc>>
        /\ stream[s].st = "queued" /\ stream'[s].st = "abandoned"
    BY <1>3 DEF AcceptLost, TypeOK, StreamRecord
  <2>2. OneHandler'
    BY <1>1, <2>1 DEF ReplayInvariant, OneHandler
  <2>3. KeysHeld'
    BY <1>1, <2>1 DEF ReplayInvariant, KeysHeld
  <2>4. OneClaimPerKey'
    BY <1>1, <2>1 DEF ReplayInvariant, OneClaimPerKey
  <2> QED BY <2>2, <2>3, <2>4 DEF ReplayInvariant
<1>4. CASE ReadFails(w, s) \/ Respond(w, s)
  <2>1. /\ sid[w] = {s} /\ sid'[w] = {} /\ pc'[w] = "accept"
        /\ stream'[s].st \in {"abandoned", "released"}
    BY <1>4 DEF ReadFails, Respond, At, TypeOK, StreamRecord
  <2>2. OneHandler'
    BY <1>1, <2>1 DEF ReplayInvariant, OneHandler
  <2>3. KeysHeld'
    BY <1>1, <2>1 DEF ReplayInvariant, KeysHeld
  <2>4. OneClaimPerKey'
    BY <1>1, <2>1 DEF ReplayInvariant, OneClaimPerKey
  <2> QED BY <2>2, <2>3, <2>4 DEF ReplayInvariant
<1> QED BY <1>2, <1>3, <1>4

\* A reservation is rolled back when no registration claims its key.
LEMMA ReplayRollback ==
    ASSUME TypeOK, ReplayInvariant, NEW w \in Workers, NEW s \in Streams,
           DispatchFails(w, s) \/ RegisterFails(w, s)
    PROVE  ReplayInvariant'
<1>1. /\ UNCHANGED <<sid, stream, call>>
      /\ consumed' = consumed \ held[w]
      /\ sid[w] = {s} /\ pc'[w] = "respond" /\ held'[w] = {}
      /\ \A v \in Workers : v # w => pc'[v] = pc[v] /\ held'[v] = held[v]
  BY DEF DispatchFails, RegisterFails, NotSubmitted, Answer, At, TypeOK, chainVars
<1>2. call[s].st \notin Live
  BY DEF DispatchFails, RegisterFails, At, ReplayInvariant, OneHandler, Live, Submitted
<1>3. OneHandler'
  BY <1>1 DEF ReplayInvariant, OneHandler
<1>4. KeysHeld'
  BY <1>1 DEF ReplayInvariant, KeysHeld
<1>5. OneClaimPerKey'
  <2>1. \A t \in Streams : \A cred \in call[t].by :
           call[t].st \in Live => KeyOf(cred) \notin held[w]
    BY <1>1, <1>2 DEF ReplayInvariant, OneClaimPerKey
  <2> QED BY <1>1, <2>1 DEF ReplayInvariant, OneClaimPerKey
<1> QED BY <1>3, <1>4, <1>5 DEF ReplayInvariant

\* A key is reserved when it is in no one's hands and no registration claims it.
LEMMA ReplayReserve ==
    ASSUME TypeOK, ReplayInvariant, NEW w \in Workers, NEW s \in Streams,
           NEW m \in Requests, Reserve(w, s, m)
    PROVE  ReplayInvariant'
<1>1. PICK cred \in CredentialsOf(m) :
         /\ KeyOf(cred) \notin consumed
         /\ consumed' = consumed \cup {KeyOf(cred)}
         /\ held' = [held EXCEPT ![w] = {KeyOf(cred)}]
  BY DEF Reserve
<1>2. /\ UNCHANGED <<sid, stream, call>>
      /\ sid[w] = {s} /\ stream[s].msg = {m} /\ pc[w] = "verify" /\ pc'[w] = "register"
      /\ \A v \in Workers : v # w => pc'[v] = pc[v] /\ held'[v] = held[v]
      /\ held'[w] = {KeyOf(cred)}
  BY <1>1 DEF Reserve, At, TypeOK, chainVars
<1>3. \A other \in CredentialsOf(m) : other = cred
  BY CredentialType, OptionSingle
<1>4. OneHandler'
  BY <1>2 DEF ReplayInvariant, OneHandler
<1>5. KeysHeld'
  <2>1. \A v \in Workers : KeyOf(cred) \notin held[v]
    BY <1>1 DEF ReplayInvariant, KeysHeld
  <2> QED BY <1>1, <1>2, <1>3, <2>1 DEF ReplayInvariant, KeysHeld
<1>6. OneClaimPerKey'
  BY <1>1, <1>2 DEF ReplayInvariant, OneClaimPerKey
<1> QED BY <1>4, <1>5, <1>6 DEF ReplayInvariant

\* The call a worker makes claims the key it holds.
LEMMA ReplayRegister ==
    ASSUME TypeOK, ReplayInvariant, NEW w \in Workers, NEW s \in Streams,
           NEW m \in Requests, NEW c \in Configs, StartRegister(w, s, m, c)
    PROVE  ReplayInvariant'
<1>1. /\ UNCHANGED <<consumed, sid, stream, held>>
      /\ sid[w] = {s} /\ stream[s].msg = {m} /\ pc[w] = "register" /\ pc'[w] = "registering"
      /\ \A v \in Workers : v # w => pc'[v] = pc[v]
      /\ \A t \in Streams : t # s => call'[t] = call[t]
      /\ call'[s].st = "sent"
      /\ call'[s].by = IF held[w] = {} THEN {} ELSE CredentialsOf(m)
  BY DEF StartRegister, At, TypeOK
<1>2. \A cred \in call'[s].by : KeyOf(cred) \in held[w] /\ KeyOf(cred) \in consumed
  BY <1>1 DEF ReplayInvariant, KeysHeld
<1>3. \A a, b \in call'[s].by : a = b
  BY <1>1, CredentialType, OptionSingle
<1>4. call[s].st = "none" /\ call[s].st \notin Live
  BY <1>1 DEF ReplayInvariant, OneHandler, Live, Submitted
<1>5. OneHandler'
  BY <1>1 DEF ReplayInvariant, OneHandler
<1>6. KeysHeld'
  BY <1>1 DEF ReplayInvariant, KeysHeld
<1>7. \A t \in Streams : \A other \in call[t].by :
         call[t].st \in Live => KeyOf(other) \notin held[w]
  BY <1>1, <1>4 DEF ReplayInvariant, OneClaimPerKey
<1>8. OneClaimPerKey'
  <2>1. \A v \in Workers : \A cred \in call'[s].by : KeyOf(cred) \in held[v] => v = w
    BY <1>2 DEF ReplayInvariant, KeysHeld
  <2> QED BY <1>1, <1>2, <1>7, <2>1 DEF ReplayInvariant, OneClaimPerKey
<1> QED BY <1>5, <1>6, <1>8 DEF ReplayInvariant

\* The steps of the worker keep ReplayInvariant.
LEMMA ReplayWorker ==
    ASSUME TypeOK, ReplayInvariant, Undisturbed, NEW w \in Workers, WorkerStep(w)
    PROVE  ReplayInvariant'
<1> USE DEF TypeOK, At, serveVars, workerVars, chainVars
<1>1. ASSUME NEW s \in Streams, Refuse(w, s) \/ VerifyRefuses(w, s) PROVE ReplayInvariant'
  <2>1. held[w] = {}
    BY <1>1 DEF Refuse, VerifyRefuses, ReplayInvariant, KeysHeld
  <2> QED BY <1>1, <2>1, ReplayMoves DEF Refuse, VerifyRefuses, Answer
<1>2. ASSUME NEW s \in Streams, RegisterReply(w, s) \/ ConfirmTimeout(w, s)
      PROVE  ReplayInvariant'
  BY <1>2, ReplayMoves DEF RegisterReply, ConfirmTimeout, Settle
<1>3. ASSUME NEW s \in Streams, PersistSkipped(w, s) PROVE ReplayInvariant'
  BY <1>3, ReplayMoves DEF PersistSkipped
<1>4. ASSUME NEW s \in Streams, NEW m \in Requests,
             VerifyWithoutNullifier(w, s, m) \/ RefuseMalformed(w, s, m) \/ RefuseUsed(w, s, m)
      PROVE  ReplayInvariant'
  <2>1. held[w] = {} /\ pc[w] = "verify"
    BY <1>4 DEF VerifyWithoutNullifier, RefuseMalformed, RefuseUsed, ReplayInvariant, KeysHeld
  <2> QED BY <1>4, <2>1, ReplayMoves DEF VerifyWithoutNullifier, RefuseMalformed, RefuseUsed, Answer
<1>5. ASSUME NEW s \in Streams, NEW m \in Requests, NEW c \in Configs, TakeConfig(w, s, c, m)
      PROVE  ReplayInvariant'
  <2>1. held[w] = {} /\ pc[w] = "read"
    BY <1>5 DEF TakeConfig, ReplayInvariant, KeysHeld
  <2> QED BY <1>5, <2>1, ReplayMoves DEF TakeConfig
<1>6. ASSUME NEW s \in Streams, NEW m \in Requests, NEW c \in Configs, Confirm(w, s, m, c)
      PROVE  ReplayInvariant'
  BY <1>6, ReplayMoves DEF Confirm, Settle
<1>7. ASSUME NEW s \in Streams, NEW c \in Configs, NEW p \in Paths,
             PersistNewline(w, s, c, p) \/ \E key \in held[w] : Persist(w, s, c, p, key)
      PROVE  ReplayInvariant'
  BY <1>7, ReplayMoves DEF PersistNewline, Persist
<1>8. \A s \in Streams : ~ RegisterTimeout(w, s)
  BY DEF RegisterTimeout, Undisturbed
<1> QED
  BY <1>1, <1>2, <1>3, <1>4, <1>5, <1>6, <1>7, <1>8, ReplayStreams, ReplayRollback,
     ReplayReserve, ReplayRegister DEF WorkerStep

\* ReplayInvariant holds at first.
LEMMA ReplayInit == Init => ReplayInvariant
<1> SUFFICES ASSUME Init PROVE ReplayInvariant
  OBVIOUS
<1>1. OneHandler
  BY DEF Init, OneHandler, NoCall
<1>2. KeysHeld
  BY DEF Init, KeysHeld
<1>3. OneClaimPerKey
  BY DEF Init, OneClaimPerKey, NoCall, Live, Submitted
<1> QED BY <1>1, <1>2, <1>3 DEF ReplayInvariant

\* Without a disturbance, every step keeps ReplayInvariant.
LEMMA ReplayStep ==
    ASSUME Undisturbed
    PROVE  TypeOK /\ ReplayInvariant /\ [Next]_vars => ReplayInvariant'
<1> SUFFICES ASSUME TypeOK, ReplayInvariant, [Next]_vars PROVE ReplayInvariant'
  OBVIOUS
<1>1. CASE UNCHANGED vars
  BY <1>1 DEF vars, serveVars, workerVars, chainVars, storeVars, ReplayInvariant, OneHandler,
              KeysHeld, OneClaimPerKey
<1>2. ~ Crash
  BY DEF Crash, Undisturbed
<1> QED BY <1>1, <1>2, ReplayServe, ReplayWorker, ReplayChain, ReplayClient DEF Next, ServerStep

\* The invariant behind the replay protection of handle_request: one handler per stream,
\* held keys are consumed and held once, and a key that a live call claims is consumed,
\* claimed by that call only and held by nobody but its handler.
THEOREM ReplayProtected ==
    ASSUME Undisturbed
    PROVE  Spec => []ReplayInvariant
BY InitType, NextType, ReplayInit, ReplayStep, PTL DEF Spec

\* As long as no reply misses its time limit and the process does not die, the
\* consumed set is sound for any number of workers, streams, configurations and
\* authentication types: a credential whose registration may have reached the
\* chain stays spent, and no credential pays for two memberships.
THEOREM CredentialSpentOnce ==
    ASSUME Undisturbed
    PROVE  Spec => [](SpentStaysSpent /\ OneMembershipPerCredential)
<1>1. ReplayInvariant => SpentStaysSpent
  BY DEF ReplayInvariant, OneClaimPerKey, SpentStaysSpent
<1>2. TypeOK /\ ReplayInvariant => OneMembershipPerCredential
  <2> SUFFICES ASSUME ReplayInvariant, NEW s \in Streams, NEW t \in Streams,
                      call[s].st = "landed", call[t].st = "landed",
                      call[s].by # {}, call[s].by = call[t].by
               PROVE  s = t
    BY DEF OneMembershipPerCredential
  <2>1. PICK cred : cred \in call[s].by
    OBVIOUS
  <2>2. call[s].st \in Live /\ call[t].st \in Live
    BY DEF Live, Submitted
  <2> QED BY <2>1, <2>2 DEF ReplayInvariant, OneClaimPerKey
<1> QED BY <1>1, <1>2, TypeCorrect, ReplayProtected, PTL

-----------------------------------------------------------------------------
(***************************************************************************)
(* One registration at a time                                              *)
(***************************************************************************)

\* The steps of the worker keep SentIsAwaited.
LEMMA AwaitedWorker ==
    ASSUME TypeOK, SentIsAwaited, Undisturbed, NEW w \in Workers, WorkerStep(w)
    PROVE  SentIsAwaited'
<1> USE DEF TypeOK, At, workerVars, chainVars
<1> DEFINE Kept == /\ call' = call
                   /\ \A v \in Workers : v # w => pc'[v] = pc[v] /\ sid'[v] = sid[v]
                   /\ \A s \in Streams : sid[w] = {s} /\ pc[w] = "registering" => call[s].st # "sent"
<1>0. Kept => SentIsAwaited'
  BY DEF SentIsAwaited
<1>1. ASSUME NEW s \in Streams,
             Accept(w, s) \/ AcceptLost(w, s) \/ ReadFails(w, s) \/ Refuse(w, s) \/ VerifyRefuses(w, s)
      PROVE  Kept
  BY <1>1 DEF Accept, AcceptLost, ReadFails, Refuse, VerifyRefuses, Answer
<1>2. ASSUME NEW s \in Streams,
             \/ DispatchFails(w, s) \/ RegisterFails(w, s) \/ RegisterReply(w, s)
             \/ ConfirmTimeout(w, s) \/ PersistSkipped(w, s) \/ Respond(w, s)
      PROVE  Kept
  BY <1>2 DEF DispatchFails, RegisterFails, NotSubmitted, Answer, RegisterReply, Submitted,
              ConfirmTimeout, Settle, PersistSkipped, Respond
<1>3. ASSUME NEW s \in Streams, NEW m \in Requests,
             \/ VerifyWithoutNullifier(w, s, m) \/ RefuseMalformed(w, s, m)
             \/ RefuseUsed(w, s, m) \/ Reserve(w, s, m)
      PROVE  Kept
  BY <1>3 DEF VerifyWithoutNullifier, RefuseMalformed, RefuseUsed, Reserve, Answer
<1>4. ASSUME NEW s \in Streams, NEW m \in Requests, NEW c \in Configs,
             TakeConfig(w, s, c, m) \/ Confirm(w, s, m, c)
      PROVE  Kept
  BY <1>4 DEF TakeConfig, Confirm, Settle
<1>5. ASSUME NEW s \in Streams, NEW m \in Requests, NEW c \in Configs, StartRegister(w, s, m, c)
      PROVE  SentIsAwaited'
  <2>1. /\ sid' = sid /\ sid[w] = {s} /\ pc[w] = "register" /\ pc'[w] = "registering"
        /\ \A v \in Workers : v # w => pc'[v] = pc[v]
        /\ \A t \in Streams : t # s => call'[t] = call[t]
    BY <1>5 DEF StartRegister
  <2> QED BY <2>1 DEF SentIsAwaited
<1>6. ASSUME NEW s \in Streams, NEW c \in Configs, NEW p \in Paths,
             PersistNewline(w, s, c, p) \/ \E key \in held[w] : Persist(w, s, c, p, key)
      PROVE  Kept
  BY <1>6 DEF PersistNewline, Persist
<1>7. \A s \in Streams : ~ RegisterTimeout(w, s)
  BY DEF RegisterTimeout, Undisturbed
<1> HIDE DEF Kept
<1> QED BY <1>0, <1>1, <1>2, <1>3, <1>4, <1>5, <1>6, <1>7 DEF WorkerStep

\* Without a disturbance, every step keeps SentIsAwaited.
LEMMA AwaitedStep ==
    ASSUME Undisturbed
    PROVE  TypeOK /\ SentIsAwaited /\ [Next]_vars => SentIsAwaited'
<1> SUFFICES ASSUME TypeOK, SentIsAwaited, [Next]_vars PROVE SentIsAwaited'
  OBVIOUS
<1> USE DEF TypeOK, workerVars, chainVars
<1>1. ASSUME NEW k \in Callers, ServeStep(k) PROVE SentIsAwaited'
  <2>1. UNCHANGED <<sid, call>> /\ \A w \in Workers : pc'[w] = pc[w] \/ pc[w] = "off"
    BY <1>1 DEF ServeStep, ServeMerge, ServePublish, ServeSwap, MountFails, MountOk
  <2> QED BY <2>1 DEF SentIsAwaited
<1>2. CASE ChainStep
  <2>1. UNCHANGED <<pc, sid>>
    BY <1>2 DEF ChainStep, LezRejects, LezAccepts, Lands
  <2>2. \A s \in Streams : call'[s].st = "sent" => call[s].st = "sent"
    <3>1. PICK t \in Streams :
             \/ LezRejects(t)
             \/ \E a \in Accounts : LezAccepts(t, a)
             \/ \E a \in Accounts, m \in Requests, idc \in Commitments : Lands(t, a, m, idc)
      BY <1>2 DEF ChainStep
    <3>2. \E st \in {"rejected", "moot", "pending", "landed", "void"} :
             call' = [call EXCEPT ![t].st = st]
      BY <3>1 DEF LezRejects, LezAccepts, Lands
    <3> QED BY <3>2 DEF CallRecord
  <2> QED BY <2>1, <2>2 DEF SentIsAwaited
<1>3. CASE ClientStep \/ UNCHANGED vars
  BY <1>3 DEF ClientStep, ClientOpens, vars, SentIsAwaited
<1>4. ~ Crash
  BY DEF Crash, Undisturbed
<1> QED BY <1>1, <1>2, <1>3, <1>4, AwaitedWorker DEF Next, ServerStep

\* While no reply misses its time limit and the process lives, the worker makes a
\* register_member call only when the module has decided the one before.
THEOREM RegistrationsInOrder ==
    ASSUME Undisturbed
    PROVE  Spec => []OneRegistrationInFlight
<1>1. Init => SentIsAwaited /\ OneLicence
  BY DEF Init, SentIsAwaited, NoCall, OneLicence, AtMostOneWorker
<1>2. SentIsAwaited /\ OneLicence => OneRegistrationInFlight
  <2> SUFFICES ASSUME SentIsAwaited, OneLicence, NEW s \in Streams, NEW t \in Streams,
                      call[s].st = "sent", call[t].st = "sent"
               PROVE  s = t
    BY DEF OneRegistrationInFlight
  <2>1. PICK v \in Workers : pc[v] = "registering" /\ sid[v] = {s}
    BY DEF SentIsAwaited
  <2>2. PICK w \in Workers : pc[w] = "registering" /\ sid[w] = {t}
    BY DEF SentIsAwaited
  <2>3. v = w
    BY <2>1, <2>2 DEF OneLicence, AtMostOneWorker
  <2> QED BY <2>1, <2>2, <2>3
<1> QED BY <1>1, <1>2, InitType, NextType, LicenceStep, AwaitedStep, PTL DEF Spec

-----------------------------------------------------------------------------
(***************************************************************************)
(* The refinement                                                          *)
(***************************************************************************)

\* Which pairs have been paid.
LEMMA PaidPairs ==
    \A k, s : <<k, s>> \in PaidKeys <=>
       s \in Streams /\ call[s].st = "landed" /\ \E cred \in call[s].by : k = KeyOf(cred)
  BY DEF PaidKeys

\* A step that changes neither the keys nor which registrations landed.
LEMMA LedgerQuiet ==
    ASSUME consumed' = consumed, held' = held,
           \A t \in Streams : /\ (call'[t].st = "landed") <=> (call[t].st = "landed")
                              /\ call[t].st = "landed" => call'[t].by = call[t].by
    PROVE  UNCHANGED Ledger!ledger
<1>1. ReservedKeys' = ReservedKeys /\ SpentKeys' = SpentKeys
  BY DEF ReservedKeys, SpentKeys
<1>2. {t \in Streams : call[t].st = "landed"}' = {t \in Streams : call[t].st = "landed"}
  OBVIOUS
<1>3. PaidKeys' = PaidKeys
  BY <1>2 DEF PaidKeys
<1> QED BY <1>1, <1>3 DEF Ledger!ledger

\* serve adds what the store knows.
LEMMA LedgerServe ==
    ASSUME NEW k \in Callers, ServeStep(k)
    PROVE  Ledger!LedgerNext
<1>1. consumed \subseteq consumed' /\ held' = held /\ call' = call
  BY DEF ServeStep, ServeMerge, ServePublish, ServeSwap, MountFails, MountOk, workerVars, chainVars
<1>2. ReservedKeys' = ReservedKeys /\ PaidKeys' = PaidKeys
  BY <1>1 DEF ReservedKeys, PaidKeys
<1>3. SpentKeys \subseteq SpentKeys' /\ \A x \in SpentKeys' : x \notin ReservedKeys
  BY <1>1, <1>2 DEF SpentKeys
<1>4. Ledger!LearnKeys(SpentKeys' \ SpentKeys)
  BY <1>2, <1>3 DEF Ledger!LearnKeys, Ledger!IsFree
<1> QED BY <1>4 DEF Ledger!LedgerNext

\* Keys under the hands of one worker w that lets go of what it holds.
LEMMA LetGo ==
    ASSUME TypeOK, ReplayInvariant, NEW w \in Workers,
           held' = [held EXCEPT ![w] = {}]
    PROVE  ReservedKeys' = ReservedKeys \ held[w]
<1>1. \A v \in Workers : v # w => held[v] \cap held[w] = {} /\ held'[v] = held[v]
  BY DEF ReplayInvariant, KeysHeld, TypeOK
<1>2. held'[w] = {}
  BY DEF TypeOK
<1> QED BY <1>1, <1>2 DEF ReservedKeys

\* A reservation is a step of the ledger.
LEMMA LedgerReserve ==
    ASSUME TypeOK, ReplayInvariant, NEW w \in Workers, NEW s \in Streams,
           NEW m \in Requests, Reserve(w, s, m)
    PROVE  Ledger!LedgerNext
<1>1. PICK cred \in CredentialsOf(m) :
         /\ KeyOf(cred) \notin consumed
         /\ consumed' = consumed \cup {KeyOf(cred)}
         /\ held' = [held EXCEPT ![w] = {KeyOf(cred)}]
  BY DEF Reserve
<1> DEFINE k == KeyOf(cred)
<1>2. held[w] = {} /\ call' = call
  BY DEF Reserve, At, ReplayInvariant, KeysHeld, chainVars
<1>3. held'[w] = {k} /\ \A v \in Workers : v # w => held'[v] = held[v]
  BY <1>1 DEF TypeOK
<1> HIDE DEF k
<1>4. ReservedKeys' = ReservedKeys \cup {k}
  BY <1>2, <1>3 DEF ReservedKeys
<1>5. k \notin consumed /\ consumed' = consumed \cup {k}
  BY <1>1 DEF k
<1>6. ReservedKeys \subseteq consumed
  BY DEF ReservedKeys, ReplayInvariant, KeysHeld
<1>7. SpentKeys' = SpentKeys
  BY <1>4, <1>5 DEF SpentKeys
<1>8. PaidKeys' = PaidKeys
  BY <1>2 DEF PaidKeys
<1>9. Ledger!ReserveKey(k) /\ k \in ReservedKeys'
  BY <1>4, <1>5, <1>6, <1>7, <1>8 DEF Ledger!ReserveKey, Ledger!IsFree, SpentKeys
<1> QED BY <1>9 DEF Ledger!LedgerNext

\* A reservation is given back only if its registration bought nothing.
LEMMA LedgerRelease ==
    ASSUME TypeOK, ReplayInvariant, NEW w \in Workers, NEW s \in Streams,
           DispatchFails(w, s) \/ RegisterFails(w, s)
    PROVE  Ledger!LedgerNext \/ UNCHANGED Ledger!ledger
<1>1. /\ consumed' = consumed \ held[w] /\ held' = [held EXCEPT ![w] = {}]
      /\ call' = call /\ sid[w] = {s}
      /\ call[s].st # "landed"
  BY DEF DispatchFails, RegisterFails, NotSubmitted, At, chainVars, ReplayInvariant, OneHandler
<1>2. CASE held[w] = {}
  <2>1. consumed' = consumed /\ held' = held
    BY <1>1, <1>2 DEF TypeOK
  <2> QED BY <1>1, <2>1, LedgerQuiet
<1>3. ASSUME NEW k \in held[w] PROVE Ledger!LedgerNext
  <2>1. held[w] = {k}
    BY OptionSingle DEF TypeOK
  <2>2. ReservedKeys' = ReservedKeys \ {k} /\ k \in ReservedKeys
    BY <1>1, <2>1, LetGo DEF ReservedKeys
  <2>3. SpentKeys' = SpentKeys
    BY <1>1, <2>1, <2>2 DEF SpentKeys
  <2>4. PaidKeys' = PaidKeys
    BY <1>1 DEF PaidKeys
  <2>5. \A t \in Streams : <<k, t>> \notin PaidKeys
    <3> SUFFICES ASSUME NEW t \in Streams, <<k, t>> \in PaidKeys PROVE FALSE
      OBVIOUS
    <3>1. call[t].st = "landed" /\ \E cred \in call[t].by : k = KeyOf(cred)
      BY PaidPairs
    <3>2. sid[w] = {t}
      BY <2>1, <3>1 DEF ReplayInvariant, OneClaimPerKey, Live, Submitted
    <3> QED BY <1>1, <3>1, <3>2
  <2>6. Ledger!ReleaseKey(k)
    BY <2>2, <2>3, <2>4, <2>5 DEF Ledger!ReleaseKey, Ledger!HasPaid
  <2> QED BY <2>2, <2>6 DEF Ledger!LedgerNext
<1> QED BY <1>2, <1>3

\* A credential whose registration was settled is spent, recorded or not.
LEMMA LedgerSpend ==
    ASSUME TypeOK, ReplayInvariant, NEW w \in Workers,
           consumed' = consumed, call' = call, held' = [held EXCEPT ![w] = {}]
    PROVE  Ledger!LedgerNext \/ UNCHANGED Ledger!ledger
<1>1. CASE held[w] = {}
  <2>1. held' = held
    BY <1>1 DEF TypeOK
  <2> QED BY <2>1, LedgerQuiet
<1>2. ASSUME NEW k \in held[w] PROVE Ledger!LedgerNext
  <2>1. held[w] = {k} /\ k \in consumed
    BY OptionSingle DEF TypeOK, ReplayInvariant, KeysHeld
  <2>2. ReservedKeys' = ReservedKeys \ {k} /\ k \in ReservedKeys
    BY <2>1, LetGo DEF ReservedKeys
  <2>3. SpentKeys' = SpentKeys \cup {k}
    BY <2>1, <2>2 DEF SpentKeys
  <2>4. PaidKeys' = PaidKeys
    BY DEF PaidKeys
  <2>5. Ledger!SpendKey(k)
    BY <2>2, <2>3, <2>4 DEF Ledger!SpendKey
  <2> QED BY <2>2, <2>5 DEF Ledger!LedgerNext
<1> QED BY <1>1, <1>2

\* A registration that lands buys one membership with a key that is not free.
LEMMA LedgerBuy ==
    ASSUME TypeOK, ReplayInvariant, NEW s \in Streams,
           call[s].st = "pending", call' = [call EXCEPT ![s].st = "landed"],
           consumed' = consumed, held' = held
    PROVE  Ledger!LedgerNext \/ UNCHANGED Ledger!ledger
<1>1. /\ call'[s].st = "landed" /\ call'[s].by = call[s].by
      /\ \A t \in Streams : t # s => call'[t] = call[t]
  BY DEF TypeOK, CallRecord
<1>2. ReservedKeys' = ReservedKeys /\ SpentKeys' = SpentKeys
  BY DEF ReservedKeys, SpentKeys
<1>3. {t \in Streams : call[t].st = "landed"}' = {t \in Streams : call[t].st = "landed"} \cup {s}
  BY <1>1
<1>4. PaidKeys' = PaidKeys \cup {<<KeyOf(cred), s>> : cred \in call[s].by}
  <2> DEFINE pay(t) == {<<KeyOf(cred), t>> : cred \in call[t].by}
             L == {t \in Streams : call[t].st = "landed"}
  <2>1. PaidKeys = UNION {pay(t) : t \in L}
    BY DEF PaidKeys
  <2>2. \A t \in Streams : call'[t].by = call[t].by
    BY <1>1
  <2>3. PaidKeys' = UNION {pay(t) : t \in L \cup {s}}
    BY <1>3, <2>2 DEF PaidKeys
  <2> QED BY <2>1, <2>3
<1>5. CASE call[s].by = {}
  BY <1>2, <1>4, <1>5 DEF Ledger!ledger
<1>6. ASSUME NEW cred \in call[s].by PROVE Ledger!LedgerNext
  <2> DEFINE k == KeyOf(cred)
  <2>1. call[s].by = {cred}
    BY OptionSingle DEF TypeOK, CallRecord
  <2>2. PaidKeys' = PaidKeys \cup {<<k, s>>}
    BY <1>4, <2>1
  <2>3. k \in ReservedKeys \cup SpentKeys
    BY <1>6 DEF ReplayInvariant, OneClaimPerKey, Live, Submitted, SpentKeys
  <2>4. \A t \in Streams : <<k, t>> \notin PaidKeys
    <3> SUFFICES ASSUME NEW t \in Streams, <<k, t>> \in PaidKeys PROVE FALSE
      OBVIOUS
    <3>1. call[t].st = "landed" /\ \E other \in call[t].by : KeyOf(other) = k
      BY PaidPairs
    <3>2. t = s
      BY <1>6, <3>1 DEF ReplayInvariant, OneClaimPerKey, Live, Submitted
    <3> QED BY <3>1, <3>2
  <2> HIDE DEF k
  <2>5. Ledger!BuyMembership(k, s)
    BY <1>2, <2>2, <2>4 DEF Ledger!BuyMembership, Ledger!HasPaid
  <2> QED BY <2>3, <2>5 DEF Ledger!LedgerNext
<1> QED BY <1>5, <1>6

\* A step of the chain is a step of the ledger, or leaves it as it is.
LEMMA LedgerChain ==
    ASSUME TypeOK, ReplayInvariant, ChainStep
    PROVE  Ledger!LedgerNext \/ UNCHANGED Ledger!ledger
<1>1. consumed' = consumed /\ held' = held
  BY DEF ChainStep, LezRejects, LezAccepts, Lands, workerVars
<1>2. PICK s \in Streams :
         \/ LezRejects(s)
         \/ \E a \in Accounts : LezAccepts(s, a)
         \/ \E a \in Accounts, m \in Requests, idc \in Commitments : Lands(s, a, m, idc)
  BY DEF ChainStep
<1>3. CASE call[s].st = "pending" /\ call' = [call EXCEPT ![s].st = "landed"]
  BY <1>1, <1>3, LedgerBuy
<1>4. CASE /\ call[s].st \in {"sent", "pending"}
           /\ \E st \in {"rejected", "moot", "pending", "void"} : call' = [call EXCEPT ![s].st = st]
  <2>1. \A t \in Streams : /\ (call'[t].st = "landed") <=> (call[t].st = "landed")
                           /\ call[t].st = "landed" => call'[t].by = call[t].by
    BY <1>4 DEF TypeOK, CallRecord
  <2> QED BY <1>1, <2>1, LedgerQuiet
<1> QED BY <1>2, <1>3, <1>4 DEF LezRejects, LezAccepts, Lands

\* The steps of the worker are steps of the ledger.
LEMMA LedgerWorker ==
    ASSUME TypeOK, ReplayInvariant, Undisturbed, NEW w \in Workers, WorkerStep(w)
    PROVE  Ledger!LedgerNext \/ UNCHANGED Ledger!ledger
<1> USE DEF workerVars, chainVars
<1>1. ASSUME NEW s \in Streams,
             \/ Accept(w, s) \/ AcceptLost(w, s) \/ ReadFails(w, s) \/ Refuse(w, s)
             \/ VerifyRefuses(w, s) \/ RegisterReply(w, s) \/ ConfirmTimeout(w, s) \/ Respond(w, s)
      PROVE  UNCHANGED Ledger!ledger
  <2>1. consumed' = consumed /\ held' = held /\ call' = call
    BY <1>1 DEF Accept, AcceptLost, ReadFails, Refuse, VerifyRefuses, RegisterReply,
                ConfirmTimeout, Respond
  <2> QED BY <2>1, LedgerQuiet
<1>2. ASSUME NEW s \in Streams, NEW m \in Requests,
             VerifyWithoutNullifier(w, s, m) \/ RefuseMalformed(w, s, m) \/ RefuseUsed(w, s, m)
      PROVE  UNCHANGED Ledger!ledger
  <2>1. consumed' = consumed /\ held' = held /\ call' = call
    BY <1>2 DEF VerifyWithoutNullifier, RefuseMalformed, RefuseUsed
  <2> QED BY <2>1, LedgerQuiet
<1>3. ASSUME NEW s \in Streams, NEW m \in Requests, NEW c \in Configs,
             TakeConfig(w, s, c, m) \/ Confirm(w, s, m, c)
      PROVE  UNCHANGED Ledger!ledger
  <2>1. consumed' = consumed /\ held' = held /\ call' = call
    BY <1>3 DEF TakeConfig, Confirm
  <2> QED BY <2>1, LedgerQuiet
<1>4. ASSUME NEW s \in Streams, NEW m \in Requests, NEW c \in Configs, StartRegister(w, s, m, c)
      PROVE  UNCHANGED Ledger!ledger
  <2>1. call[s].st = "none"
    BY <1>4 DEF StartRegister, At, ReplayInvariant, OneHandler
  <2>2. /\ consumed' = consumed /\ held' = held
        /\ call'[s].st = "sent"
        /\ \A t \in Streams : t # s => call'[t] = call[t]
    BY <1>4 DEF StartRegister, TypeOK
  <2>3. \A t \in Streams : /\ (call'[t].st = "landed") <=> (call[t].st = "landed")
                           /\ call[t].st = "landed" => call'[t].by = call[t].by
    BY <2>1, <2>2
  <2> QED BY <2>2, <2>3, LedgerQuiet
<1>5. ASSUME NEW s \in Streams, NEW c \in Configs, NEW p \in Paths, NEW key \in held[w],
             Persist(w, s, c, p, key)
      PROVE  UNCHANGED Ledger!ledger
  <2>1. consumed' = consumed /\ held' = held /\ call' = call
    BY <1>5 DEF Persist
  <2> QED BY <2>1, LedgerQuiet
<1>6. ASSUME NEW s \in Streams, NEW c \in Configs, NEW p \in Paths, PersistNewline(w, s, c, p)
      PROVE  Ledger!LedgerNext \/ UNCHANGED Ledger!ledger
  BY <1>6, LedgerSpend DEF PersistNewline
<1>7. ASSUME NEW s \in Streams, PersistSkipped(w, s)
      PROVE  Ledger!LedgerNext \/ UNCHANGED Ledger!ledger
  BY <1>7, LedgerSpend DEF PersistSkipped
<1>8. \A s \in Streams : ~ RegisterTimeout(w, s)
  BY DEF RegisterTimeout, Undisturbed
<1> QED
  BY <1>1, <1>2, <1>3, <1>4, <1>5, <1>6, <1>7, <1>8, LedgerReserve, LedgerRelease DEF WorkerStep

\* Without a disturbance, every step is a step of the ledger, or leaves it as it is.
LEMMA LedgerStep ==
    ASSUME Undisturbed
    PROVE  TypeOK /\ ReplayInvariant /\ [Next]_vars => [Ledger!LedgerNext]_(Ledger!ledger)
<1> SUFFICES ASSUME TypeOK, ReplayInvariant, [Next]_vars
             PROVE  Ledger!LedgerNext \/ UNCHANGED Ledger!ledger
  OBVIOUS
<1>1. CASE UNCHANGED vars \/ ClientStep
  <2>1. consumed' = consumed /\ held' = held /\ call' = call
    BY <1>1 DEF vars, workerVars, chainVars, ClientStep, ClientOpens
  <2> QED BY <2>1, LedgerQuiet
<1>2. ~ Crash
  BY DEF Crash, Undisturbed
<1> QED BY <1>1, <1>2, LedgerServe, LedgerWorker, LedgerChain DEF Next, ServerStep

\* While no reply misses its time limit and the process lives, the server is an
\* implementation of the abstract ledger of credentials, for any number of
\* threads, streams, stores and configurations and whatever store cannot be read
\* or written: a key is released only if it bought nothing, a spent key stays
\* spent, and a key buys one membership, while it is reserved or spent.
THEOREM ServerImplementsLedger ==
    ASSUME Undisturbed
    PROVE  Spec => ImplementsLedger
<1>1. Init => Ledger!LedgerInit
  BY DEF Init, NoCall, Ledger!LedgerInit, ReservedKeys, SpentKeys, PaidKeys
<1> QED BY <1>1, InitType, NextType, ReplayInit, ReplayStep, LedgerStep, PTL
        DEF Spec, ImplementsLedger, Ledger!LedgerSpec

=============================================================================
