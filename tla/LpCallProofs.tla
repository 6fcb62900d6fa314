---------------------------- MODULE LpCallProofs ----------------------------
(***************************************************************************)
(* Proofs about LpCall: who owns the box of an asynchronous call, and who  *)
(* may wait on a channel.                                                  *)
(***************************************************************************)
EXTENDS LpCall, TLAPS

-----------------------------------------------------------------------------
(***************************************************************************)
(* The ownership of a box                                                  *)
(***************************************************************************)

\* A box has one owner at any time.  It does not exist before the call is
\* dispatched; the caller owns it until the runtime takes the call on; then the
\* runtime does, until it calls back.  Whoever owns it last frees it.
BoxOwned(c) ==
    /\ frees[c] = IF box[c] = "freed" THEN 1 ELSE 0
    /\ at[c] \in {"free", "invoke"} => box[c] = "none" /\ runtime[c] = "none"
    /\ at[c] = "dispatch" /\ runtime[c] = "none" => box[c] = "lent"
    /\ at[c] = "wait" => runtime[c] # "none"
    /\ at[c] = "done" /\ box[c] = "lent" => runtime[c] = "armed"
    /\ runtime[c] = "armed" => box[c] = "lent"
    /\ runtime[c] = "fired" => box[c] = "freed"

BoxInvariant == \A c \in Calls : BoxOwned(c)

\* Type correctness holds at first.
LEMMA InitLpType == Init => TypeOK
<1> SUFFICES ASSUME Init PROVE TypeOK
  OBVIOUS
<1>1. chan \in [Calls -> SUBSET BOOLEAN]
  <2>1. {} \in SUBSET BOOLEAN
    OBVIOUS
  <2> QED BY <2>1, Zenon DEF Init
<1>2. owner \in BOOLEAN
  BY DEF Init
<1> QED BY <1>1, <1>2 DEF Init, TypeOK, Threads

\* The steps of one call c leave every other call alone.
LEMMA OtherCalls ==
    ASSUME TypeOK, NEW c \in Calls,
           \/ \E t \in Threads, target \in Targets : \/ CallWithoutClient(c, t, target)
                                                     \/ CallSync(c, t, target)
                                                     \/ CallAsync(c, t, target)
           \/ \E r \in {"ok", "error"} : SyncReturns(c, r)
           \/ Proceed(c)
           \/ RuntimeAccepts(c)
           \/ \E ok \in BOOLEAN : reply_trampoline(c, ok)
    PROVE  \A d \in Calls : d # c =>
              /\ at'[d] = at[d] /\ thread'[d] = thread[d]
              /\ box'[d] = box[d] /\ frees'[d] = frees[d] /\ runtime'[d] = runtime[d]
  BY DEF TypeOK, asyncVars, CallWithoutClient, CallSync, CallAsync, SyncReturns, Proceed,
         DispatchFails, DispatchReturns, Receive, ReceiveTimeout, RuntimeAccepts,
         reply_trampoline, Return, Free

\* Every step keeps type correctness.
LEMMA NextLpType == TypeOK /\ [Next]_vars => TypeOK'
<1> SUFFICES ASSUME TypeOK, [Next]_vars PROVE TypeOK'
  OBVIOUS
<1> USE DEF TypeOK, asyncVars, Return, Free
<1>1. CASE \E opened \in SUBSET Targets : init(opened)
  BY <1>1 DEF init
<1>2. CASE \E t \in Threads, target \in Targets : ensure_client(t, target)
  BY <1>2 DEF ensure_client
<1>3. ASSUME NEW c \in Calls, NEW t \in Threads, NEW target \in Targets,
             CallWithoutClient(c, t, target) \/ CallAsync(c, t, target)
      PROVE  TypeOK'
  <2>1. CASE CallWithoutClient(c, t, target)
    BY <2>1 DEF CallWithoutClient
  <2>2. CASE CallAsync(c, t, target)
    <3>1. clients' \in SUBSET Targets
      BY <2>2 DEF CallAsync, client_ptr
    <3> QED BY <2>2, <3>1 DEF CallAsync
  <2> QED BY <1>3, <2>1, <2>2
<1>4. ASSUME NEW c \in Calls, NEW t \in Threads, NEW target \in Targets, CallSync(c, t, target)
      PROVE  TypeOK'
  <2>1. stack' \in Seq(Calls) /\ clients' \in SUBSET Targets
    BY <1>4 DEF CallSync, client_ptr
  <2> QED BY <1>4, <2>1 DEF CallSync
<1>5. ASSUME NEW c \in Calls, NEW r \in {"ok", "error"}, SyncReturns(c, r) PROVE TypeOK'
  <2>1. stack' \in Seq(Calls)
    BY <1>5 DEF SyncReturns
  <2> QED BY <1>5, <2>1 DEF SyncReturns
<1>6. ASSUME NEW c \in Calls, Proceed(c) PROVE TypeOK'
  <2>1. CASE DispatchFails(c)
    BY <2>1 DEF DispatchFails
  <2>2. CASE DispatchReturns(c)
    BY <2>2 DEF DispatchReturns
  <2>3. CASE Receive(c)
    BY <2>3 DEF Receive
  <2>4. CASE ReceiveTimeout(c)
    BY <2>4 DEF ReceiveTimeout
  <2> QED BY <1>6, <2>1, <2>2, <2>3, <2>4 DEF Proceed
<1>7. ASSUME NEW c \in Calls, RuntimeAccepts(c) PROVE TypeOK'
  BY <1>7 DEF RuntimeAccepts
<1>8. ASSUME NEW c \in Calls, NEW ok \in BOOLEAN, reply_trampoline(c, ok) PROVE TypeOK'
  BY <1>8 DEF reply_trampoline
<1>9. CASE UNCHANGED vars
  BY <1>9 DEF vars
<1> QED BY <1>1, <1>2, <1>3, <1>4, <1>5, <1>6, <1>7, <1>8, <1>9 DEF Next

\* Every step keeps BoxInvariant.
LEMMA BoxStep == TypeOK /\ BoxInvariant /\ [Next]_vars => BoxInvariant'
<1> SUFFICES ASSUME TypeOK, BoxInvariant, [Next]_vars PROVE BoxInvariant'
  OBVIOUS
<1> USE DEF TypeOK, BoxInvariant, asyncVars
<1>1. CASE \/ \E opened \in SUBSET Targets : init(opened)
           \/ \E t \in Threads, target \in Targets : ensure_client(t, target)
           \/ UNCHANGED vars
  BY <1>1 DEF init, ensure_client, vars, BoxOwned
<1>2. ASSUME NEW c \in Calls, BoxOwned(c)',
             \A d \in Calls : d # c =>
                /\ at'[d] = at[d] /\ thread'[d] = thread[d]
                /\ box'[d] = box[d] /\ frees'[d] = frees[d] /\ runtime'[d] = runtime[d]
      PROVE  BoxInvariant'
  BY <1>2 DEF BoxOwned
<1>3. ASSUME NEW c \in Calls, NEW t \in Threads, NEW target \in Targets,
             \/ CallWithoutClient(c, t, target) \/ CallSync(c, t, target)
             \/ CallAsync(c, t, target)
      PROVE  BoxOwned(c)'
  BY <1>3 DEF CallWithoutClient, CallSync, CallAsync, Return, BoxOwned
<1>4. ASSUME NEW c \in Calls, NEW r \in {"ok", "error"}, SyncReturns(c, r)
      PROVE  BoxOwned(c)'
  BY <1>4 DEF SyncReturns, Return, BoxOwned
<1>5. ASSUME NEW c \in Calls, Proceed(c)
      PROVE  BoxOwned(c)'
  <2>1. CASE DispatchFails(c)
    BY <2>1, SMTT(30) DEF DispatchFails, Return, Free, BoxOwned
  <2>2. CASE DispatchReturns(c)
    BY <2>2 DEF DispatchReturns, BoxOwned
  <2>3. CASE Receive(c)
    BY <2>3 DEF Receive, Return, BoxOwned
  <2>4. CASE ReceiveTimeout(c)
    BY <2>4 DEF ReceiveTimeout, Return, BoxOwned
  <2> QED BY <1>5, <2>1, <2>2, <2>3, <2>4 DEF Proceed
<1>6. ASSUME NEW c \in Calls, RuntimeAccepts(c) PROVE BoxOwned(c)'
  BY <1>6 DEF RuntimeAccepts, BoxOwned
<1>7. ASSUME NEW c \in Calls, NEW ok \in BOOLEAN, reply_trampoline(c, ok) PROVE BoxOwned(c)'
  <2>1. /\ runtime[c] = "armed" /\ box[c] = "lent" /\ frees[c] = 0
        /\ at[c] \notin {"free", "invoke"}
    BY <1>7 DEF reply_trampoline, BoxOwned
  <2>2. runtime'[c] = "fired" /\ box'[c] = "freed" /\ frees'[c] = frees[c] + 1 /\ at'[c] = at[c]
    BY <1>7 DEF reply_trampoline, Free
  <2> QED BY <2>1, <2>2 DEF BoxOwned
<1> QED BY <1>1, <1>2, <1>3, <1>4, <1>5, <1>6, <1>7, OtherCalls DEF Next

\* BoxInvariant holds at first.
LEMMA BoxInit == Init => BoxInvariant
  BY DEF Init, BoxInvariant, BoxOwned

\* However callers, callbacks and time limits interleave, the box of an
\* asynchronous call is freed at most once, and a callback that is still to come
\* finds it: the caller that gave up in recv_timeout has left it alone.
THEOREM BoxSafe == Spec => []BoxFreedOnce
<1>1. BoxInvariant => BoxFreedOnce
  BY DEF BoxInvariant, BoxOwned, BoxFreedOnce
<1> QED BY <1>1, InitLpType, NextLpType, BoxInit, BoxStep, PTL DEF Spec

\* After call_json has returned, only a callback that is still to come can have
\* the box: a dispatch that failed has taken it back.
THEOREM BoxKept == Spec => []NoBoxForgotten
<1>1. BoxInvariant => NoBoxForgotten
  BY DEF BoxInvariant, BoxOwned, NoBoxForgotten
<1> QED BY <1>1, InitLpType, NextLpType, BoxInit, BoxStep, PTL DEF Spec

-----------------------------------------------------------------------------
(***************************************************************************)
(* The owner's thread                                                      *)
(***************************************************************************)

\* Before the owner is recorded there is no client, so that no call gets as far
\* as the dispatch, on whatever thread.
ClientsAfterOwner == ~ owner => clients = {}

\* Every step keeps ClientsAfterOwner and OwnerNeverWaits.
LEMMA OwnerStep ==
    TypeOK /\ ClientsAfterOwner /\ OwnerNeverWaits /\ [Next]_vars
       => (ClientsAfterOwner /\ OwnerNeverWaits)'
<1> SUFFICES ASSUME TypeOK, ClientsAfterOwner, OwnerNeverWaits, [Next]_vars
             PROVE  (ClientsAfterOwner /\ OwnerNeverWaits)'
  OBVIOUS
<1> USE DEF TypeOK, ClientsAfterOwner, OwnerNeverWaits, asyncVars, Return
<1>1. CASE \/ \E opened \in SUBSET Targets : init(opened)
           \/ \E t \in Threads, target \in Targets : ensure_client(t, target)
           \/ UNCHANGED vars
  BY <1>1 DEF init, ensure_client, on_owner_thread, vars
<1>2. ASSUME NEW c \in Calls, NEW t \in Threads, NEW target \in Targets,
             CallWithoutClient(c, t, target) \/ CallSync(c, t, target)
      PROVE  (ClientsAfterOwner /\ OwnerNeverWaits)'
  BY <1>2 DEF CallWithoutClient, CallSync, on_owner_thread
<1>3. ASSUME NEW c \in Calls, NEW t \in Threads, NEW target \in Targets,
             CallAsync(c, t, target)
      PROVE  (ClientsAfterOwner /\ OwnerNeverWaits)'
  <2>1. clients' = clients /\ owner' = owner /\ target \in clients
    BY <1>3 DEF CallAsync, client_ptr
  <2>2. t # Owner
    BY <1>3, <2>1 DEF CallAsync, on_owner_thread
  <2> QED BY <1>3, <2>1, <2>2 DEF CallAsync
<1>4. ASSUME NEW c \in Calls, NEW r \in {"ok", "error"}, SyncReturns(c, r)
      PROVE  (ClientsAfterOwner /\ OwnerNeverWaits)'
  BY <1>4 DEF SyncReturns
<1>5. ASSUME NEW c \in Calls, Proceed(c)
      PROVE  (ClientsAfterOwner /\ OwnerNeverWaits)'
  BY <1>5 DEF Proceed, DispatchFails, DispatchReturns, Receive, ReceiveTimeout
<1>6. ASSUME NEW c \in Calls, NEW ok \in BOOLEAN, RuntimeAccepts(c) \/ reply_trampoline(c, ok)
      PROVE  (ClientsAfterOwner /\ OwnerNeverWaits)'
  BY <1>6 DEF RuntimeAccepts, reply_trampoline
<1> QED BY <1>1, <1>2, <1>3, <1>4, <1>5, <1>6 DEF Next

\* The owner never waits on a channel that its own event loop would have to
\* fill: call_json is synchronous on its thread, and a call before init finds no
\* client.
THEOREM OwnerFree == Spec => []OwnerNeverWaits
<1>1. Init => ClientsAfterOwner /\ OwnerNeverWaits
  BY DEF Init, ClientsAfterOwner, OwnerNeverWaits
<1> QED BY <1>1, InitLpType, NextLpType, OwnerStep, PTL DEF Spec

=============================================================================
