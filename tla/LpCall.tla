------------------------------- MODULE LpCall -------------------------------
(***************************************************************************)
(* The cross-module calls of rln-gifter-module (lp.rs).                    *)
(*                                                                         *)
(* The host's thread, the owner, opens the clients and delivers the        *)
(* replies of asynchronous calls from its event loop.  It calls            *)
(* synchronously itself, and its wait runs the event loop, so calls of the *)
(* owner nest.  Every other thread calls asynchronously: it lends the      *)
(* runtime a box that holds the sending half of a channel, and waits on    *)
(* the channel with a time limit of its own; the callback frees the box.   *)
(*                                                                         *)
(* An optional value is a set with at most one element.                    *)
(***************************************************************************)
EXTENDS Naturals, Sequences

CONSTANTS
    Owner,     \* the host's thread
    Helpers,   \* the other threads: the serve worker
    Targets,   \* the modules calls are made to
    Calls      \* the calls that are made, one after another or side by side

ASSUME OwnerAssumption == Owner \notin Helpers

Threads == {Owner} \cup Helpers

VARIABLES
    owner,     \* OWNER has been recorded
    clients,   \* the targets CLIENTS has a client for
    stack,     \* the owner's synchronous calls, innermost last
    at,        \* where each call is
    thread,    \* the thread that makes it
    box,       \* who has its AsyncReply: nobody yet, the runtime, or freed
    frees,     \* history: how often it was freed
    runtime,   \* external: what the runtime did with the call
    chan,      \* the reply in its channel: {} or {ok}
    result     \* what call_json returned

vars == <<owner, clients, stack, at, thread, box, frees, runtime, chan, result>>
asyncVars == <<box, frees, runtime, chan>>

TypeOK ==
    /\ owner \in BOOLEAN
    /\ clients \in SUBSET Targets
    /\ stack \in Seq(Calls)
    /\ at \in [Calls -> {"free", "invoke", "dispatch", "wait", "done"}]
    /\ thread \in [Calls -> Threads]
    /\ box \in [Calls -> {"none", "lent", "freed"}]
    /\ frees \in [Calls -> Nat]
    /\ runtime \in [Calls -> {"none", "armed", "fired"}]
    /\ chan \in [Calls -> SUBSET BOOLEAN]
    /\ result \in [Calls -> {"none", "ok", "error", "no_client", "undispatched", "timeout"}]

Init ==
    /\ owner = FALSE
    /\ clients = {}
    /\ stack = << >>
    /\ at = [c \in Calls |-> "free"]
    /\ thread = [c \in Calls |-> Owner]
    /\ box = [c \in Calls |-> "none"]
    /\ frees = [c \in Calls |-> 0]
    /\ runtime = [c \in Calls |-> "none"]
    /\ chan = [c \in Calls |-> {}]
    /\ result = [c \in Calls |-> "none"]

-----------------------------------------------------------------------------
on_owner_thread(t) == owner /\ t = Owner

\* The thread can run other code: it is not inside a call, or it is the owner
\* inside a synchronous one, whose wait runs its event loop.
Available(t) ==
    \A c \in Calls : thread[c] = t => at[c] \notin {"dispatch", "wait"}
                                      /\ (at[c] = "invoke" => t = Owner)

\* init, from on_context_ready: record the owner and open the clients of the
\* given targets; some may fail to open.
init(opened) ==
    /\ Available(Owner)
    /\ owner' = TRUE
    /\ clients' = clients \cup opened
    /\ UNCHANGED <<stack, at, thread, asyncVars, result>>

\* ensure_client, from serve: open a client that is missing, on the owner's
\* thread only; anything else changes nothing.
ensure_client(t, target) ==
    /\ Available(t)
    /\ target \notin clients
    /\ on_owner_thread(t)
    /\ clients' = clients \cup {target}
    /\ UNCHANGED <<owner, stack, at, thread, asyncVars, result>>

\* Mutant: a client is opened on whatever thread asks.
ClientAnywhere(t, target) == {clients, clients \cup {target}}

\* What client_ptr finds for the target, after it tried to open it if it may:
\* the clients there are then.
client_ptr(t, target) ==
    {clients} \cup (IF on_owner_thread(t) THEN {clients \cup {target}} ELSE {})

Return(c, r) ==
    /\ at' = [at EXCEPT ![c] = "done"]
    /\ result' = [result EXCEPT ![c] = r]

\* There is no client for the target.
CallWithoutClient(c, t, target) ==
    /\ at[c] = "free"
    /\ Available(t)
    /\ target \notin clients
    /\ thread' = [thread EXCEPT ![c] = t]
    /\ Return(c, "no_client")
    /\ UNCHANGED <<owner, clients, stack, asyncVars>>

\* On the owner's thread: lp_invoke.
CallSync(c, t, target) ==
    /\ at[c] = "free"
    /\ Available(t)
    /\ on_owner_thread(t)
    /\ clients' \in client_ptr(t, target)
    /\ target \in clients'
    /\ thread' = [thread EXCEPT ![c] = t]
    /\ at' = [at EXCEPT ![c] = "invoke"]
    /\ stack' = Append(stack, c)
    /\ UNCHANGED <<owner, asyncVars, result>>

SyncReturns(c, r) ==
    /\ at[c] = "invoke"
    /\ Available(Owner)
    /\ stack[Len(stack)] = c
    /\ stack' = SubSeq(stack, 1, Len(stack) - 1)
    /\ Return(c, r)
    /\ UNCHANGED <<owner, clients, thread, asyncVars>>

\* On any other thread: the box is lent and lp_invoke_async is entered.
CallAsync(c, t, target) ==
    /\ at[c] = "free"
    /\ Available(t)
    /\ ~ on_owner_thread(t)
    /\ clients' \in client_ptr(t, target)
    /\ target \in clients'
    /\ thread' = [thread EXCEPT ![c] = t]
    /\ at' = [at EXCEPT ![c] = "dispatch"]
    /\ box' = [box EXCEPT ![c] = "lent"]
    /\ UNCHANGED <<owner, stack, frees, runtime, chan, result>>

Free(c) ==
    /\ box' = [box EXCEPT ![c] = "freed"]
    /\ frees' = [frees EXCEPT ![c] = @ + 1]

\* Mutant: the box of a call that was not dispatched is not taken back.
DispatchFailsLeaks(c) ==
    /\ at[c] = "dispatch"
    /\ runtime[c] = "none"
    /\ Return(c, "undispatched")
    /\ UNCHANGED <<owner, clients, stack, thread, asyncVars>>

\* The runtime refuses the call: no callback will come, and the caller takes
\* the box back and drops it.
DispatchFails(c) ==
    /\ at[c] = "dispatch"
    /\ runtime[c] = "none"
    /\ Free(c)
    /\ Return(c, "undispatched")
    /\ UNCHANGED <<owner, clients, stack, thread, runtime, chan>>

DispatchReturns(c) ==
    /\ at[c] = "dispatch"
    /\ runtime[c] # "none"
    /\ at' = [at EXCEPT ![c] = "wait"]
    /\ UNCHANGED <<owner, clients, stack, thread, asyncVars, result>>

\* A reply arrives in time.
Receive(c) ==
    /\ at[c] = "wait"
    /\ \E ok \in chan[c] : Return(c, IF ok THEN "ok" ELSE "error")
    /\ UNCHANGED <<owner, clients, stack, thread, asyncVars>>

\* Mutant: a caller that gives up frees the box.
TimeoutFrees(c) ==
    /\ at[c] = "wait"
    /\ chan[c] = {}
    /\ Free(c)
    /\ Return(c, "timeout")
    /\ UNCHANGED <<owner, clients, stack, thread, runtime, chan>>

\* Mutant: recv instead of recv_timeout.
NoTimeout(c) == FALSE

\* recv_timeout gives up; the box stays with the runtime.
ReceiveTimeout(c) ==
    /\ at[c] = "wait"
    /\ chan[c] = {}
    /\ Return(c, "timeout")
    /\ UNCHANGED <<owner, clients, stack, thread, asyncVars>>

\* External: the runtime takes the call on.
RuntimeAccepts(c) ==
    /\ at[c] = "dispatch"
    /\ runtime[c] = "none"
    /\ runtime' = [runtime EXCEPT ![c] = "armed"]
    /\ UNCHANGED <<owner, clients, stack, at, thread, box, frees, chan, result>>

\* The runtime calls back once, from the owner's event loop: the box is freed,
\* and the reply goes to the channel or, if the caller gave up, nowhere.
reply_trampoline(c, ok) ==
    /\ runtime[c] = "armed"
    /\ Available(Owner)
    /\ runtime' = [runtime EXCEPT ![c] = "fired"]
    /\ Free(c)
    /\ chan' = [chan EXCEPT ![c] = IF at[c] = "done" THEN {} ELSE {ok}]
    /\ UNCHANGED <<owner, clients, stack, at, thread, result>>

-----------------------------------------------------------------------------
\* What a thread does with a call it is in.
Proceed(c) ==
    \/ DispatchFails(c)
    \/ DispatchReturns(c)
    \/ Receive(c)
    \/ ReceiveTimeout(c)

Next ==
    \/ \E opened \in SUBSET Targets : init(opened)
    \/ \E t \in Threads, target \in Targets : ensure_client(t, target)
    \/ \E c \in Calls :
          \/ \E t \in Threads, target \in Targets : \/ CallWithoutClient(c, t, target)
                                                    \/ CallSync(c, t, target)
                                                    \/ CallAsync(c, t, target)
          \/ \E r \in {"ok", "error"} : SyncReturns(c, r)
          \/ Proceed(c)
          \/ RuntimeAccepts(c)
          \/ \E ok \in BOOLEAN : reply_trampoline(c, ok)

Spec == Init /\ [][Next]_vars

\* A thread inside lp_invoke_async or recv_timeout gets out of it; the runtime
\* owes nobody a callback.
FairSpec == Spec /\ \A c \in Calls : WF_vars(Proceed(c))

-----------------------------------------------------------------------------
\* The box of a call is freed at most once, by the callback or by the caller
\* whose dispatch failed, and a callback that is still to come finds it there:
\* a caller that times out must leave it alone.
BoxFreedOnce ==
    \A c \in Calls : /\ frees[c] <= 1
                     /\ runtime[c] = "armed" => box[c] = "lent"

\* No box is forgotten: after the call has returned, only a callback that is
\* still to come keeps it.
NoBoxForgotten ==
    \A c \in Calls : at[c] = "done" /\ box[c] = "lent" => runtime[c] = "armed"

\* The owner never waits on a channel that only its own event loop can fill, not
\* even in a call made before on_context_ready has recorded it.
OwnerNeverWaits ==
    \A c \in Calls : at[c] \in {"dispatch", "wait"} => thread[c] # Owner

\* A call of a worker returns, even if the runtime never calls back.
WorkerCallReturns ==
    \A c \in Calls : at[c] \in {"dispatch", "wait"} ~> at[c] = "done"

=============================================================================
