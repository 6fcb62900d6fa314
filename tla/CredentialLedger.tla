-------------------------- MODULE CredentialLedger --------------------------
(***************************************************************************)
(* What the gifter promises about credentials, without threads, streams,   *)
(* stores or calls.  A credential's key is free, reserved or spent.  It is *)
(* reserved while a registration is attempted, it becomes free again only  *)
(* if that registration bought nothing, and a spent key stays spent.  A    *)
(* membership is bought with a key that is not free, and a key buys one.   *)
(***************************************************************************)
CONSTANT Purchases   \* the registrations that may buy a membership

VARIABLES
    reserved,   \* the keys under registration
    spent,      \* the keys that will not be accepted again
    paid        \* which key paid for which purchase

ledger == <<reserved, spent, paid>>

IsFree(k) == k \notin reserved /\ k \notin spent

HasPaid(k) == \E p \in Purchases : <<k, p>> \in paid

LedgerInit ==
    /\ reserved = {}
    /\ spent = {}
    /\ paid = {}

ReserveKey(k) ==
    /\ IsFree(k)
    /\ reserved' = reserved \cup {k}
    /\ UNCHANGED <<spent, paid>>

ReleaseKey(k) ==
    /\ ~ HasPaid(k)
    /\ reserved' = reserved \ {k}
    /\ UNCHANGED <<spent, paid>>

SpendKey(k) ==
    /\ reserved' = reserved \ {k}
    /\ spent' = spent \cup {k}
    /\ UNCHANGED paid

\* Keys that an earlier process spent become known.
LearnKeys(K) ==
    /\ \A k \in K : IsFree(k)
    /\ spent' = spent \cup K
    /\ UNCHANGED <<reserved, paid>>

BuyMembership(k, p) ==
    /\ ~ HasPaid(k)
    /\ paid' = paid \cup {<<k, p>>}
    /\ UNCHANGED <<reserved, spent>>

LedgerNext ==
    \/ \E k \in reserved' : ReserveKey(k)
    \/ \E k \in reserved : ReleaseKey(k) \/ SpendKey(k)
    \/ \E k \in reserved \cup spent, p \in Purchases : BuyMembership(k, p)
    \/ LearnKeys(spent' \ spent)

LedgerSpec == LedgerInit /\ [][LedgerNext]_ledger

=============================================================================
