----------------------------- MODULE MCAuthFlow -----------------------------
(***************************************************************************)
(* A small instance of AuthFlow for TLC: bytes of four bits, so that, as   *)
(* in a real attestation, the length of the template needs a long form;    *)
(* two cards of two issuers, two wallets and two commitments; and of one   *)
(* CA signature and one wallet signature also the twin with a high s.      *)
(***************************************************************************)
EXTENDS AuthFlow

MCCommitments == {<<1>>, <<2>>}

MCCards ==
    {[ident |-> 4, ca_rs |-> 2, ca_recid |-> 1, issuer |-> 14],
     [ident |-> 4, ca_rs |-> 4, ca_recid |-> 0, issuer |-> 14],
     [ident |-> 5, ca_rs |-> 7, ca_recid |-> 0, issuer |-> 15]}

MCCaSignatures ==
    2 :> [signer |-> 14, digest |-> IdentDigest(4), recid |-> 1, high |-> FALSE] @@
    4 :> [signer |-> 14, digest |-> IdentDigest(4), recid |-> 0, high |-> TRUE] @@
    7 :> [signer |-> 15, digest |-> IdentDigest(5), recid |-> 0, high |-> FALSE]

Challenge(idc, key, high) ==
    [signer |-> key, digest |-> <<"attest", <<idc>>>>, high |-> high]

MCCardSignatures ==
    11 :> Challenge(1, 4, FALSE) @@ 14 :> Challenge(1, 4, TRUE) @@
    15 :> Challenge(2, 4, FALSE) @@ 2 :> Challenge(1, 5, TRUE)

MCEthSignatures ==
    7 :> [signer |-> 4, digest |-> eip191_digest(<<1>>), recid |-> 0, high |-> FALSE] @@
    2 :> [signer |-> 4, digest |-> eip191_digest(<<1>>), recid |-> 1, high |-> TRUE] @@
    11 :> [signer |-> 5, digest |-> eip191_digest(<<2>>), recid |-> 1, high |-> FALSE]

MCKeyHash == 4 :> <<"a", "b">> @@ 5 :> <<"b", "a">> @@ 6 :> <<"b", "b">>

Entry(text) == [is_str |-> TRUE, text |-> text]
NotAString == [is_str |-> FALSE]

Cas(value, trusts, sound) ==
    [auth_type |-> KEYCARD_ATTEST_AUTH_TYPE, value |-> value, trusts |-> trusts, sound |-> sound]
Addresses(value, trusts, sound) ==
    [auth_type |-> ETH_ALLOWLIST_AUTH_TYPE, value |-> value, trusts |-> trusts, sound |-> sound]

Ca(b) == Entry(hex_encode(<<b>>))

MCCas ==
    {Cas({}, {}, FALSE), Cas({<< >>}, {}, FALSE),
     Cas({<<Ca(14)>>}, {14}, TRUE),
     Cas({<<Entry(<<PREFIX>> \o hex_encode(<<15>>)), Ca(14)>>}, {14, 15}, TRUE),
     Cas({<<Ca(14), NotAString>>}, {14}, FALSE),
     Cas({<<Ca(14), Entry(<<1>>)>>}, {14}, FALSE),
     Cas({<<Entry(hex_encode(<<14, 15>>)), Ca(14)>>}, {14}, FALSE)}

MCAddresses ==
    {Addresses({}, {}, FALSE), Addresses({<< >>}, {}, FALSE),
     Addresses({<<Entry(<<"A", "b">>)>>}, {4}, TRUE),
     Addresses({<<Entry(<<"b", "a">>), Entry(<<"a", "b">>)>>}, {4, 5}, TRUE),
     Addresses({<<NotAString, Entry(<<"b", "a">>)>>}, {5}, FALSE)}

MCConfigs == KEYCARD_ATTEST_AUTH_TYPE :> MCCas @@ ETH_ALLOWLIST_AUTH_TYPE :> MCAddresses

=============================================================================
