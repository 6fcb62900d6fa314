--------------------------- MODULE MCGifterServer ---------------------------
(***************************************************************************)
(* Small instances of GifterServer for TLC.                                *)
(***************************************************************************)
EXTENDS GifterServer, TLC

CONSTANTS k1, k2, w1, w2, s1, s2, s3, i1, i2, p1

Symmetry == Permutations(Callers) \cup Permutations(Workers) \cup Permutations(Streams)

Req(type, nullifier, idc, asked) ==
    [type |-> type, nullifier |-> nullifier, idc |-> idc, rate |-> asked]

Cfg(config, types, path, cap) ==
    [config |-> config, auth_verifiers |-> types, nullifiers_path |-> path,
     max_rate_limit |-> cap]

\* One credential, spelled in two ways, for two commitments; a nullifier that
\* is not one; a verdict without one; a commitment of the wrong length; a type
\* nobody verifies.
OneCredential ==
    {Req(<<"a">>, {<<"a">>}, {i1}, {3}),
     Req(<<"a">>, {<<" ", "A">>}, {i2}, {}),
     Req(<<"a">>, {<<"a", " ", "a">>}, {i1}, {1}),
     Req(<<"a">>, {}, {i1}, {1}),
     Req(<<"a">>, {<<"a">>}, {}, {}),
     Req(<<"b">>, {<<"a">>}, {i1}, {})}

\* A verifying configuration and an open one for another account, whose caps
\* lie on either side of the rates asked for.
TwoConfigs == {Cfg("acct", {<<"a">>}, {p1}, 2), Cfg("open", {}, {}, 1)}

\* Two authentication types that share a nullifier.
TwoTypes ==
    {Req(<<"a">>, {<<"a">>}, {i1}, {}),
     Req(<<"b">>, {<<"a">>}, {i2}, {})}

BothTypes == {Cfg("acct", {<<"a">>, <<"b">>}, {p1}, 2)}

\* One credential and two commitments to spend it on.
Twice ==
    {Req(<<"a">>, {<<"a">>}, {i1}, {}),
     Req(<<"a">>, {<<"a">>}, {i2}, {})}

\* The authentication type as an operator may write it.
TwiceUppercase ==
    {Req(<<"A">>, {<<"a">>}, {i1}, {}),
     Req(<<"A">>, {<<"a">>}, {i2}, {})}

Uppercase == {Cfg("acct", {<<"A">>}, {p1}, 2)}

\* Two types, one of which is the other followed by a separator.
Separator ==
    {Req(<<"a">>, {<<"b", ":", "a">>}, {i1}, {}),
     Req(<<"a", ":", "b">>, {<<"a">>}, {i2}, {})}

SeparatorTypes == {Cfg("acct", {<<"a">>, <<"a", ":", "b">>}, {p1}, 2)}

=============================================================================
