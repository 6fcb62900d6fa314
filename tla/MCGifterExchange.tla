-------------------------- MODULE MCGifterExchange --------------------------
(***************************************************************************)
(* A small instance of GifterExchange for TLC.                             *)
(***************************************************************************)
EXTENDS GifterExchange, TLC

CONSTANTS k1, w1, s1, s2, i1, i2, p1

Symmetry == Permutations(Streams)

\* An authenticated and an unauthenticated request for one commitment, and the
\* same credential spent on another.
Attempts ==
    {[type |-> <<"a">>, nullifier |-> {<<"a">>}, idc |-> {i1}, rate |-> {1}],
     [type |-> <<"a">>, nullifier |-> {<<"a">>}, idc |-> {i2}, rate |-> {}],
     [type |-> << >>, nullifier |-> {}, idc |-> {i1}, rate |-> {}]}

\* A verifying gifter that may be reconfigured as an open one.
Gifter ==
    {[config |-> "acct", auth_verifiers |-> v, nullifiers_path |-> {p1}, max_rate_limit |-> 2] :
        v \in {{}, {<<"a">>}}}

=============================================================================
