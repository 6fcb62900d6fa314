-------------------------- MODULE MCKeycardChannel --------------------------
(***************************************************************************)
(* A small instance of KeycardChannel for TLC: blocks of four bytes, no    *)
(* content, and one that fills a block and ends like a padding.            *)
(***************************************************************************)
EXTENDS KeycardChannel, TLC

MCAnswerTo == << >> :> <<8, 0, 0, 0>> @@ <<8, 0, 0, 0>> :> << >>

=============================================================================
