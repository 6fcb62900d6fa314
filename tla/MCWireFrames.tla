---------------------------- MODULE MCWireFrames ----------------------------
(***************************************************************************)
(* A small instance of WireFrames for TLC: two-bit digits and seven-bit    *)
(* words, so that, as with seven-bit digits and 64-bit words, a word's     *)
(* last digit has one bit.                                                 *)
(***************************************************************************)
EXTENDS WireFrames

Short == {<< >>, <<1>>, <<7, 0, 2, 5>>}

MCRequestMessages ==
    [request_id : {<< >>, <<2>>}, authentication_type : Short,
     authentication_payload : {<< >>, <<7>>}, identity_commitment : Short,
     rate_limit : {{}} \cup {{r} : r \in {0, 3, 4, 63, 64, WORD - 1}}]

MCSuccesses ==
    [leaf_index : {0, 4, WORD - 1}, merkle_root : {<< >>}, block_number : {0, 64},
     transaction_hash : {<< >>, <<5, 2>>}, config_account_id : {{}, {<<1>>}}]

MCResponseMessages ==
    [request_id : {<< >>, <<2>>}, auth_success : BOOLEAN, error : {{}, {<<3>>}},
     success : {{}} \cup {{s} : s \in MCSuccesses},
     failure : {{}, {[error_message |-> <<6, 6>>]}}]

=============================================================================
