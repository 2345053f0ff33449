------------------------------ MODULE MCStream ------------------------------
(***************************************************************************)
(* Blocks of up to two bytes, queues that grow by two cells and a buffer   *)
(* of four: every case of mpt_queue_push and every kind of block is met    *)
(* with two messages of up to four bytes.                                  *)
(***************************************************************************)
EXTENDS Stream

MCByte == {0, 1, 3}

\* short and full blocks, single zeros, pairs, bytes above and below the code
MCPieces == {<<1>>, <<0>>, <<1, 3>>, <<1, 0, 0>>, <<3, 3, 1>>}
=============================================================================
