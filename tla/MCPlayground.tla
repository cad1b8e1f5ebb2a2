---------------------------- MODULE MCPlayground ----------------------------
(* Conversations of two requests, streamed or not.                         *)
EXTENDS Playground
=============================================================================
