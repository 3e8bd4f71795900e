---------------------------- MODULE MCChatHistory ----------------------------
(* A small instance of ChatHistory: turns of two requests.                 *)
EXTENDS ChatHistory

CONSTANTS r1, r2

TwoRequests == {r1, r2}
=============================================================================
