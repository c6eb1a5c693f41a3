------------------------- MODULE MCTextChatSession -------------------------
(* Small instances of TextChatSession for TLC. *)
EXTENDS TextChatSession
=============================================================================
