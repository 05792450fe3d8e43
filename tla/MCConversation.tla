---------------------------- MODULE MCConversation --------------------------
(* One message the user types and one connection test.                      *)
EXTENDS Conversation
=============================================================================
