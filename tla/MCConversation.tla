--------------------------- MODULE MCConversation ---------------------------
(***************************************************************************)
(* A turn with up to three tool uses, one of them invalid, and workflows   *)
(* of up to two steps.                                                     *)
(***************************************************************************)
EXTENDS Conversation

CONSTANTS t1, t2, t3

MCToolUses == {t1, t2, t3}
MCInvalid == {t3}
=============================================================================
