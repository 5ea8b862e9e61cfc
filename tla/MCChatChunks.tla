---------------------------- MODULE MCChatChunks ----------------------------
(* Every text of up to MaxText characters, in windows of a few.            *)
EXTENDS ChatChunks, SequencesExt
CONSTANT MaxText
MCTexts == SeqOf({Space, Letter}, MaxText)
=============================================================================
