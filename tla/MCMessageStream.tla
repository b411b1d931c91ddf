--------------------------- MODULE MCMessageStream ---------------------------
(***************************************************************************)
(* MessageStream for TLC: the lengths of the messages.                     *)
(***************************************************************************)
EXTENDS MessageStream

SizeThree == <<2, 1, 3>>
=============================================================================
