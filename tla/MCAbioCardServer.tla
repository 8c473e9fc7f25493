-------------------------- MODULE MCAbioCardServer --------------------------
(***************************************************************************)
(* An instance of AbioCardServer: two letters make a command that is        *)
(* answered, one that is not, QU, a line that is no command and lines that  *)
(* are too long. The reply is longer than the response buffer, which is     *)
(* longer than the room in the connection.                                 *)
(***************************************************************************)
EXTENDS AbioCardServer

CONSTANTS first, second, a, q

MCLetters == {a, q}
MCRead == <<a>>
MCWrite == <<a, a>>
MCQuit == <<q>>
MCCommands == {MCRead, MCWrite, MCQuit}
MCReplyLen == [cmd \in MCCommands |-> IF cmd = MCRead THEN 3 ELSE 0]
MCMaxSent == [c \in Clients |-> IF c = first THEN 4 ELSE 1]
=============================================================================
