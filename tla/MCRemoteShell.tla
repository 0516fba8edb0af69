--------------------------- MODULE MCRemoteShell ---------------------------
(***************************************************************************)
(* Small instances of RemoteShell for TLC.                                 *)
(***************************************************************************)
EXTENDS RemoteShell

CONSTANTS e, x, s, l  \* letters

exit       == <<e, x>>
stopServer == <<s>>
ls         == <<l, s>>
exits      == <<e, x, s>>

\* With the empty command, a long one, and one that starts as "exit" does.
FewCommands  == {exit, stopServer, <<>>}
ManyCommands == {exit, stopServer, <<>>, ls, exits}
=============================================================================
