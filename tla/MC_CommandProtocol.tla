------------------------- MODULE MC_CommandProtocol -------------------------
(* CommandProtocol with lines of every kind: each command, one short of its  *)
(* arguments, a blank line, one too long; the INSERT just fits the buffer.   *)
EXTENDS CommandProtocol

MC_Words == {"INSERT", "GET", "DELETE", "k", "v"}
MC_Lines == {<<"INSERT", "k", "v", "k">>, <<"GET", "k">>, <<"DELETE", "k">>, <<"INSERT", "k">>,
             <<>>, <<"GET", "k", "k", "k", "k">>}
=============================================================================
