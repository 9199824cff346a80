---------------------------- MODULE MCPdpHandler ----------------------------
(* Small instances of PdpHandler.                                           *)
EXTENDS PdpHandler

\* No option; each order of the echo and an observer; both observers around
\* an echo; two loggers.
MCChains == {<<>>, <<"echo", "log">>, <<"metrics", "echo", "log">>,
             <<"log", "log">>}
=============================================================================
