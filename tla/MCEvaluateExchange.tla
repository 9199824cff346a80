------------------------- MODULE MCEvaluateExchange -------------------------
(* A small instance of EvaluateExchange: a PDP with one logger.             *)
EXTENDS EvaluateExchange

MCChain == <<"log">>
=============================================================================
