------------------------------ MODULE PdpErrors ------------------------------
(***************************************************************************)
(* The errors a Decider returns (authzen.go) and the status each becomes   *)
(* on the wire (server/handler.go).                                        *)
(***************************************************************************)
EXTENDS Integers

\* What errors.As and errors.Is find in an error: a ValidationError,
\* ErrNotImplemented, both (a ValidationError unwraps to its Cause), neither.
DeciderErrors == {"validation", "notimplemented", "both", "other"}

\* errors.Is(err, authzen.ErrNotImplemented)
IsNotImplemented(err) == err \in {"notimplemented", "both"}

\* Mutant: a missing method is reported before an invalid request.
NotImplementedFirst(err) == CASE IsNotImplemented(err) -> 501
                              [] err = "validation"    -> 400
                              [] OTHER                 -> 500

\* writeError: errors.As a ValidationError, else ErrNotImplemented.
ErrorStatus(err) == IF err \in {"validation", "both"} THEN 400
                    ELSE IF IsNotImplemented(err) THEN 501
                    ELSE 500
=============================================================================
