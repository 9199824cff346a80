--------------------------- MODULE AccessDecision ---------------------------
(***************************************************************************)
(* What one client.Evaluate call promises, with no doer, no network and no *)
(* handler: the PDP may decide each attempt at the question, before or     *)
(* after the call ends; an attempt may get an answer that says no          *)
(* decision, from whomever; the call ends once, with a permit the PDP gave *)
(* one of its attempts, with a deny that it gave or that is read into such *)
(* a silence, or with an error; and when the call refuses to ask, nothing  *)
(* is ever decided.                                                        *)
(***************************************************************************)
CONSTANTS None,
          Attempts,  \* attempts the call may make
          Verdicts,  \* what the PDP's Decider may make of one
          Permits,   \* the verdicts that permit
          Denies     \* those that deny

VARIABLES verdict,   \* verdict[k]: None, or the PDP's verdict on attempt k
          silent,    \* the attempts that got an answer without a decision
          ending     \* None, then "permit", "deny", "error" or "refused"

decisionVars == <<verdict, silent, ending>>

Init == /\ verdict = [k \in Attempts |-> None]
        /\ silent = {}
        /\ ending = None

\* The PDP decides attempt k, once.
Decide(k) == /\ verdict[k] = None /\ ending # "refused"
             /\ \E v \in Verdicts : verdict' = [verdict EXCEPT ![k] = v]
             /\ UNCHANGED <<silent, ending>>

\* Attempt k is answered, while the call lasts, without a decision.
Silence(k) == /\ ending = None
              /\ silent' = silent \cup {k}
              /\ UNCHANGED <<verdict, ending>>

End(how) == /\ ending = None
            /\ ending' = how
            /\ UNCHANGED <<verdict, silent>>

Permit == End("permit") /\ \E k \in Attempts : verdict[k] \in Permits
Deny   == /\ End("deny")
          /\ silent # {} \/ \E k \in Attempts : verdict[k] \in Denies
Fail   == End("error")
Refuse == End("refused") /\ \A k \in Attempts : verdict[k] = None

Next == \/ \E k \in Attempts : Decide(k) \/ Silence(k)
        \/ Permit \/ Deny \/ Fail \/ Refuse

Spec == Init /\ [][Next]_decisionVars
=============================================================================
