--------------------------- MODULE ProviderRouting ---------------------------
(***************************************************************************)
(* What the router promises a caller of execute_prompt(): the answer of    *)
(* one configured provider that had not given up on this call, or an error *)
(* once every configured provider has given up.                            *)
(***************************************************************************)
CONSTANTS
    Calls,
    Configured,   \* providers whose health_check() passes
    Pending,
    Error

VARIABLES
    gaveUp,       \* gaveUp[c]: providers that have given up on call c
    result        \* Pending, Error, or the provider that answered

Init ==
    /\ gaveUp = [c \in Calls |-> {}]
    /\ result = [c \in Calls |-> Pending]

GiveUp(c, p) ==
    /\ result[c] = Pending
    /\ p \notin gaveUp[c]
    /\ gaveUp' = [gaveUp EXCEPT ![c] = @ \cup {p}]
    /\ UNCHANGED result

\* The last provider's refusal and the error are one step of the caller's view.
Fail(c) ==
    /\ result[c] = Pending
    /\ gaveUp' = [gaveUp EXCEPT ![c] = Configured]
    /\ \E p \in Configured : gaveUp[c] \cup {p} = Configured
    /\ result' = [result EXCEPT ![c] = Error]

Refuse(c) ==
    /\ Configured = {}
    /\ result[c] = Pending
    /\ result' = [result EXCEPT ![c] = Error]
    /\ UNCHANGED gaveUp

Answer(c, p) ==
    /\ result[c] = Pending
    /\ p \in Configured \ gaveUp[c]
    /\ result' = [result EXCEPT ![c] = p]
    /\ UNCHANGED gaveUp

Next ==
    \E c \in Calls :
        \/ Fail(c) \/ Refuse(c)
        \/ \E p \in Configured : GiveUp(c, p) \/ Answer(c, p)

Spec == Init /\ [][Next]_<<gaveUp, result>>
=============================================================================
