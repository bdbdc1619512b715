------------------------------ MODULE WriteToken ------------------------------
(***************************************************************************)
(* What a write token promises (the state machine stated above             *)
(* WriteGuardService.confirm): every operation is one indivisible step on  *)
(* the status of the token.                                                *)
(***************************************************************************)
CONSTANTS Requests      \* the requests that confirm or cancel the token

VARIABLES status,       \* of the token; "none" before it exists and once it is gone
          high,         \* a risky write, to be confirmed twice
          granted       \* the requests that were told to execute the write

vars == <<status, high, granted>>

Init == status = "none" /\ high \in BOOLEAN /\ granted = {}

Suspend == status = "none" /\ granted = {} /\ status' = "pending" /\ UNCHANGED <<high, granted>>

First == high /\ status = "pending" /\ status' = "first_confirmed" /\ UNCHANGED <<high, granted>>

Grant(q) ==
    /\ q \notin granted
    /\ status = IF high THEN "first_confirmed" ELSE "pending"
    /\ status' = "confirmed"
    /\ granted' = granted \cup {q}
    /\ UNCHANGED high

\* The write failed: the token can be confirmed again.
Reset == status = "confirmed" /\ status' = "pending" /\ UNCHANGED <<high, granted>>

Cancel == status \in {"pending", "first_confirmed"} /\ status' = "none" /\ UNCHANGED <<high, granted>>

Lapse == status # "none" /\ status' = "none" /\ UNCHANGED <<high, granted>>

Next == Suspend \/ First \/ (\E q \in Requests : Grant(q)) \/ Reset \/ Cancel \/ Lapse

Spec == Init /\ [][Next]_vars
=============================================================================
