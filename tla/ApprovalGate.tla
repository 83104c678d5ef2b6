---------------------------- MODULE ApprovalGate ----------------------------
(***************************************************************************)
(* What the apply engine promises of each run (apply_engine.py:6-33): the   *)
(* user approves versions of a plan as often as the run comes back for      *)
(* review, the employer receives one of them, once, and after that nothing  *)
(* of the run is approved or sent again.                                    *)
(***************************************************************************)
EXTENDS Naturals

CONSTANT Runs

VARIABLES
    approved,   \* for each run, the versions of its plan that were approved
    received,   \* the versions the employer received
    sends,      \* how often the form was sent
    confirmed   \* the page confirmed it

vars == <<approved, received, sends, confirmed>>

Init ==
    /\ approved = [r \in Runs |-> {}]
    /\ received = [r \in Runs |-> {}]
    /\ sends = [r \in Runs |-> 0]
    /\ confirmed = [r \in Runs |-> FALSE]

\* A run that was sent is not put up for approval again.
Approve(r) ==
    /\ sends[r] = 0
    /\ \E v \in approved'[r] : approved' = [approved EXCEPT ![r] = @ \cup {v}]
    /\ UNCHANGED <<received, sends, confirmed>>

Send(r) ==
    /\ sends[r] = 0
    /\ sends' = [sends EXCEPT ![r] = 1]
    /\ \E v \in approved[r] : received' = [received EXCEPT ![r] = {v}]
    /\ UNCHANGED <<approved, confirmed>>

\* What is recorded as submitted was sent.
Confirm(r) ==
    /\ sends[r] = 1
    /\ confirmed' = [confirmed EXCEPT ![r] = TRUE]
    /\ UNCHANGED <<approved, received, sends>>

Next == \E r \in Runs : Approve(r) \/ Send(r) \/ Confirm(r)

Spec == Init /\ [][Next]_vars
=============================================================================
