------------------------------ MODULE DueClaim ------------------------------
(***************************************************************************)
(* What the schedulers of the system promise (email_sync.claim_due,         *)
(* job_alerts.claim_due, ats_crawler.claim_due): every time something is    *)
(* due, at most one of the ticks that find it due claims it.                *)
(***************************************************************************)
EXTENDS Naturals

VARIABLES
    due,        \* it is time
    claims      \* claims since it last became due

vars == <<due, claims>>

Init == due = FALSE /\ claims = 0

\* It becomes due, again or for the first time.
FallDue == due' = TRUE /\ claims' = 0

Claim ==
    /\ due
    /\ due' = FALSE
    /\ claims' = claims + 1

\* It is put off, or gone: done meanwhile, switched off, deleted.
PutOff ==
    /\ due' = FALSE
    /\ claims' \in {0, claims}

Next == FallDue \/ Claim \/ PutOff

Spec == Init /\ [][Next]_vars

\* A due account is claimed by one tick, however many see it due, until it
\* falls due again (email_sync.py:410).
ClaimedOnce == claims <= 1 /\ (due => claims = 0)
=============================================================================
