----------------------------- MODULE MCMailbox -----------------------------
(* Instances of Mailbox for TLC. *)
EXTENDS Mailbox, TLC

CONSTANTS a1, w1, w2, q1, b1, b2

\* Two syncs at once.
Overlap == [processes |-> {w1, w2}, events |-> {"sync", "status"}, messages |-> 1, grants |-> 1,
            faults |-> 0]
\* Beat twice at once, an account that comes and goes.
Beating == [processes |-> {b1, b2, w1}, events |-> {"disconnect"},
            messages |-> 1, grants |-> 2, faults |-> 1]
\* More mail than one sync reads, some of it deleted, and the review inbox.
Review == [processes |-> {b1, w1, q1}, events |-> {"delete"},
           messages |-> 2, grants |-> 1, faults |-> 0]
\* A grant the user withdraws and gives again.
Revoking == [processes |-> {b1, w1}, events |-> {"revoke", "expire"}, messages |-> 1, grants |-> 2,
             faults |-> 0]
MCScenes == {Overlap, Beating, Review, Revoking}
=============================================================================
