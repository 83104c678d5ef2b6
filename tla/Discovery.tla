----------------------------- MODULE Discovery -----------------------------
(***************************************************************************)
(* Where jobs come from and what becomes of them: the crawl with the        *)
(* follows on top of it, the alerts, the sources of a search and the        *)
(* scoring of what was found.  Only the crawl and the follows share rows; a *)
(* step is of one of them.                                                  *)
(***************************************************************************)
EXTENDS TargetCompanies, JobAlerts, SourceRun, Scoring

followed == <<fvars, owed, miscounted>>
discoveryvars == <<cvars, followed, avars, svars, gvars>>

DiscoveryInit == Init /\ FInit /\ AlertsInit /\ SInit /\ ScoringInit

DiscoveryNext ==
    \/ CrawlMoves /\ Note /\ UNCHANGED <<avars, svars, gvars>>
    \/ FollowNext /\ Note /\ UNCHANGED <<avars, svars, gvars>>
    \/ AlertsNext /\ UNCHANGED <<cvars, followed, svars, gvars>>
    \/ SNext /\ UNCHANGED <<cvars, followed, avars, gvars>>
    \/ ScoringNext /\ UNCHANGED <<cvars, followed, avars, svars>>

DiscoverySpec == DiscoveryInit /\ [][DiscoveryNext]_discoveryvars

----------------------------------------------------------------------------
(* Properties *)

\* Types of the parts; the counters of the hosts stay within their limits.
TypesOK == TypeOK /\ SlotsBounded /\ FollowTypeOK /\ AlertTypeOK /\ STypeOK /\ ScoringTypeOK

\* A job is mailed to a user once, by the digest of the companies the user
\* follows (target_companies.py) and by that of an alert (job_alerts.py).
MailsOnce == MailedOnce /\ SentOnce
=============================================================================
