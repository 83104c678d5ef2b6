---------------------------- MODULE MCDiscovery ----------------------------
(* Where jobs come from and what becomes of them: the crawl, the follows,    *)
(* the alerts, the sources of a search and its scoring, in the situations    *)
(* below.  Each runs alone, since they share nothing but the crawled rows.   *)
EXTENDS Discovery

CONSTANTS
    j1, j2, c1, c2, k1, u1, u2, l1, l2, d1, d2,
    a1, a2, b1, b2, w1, w2,
    s1, s2, p1, p2, p3

C(kind, processes, happen, changes, deaths) ==
    [kind |-> kind, processes |-> processes, events |-> happen, changes |-> changes, deaths |-> deaths]
F(users, asks, processes, max) ==
    [users |-> users, asks |-> asks, processes |-> processes, max |-> max]
A(processes, alerts, happen, days, faults) ==
    [processes |-> processes, alerts |-> alerts, events |-> happen, days |-> days, faults |-> faults]

NoCrawl == C("etag", {}, {}, 0, 0)
NoFollow == F({}, {}, {}, 0)
NoAlerts == A({}, {}, {}, 1, 0)

OneTag == <<C("etag", {c1, k1}, {}, 3, 0), NoFollow, NoAlerts>>
Paged == <<C("paged", {c1, k1}, {"purge", "gone"}, 4, 0), NoFollow, NoAlerts>>
Gone == <<C("etag", {c1}, {"gone", "admin", "unnamed"}, 3, 0), NoFollow, NoAlerts>>
Full == <<C("etag", {c1}, {"full"}, 3, 1), NoFollow, NoAlerts>>
Slow == <<C("paged", {c1, c2}, {"slow"}, 1, 1), NoFollow, NoAlerts>>
Following == <<C("etag", {c1}, {}, 1, 0), F({u1, u2}, {"follow", "unfollow"}, {}, 3), NoAlerts>>
Mailing == <<C("etag", {c1}, {}, 1, 1), F({u1}, {"follow", "seen"}, {d1, d2}, 2), NoAlerts>>
Names == <<C("etag", {}, {}, 0, 1), F({u1}, {"name", "unfollow"}, {l1, l2}, 3), NoAlerts>>
Ticks == <<NoCrawl, NoFollow, A({b1, b2}, {a1, a2}, {"delete"}, 2, 0)>>
Daily == <<NoCrawl, NoFollow, A({b1, w1}, {a1}, {"edit", "delete"}, 2, 1)>>
Running == <<NoCrawl, NoFollow, A({w1, w2}, {a1}, {"delete", "now"}, 1, 1)>>

MCScenes == {OneTag, Paged, Gone, Full, Slow, Following, Mailing, Names, Ticks, Daily, Running}
MCCrawlScenes == {s[1] : s \in MCScenes}
MCFollowScenes == {s[2] : s \in MCScenes}
MCAlertScenes == {s[3] : s \in MCScenes}
MCWanted == [u \in Users |-> Jobs]

\* Searches: who runs, for what sources and at how many places.
SearchFor(searches, wanted, places, happen, max) ==
    [searches |-> searches, who |-> [t \in Searches |-> IF t = s1 THEN u1 ELSE u2], wanted |-> wanted,
     places |-> places, events |-> happen, max |-> max, split |-> FALSE, own |-> [u \in Askers |-> {}],
     shared |-> {}, production |-> FALSE, fails |-> 0]
Saved == [u \in Askers |-> IF u = u1 THEN {"serpapi"} ELSE {}]

NoSearch == SearchFor({}, {}, 1, {}, 0)
OneCall == SearchFor({s1}, {"linkedin", "indeed"}, 2, {}, 0)
OwnCalls == [SearchFor({s1}, {"linkedin", "indeed", "inbox", "index"}, 2, {}, 0) EXCEPT !.split = TRUE]
Breaking == [SearchFor({s1, s2}, {"indeed", "index"}, 1, {"cool", "admin"}, 1) EXCEPT !.fails = 1]
KeyChanges == [SearchFor({s1, s2}, {"api"}, 1, {"keys"}, 1) EXCEPT
                  !.own = Saved, !.shared = {"serpapi"}, !.who = [t \in Searches |-> u1]]
SharedKey == [SearchFor({s1, s2}, {"api"}, 2, {}, 0) EXCEPT !.shared = {"serpapi"}]
Midnight == [SearchFor({s1}, {"api"}, 2, {"midnight"}, 1) EXCEPT !.own = Saved, !.production = TRUE]
Feeding == SearchFor({s1, s2}, {"feed"}, 1, {"die", "stale", "retry", "slow"}, 2)
MCSourceScenes == {NoSearch, OneCall, OwnCalls, Breaking, KeyChanges, SharedKey, Midnight, Feeding}
MCScopes == <<"serpapi", "jsearch">>

\* Scoring: a batch of a search, or a list to rank.
Scored(mode, jobs) ==
    [mode |-> mode, jobs |-> jobs, match |-> (p1 :> 2 @@ p2 :> 1 @@ p3 :> 0), least |-> 1, top |-> 2, minimum |-> 1]
NoScoring == Scored("none", {})
MCScoringScenes ==
    {NoScoring} \cup {Scored("live", s) : s \in {{}, {p1}, {p1, p2, p3}}}
                \cup {Scored("list", s) : s \in {{p3}, {p1, p2, p3}}}

Quiet == sscene = NoSearch /\ gscene = NoScoring
Still == <<cscene, fscene, ascene>> = <<NoCrawl, NoFollow, NoAlerts>>
MCInit ==
    /\ DiscoveryInit
    /\ \/ Quiet /\ <<cscene, fscene, ascene>> \in MCScenes
       \/ Still /\ (sscene = NoSearch \/ gscene = NoScoring)
MCSpec == MCInit /\ [][DiscoveryNext]_discoveryvars
FairSpec == MCSpec /\ CrawlFair /\ FollowFair
=============================================================================
