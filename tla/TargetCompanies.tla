--------------------------- MODULE TargetCompanies ---------------------------
(***************************************************************************)
(* Following a company (app/services/target_companies.py, ats_resolver.py,  *)
(* api/routes/target_companies.py), on top of the crawl of its page: users  *)
(* follow it or ask for it by name, a resolver looks names up, new rows of  *)
(* a crawl become roles the followers are told of, and a digest mails them. *)
(***************************************************************************)
EXTENDS AtsCrawler

CONSTANTS
    Users,
    Wanted,         \* the jobs whose title and place each user looks for
    Lookers,        \* threads that look names up
    Digests,        \* digests that may overlap
    MaxAsks,        \* bound: requests
    FollowScenes    \* what the users do in each situation, see FollowScene

\* A situation: the requests users make, and who runs beside the crawl.
FollowScene == [users : SUBSET Users, asks : SUBSET {"follow", "unfollow", "name", "seen"},
                processes : SUBSET (Lookers \cup Digests), max : 0..MaxAsks]

ASSUME FollowConstants ==
    /\ FollowScenes \subseteq FollowScene
    /\ Wanted \in [Users -> SUBSET Jobs]
    /\ MaxAsks \in Nat /\ IsFiniteSet(Users)

VARIABLES
    fscene,     \* the situation, which never changes
    follow,     \* each user's row of ats_follows with the company
    byname,     \* each user's row of ats_follows that waits for a company
    hit,        \* ats_follow_hits
    probe,      \* ats_probes: what the resolver found for the name
    request,    \* what each user's request is doing
    lookups,    \* ats_follow_lookup tasks waiting, by user and row
    look,       \* what each thread that looks names up is doing
    match,      \* what the ats_follow_match task is doing
    digest,     \* what each digest is doing
    flog,       \* history, for the properties
    owed,       \* history: roles a crawl added that a follower is yet to be told of
    miscounted  \* history: follower_count said nobody followed, and somebody did

fvars == <<fscene, follow, byname, hit, probe, request, lookups, look, match, digest, flog>>

NoRow == [status |-> "no", id |-> 0]
NoRequest == [pc |-> "idle", count |-> 0, loaded |-> 0, id |-> 0]
NoLook == [pc |-> "idle", user |-> "none", id |-> 0]
NoMatch == [pc |-> "idle", jobs |-> {}, users |-> {}]
NoDigest == [pc |-> "idle", user |-> "none", jobs |-> {}]

FInit ==
    /\ fscene \in FollowScenes
    /\ follow = [u \in Users |-> NoRow] /\ byname = [u \in Users |-> NoRow]
    /\ hit = [u \in Users |-> [j \in Jobs |-> "none"]]
    /\ probe = "none"
    /\ request = [u \in Users |-> NoRequest]
    /\ lookups = {}
    /\ look = [l \in Lookers |-> NoLook]
    /\ match = NoMatch
    /\ digest = [d \in Digests |-> NoDigest]
    /\ owed = {} /\ miscounted = FALSE
    /\ flog = [asks |-> 0,
               mailed |-> [u \in Users |-> [j \in Jobs |-> 0]],
               twice |-> {}]            \* users two digests were writing to at once

Followers == {u \in Users : follow[u].status = "following"}
Asks(u, what) ==
    /\ u \in fscene.users /\ what \in fscene.asks
    /\ request[u].pc = "idle" /\ flog.asks < fscene.max
    /\ flog' = [flog EXCEPT !.asks = @ + 1]
Answer(u) == request' = [request EXCEPT ![u] = NoRequest]

\* _recount: the count is written when it differs from the one loaded, and a
\* company somebody follows is looked at soon.
Recount(n, loaded) ==
    company' = [company EXCEPT !.followers = IF n = loaded THEN @ ELSE n, !.due = @ \/ n > 0]

CrawlRests == UNCHANGED <<cscene, board, job, enabled, full, host, tick, tasks, crawl, clog>>

----------------------------------------------------------------------------
(* Requests *)

\* follow, and follow_by_name of a company that is known: the row is added and the followers counted...
Known == probe = "found" /\ company.active
Follow(u) ==
    /\ \/ Asks(u, "follow")
       \/ Asks(u, "name") /\ Known
    /\ company.active /\ follow[u].status = "no"
    /\ request' = [request EXCEPT ![u] = [NoRequest EXCEPT !.pc = "follow", !.loaded = company.followers,
                                             !.count = Cardinality(Followers) + 1]]
    /\ CrawlRests
    /\ UNCHANGED <<fscene, follow, byname, hit, probe, lookups, look, match, digest, company, matches>>

\* ... and then committed, unless the resolver has added the row meanwhile.
CommitFollow(u) ==
    LET r == request[u] IN
    /\ r.pc = "follow"
    /\ IF follow[u].status = "no"
       THEN /\ follow' = [follow EXCEPT ![u] = [status |-> "following", id |-> flog.asks]]
            /\ Recount(r.count, r.loaded)
       ELSE UNCHANGED <<follow, company>>
    /\ Answer(u)
    /\ CrawlRests
    /\ UNCHANGED <<fscene, byname, hit, probe, lookups, look, match, digest, flog, matches>>

Unfollow(u) ==
    /\ Asks(u, "unfollow")
    /\ follow[u].status # "no"
    /\ request' = [request EXCEPT ![u] = [NoRequest EXCEPT !.pc = "unfollow", !.loaded = company.followers,
                                             !.count = Cardinality(Followers \ {u})]]
    /\ CrawlRests
    /\ UNCHANGED <<fscene, follow, byname, hit, probe, lookups, look, match, digest, company, matches>>

\* The roles of the company go with the follow.
CommitUnfollow(u) ==
    LET r == request[u] IN
    /\ r.pc = "unfollow"
    /\ follow' = [follow EXCEPT ![u] = NoRow]
    /\ hit' = [hit EXCEPT ![u] = [j \in Jobs |-> "none"]]
    /\ Recount(r.count, r.loaded)
    /\ Answer(u)
    /\ CrawlRests
    /\ UNCHANGED <<fscene, byname, probe, lookups, look, match, digest, flog, matches>>

\* A follow that still waits for its company is removed.
Forget(u) ==
    /\ Asks(u, "unfollow") /\ byname[u].status # "no"
    /\ byname' = [byname EXCEPT ![u] = NoRow]
    /\ CrawlRests
    /\ UNCHANGED <<fscene, follow, hit, probe, request, lookups, look, match, digest, company, matches>>

\* follow_by_name of a name nobody knows: the row that waits is read...
AskName(u) ==
    /\ Asks(u, "name") /\ ~Known
    /\ request' = [request EXCEPT ![u] = [NoRequest EXCEPT !.pc = "name", !.id = byname[u].id]]
    /\ CrawlRests
    /\ UNCHANGED <<fscene, follow, byname, hit, probe, lookups, look, match, digest, company, matches>>

\* ... and waits again, or is added; the look-up is queued.  A row deleted in between is an error.
CommitName(u) ==
    LET r == request[u]
        id == IF r.id = 0 THEN flog.asks ELSE r.id
    IN /\ r.pc = "name"
       /\ IF r.id = 0
          THEN byname' = [byname EXCEPT ![u] = [status |-> "searching", id |-> id]] /\ UNCHANGED follow
          ELSE IF byname[u].id = id \/ follow[u].id = id
          THEN IF byname[u].id = id
               THEN byname' = [byname EXCEPT ![u].status = "searching"] /\ UNCHANGED follow
               ELSE follow' = [follow EXCEPT ![u].status = "searching"] /\ UNCHANGED byname
          ELSE UNCHANGED <<byname, follow>>
       /\ lookups' = lookups \cup {<<u, i>> : i \in {id} \cap {byname'[u].id, follow'[u].id}}
       /\ Answer(u)
       /\ CrawlRests
       /\ UNCHANGED <<fscene, hit, probe, look, match, digest, flog, company, matches>>

\* mark_seen
Seen(u) ==
    /\ Asks(u, "seen")
    /\ hit' = [hit EXCEPT ![u] = [j \in Jobs |-> IF @[j] = "none" THEN "none" ELSE "seen"]]
    /\ CrawlRests
    /\ UNCHANGED <<fscene, follow, byname, probe, request, lookups, look, match, digest, company, matches>>

----------------------------------------------------------------------------
(* lookup_name, and the resolver it shares with the searches *)

LookStep(l, s) == look' = [look EXCEPT ![l] = s]

\* A waiting name is always looked up: an earlier miss is forgotten.
StartLookup(l, u, id) ==
    /\ l \in fscene.processes /\ look[l].pc = "idle" /\ <<u, id>> \in lookups
    /\ lookups' = lookups \ {<<u, id>>}
    /\ IF byname[u].id = id
       THEN /\ LookStep(l, [pc |-> "resolve", user |-> u, id |-> id])
            /\ probe' = IF probe = "miss" THEN "none" ELSE probe
       ELSE UNCHANGED <<look, probe>>
    /\ CrawlRests
    /\ UNCHANGED <<fscene, follow, byname, hit, request, match, digest, flog, company, matches>>

\* A search shows the name: it is looked up unless that was done before.
ResolveSeen(l) ==
    /\ l \in fscene.processes /\ look[l].pc = "idle" /\ probe = "none"
    /\ \A k \in Lookers : look[k].user # "search"
    /\ LookStep(l, [NoLook EXCEPT !.pc = "resolve", !.user = "search"])
    /\ CrawlRests
    /\ UNCHANGED <<fscene, follow, byname, hit, probe, request, lookups, match, digest, flog, company, matches>>

\* resolve_one: the website or a guessed slug answers; a miss is kept only
\* when every check could run.
AfterResolve(l) == IF look[l].user = "search" THEN NoLook ELSE [look[l] EXCEPT !.pc = "end"]

Resolve(l) ==
    /\ look[l].pc = "resolve"
    /\ \/ probe' = "found" /\ LookStep(l, [look[l] EXCEPT !.pc = "attach"])
       \/ probe' = "miss" /\ LookStep(l, AfterResolve(l))
       \/ UNCHANGED probe /\ LookStep(l, AfterResolve(l))
    /\ CrawlRests
    /\ UNCHANGED <<fscene, follow, byname, hit, request, lookups, match, digest, flog, company, matches>>

\* attach_found: every follow that waits for the name now follows the
\* company; one whose user follows it already is deleted.
Attach(l) ==
    LET waiting == {u \in Users : byname[u].status # "no"}
        now == [u \in Users |-> IF u \in waiting /\ follow[u].status = "no"
                                THEN [byname[u] EXCEPT !.status = "following"] ELSE follow[u]]
    IN /\ look[l].pc = "attach"
       /\ follow' = now
       /\ byname' = [u \in Users |-> NoRow]
       /\ Recount(Cardinality({u \in Users : now[u].status = "following"}), company.followers)
       /\ LookStep(l, AfterResolve(l))
       /\ CrawlRests
       /\ UNCHANGED <<fscene, hit, probe, request, lookups, match, digest, flog, matches>>

\* Fault: the waiting row is only marked when the resolver is sure of the miss.
EndIfMissed(l) ==
    /\ look[l].pc = "end"
    /\ LookStep(l, IF byname[look[l].user].id = look[l].id /\ probe = "miss"
                   THEN [look[l] EXCEPT !.pc = "mark"] ELSE NoLook)
    /\ CrawlRests
    /\ UNCHANGED <<fscene, follow, byname, hit, probe, request, lookups, match, digest, flog, company, matches>>

\* The row is read once more; one that still waits...
EndLookup(l) ==
    /\ look[l].pc = "end"
    /\ LookStep(l, IF byname[look[l].user].id = look[l].id THEN [look[l] EXCEPT !.pc = "mark"] ELSE NoLook)
    /\ CrawlRests
    /\ UNCHANGED <<fscene, follow, byname, hit, probe, request, lookups, match, digest, flog, company, matches>>

\* ... is marked, whatever has been made of it since.
MarkLookup(l) ==
    /\ look[l].pc = "mark"
    /\ LET u == look[l].user IN
       /\ byname' = IF byname[u].id = look[l].id THEN [byname EXCEPT ![u].status = "not_found"] ELSE byname
       /\ follow' = IF follow[u].id = look[l].id THEN [follow EXCEPT ![u].status = "not_found"] ELSE follow
    /\ LookStep(l, NoLook)
    /\ CrawlRests
    /\ UNCHANGED <<fscene, hit, probe, request, lookups, match, digest, flog, company, matches>>

----------------------------------------------------------------------------
(* ats_follow_match and ats_follow_digest *)

\* match_new_jobs: the followers, and the jobs that are still open...
MatchReads ==
    /\ match.pc = "idle"
    /\ \E new \in matches :
         /\ matches' = matches \ {new}
         /\ match' = [pc |-> "add", jobs |-> new \cap OpenJobs, users |-> Followers]
    /\ CrawlRests
    /\ UNCHANGED <<fscene, follow, byname, hit, probe, request, lookups, look, digest, flog, company>>

\* Fault: the task returns after the first follower.
MatchAddsOne ==
    /\ match.pc = "add"
    /\ IF match.users = {} THEN UNCHANGED hit
       ELSE \E u \in match.users :
              hit' = [hit EXCEPT ![u] = [j \in Jobs |-> IF j \in match.jobs THEN "new" ELSE @[j]]]
    /\ match' = NoMatch
    /\ CrawlRests
    /\ UNCHANGED <<fscene, follow, byname, probe, request, lookups, look, digest, flog, company, matches>>

\* ... become roles, whoever has left in between.
MatchAdds ==
    /\ match.pc = "add"
    /\ hit' = [u \in Users |-> [j \in Jobs |->
                 IF u \in match.users /\ j \in match.jobs \cap Wanted[u] /\ hit[u][j] = "none"
                 THEN "new" ELSE hit[u][j]]]
    /\ match' = NoMatch
    /\ CrawlRests
    /\ UNCHANGED <<fscene, follow, byname, probe, request, lookups, look, digest, flog, company, matches>>

\* Fault: what was mailed is mailed again while it is unseen.
Unseen(u) == {j \in OpenJobs : hit[u][j] \in {"new", "mailed"}}

\* digest: what a user has neither seen nor been mailed, of jobs still open
Unmailed(u) == {j \in OpenJobs : hit[u][j] = "new"}

DigestReads(d, u) ==
    /\ d \in fscene.processes /\ digest[d].pc = "idle" /\ Unmailed(u) # {}
    /\ digest' = [digest EXCEPT ![d] = [pc |-> "send", user |-> u, jobs |-> Unmailed(u)]]
    /\ flog' = [flog EXCEPT !.twice = @ \cup {v \in {u} : \E e \in Digests \ {d} : digest[e].user = v}]
    /\ CrawlRests
    /\ UNCHANGED <<fscene, follow, byname, hit, probe, request, lookups, look, match, company, matches>>

\* A mail that is refused is tried again at the next tick.
DigestSends(d) ==
    LET t == digest[d] IN
    /\ t.pc = "send"
    /\ \/ /\ digest' = [digest EXCEPT ![d].pc = "mark"]
          /\ flog' = [flog EXCEPT !.mailed[t.user] = [j \in Jobs |-> IF j \in t.jobs /\ @[j] < 2 THEN @[j] + 1
                                                                     ELSE @[j]]]
       \/ digest' = [digest EXCEPT ![d] = NoDigest] /\ UNCHANGED flog
    /\ CrawlRests
    /\ UNCHANGED <<fscene, follow, byname, hit, probe, request, lookups, look, match, company, matches>>

\* Roles that are gone with the follow are an error: nothing is marked.
DigestMarks(d) ==
    LET t == digest[d] IN
    /\ t.pc = "mark"
    /\ hit' = IF \E j \in t.jobs : hit[t.user][j] = "none" THEN hit
              ELSE [hit EXCEPT ![t.user] = [j \in Jobs |-> IF j \in t.jobs /\ @[j] = "new" THEN "mailed" ELSE @[j]]]
    /\ digest' = [digest EXCEPT ![d] = NoDigest]
    /\ CrawlRests
    /\ UNCHANGED <<fscene, follow, byname, probe, request, lookups, look, match, flog, company, matches>>

\* A worker dies in the middle of a look-up, of a match or of a digest.
TaskDies ==
    /\ clog.deaths < cscene.deaths
    /\ \/ \E l \in Lookers : look[l].pc # "idle" /\ LookStep(l, NoLook) /\ UNCHANGED <<match, digest>>
       \/ match.pc # "idle" /\ match' = NoMatch /\ UNCHANGED <<look, digest>>
       \/ \E d \in Digests : /\ digest[d].pc # "idle"
                            /\ digest' = [digest EXCEPT ![d] = NoDigest] /\ UNCHANGED <<look, match>>
    /\ clog' = [clog EXCEPT !.deaths = @ + 1]
    /\ UNCHANGED <<cscene, board, company, job, enabled, full, host, tick, tasks, matches, crawl>>
    /\ UNCHANGED <<fscene, follow, byname, hit, probe, request, lookups, flog>>

----------------------------------------------------------------------------

UserAsks(u) ==
    \/ Follow(u) \/ CommitFollow(u) \/ Unfollow(u) \/ CommitUnfollow(u) \/ Forget(u)
    \/ AskName(u) \/ CommitName(u) \/ Seen(u)

Answers(u) == CommitFollow(u) \/ CommitUnfollow(u) \/ CommitName(u)
Looking(l) == Resolve(l) \/ Attach(l) \/ EndLookup(l) \/ MarkLookup(l)
Lookups(l) == \E t \in lookups : StartLookup(l, t[1], t[2])

FollowNext ==
    \/ \E u \in Users : UserAsks(u)
    \/ \E l \in Lookers : ResolveSeen(l) \/ Looking(l) \/ Lookups(l)
    \/ MatchReads \/ MatchAdds
    \/ \E d \in Digests : (\E u \in Users : DigestReads(d, u)) \/ DigestSends(d) \/ DigestMarks(d)
    \/ TaskDies

\* A row of ats_jobs that is deleted takes its roles with it.
CrawlMoves ==
    /\ CrawlNext
    /\ hit' = [u \in Users |-> [j \in Jobs |-> IF job'[j] = "none" THEN "none" ELSE hit[u][j]]]
    /\ UNCHANGED <<fscene, follow, byname, probe, request, lookups, look, match, digest, flog>>

\* The rows a crawl has just added
Added == {j \in Jobs : /\ job[j] = "none" /\ job'[j] = "open"
                       /\ \E c \in Crawlers \cup Checks : j \in crawl'[c].fresh}

Note ==
    /\ owed' = {t \in owed \cup (Followers \X Added) :
                  /\ follow'[t[1]].status = "following" /\ t[2] \in Wanted[t[1]]
                  /\ job'[t[2]] = "open" /\ hit'[t[1]][t[2]] = "none"}
    /\ miscounted' = (miscounted \/ (company'.followers = 0 /\ \E u \in Users : follow'[u].status = "following"))

FollowFair ==
    /\ WF_<<cvars, fvars>>(\E u \in Users : Answers(u))
    /\ \A l \in Lookers : WF_<<cvars, fvars>>(Looking(l))
    /\ WF_<<cvars, fvars>>(\E l \in Lookers : Lookups(l))
    /\ WF_<<cvars, fvars>>(MatchReads \/ MatchAdds)

----------------------------------------------------------------------------
(* Properties *)

\* Every row and process is well formed, and a role is of a job that has a row.
FollowTypeOK ==
    /\ \A u \in Users :
         /\ follow[u].status \in {"no", "following", "searching", "not_found"}
         /\ byname[u].status \in {"no", "searching", "not_found"}
         /\ \A j \in Jobs : hit[u][j] \in {"none", "new", "mailed", "seen"}
    /\ probe \in {"none", "miss", "found"}
    /\ \A l \in Lookers : look[l].pc \in {"idle", "resolve", "attach", "end", "mark"}
    /\ company.followers \in 0..Cardinality(Users)

\* target_companies.py:11-13: in the end every row a crawl added is a role of
\* each follower who looks for such jobs, however follows and crawls overlap --
\* unless a worker died with it, or the count said nobody follows.
FollowersTold == <>[](owed = {} \/ miscounted \/ clog.deaths > 0)

\* A follow that waits for its name is attached or marked not found in the
\* end, whatever requests and other look-ups do to it meanwhile.
LookupEnds == <>[](clog.deaths > 0 \/ \A u \in Users : byname[u].status # "searching")

\* A role is mailed to a user once, unless two digests write to the user at
\* the same time or one dies before it has marked what it sent.
MailedOnce ==
    \A u \in Users : \A j \in Jobs :
        (u \notin flog.twice /\ clog.deaths = 0) => flog.mailed[u][j] <= 1
=============================================================================
