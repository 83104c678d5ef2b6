------------------------------ MODULE SourceRun ------------------------------
(* One search across its job sources (services/job_sources.py), with what    *)
(* the searches of every user share: the daily call counters and the cached  *)
(* feed in Redis (services/source_limits.py) and the health of each source   *)
(* (services/provider_catalog.py), read when the next search is planned.     *)
(* A search asks the job boards and the keyed API place by place, then the   *)
(* feed, then the sources it only reads. One Redis command or one commit is  *)
(* one step. What a source finds is left out: SearchFeed shows it.           *)
EXTENDS Integers, Sequences, FiniteSets

CONSTANTS
    Searches,         \* keyword tasks, each running one search
    Askers,           \* the users they search for
    Scopes,           \* the keys the API can be asked with, in order
    Retries,          \* further attempts while LinkedIn gives no rows
    OwnCap, SharedCap, TotalCap,   \* calls a day: own key, shared key, the platform
    BreakerFailures,  \* failures in a row that pause a source
    MaxDays,          \* bound: days the searches run over
    SourceScenes      \* where the searches start and what may happen to them

VARIABLES
    sscene,   \* the searches, their places and sources, and the events allowed
    search,   \* where each search stands and what it learnt of its sources
    cached,   \* the feed in Redis: cache, failed marker, lock
    today,
    used,     \* per day and key: the calls counted for a user, and for all of them
    own,      \* the keys each user has saved
    health,   \* the catalog's row of each source
    events,   \* outside changes so far
    saw,      \* history: how the sources answered each search
    real      \* history: per day and key, the calls that were not refused, of each user with an own
              \* key or the shared one, and of the platform with the shared one

svars == <<sscene, search, cached, today, used, own, health, events, saw, real>>

Boards == {"linkedin", "indeed"}
Sources == Boards \cup {"api", "feed", "inbox", "index"}
Over == {"idle", "refused", "done", "dead"}
Days == 1..MaxDays
Counters == Askers \cup {"platform"}
Ledger == Counters \X {"byok", "platform"}   \* whose calls, on whose key

\* A situation: which searches run, for whom, for which sources and at how many
\* places, the keys there are, and what else may happen.
SourceScene == [searches : SUBSET Searches, who : [Searches -> Askers], wanted : SUBSET Sources, places : Nat \ {0},
                events : SUBSET {"stale", "retry", "slow", "die", "midnight", "keys", "admin", "cool"}, max : Nat,
                split : BOOLEAN, own : [Askers -> SUBSET STRING], shared : SUBSET STRING, production : BOOLEAN,
                fails : Nat]
ASSUME SourceAssumption ==
    /\ Retries \in Nat /\ BreakerFailures \in Nat \ {0} /\ MaxDays \in Nat \ {0}
    /\ OwnCap \in Nat /\ SharedCap \in Nat /\ TotalCap \in Nat
    /\ Scopes \in Seq(STRING) /\ SourceScenes \subseteq SourceScene
    /\ IsFiniteSet(Searches) /\ "platform" \notin Askers

Unstarted == [pc |-> "idle", plan |-> {}, place |-> 1, call |-> 1, tries |-> 0, scope |-> 1, key |-> "none",
          day |-> 1, err |-> FALSE, got |-> "none", ok |-> {}, failed |-> {}, rows |-> <<>>]
Who(t) == sscene.who[t]
SearchAt(t, pc) == search[t].pc = pc
Goes(t, r) == search' = [search EXCEPT ![t] = r]
Moves(t, pc) == Goes(t, [search[t] EXCEPT !.pc = pc])

SInit ==
    /\ sscene \in SourceScenes
    /\ search = [t \in Searches |-> Unstarted]
    /\ cached = [blob |-> "none", failed |-> FALSE, lock |-> FALSE]
    /\ today = 1
    /\ used = [d \in Days |-> [i \in 1..Len(Scopes) |-> [c \in Counters |-> 0]]]
    /\ real = [d \in Days |-> [i \in 1..Len(Scopes) |-> [c \in Ledger |-> 0]]]
    /\ own = sscene.own
    /\ health = [s \in Sources |-> [fails |-> sscene.fails, hot |-> FALSE, on |-> TRUE]]
    /\ events = 0
    /\ saw = [t \in Searches |-> {}]

----------------------------------------------------------------------------
(* Planning a search, in the request. *)

Resolved(u, i) ==
    CASE Scopes[i] \in own[u] -> "byok"
      [] Scopes[i] \in sscene.shared \ own[u] -> "platform"
      [] OTHER -> "none"
OwnKeyOnly == sscene.production   \* user_key_only and no shared_search_keys
UsableKey(u, i) == Resolved(u, i) # "none" /\ (OwnKeyOnly => Resolved(u, i) = "byok")

Paused(s) == health[s].fails >= BreakerFailures /\ health[s].hot
Available(u, s) ==
    /\ health[s].on
    /\ s = "api" => \E i \in 1..Len(Scopes) : UsableKey(u, i)
    /\ ~Paused(s)
EffectiveSources(t) == {s \in sscene.wanted : Available(Who(t), s)}

\* build_search_params: the sources that can run now, or a 422 when none can.
Plan(t) ==
    /\ SearchAt(t, "idle") /\ t \in sscene.searches
    /\ LET plan == EffectiveSources(t)
       IN  Goes(t, [search[t] EXCEPT !.plan = plan, !.pc = IF plan = {} THEN "refused" ELSE "board"])
    /\ UNCHANGED <<sscene, cached, today, used, own, health, events, saw, real>>

----------------------------------------------------------------------------
(* A place: the boards, then the keyed API. *)

BoardCalls(plan) ==   \* Indeed has a call of its own when more of it is wanted
    LET sites == plan \cap Boards
    IN  IF sscene.split /\ "indeed" \in sites
        THEN <<{"indeed"}>> \o (IF sites = {"indeed"} THEN <<>> ELSE <<sites \ {"indeed"}>>)
        ELSE IF sites = {} THEN <<>> ELSE <<sites>>
Attempts(sites) == IF "linkedin" \in sites THEN Retries + 1 ELSE 1

AfterPlace(r) ==   \* the next place, or the feed
    IF r.place < sscene.places
    THEN [r EXCEPT !.place = @ + 1, !.pc = "board", !.call = 1, !.tries = 0, !.scope = 1, !.err = FALSE]
    ELSE [r EXCEPT !.pc = IF "feed" \in r.plan THEN "feed" ELSE "rest"]

BoardsDone(t) ==
    /\ SearchAt(t, "board") /\ search[t].call > Len(BoardCalls(search[t].plan))
    /\ Goes(t, IF "api" \in search[t].plan THEN [search[t] EXCEPT !.pc = "api"] ELSE AfterPlace(search[t]))
    /\ UNCHANGED <<sscene, cached, today, used, own, health, events, saw, real>>

\* History: the sources whose answer, or failure, this search has used.
Saw(t, answered, broken) ==
    saw' = [saw EXCEPT ![t] = @ \cup (answered \X {"answered"}) \cup (broken \X {"failed"})]

\* What a call's last answer says of its sites: rows of some of them, or an error.
Judged(r, sites, rows, error) ==
    [r EXCEPT !.ok = @ \cup rows, !.failed = @ \cup (IF error THEN sites \ rows ELSE {}),
              !.call = @ + 1, !.tries = 0]

\* One attempt of _run_jobspy: tried again while LinkedIn has no row.
AskBoards(t) ==
    /\ SearchAt(t, "board") /\ search[t].call <= Len(BoardCalls(search[t].plan))
    /\ LET sites == BoardCalls(search[t].plan)[search[t].call]
           last == search[t].tries + 1 = Attempts(sites)
       IN  \E rows \in SUBSET sites, error \in BOOLEAN :
              /\ error => rows = {}
              /\ IF last \/ (rows # {} /\ ("linkedin" \in sites => "linkedin" \in rows))
                 THEN /\ Goes(t, Judged(search[t], sites, rows, error))
                      /\ Saw(t, rows, IF error THEN sites ELSE {})
                 ELSE Goes(t, [search[t] EXCEPT !.tries = @ + 1]) /\ UNCHANGED saw
    /\ UNCHANGED <<sscene, cached, today, used, own, health, events, real>>

Cap(key) == IF key = "byok" THEN OwnCap ELSE SharedCap
Bump(r, c, n) == used' = [used EXCEPT ![r.day][r.scope][c] = @ + n]
\* Fault: the count is looked at before this call is added.
CountBefore(r, c) == used[r.day][r.scope][c]
CountOf(r, c) == used[r.day][r.scope][c] + 1
NextScope(r) == [r EXCEPT !.pc = "api", !.scope = @ + 1]

\* A call on the search's key that brought an answer or waits for one, in the history.
ChargedTo(t, r) == {<<Who(t), r.key>>} \cup (IF r.key = "platform" THEN {<<"platform", r.key>>} ELSE {})
Charge(t, r, n) ==
    real' = [real EXCEPT ![r.day][r.scope] =
                [c \in Ledger |-> @[c] + (IF c \in ChargedTo(t, r) THEN n ELSE 0)]]

\* take_quota, first counter: a denied call has been counted all the same.
CountForUser(t) ==
    /\ SearchAt(t, "api") /\ search[t].scope <= Len(Scopes)
    /\ LET r == [search[t] EXCEPT !.key = Resolved(Who(t), search[t].scope), !.day = today]
       IN  IF ~UsableKey(Who(t), r.scope)
           THEN Goes(t, NextScope(r)) /\ UNCHANGED <<used, real>>
           ELSE /\ Bump(r, Who(t), 1)
                /\ IF CountOf(r, Who(t)) > Cap(r.key) THEN Goes(t, NextScope(r)) /\ UNCHANGED real
                   ELSE IF r.key = "byok" THEN Goes(t, [r EXCEPT !.pc = "call"]) /\ Charge(t, r, 1)
                   ELSE Goes(t, [r EXCEPT !.pc = "total"]) /\ UNCHANGED real
    /\ UNCHANGED <<sscene, cached, today, own, health, events, saw>>

\* take_quota, second counter: everybody's calls on the shared key.
CountForAll(t) ==
    /\ SearchAt(t, "total")
    /\ Bump(search[t], "platform", 1)
    /\ IF CountOf(search[t], "platform") > TotalCap
       THEN Goes(t, NextScope(search[t])) /\ UNCHANGED real
       ELSE Moves(t, "call") /\ Charge(t, search[t], 1)
    /\ UNCHANGED <<sscene, cached, today, own, health, events, saw>>

ApiAnswers == {"jobs", "none", "error"}
AskApi(t) ==
    /\ SearchAt(t, "call")
    /\ \E a \in ApiAnswers :
          /\ IF a = "error" THEN Saw(t, {}, {"api"}) ELSE Saw(t, {"api"}, {})
          /\ IF a = "error"
             THEN /\ Goes(t, [search[t] EXCEPT !.pc = "refund", !.err = TRUE, !.day = today])
                  /\ Charge(t, search[t], -1)
             ELSE LET r == [search[t] EXCEPT !.ok = @ \cup {"api"}]
                  IN  /\ Goes(t, IF a = "jobs" \/ r.scope = Len(Scopes) THEN AfterPlace(r) ELSE NextScope(r))
                      /\ UNCHANGED real
    /\ UNCHANGED <<sscene, cached, today, used, own, health, events>>

\* refund_quota: the counters of the day it is by now, one after the other.
GiveBack(t) ==
    /\ SearchAt(t, "refund")
    /\ Bump(search[t], Who(t), -1)
    /\ Goes(t, IF search[t].key = "byok" THEN NextScope(search[t]) ELSE [search[t] EXCEPT !.pc = "refundAll"])
    /\ UNCHANGED <<sscene, cached, today, own, health, events, saw, real>>
GiveBackAll(t) ==
    /\ SearchAt(t, "refundAll")
    /\ Bump(search[t], "platform", -1)
    /\ Goes(t, NextScope(search[t]))
    /\ UNCHANGED <<sscene, cached, today, own, health, events, saw, real>>

\* Every key tried: an error counts unless the API answered before.
ApiDone(t) ==
    /\ SearchAt(t, "api") /\ search[t].scope > Len(Scopes)
    /\ LET r == search[t]
       IN  Goes(t, AfterPlace([r EXCEPT !.failed = @ \cup (IF r.err /\ "api" \notin r.ok THEN {"api"} ELSE {})]))
    /\ UNCHANGED <<sscene, cached, today, used, own, health, events, saw, real>>

----------------------------------------------------------------------------
(* The feed, downloaded once for everybody: cached_feed. *)

\* The feed the search gets: none when it is skipped, blamed only for an error.
FeedGot(r, blob) ==
    [r EXCEPT !.pc = "rest", !.got = "none",
              !.ok = @ \cup (IF blob = "jobs" THEN {"feed"} ELSE {}),
              !.failed = @ \cup (IF blob = "error" THEN {"feed"} ELSE {})]

ReadFeed(t) ==
    /\ SearchAt(t, "feed")
    /\ Goes(t, IF cached.blob # "none" THEN FeedGot(search[t], cached.blob)
               ELSE [search[t] EXCEPT !.pc = "check"])
    /\ UNCHANGED <<sscene, cached, today, used, own, health, events, saw, real>>
CheckFailed(t) ==
    /\ SearchAt(t, "check")
    /\ Goes(t, IF cached.failed THEN FeedGot(search[t], "none") ELSE [search[t] EXCEPT !.pc = "lock"])
    /\ UNCHANGED <<sscene, cached, today, used, own, health, events, saw, real>>
LockFeed(t) ==
    /\ SearchAt(t, "lock")
    /\ cached' = [cached EXCEPT !.lock = TRUE]
    /\ Moves(t, IF cached.lock THEN "wait" ELSE "fetch")
    /\ UNCHANGED <<sscene, today, used, own, health, events, saw, real>>
FetchFeed(t) ==
    /\ SearchAt(t, "fetch")
    /\ \E a \in {"jobs", "empty", "error"} :
          /\ Goes(t, [search[t] EXCEPT !.got = a, !.pc = IF a = "error" THEN "mark" ELSE "unlock"])
          /\ IF a = "error" THEN Saw(t, {}, {"feed"}) ELSE Saw(t, {"feed"}, {})
    /\ UNCHANGED <<sscene, cached, today, used, own, health, events, real>>
MarkFailed(t) ==
    /\ SearchAt(t, "mark")
    /\ cached' = [cached EXCEPT !.failed = TRUE]
    /\ Moves(t, "unlock")
    /\ UNCHANGED <<sscene, today, used, own, health, events, saw, real>>
UnlockFeed(t) ==   \* whoever holds the lock by now
    /\ SearchAt(t, "unlock")
    /\ cached' = [cached EXCEPT !.lock = FALSE]
    /\ Goes(t, IF search[t].got = "error" THEN FeedGot(search[t], "error") ELSE [search[t] EXCEPT !.pc = "store"])
    /\ UNCHANGED <<sscene, today, used, own, health, events, saw, real>>
StoreFeed(t) ==
    /\ SearchAt(t, "store")
    /\ cached' = [cached EXCEPT !.blob = search[t].got]
    /\ Goes(t, FeedGot(search[t], search[t].got))
    /\ UNCHANGED <<sscene, today, used, own, health, events, saw, real>>

\* Fault: no deadline, a search waits as long as the lock is there.
PollFeedOnly(t) ==
    /\ SearchAt(t, "wait") /\ (cached.blob # "none" \/ ~cached.lock)
    /\ Goes(t, FeedGot(search[t], cached.blob))
    /\ UNCHANGED <<sscene, cached, today, used, own, health, events, saw, real>>
\* A poll while another search downloads, until the lock goes or the deadline passes.
PollFeed(t) ==
    /\ SearchAt(t, "wait")
    /\ Goes(t, FeedGot(search[t], cached.blob))
    /\ UNCHANGED <<sscene, cached, today, used, own, health, events, saw, real>>

----------------------------------------------------------------------------
(* The sources that are only read, and the health each source is given. *)

ReadRest(t) ==
    /\ SearchAt(t, "rest")
    /\ \E broken \in SUBSET (search[t].plan \cap {"index"}) :
          LET read == (search[t].plan \cap {"inbox", "index"}) \ broken
          IN  /\ Goes(t, [search[t] EXCEPT !.ok = @ \cup read, !.failed = @ \cup broken, !.pc = "report"])
              /\ Saw(t, read, broken)
    /\ UNCHANGED <<sscene, cached, today, used, own, health, events, real>>

\* _Outcomes.report: a source that answered once in the search is healthy.
Blamed(r) == r.failed \ r.ok

\* mark_success reads the rows ...
ReadHealthy(t) ==
    /\ SearchAt(t, "report")
    /\ Goes(t, [Unstarted EXCEPT !.pc = "healthy", !.ok = search[t].ok, !.failed = search[t].failed, !.rows = [s \in search[t].ok |-> health[s].fails]])
    /\ UNCHANGED <<sscene, cached, today, used, own, health, events, saw, real>>
\* ... and commits the counts it changed.
MarkSuccess(t) ==
    /\ SearchAt(t, "healthy")
    /\ health' = [s \in Sources |-> IF s \in search[t].ok /\ search[t].rows[s] > 0
                                    THEN [health[s] EXCEPT !.fails = 0] ELSE health[s]]
    /\ Goes(t, [search[t] EXCEPT !.pc = "blame", !.ok = {}, !.failed = Blamed(search[t]), !.rows = <<>>])
    /\ UNCHANGED <<sscene, cached, today, used, own, events, saw, real>>

\* mark_failure, source by source, reads the count and then commits one more.
ReadFailing(t) ==
    /\ SearchAt(t, "blame")
    /\ IF search[t].failed = {} THEN Goes(t, [Unstarted EXCEPT !.pc = "done"]) /\ saw' = [saw EXCEPT ![t] = {}]
       ELSE /\ UNCHANGED saw
            /\ \E s \in search[t].failed :
                  Goes(t, [search[t] EXCEPT !.pc = "blaming", !.failed = @ \ {s}, !.rows = [x \in {s} |-> health[s].fails]])
    /\ UNCHANGED <<sscene, cached, today, used, own, health, events, real>>
MarkFailure(t) ==
    /\ SearchAt(t, "blaming")
    /\ health' = [s \in Sources |-> IF s \in DOMAIN search[t].rows
                                    THEN [health[s] EXCEPT !.fails = search[t].rows[s] + 1, !.hot = TRUE]
                                    ELSE health[s]]
    /\ Goes(t, [search[t] EXCEPT !.pc = "blame", !.rows = <<>>])
    /\ UNCHANGED <<sscene, cached, today, used, own, events, saw, real>>

----------------------------------------------------------------------------
(* What happens from outside. *)

Outside(e) == e \in sscene.events /\ events < sscene.max /\ events' = events + 1

Expires ==
    /\ \/ cached.blob # "none" /\ Outside("stale") /\ cached' = [cached EXCEPT !.blob = "none"]
       \/ cached.failed /\ Outside("retry") /\ cached' = [cached EXCEPT !.failed = FALSE]
       \/ cached.lock /\ Outside("slow") /\ cached' = [cached EXCEPT !.lock = FALSE]
    /\ UNCHANGED <<sscene, search, today, used, own, health, saw, real>>
WorkerDies(t) ==
    /\ search[t].pc \notin Over /\ Outside("die")
    /\ Goes(t, [Unstarted EXCEPT !.pc = "dead"]) /\ saw' = [saw EXCEPT ![t] = {}]
    /\ UNCHANGED <<sscene, cached, today, used, own, health, real>>
NewDay ==
    /\ today < MaxDays /\ Outside("midnight") /\ today' = today + 1
    /\ UNCHANGED <<sscene, search, cached, used, own, health, saw, real>>
SavesKey(u, i) ==   \* or deletes it
    /\ Outside("keys")
    /\ own' = [own EXCEPT ![u] = IF Scopes[i] \in @ THEN @ \ {Scopes[i]} ELSE @ \cup {Scopes[i]}]
    /\ UNCHANGED <<sscene, search, cached, today, used, health, saw, real>>
Health(s) ==
    /\ \/ Outside("admin") /\ health' = [health EXCEPT ![s].on = ~@]
       \/ health[s].hot /\ Outside("cool") /\ health' = [health EXCEPT ![s].hot = FALSE]
    /\ UNCHANGED <<sscene, search, cached, today, used, own, saw, real>>

SourceStep(t) ==
    \/ Plan(t) \/ BoardsDone(t) \/ AskBoards(t)
    \/ CountForUser(t) \/ CountForAll(t) \/ AskApi(t) \/ GiveBack(t) \/ GiveBackAll(t) \/ ApiDone(t)
    \/ ReadFeed(t) \/ CheckFailed(t) \/ LockFeed(t) \/ FetchFeed(t) \/ MarkFailed(t)
    \/ UnlockFeed(t) \/ StoreFeed(t) \/ PollFeed(t)
    \/ ReadRest(t) \/ ReadHealthy(t) \/ MarkSuccess(t) \/ ReadFailing(t) \/ MarkFailure(t)
SNext ==
    \/ \E t \in Searches : SourceStep(t) \/ WorkerDies(t)
    \/ Expires \/ NewDay
    \/ \E u \in Askers, i \in 1..Len(Scopes) : SavesKey(u, i)
    \/ \E s \in sscene.wanted : Health(s)
SSpec == SInit /\ [][SNext]_svars

----------------------------------------------------------------------------
STypeOK ==
    /\ \A t \in Searches : /\ search[t].plan \subseteq Sources /\ search[t].ok \subseteq Sources
                           /\ search[t].failed \subseteq Sources /\ search[t].place \in 1..sscene.places
    /\ cached.blob \in {"none", "empty", "jobs"} /\ cached.failed \in BOOLEAN /\ cached.lock \in BOOLEAN
    /\ \A d \in Days, i \in 1..Len(Scopes), c \in Counters : used[d][i][c] \in Int
    /\ \A s \in Sources : health[s].fails \in Nat

\* However the searches of several users interleave, fail and give calls back,
\* a day's answered and running calls on a key stay within the user's cap and,
\* on a shared key, within the platform's (source_limits.py:10-11, 91-110).
\* Within one day: a refund after midnight lowers the new day's counter.
QuotaHolds ==
    \A d \in Days, i \in 1..Len(Scopes) :
        /\ \A u \in Askers : real[d][i][<<u, "byok">>] <= OwnCap /\ real[d][i][<<u, "platform">>] <= SharedCap
        /\ real[d][i][<<"platform", "platform">>] <= TotalCap

\* A search counts a failure against a source only when it saw that source
\* fail itself and never answer, whatever its other places and keys and the
\* other searches met: a feed another search could not download is not blamed
\* twice (source_limits.py:9, job_sources.py:208-215, 243-256).
BlamedForOwnFailure ==
    \A t \in Searches : search[t].pc \in {"blame", "blaming"} =>
        \A s \in search[t].failed \cup (IF search[t].pc = "blaming" THEN DOMAIN search[t].rows ELSE {}) :
            <<s, "failed">> \in saw[t] /\ <<s, "answered">> \notin saw[t]

\* What searches share, quotas and health, counts only what happened.
SourcesCounted == QuotaHolds /\ BlamedForOwnFailure

\* A search that has started can always take its next step, also when the
\* search downloading the feed died with the lock (source_limits.py:66-74):
\* no search waits for another one for ever.
NeverStuck ==
    \A t \in Searches : search[t].pc \notin Over => ENABLED SourceStep(t)

\* "One download per feed per FEED_CACHE_TTL_SECONDS" (source_limits.py:6).
\* Not so: the lock goes before the feed is cached, and a search that found no
\* feed takes the lock later without looking again (source_limits.py:48-63).
OneDownload ==
    [][\A t \in Searches : search[t].pc = "fetch" /\ search'[t].pc = "unlock"
            => cached.blob = "none" /\ \A o \in Searches : search[o].pc # "store"]_svars
=============================================================================
