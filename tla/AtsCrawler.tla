----------------------------- MODULE AtsCrawler -----------------------------
(***************************************************************************)
(* The index of a company's career page (app/services/ats_crawler.py,       *)
(* ats_registry.py, ats_search.topup, providers/ats/platforms.py, the ats   *)
(* tasks of core/celery_tasks.py, the admin calls of api/routes/ats.py).    *)
(*                                                                          *)
(* One company on one platform host.  Ticks of beat claim it when it is     *)
(* due; each claim is a task that takes a slot of the host, reads the board *)
(* and writes what it read.  A search with few results starts the same      *)
(* crawl, or a text search of the board, live.                              *)
(***************************************************************************)
EXTENDS Integers, Sequences, SequencesExt, FiniteSets

CONSTANTS
    Jobs,
    Crawlers,       \* processes of the maintenance queue
    Checks,         \* threads of a live top-up
    HostSlots,      \* ATS_HOST_CONCURRENCY
    LiveSlots,      \* ATS_HOST_LIVE_SLOTS
    GoneAfter,      \* ATS_GONE_AFTER
    MaxJobs,        \* ATS_MAX_JOBS_PER_COMPANY, ATS_WORKDAY_MAX_JOBS
    MaxChanges,     \* bound: changes of the board, calls of the admin and live checks
    MaxDeaths,      \* bound: errors and deaths of a worker
    CrawlScenes     \* the situations looked at, see CrawlScene

\* A situation: the kind of platform ("etag" answers conditional requests
\* with the whole list, "paged" reads the list in pages and can search it),
\* who runs, and what else happens.
CrawlScene == [kind : {"etag", "paged"}, processes : SUBSET (Crawlers \cup Checks),
               events : SUBSET {"gone", "admin", "full", "slow", "unnamed", "purge"},
               changes : 0..MaxChanges, deaths : 0..MaxDeaths]

ASSUME CrawlConstants ==
    /\ CrawlScenes \subseteq CrawlScene
    /\ {HostSlots, LiveSlots, GoneAfter, MaxJobs, MaxChanges, MaxDeaths} \subseteq Nat
    /\ Crawlers \cap Checks = {} /\ IsFiniteSet(Crawlers \cup Checks) /\ Crawlers # {}

VARIABLES
    cscene,     \* the situation, which never changes
    board,      \* what the company lists, newest first; gone: the page is not there
    company,    \* its row of ats_companies
    job,        \* its rows of ats_jobs
    enabled,    \* the platform's switch in ats_platforms
    full,       \* the index holds ATS_MAX_INDEXED_JOBS jobs
    host,       \* the counter ats:host:<host> in Redis
    tick,       \* what the tick of beat is doing
    tasks,      \* crawl_ats_company tasks waiting
    matches,    \* ats_follow_match tasks waiting, by the jobs they carry
    crawl,      \* what each crawl is doing
    clog        \* history, for the properties

cvars == <<cscene, board, company, job, enabled, full, host, tick, tasks, matches, crawl, clog>>

Processes == Crawlers \cup Checks
NoTag == <<>>     \* NULL
Tag(list) == <<list>>
Idle == [pc |-> "idle", tag |-> NoTag, gone |-> 0, read |-> {}, offset |-> 0, total |-> 0, complete |-> TRUE,
         answer |-> "none", fresh |-> {}]
Listed == ToSet(board.jobs)
OpenJobs == {j \in Jobs : job[j] = "open"}

\* A new company is due at once, named after its slug until its board tells its name.
Registered == [active |-> TRUE, due |-> TRUE, tag |-> NoTag, gone |-> 0, followers |-> 0,
               named |-> "unnamed" \notin cscene.events]

Init ==
    /\ cscene \in CrawlScenes
    /\ board = [jobs |-> <<>>, gone |-> FALSE]
    /\ company = Registered
    /\ job = [j \in Jobs |-> "none"]
    /\ enabled = TRUE /\ full = FALSE
    /\ host = 0 /\ tick = "idle" /\ tasks = 0 /\ matches = {}
    /\ crawl = [c \in Processes |-> Idle]
    /\ clog = [changes |-> 0, deaths |-> 0,
               lost |-> 0,             \* slots whose crawl died
               hidden |-> FALSE,       \* the tag stands for a list the index does not show in full
               outlived |-> FALSE]     \* the host's counter expired under a crawl

Reading(c) == crawl[c].pc \in {"fetch", "search"}
Step(c, s) == crawl' = [crawl EXCEPT ![c] = s]
Rest(c) == Step(c, Idle)
Change == clog.changes < cscene.changes /\ clog' = [clog EXCEPT !.changes = @ + 1]

----------------------------------------------------------------------------
(* The company's page, the rest of the index, and the administrators *)

Post(j) ==
    /\ Change /\ j \notin Listed
    /\ board' = [board EXCEPT !.jobs = <<j>> \o @]
    /\ UNCHANGED <<cscene, company, job, enabled, full, host, tick, tasks, matches, crawl>>

Withdraw(j) ==
    /\ Change
    /\ \E i \in DOMAIN board.jobs : board.jobs[i] = j /\ board' = [board EXCEPT !.jobs = RemoveAt(@, i)]
    /\ UNCHANGED <<cscene, company, job, enabled, full, host, tick, tasks, matches, crawl>>

PageMoves ==
    /\ "gone" \in cscene.events /\ Change
    /\ board' = [board EXCEPT !.gone = ~@]
    /\ UNCHANGED <<cscene, company, job, enabled, full, host, tick, tasks, matches, crawl>>

IndexFills ==
    /\ "full" \in cscene.events /\ Change
    /\ full' = ~full
    /\ UNCHANGED <<cscene, board, company, job, enabled, host, tick, tasks, matches, crawl>>

\* admin_edit_company: a company switched on again keeps its tag.
SetActive ==
    /\ "admin" \in cscene.events /\ clog.changes < cscene.changes
    /\ company' = IF company.active
                  THEN [company EXCEPT !.active = FALSE]
                  ELSE [company EXCEPT !.active = TRUE, !.gone = 0, !.due = TRUE]
    /\ clog' = [clog EXCEPT !.changes = @ + 1,
                   !.hidden = @ \/ (~company.active /\ company.tag # NoTag)]
    /\ UNCHANGED <<cscene, board, job, enabled, full, host, tick, tasks, matches, crawl>>

SetPlatform ==
    /\ "admin" \in cscene.events /\ Change
    /\ enabled' = ~enabled
    /\ UNCHANGED <<cscene, board, company, job, full, host, tick, tasks, matches, crawl>>

\* admin_crawl_now
CrawlNow ==
    /\ "admin" \in cscene.events /\ tasks = 0 /\ Change
    /\ tasks' = 1
    /\ UNCHANGED <<cscene, board, company, job, enabled, full, host, tick, matches, crawl>>

\* purge_closed
PurgeClosed(j) ==
    /\ "purge" \in cscene.events /\ job[j] = "closed"
    /\ job' = [job EXCEPT ![j] = "none"]
    /\ UNCHANGED <<cscene, board, company, enabled, full, host, tick, tasks, matches, crawl, clog>>

----------------------------------------------------------------------------
(* ats_tick *)

\* next_crawl_at comes
TimePasses ==
    /\ ~company.due
    /\ company' = [company EXCEPT !.due = TRUE]
    /\ UNCHANGED <<cscene, board, job, enabled, full, host, tick, tasks, matches, crawl, clog>>

\* claim_due: the claim puts the next crawl off by half an hour.
TickClaims ==
    /\ tick = "idle" /\ company.active /\ company.due
    /\ company' = [company EXCEPT !.due = FALSE]
    /\ tick' = "queue"
    /\ UNCHANGED <<cscene, board, job, enabled, full, host, tasks, matches, crawl, clog>>

TickQueues ==
    /\ tick = "queue"
    /\ tasks < Cardinality(Crawlers \cap cscene.processes)     \* bound
    /\ tasks' = tasks + 1 /\ tick' = "idle"
    /\ UNCHANGED <<cscene, board, company, job, enabled, full, host, matches, crawl, clog>>

----------------------------------------------------------------------------
(* crawl_company *)

\* The row is read once: tag and gone_count are those of this moment.
Loads(c) ==
    IF ~company.active
    THEN Rest(c) /\ UNCHANGED company
    ELSE IF ~enabled
    THEN company' = [company EXCEPT !.due = FALSE] /\ Rest(c)
    ELSE /\ Step(c, [Idle EXCEPT !.pc = "enter", !.tag = company.tag, !.gone = company.gone])
         /\ UNCHANGED company

Take(c) ==
    /\ c \in Crawlers \cap cscene.processes
    /\ crawl[c].pc = "idle" /\ tasks > 0
    /\ tasks' = tasks - 1
    /\ Loads(c)
    /\ UNCHANGED <<cscene, board, job, enabled, full, host, tick, matches, clog>>

\* crawl_one of a live top-up: a company not crawled for a while
CheckLive(c) ==
    /\ c \in Checks \cap cscene.processes /\ cscene.kind = "etag"
    /\ crawl[c].pc = "idle" /\ company.active /\ enabled
    /\ Change
    /\ Loads(c)
    /\ UNCHANGED <<cscene, board, job, enabled, full, host, tick, tasks, matches>>

\* search_one of a live top-up: platforms that can be searched by text
SearchLive(c) ==
    /\ c \in Checks \cap cscene.processes /\ cscene.kind = "paged"
    /\ crawl[c].pc = "idle" /\ company.active /\ enabled
    /\ Change
    /\ Step(c, [Idle EXCEPT !.pc = "enter", !.answer = "search"])
    /\ UNCHANGED <<cscene, board, company, job, enabled, full, host, tick, tasks, matches>>

\* host_slot: INCR, and DECR again when the count is over the limit.  A live
\* check may use the extra slots, and waits for one.
Limit(c) == HostSlots + (IF c \in Checks THEN LiveSlots ELSE 0)

Enter(c) ==
    /\ crawl[c].pc = "enter" /\ host < Limit(c)
    /\ host' = host + 1
    /\ Step(c, [crawl[c] EXCEPT !.pc = IF crawl[c].answer = "search" THEN "search" ELSE "fetch"])
    /\ UNCHANGED <<cscene, board, company, job, enabled, full, tick, tasks, matches, clog>>

\* Fault: the slot that was never taken is given back too.
RefuseReleasing(c) ==
    /\ crawl[c].pc = "enter" /\ host >= Limit(c)
    /\ host' = host - 1
    /\ company' = [company EXCEPT !.due = FALSE]
    /\ Rest(c)
    /\ UNCHANGED <<cscene, board, job, enabled, full, tick, tasks, matches, clog>>

\* HostBusy: tried again in a minute or two; a text search is given up.
Refuse(c) ==
    /\ crawl[c].pc = "enter" /\ host >= Limit(c)
    /\ company' = IF crawl[c].answer = "search" THEN company ELSE [company EXCEPT !.due = FALSE]
    /\ Rest(c)
    /\ UNCHANGED <<cscene, board, job, enabled, full, host, tick, tasks, matches, clog>>

\* The key lasts 120 seconds from the last attempt to take a slot.
Expire ==
    /\ "slow" \in cscene.events /\ host # 0
    /\ host' = 0
    /\ clog' = [clog EXCEPT !.outlived = @ \/ \E c \in Processes : Reading(c)]
    /\ UNCHANGED <<cscene, board, company, job, enabled, full, tick, tasks, matches, crawl>>

\* The slot is given back as the answer is in.
Answered(c, answer, read) ==
    /\ host' = host - 1
    /\ Step(c, [crawl[c] EXCEPT !.pc = "write", !.answer = answer, !.read = read])
    /\ UNCHANGED <<cscene, board, company, job, enabled, full, tick, tasks, matches, clog>>

\* cap_jobs: of a list that is too long, the target markets and the newest.
Capped(jobs) == IF Cardinality(jobs) <= MaxJobs THEN {jobs}
                ELSE {S \in SUBSET jobs : Cardinality(S) = MaxJobs}

\* A board that answers conditional requests: 304 for the tag it had.
Asks304(c) == crawl[c].pc = "fetch" /\ cscene.kind = "etag" /\ ~board.gone

FetchSame(c) ==
    /\ Asks304(c) /\ crawl[c].tag = Tag(board.jobs)
    /\ Answered(c, "same", {})

FetchList(c) ==
    /\ Asks304(c) /\ crawl[c].tag # Tag(board.jobs)
    /\ host' = host - 1
    /\ \E read \in Capped(Listed) :
         Step(c, [crawl[c] EXCEPT !.pc = "write", !.answer = "list", !.read = read,
                                  !.tag = Tag(board.jobs), !.complete = (read = Listed)])
    /\ UNCHANGED <<cscene, board, company, job, enabled, full, tick, tasks, matches, clog>>

\* A board read in pages, each at its own moment: on while the total of the
\* first page says there is more.
PageRead(c) ==
    [crawl[c] EXCEPT !.read = @ \cup {board.jobs[i] : i \in {crawl[c].offset + 1} \cap DOMAIN board.jobs},
                     !.offset = @ + 1, !.total = IF @ = 0 THEN Len(board.jobs) ELSE @]
LastPage(c) ==
    LET next == PageRead(c)
    IN crawl[c].offset >= Len(board.jobs) \/ next.offset >= next.total \/ next.offset >= MaxJobs

FetchPage(c) ==
    /\ crawl[c].pc = "fetch" /\ cscene.kind = "paged" /\ ~board.gone /\ ~LastPage(c)
    /\ Step(c, PageRead(c))
    /\ UNCHANGED <<cscene, board, company, job, enabled, full, host, tick, tasks, matches, clog>>

FetchLastPage(c) ==
    LET next == PageRead(c) IN
    /\ crawl[c].pc = "fetch" /\ cscene.kind = "paged" /\ ~board.gone /\ LastPage(c)
    /\ host' = host - 1
    /\ Step(c, [next EXCEPT !.pc = "write", !.answer = "list", !.offset = 0, !.total = 0,
                            !.complete = next.total <= MaxJobs])
    /\ UNCHANGED <<cscene, board, company, job, enabled, full, tick, tasks, matches, clog>>

FetchGone(c) ==
    /\ crawl[c].pc = "fetch" /\ board.gone
    /\ Answered(c, "gone", {})

\* Any other status, a timeout or a parser's surprise
FetchFails(c) ==
    /\ crawl[c].pc = "fetch" /\ clog.deaths < cscene.deaths
    /\ host' = host - 1
    /\ clog' = [clog EXCEPT !.deaths = @ + 1]
    /\ Step(c, [crawl[c] EXCEPT !.pc = "write", !.answer = "error"])
    /\ UNCHANGED <<cscene, board, company, job, enabled, full, tick, tasks, matches>>

\* The title matches some of what is listed.
FetchSearch(c) ==
    /\ crawl[c].pc = "search"
    /\ IF board.gone
       THEN host' = host - 1 /\ Rest(c)
            /\ UNCHANGED <<cscene, board, company, job, enabled, full, tick, tasks, matches, clog>>
       ELSE \E read \in SUBSET Listed : Answered(c, "search", read)

\* upsert_jobs: new rows while the index has room, rows seen again opened;
\* a complete list closes what it does not show, a capped one only what was
\* not seen for days, a search nothing.  The flush of the company's row
\* before the rows are read makes two crawls write one after the other.
Fresh(read) == IF full THEN {} ELSE {j \in read : job[j] = "none"}

\* Fault: a row that was closed stays closed when its job is listed again.
UpsertedOnce(read, closed) ==
    [j \in Jobs |-> CASE j \in closed -> "closed"
                      [] j \in read /\ job[j] = "none" /\ ~full -> "open"
                      [] OTHER -> job[j]]

Upserted(read, closed) ==
    [j \in Jobs |-> CASE j \in closed -> "closed"
                      [] j \in read /\ (job[j] # "none" \/ ~full) -> "open"
                      [] OTHER -> job[j]]

Closing(c) ==
    LET unseen == OpenJobs \ crawl[c].read
    IN IF crawl[c].answer = "search" THEN {{}}
       ELSE IF crawl[c].complete THEN {unseen} ELSE SUBSET unseen

\* Setting gone_count to the 0 that was loaded writes nothing.
Recovered(c) == IF crawl[c].gone = 0 THEN company.gone ELSE 0

WriteList(c) ==
    LET t == crawl[c] IN
    /\ t.pc = "write" /\ t.answer = "list"
    /\ \E closed \in Closing(c) : job' = Upserted(t.read, closed)
    /\ \E named \in {TRUE, company.named} :     \* the list, or one more request, gives the name
         company' = [company EXCEPT !.due = FALSE, !.gone = Recovered(c), !.named = named,
                                    !.tag = IF cscene.kind = "etag" THEN t.tag ELSE NoTag]
    /\ clog' = [clog EXCEPT !.hidden = full /\ \E j \in t.read : job[j] = "none"]
    /\ IF Fresh(t.read) = {} THEN Rest(c)
       ELSE Step(c, [Idle EXCEPT !.pc = "queue", !.fresh = Fresh(t.read)])
    /\ UNCHANGED <<cscene, board, enabled, full, host, tick, tasks, matches>>

\* 304: nothing to write; a company without a name has its list read next time.
WriteSame(c) ==
    /\ crawl[c].pc = "write" /\ crawl[c].answer = "same"
    /\ company' = [company EXCEPT !.due = FALSE, !.gone = Recovered(c),
                                  !.tag = IF company.named THEN @ ELSE NoTag]
    /\ clog' = [clog EXCEPT !.hidden = @ /\ company.named]
    /\ Rest(c)
    /\ UNCHANGED <<cscene, board, job, enabled, full, host, tick, tasks, matches>>

\* The page is not there: after GoneAfter times the company is switched off.
WriteGone(c) ==
    LET gone == crawl[c].gone + 1 IN
    /\ crawl[c].pc = "write" /\ crawl[c].answer = "gone"
    /\ IF gone >= GoneAfter
       THEN /\ company' = [company EXCEPT !.gone = gone, !.active = FALSE]
            /\ job' = [j \in Jobs |-> IF job[j] = "open" THEN "closed" ELSE job[j]]
       ELSE /\ company' = [company EXCEPT !.gone = gone, !.due = FALSE]
            /\ UNCHANGED job
    /\ Rest(c)
    /\ UNCHANGED <<cscene, board, enabled, full, host, tick, tasks, matches, clog>>

\* _failed: tried again later and later
WriteFailed(c) ==
    /\ crawl[c].pc = "write" /\ crawl[c].answer = "error"
    /\ company' = [company EXCEPT !.due = FALSE]
    /\ Rest(c)
    /\ UNCHANGED <<cscene, board, job, enabled, full, host, tick, tasks, matches, clog>>

\* A search that started before another crawl may bring back what that one closed.
WriteSearch(c) ==
    /\ crawl[c].pc = "write" /\ crawl[c].answer = "search"
    /\ job' = Upserted(crawl[c].read, {})
    /\ Rest(c)
    /\ UNCHANGED <<cscene, board, company, enabled, full, host, tick, tasks, matches, clog>>

\* _queue_follow_match, after the commit
QueueMatch(c) ==
    /\ crawl[c].pc = "queue"
    /\ matches' = IF company.followers > 0
                  THEN matches \cup {crawl[c].fresh} ELSE matches
    /\ Rest(c)
    /\ UNCHANGED <<cscene, board, company, job, enabled, full, host, tick, tasks, clog>>

\* A worker dies: the slot it holds is not given back.
Die(c) ==
    /\ crawl[c].pc # "idle" /\ clog.deaths < cscene.deaths
    /\ clog' = [clog EXCEPT !.deaths = @ + 1, !.lost = @ + IF Reading(c) THEN 1 ELSE 0]
    /\ Rest(c)
    /\ UNCHANGED <<cscene, board, company, job, enabled, full, host, tick, tasks, matches>>

TickDies ==
    /\ tick = "queue" /\ clog.deaths < cscene.deaths
    /\ clog' = [clog EXCEPT !.deaths = @ + 1]
    /\ tick' = "idle"
    /\ UNCHANGED <<cscene, board, company, job, enabled, full, host, tasks, matches, crawl>>

----------------------------------------------------------------------------

Crawl(c) ==
    \/ Enter(c) \/ Refuse(c) \/ FetchSame(c) \/ FetchList(c) \/ FetchPage(c) \/ FetchLastPage(c)
    \/ FetchGone(c) \/ FetchSearch(c)
    \/ WriteList(c) \/ WriteSame(c) \/ WriteGone(c) \/ WriteFailed(c) \/ WriteSearch(c) \/ QueueMatch(c)

World ==
    \/ \E j \in Jobs : Post(j) \/ Withdraw(j) \/ PurgeClosed(j)
    \/ PageMoves \/ IndexFills \/ SetActive \/ SetPlatform \/ CrawlNow

CrawlNext ==
    \/ World \/ TimePasses \/ TickClaims \/ TickQueues \/ TickDies \/ Expire
    \/ \E c \in Processes : \/ Take(c) \/ CheckLive(c) \/ SearchLive(c) \/ Crawl(c)
                            \/ FetchFails(c) \/ Die(c)

Spec == Init /\ [][CrawlNext]_cvars

\* Time passes, beat ticks, and the queue's workers work; a task that waits is taken by one of them.
CrawlFair ==
    /\ WF_cvars(TimePasses \/ TickClaims \/ TickQueues)
    /\ WF_cvars(\E c \in Crawlers : Take(c))
    /\ \A c \in Processes : WF_cvars(Crawl(c))

----------------------------------------------------------------------------
(* Properties *)

\* Every row and process is well formed; a page that was found again is not
\* counted further, and nothing but a death keeps a slot that no crawl reads in.
TypeOK ==
    /\ company.gone \in 0..GoneAfter + Cardinality(Processes)
    /\ company.tag = NoTag \/ cscene.kind = "etag"
    /\ job \in [Jobs -> {"none", "open", "closed"}]
    /\ tasks \in 0..Cardinality(Crawlers) /\ matches \subseteq SUBSET Jobs
    /\ \A c \in Processes : crawl[c].pc \in {"idle", "enter", "fetch", "search", "write", "queue"}
    /\ "slow" \notin cscene.events =>
         host = Cardinality({c \in Processes : Reading(c)}) + clog.lost

\* ats_crawler.py:57-58: at most ATS_HOST_CONCURRENCY crawls read one host at
\* a time, and with the live checks ATS_HOST_LIVE_SLOTS more, however crawls
\* are refused, fail or die -- as long as no crawl outlives the counter.
SlotsBounded ==
    clog.outlived \/
    /\ Cardinality({c \in Crawlers : Reading(c)}) <= HostSlots
    /\ Cardinality({c \in Processes : Reading(c)}) <= HostSlots + LiveSlots

\* Whatever crawls overlap, read a board that changes between two pages, fail
\* or die, the index ends up showing what the board lists -- while the company
\* and its platform are on, a slot of the host is left, the list fits the
\* index, and its tag does not stand for a list the index never showed.
IndexSettles ==
    <>[](\/ ~company.active \/ ~enabled \/ full \/ clog.hidden \/ Len(board.jobs) > MaxJobs
         \/ clog.lost >= HostSlots \/ OpenJobs = Listed)
=============================================================================
