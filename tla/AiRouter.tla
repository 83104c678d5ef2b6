------------------------------ MODULE AiRouter ------------------------------
(***************************************************************************)
(* The AI router, its registry of models and its keys                       *)
(* (app/services/ai_router.py, model_registry.py, key_store.py,             *)
(* api/routes/admin_ai.py and models.py, models/ai.py).                     *)
(*                                                                          *)
(* A call of one user walks the chain of models it resolved when it began,  *)
(* while administrators edit the registry, keys come and go, and the calls  *)
(* of other workers trip the breakers and fill the slots of the providers.  *)
(***************************************************************************)
EXTENDS Integers, FiniteSets, Sequences

CONSTANTS
    Models, Providers,
    Rank,               \* priority and display_name, all different
    Provider,           \* of each model; its key_scope too
    Tasks,              \* what a row lists
    SpeechOnly,         \* SPEECH_ONLY_PROVIDERS
    KeyRequired,        \* KEY_REQUIRED
    EnvKeys,            \* scopes that have a key in .env
    Calls,
    Slots,              \* AI_PROVIDER_CONCURRENCY
    BreakerFailures, BreakerPause, RatePause, MaxPause, BrokenPause,
    MaxEdits, MaxChunks, MaxTicks,      \* bounds
    RouterScenes

Speech == {"stt", "tts"}
ListedOnly == Speech \cup {"form_vision"}
Kinds == {"complete", "request", "stream", "capped", "test"}
Edits == {"models", "choices", "keys", "premium", "free"}

\* A situation: the kinds of calls and their task, the paid models, the keys
\* and the rights of the user, what is edited meanwhile, what goes wrong.
RouterScene == [kinds : SUBSET Kinds, task : {"score", "form_vision"}, paid : SUBSET Models,
                own : SUBSET Providers, platform : SUBSET Providers, premium : BOOLEAN,
                edits : SUBSET Edits, errors : SUBSET {"rate_limit", "broken", "bad_reply", "transient", "bug", "death"}]

ASSUME RouterConstants ==
    /\ RouterScenes \subseteq RouterScene
    /\ IsFiniteSet(Models) /\ Provider \in [Models -> Providers]
    /\ Rank \in [Models -> Nat] /\ \A m, n \in Models : Rank[m] = Rank[n] => m = n
    /\ {Slots, BreakerFailures, BreakerPause, RatePause, MaxPause, BrokenPause} \subseteq Nat \ {0}
    /\ {MaxEdits, MaxChunks, MaxTicks} \subseteq Nat

VARIABLES
    rscene,
    model,      \* the registry: absent, off or on, and the tier
    choice,     \* the user's preference and the default, for the task
    keys,       \* the scopes with a key of the user, and of the platform
    rights,     \* premium_models, and "Free tools only"
    pause,      \* ai_open, ai_fail and ai_rate of Redis
    slots,      \* ai_slots:<provider>
    call,       \* what each call is doing
    rlog        \* history, for the properties

rvars == <<rscene, model, choice, keys, rights, pause, slots, call, rlog>>

\* ai_rate is kept as the pause the next rate limit causes: RatePause, doubled
\* by each one up to MaxPause.
RateCapped(n) == IF n < MaxPause THEN n ELSE MaxPause
Running == [why |-> "up", left |-> 0, fails |-> 0, rate |-> RateCapped(RatePause)]
NotCalled == [pc |-> "idle", kind |-> "complete", chain |-> <<>>, src |-> "none", chunks |-> 0, slot |-> FALSE,
              error |-> "none", stale |-> FALSE]

RInit ==
    /\ rscene \in RouterScenes
    /\ model = [m \in Models |-> [row |-> "on", paid |-> m \in rscene.paid]]
    /\ choice = [pref |-> {}, default |-> {}]
    /\ keys = [own |-> rscene.own, platform |-> rscene.platform]
    /\ rights = [premium |-> rscene.premium, freeOnly |-> FALSE]
    /\ pause = [m \in Models |-> Running]
    /\ slots = [p \in Providers |-> {}]
    /\ call = [c \in Calls |-> NotCalled]
    /\ rlog = [edits |-> 0, ticks |-> 0,
               entitled |-> [c \in Calls |-> {}],   \* models free or premium to the call when it began
               lost |-> [c \in Calls |-> {}],       \* keys the user took away since
               spoke |-> [c \in Calls |-> {}],      \* models whose words were shown
               tried |-> [c \in Calls |-> 0], ledger |-> [c \in Calls |-> 0], slips |-> [c \in Calls |-> 0]]

----------------------------------------------------------------------------
(* The chain *)

Serves(m, task) ==
    LET text == Tasks[m] \ ListedOnly IN
    IF task \in ListedOnly THEN task \in Tasks[m]
    ELSE /\ Provider[m] \notin SpeechOnly
         /\ IF text = {} THEN Tasks[m] \cap Speech = {} ELSE task \in text

PlatformKey(p) == p \in keys.platform \cup EnvKeys

\* access: the user's own key, or the one sent with the request, opens a paid model.
MayUse(kind, m) ==
    LET own == Provider[m] \in keys.own \/ kind = "request"
    IN /\ model[m].row = "on"
       /\ model[m].paid => kind # "capped" /\ ~rights.freeOnly /\ (own \/ rights.premium)
       /\ Provider[m] \in KeyRequired => own \/ PlatformKey(Provider[m])

\* The order of a chain: the user's choice, the default, the priority.
Before(m, n) ==
    LET at(x) == IF x \in choice.pref THEN 0 ELSE IF x \in choice.default THEN 1 ELSE 2 + Rank[x] IN at(m) < at(n)

\* resolve_chain: paused models are left out, unless all that is left rests
\* for a passing reason: then the one that is back soonest gets one try.  (The
\* order is strict: there is one chain.)
Chains(kind) ==
    LET ready == {m \in Models : Serves(m, rscene.task) /\ MayUse(kind, m)}
        up == {m \in ready : pause[m].why = "up"}
        resting == {m \in ready : pause[m].why \in {"rate_limit", "breaker"}}
        sooner(m, n) == pause[m].left < pause[n].left \/ (pause[m].left = pause[n].left /\ Before(m, n))
        places == 1..Cardinality(up)
    IN IF up # {} THEN {s \in [places -> up] : \A i, j \in places : i < j => Before(s[i], s[j])}
       ELSE IF resting = {} THEN {<<>>}
       ELSE {<<m>> : m \in {x \in resting : \A n \in resting \ {x} : sooner(x, n)}}

Is(c, pc) == call[c].pc = pc
Goes(c, s) == call' = [call EXCEPT ![c] = s]
On(c) == Head(call[c].chain)
Entitled == {m \in Models : ~model[m].paid \/ rights.premium}

\* complete and stream begin; test_model calls one model with the platform's key.
Begin(c, kind) ==
    /\ Is(c, "idle") /\ kind \in rscene.kinds \ {"test"}
    /\ \E chain \in Chains(kind) : Goes(c, [NotCalled EXCEPT !.pc = "next", !.kind = kind, !.chain = chain])
    /\ rlog' = [rlog EXCEPT !.entitled[c] = Entitled]
    /\ UNCHANGED <<rscene, model, choice, keys, rights, pause, slots>>

TestModel(c, m) ==
    /\ Is(c, "idle") /\ "test" \in rscene.kinds /\ model[m].row # "absent"
    /\ Provider[m] \in KeyRequired => PlatformKey(Provider[m])
    /\ Serves(m, "score")
    /\ Goes(c, [NotCalled EXCEPT !.pc = "next", !.kind = "test", !.chain = <<m>>])
    /\ rlog' = [rlog EXCEPT !.entitled[c] = Models]
    /\ UNCHANGED <<rscene, model, choice, keys, rights, pause, slots>>

\* key_store.resolve
KeyFor(c, p) ==
    IF call[c].kind = "request" THEN "request"
    ELSE IF p \in keys.own /\ call[c].kind # "test" THEN "byok"
    ELSE IF p \in keys.platform THEN "platform"
    ELSE IF p \in EnvKeys THEN "env"
    ELSE "none"

Streams(c) == call[c].kind \in {"stream", "capped"}

Present(c) == model[On(c)].row # "absent"

\* The next model of the chain, or NoModelAvailable.  After a commit the rows
\* are read again, and one that was deleted ends the call.
TakeKey(c) ==
    /\ Is(c, "next")
    /\ IF call[c].chain = <<>> \/ (call[c].stale /\ ~Present(c)) THEN Goes(c, [NotCalled EXCEPT !.pc = "done"])
       ELSE Goes(c, [call[c] EXCEPT !.pc = IF Streams(c) THEN "calling" ELSE "slot", !.src = KeyFor(c, Provider[On(c)]),
                                    !.chunks = 0])
    /\ rlog' = IF call'[c].pc = "calling" THEN [rlog EXCEPT !.tried[c] = @ + 1] ELSE rlog
    /\ UNCHANGED <<rscene, model, choice, keys, rights, pause, slots>>

----------------------------------------------------------------------------
(* The slots of a provider; streams take none *)

\* _take_slot: the slots are counted...
FindSlot(c) ==
    /\ Is(c, "slot")
    /\ \/ Cardinality(slots[Provider[On(c)]]) < Slots /\ Goes(c, [call[c] EXCEPT !.pc = "enter"]) /\ UNCHANGED rlog
       \/ /\ Cardinality(slots[Provider[On(c)]]) >= Slots      \* the wait ran out
          /\ Goes(c, [call[c] EXCEPT !.pc = "calling"])
          /\ rlog' = [rlog EXCEPT !.tried[c] = @ + 1]
    /\ UNCHANGED <<rscene, model, choice, keys, rights, pause, slots>>

\* ... and one more is taken.
EnterSlot(c) ==
    /\ Is(c, "enter")
    /\ slots' = [slots EXCEPT ![Provider[On(c)]] = @ \cup {c}]
    /\ Goes(c, [call[c] EXCEPT !.pc = "calling", !.slot = TRUE])
    /\ rlog' = [rlog EXCEPT !.tried[c] = @ + 1]
    /\ UNCHANGED <<rscene, model, choice, keys, rights, pause>>

\* A worker dies in a call; its slot frees itself after a while.
Dies(c) ==
    /\ "death" \in rscene.errors /\ call[c].pc \in {"calling", "good", "bad"}
    /\ Goes(c, [NotCalled EXCEPT !.pc = "dead", !.slot = call[c].slot])
    /\ UNCHANGED <<rscene, model, choice, keys, rights, pause, slots, rlog>>

SlotStale(c, p) ==
    /\ Is(c, "dead") /\ c \in slots[p]
    /\ slots' = [slots EXCEPT ![p] = @ \ {c}]
    /\ UNCHANGED <<rscene, model, choice, keys, rights, pause, call, rlog>>

GiveSlot(c) == slots' = [slots EXCEPT ![Provider[On(c)]] = @ \ {c}]

----------------------------------------------------------------------------
(* The breaker *)

\* failure_kind and _record_failure: a pause of a model replaces another one.
Failed(m, kind) ==
    LET b == pause[m]
    IN CASE kind = "bad_reply" -> b
         [] kind = "rate_limit" -> [b EXCEPT !.why = "rate_limit", !.left = b.rate, !.rate = RateCapped(2 * @)]
         [] kind = "broken" -> [b EXCEPT !.why = "broken", !.left = BrokenPause, !.fails = 0]
         [] OTHER -> IF b.fails + 1 >= BreakerFailures
                     THEN [b EXCEPT !.why = "breaker", !.left = BreakerPause, !.fails = 0]
                     ELSE [b EXCEPT !.fails = @ + 1]

\* _record_success; reset_breaker after a test.
Succeeded(c) ==
    LET b == pause[On(c)] IN IF call[c].kind = "test" THEN Running ELSE [b EXCEPT !.fails = 0, !.rate = Running.rate]

Tick ==
    /\ rlog.ticks < MaxTicks /\ \E m \in Models : pause[m].left > 0
    /\ pause' = [m \in Models |-> [pause[m] EXCEPT !.left = IF @ > 0 THEN @ - 1 ELSE 0,
                                                   !.why = IF pause[m].left > 1 THEN @ ELSE "up"]]
    /\ rlog' = [rlog EXCEPT !.ticks = @ + 1]
    /\ UNCHANGED <<rscene, model, choice, keys, rights, slots, call>>

\* The counters expire after twice the longest pause they can cause.
CountersExpire(m) ==
    /\ pause[m].why = "up" /\ pause[m] # Running
    /\ pause' = [pause EXCEPT ![m] = Running]
    /\ UNCHANGED <<rscene, model, choice, keys, rights, slots, call, rlog>>

----------------------------------------------------------------------------
(* One call of one model *)

\* The adapter answers: the slot is given back...
Answers(c) ==
    /\ Is(c, "calling") /\ ~Streams(c)
    /\ GiveSlot(c)
    /\ Goes(c, [call[c] EXCEPT !.pc = "good", !.slot = FALSE])
    /\ UNCHANGED <<rscene, model, choice, keys, rights, pause, rlog>>

\* ... or it raises, or its answer is empty or cannot be parsed.
Raises(c, kind) ==
    /\ Is(c, "calling") /\ ~Streams(c) /\ kind \in rscene.errors \ {"death"}
    /\ Goes(c, [call[c] EXCEPT !.pc = "bad", !.error = IF kind = "bug" THEN "transient" ELSE kind])
    /\ UNCHANGED <<rscene, model, choice, keys, rights, pause, slots, rlog>>

Ledger(c) == rlog' = [rlog EXCEPT !.ledger[c] = @ + 1]

\* _ledger and _record_success
Settle(c) ==
    /\ Is(c, "good") /\ Present(c)
    /\ Ledger(c) /\ pause' = [pause EXCEPT ![On(c)] = Succeeded(c)]
    /\ Goes(c, [NotCalled EXCEPT !.pc = "done"])
    /\ UNCHANGED <<rscene, model, choice, keys, rights, slots>>

\* The failure is ledgered and noted, then the slot is given back and the next model tried.
NextModel(c) ==
    /\ Is(c, "bad") /\ Present(c)
    /\ Ledger(c) /\ pause' = [pause EXCEPT ![On(c)] = Failed(On(c), call[c].error)]
    /\ GiveSlot(c)
    /\ Goes(c, [call[c] EXCEPT !.pc = "next", !.chain = Tail(@), !.slot = FALSE, !.stale = TRUE])
    /\ UNCHANGED <<rscene, model, choice, keys, rights>>

\* The row was deleted during the call: nothing can be ledgered, and the
\* exception ends the call, whatever the model answered.
RowGone(c) ==
    /\ call[c].pc \in {"good", "bad"} \/ (Is(c, "calling") /\ Streams(c))
    /\ ~Present(c)
    /\ GiveSlot(c)
    /\ rlog' = [rlog EXCEPT !.slips[c] = @ + 1]
    /\ Goes(c, [NotCalled EXCEPT !.pc = "done"])
    /\ UNCHANGED <<rscene, model, choice, keys, rights, pause>>

----------------------------------------------------------------------------
(* Streams *)

Chunk(c) ==
    /\ Is(c, "calling") /\ Streams(c) /\ call[c].chunks < MaxChunks
    /\ Goes(c, [call[c] EXCEPT !.chunks = @ + 1])
    /\ rlog' = [rlog EXCEPT !.spoke[c] = @ \cup {On(c)}]
    /\ UNCHANGED <<rscene, model, choice, keys, rights, pause, slots>>

\* The stream ends, or is cancelled after a chunk, which is a success too.
StreamEnds(c, cancelled) ==
    /\ Is(c, "calling") /\ Streams(c) /\ call[c].chunks > 0 /\ Present(c)
    /\ Ledger(c) /\ pause' = [pause EXCEPT ![On(c)] = Succeeded(c)]
    /\ Goes(c, [NotCalled EXCEPT !.pc = "done"])
    /\ UNCHANGED <<rscene, model, choice, keys, rights, slots>>

\* Fault: the next model is tried whatever was shown.
AfterFailureOn(c) == [call[c] EXCEPT !.pc = "next", !.chain = Tail(@)]

\* A model that fails before its first chunk is skipped; later the failure is the call's.
AfterFailure(c) ==
    IF call[c].chunks > 0 THEN [NotCalled EXCEPT !.pc = "done"]
    ELSE [call[c] EXCEPT !.pc = "next", !.chain = Tail(@)]

Skipped(c, stale) == [AfterFailure(c) EXCEPT !.stale = @ \/ stale]

\* LLMError: the first chunk that is late (transient) and a refusal at the end included
StreamFails(c, kind) ==
    /\ Is(c, "calling") /\ Streams(c) /\ kind \in rscene.errors \ {"bug", "death"} /\ Present(c)
    /\ Ledger(c) /\ pause' = [pause EXCEPT ![On(c)] = Failed(On(c), kind)]
    /\ Goes(c, Skipped(c, TRUE))
    /\ UNCHANGED <<rscene, model, choice, keys, rights, slots>>

\* Any other exception, and a stream without a chunk, are noted but not ledgered.
StreamBreaks(c) ==
    /\ Is(c, "calling") /\ Streams(c) /\ "bug" \in rscene.errors
    /\ pause' = [pause EXCEPT ![On(c)] = Failed(On(c), "transient")]
    /\ rlog' = [rlog EXCEPT !.slips[c] = @ + 1]
    /\ Goes(c, Skipped(c, FALSE))
    /\ UNCHANGED <<rscene, model, choice, keys, rights, slots>>

StreamEmpty(c) ==
    /\ Is(c, "calling") /\ Streams(c) /\ call[c].chunks = 0 /\ "bad_reply" \in rscene.errors
    /\ rlog' = [rlog EXCEPT !.slips[c] = @ + 1]
    /\ Goes(c, Skipped(c, FALSE))
    /\ UNCHANGED <<rscene, model, choice, keys, rights, pause, slots>>

----------------------------------------------------------------------------
(* What administrators and the user edit *)

Edited(what) ==
    /\ what \in rscene.edits /\ rlog.edits < MaxEdits
    /\ rlog' = [rlog EXCEPT !.edits = @ + 1]

\* create_model, a model that was deleted before
CreateModel(m, paid) ==
    /\ Edited("models") /\ model[m].row = "absent"
    /\ model' = [model EXCEPT ![m] = [row |-> "on", paid |-> paid]]
    /\ UNCHANGED <<rscene, choice, keys, rights, pause, slots, call>>

\* update_model
EditModel(m, row, paid) ==
    /\ Edited("models") /\ model[m].row # "absent" /\ model[m] # [row |-> row, paid |-> paid]
    /\ model' = [model EXCEPT ![m] = [row |-> row, paid |-> paid]]
    /\ UNCHANGED <<rscene, choice, keys, rights, pause, slots, call>>

\* delete_model: with it go the choices of it.
DeleteModel(m) ==
    /\ Edited("models") /\ model[m].row # "absent"
    /\ model' = [model EXCEPT ![m].row = "absent"]
    /\ choice' = [pref |-> choice.pref \ {m}, default |-> choice.default \ {m}]
    /\ UNCHANGED <<rscene, keys, rights, pause, slots, call>>

\* set_defaults
SetDefault(ms) ==
    /\ Edited("choices") /\ \A m \in ms : model[m].row # "absent" /\ Serves(m, rscene.task)
    /\ choice' = [choice EXCEPT !.default = ms]
    /\ UNCHANGED <<rscene, model, keys, rights, pause, slots, call>>

\* set_user_preferences: only a model the user may use now
SetPreference(ms) ==
    /\ Edited("choices") /\ \A m \in ms : MayUse("complete", m) /\ Serves(m, rscene.task)
    /\ choice' = [choice EXCEPT !.pref = ms]
    /\ UNCHANGED <<rscene, model, keys, rights, pause, slots, call>>

\* set_platform_key, delete_platform_key
EditPlatformKey(p) ==
    /\ Edited("keys")
    /\ keys' = [keys EXCEPT !.platform = IF p \in @ THEN @ \ {p} ELSE @ \cup {p}]
    /\ UNCHANGED <<rscene, model, choice, rights, pause, slots, call>>

\* save_key and its removal by the user
EditOwnKey(p) ==
    /\ "keys" \in rscene.edits /\ rlog.edits < MaxEdits
    /\ keys' = [keys EXCEPT !.own = IF p \in @ THEN @ \ {p} ELSE @ \cup {p}]
    /\ rlog' = [rlog EXCEPT !.edits = @ + 1,
                            !.lost = [c \in Calls |-> IF p \in keys.own /\ call[c].pc \notin {"idle", "done"}
                                                      THEN @[c] \cup {p} ELSE @[c]]]
    /\ UNCHANGED <<rscene, model, choice, rights, pause, slots, call>>

SetRights(premium, freeOnly) ==
    /\ Edited("premium") /\ rights # [premium |-> premium, freeOnly |-> freeOnly]
    /\ rights' = [premium |-> premium, freeOnly |-> freeOnly]
    /\ UNCHANGED <<rscene, model, choice, keys, pause, slots, call>>

----------------------------------------------------------------------------

CallMoves(c) ==
    \/ TakeKey(c) \/ FindSlot(c) \/ EnterSlot(c) \/ Answers(c) \/ Settle(c) \/ NextModel(c) \/ RowGone(c)
    \/ Chunk(c) \/ StreamBreaks(c) \/ StreamEmpty(c) \/ Dies(c)
    \/ \E kind \in rscene.errors : Raises(c, kind) \/ StreamFails(c, kind)
    \/ \E cancelled \in BOOLEAN : StreamEnds(c, cancelled)

Editing ==
    \/ \E m \in Models : DeleteModel(m) \/ \E paid \in BOOLEAN : \/ CreateModel(m, paid)
                                                                \/ \E row \in {"on", "off"} : EditModel(m, row, paid)
    \/ \E ms \in {{}} \cup {{m} : m \in Models} : SetDefault(ms) \/ SetPreference(ms)
    \/ \E p \in Providers : EditPlatformKey(p) \/ EditOwnKey(p)
    \/ \E premium, freeOnly \in BOOLEAN : SetRights(premium, freeOnly)

RNext ==
    \/ \E c \in Calls :
         \/ CallMoves(c)
         \/ \E kind \in Kinds : Begin(c, kind)
         \/ \E m \in Models : TestModel(c, m)
         \/ \E p \in Providers : SlotStale(c, p)
    \/ \E m \in Models : CountersExpire(m)
    \/ Tick \/ Editing

RSpec == RInit /\ [][RNext]_rvars

----------------------------------------------------------------------------
(* Properties *)

\* Pauses have an end and a reason, a call in progress has a model, and
\* whatever becomes of a call its slot is given back: a dead worker's is the
\* only one to wait for its expiry.
RouterTypeOK ==
    /\ \A p \in Providers : \A c \in slots[p] : call[c].slot /\ call[c].pc \in {"calling", "bad", "dead"}
    /\ \A m \in Models : pause[m].left > 0 <=> pause[m].why # "up"
    /\ \A m \in Models : pause[m].fails < BreakerFailures
    /\ \A c \in Calls : call[c].pc \in {"slot", "enter", "calling", "good", "bad"} => call[c].chain # <<>>

\* ai_router.py:14: a key of the platform pays for a paid model only if the
\* user had premium_models when the call began.  (It pays as well for a model
\* the user's own key opened, when that key is removed before its turn comes.)
PlatformPays ==
    \A c \in Calls :
        call[c].pc \in {"slot", "enter", "calling"} /\ call[c].src \in {"platform", "env"}
            => On(c) \in rlog.entitled[c] \/ Provider[On(c)] \in rlog.lost[c]

\* ai_router.py:457-470: what a stream shows is of one model.
OneVoice == \A c \in Calls : Cardinality(rlog.spoke[c]) <= 1

\* ai_router.py:25: every attempt is ledgered once, a cancelled one too -- save
\* the streams that end in an exception of the adapter or without a chunk.
Ledgered ==
    \A c \in Calls :
        call[c].pc \in {"next", "slot", "enter", "done"} => rlog.tried[c] = rlog.ledger[c] + rlog.slips[c]

\* Whatever fails, is edited, deleted or cancelled during a call, the right key
\* pays for it, one model answers it, and the ledger knows (ai_router.py).
CallsAccounted == PlatformPays /\ OneVoice /\ Ledgered
=============================================================================
