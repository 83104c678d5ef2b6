------------------------------ MODULE FormWalk ------------------------------
(***************************************************************************)
(* How one apply run reads, fills and sends a form (_prepare_steps,          *)
(* _submit_steps and their one-page forms in services/apply_engine.py, and   *)
(* app/apply/: adapters.py, generic.py, forms.py, vision.py).  A worker      *)
(* walks the pages with a browser, answers them, stops before the last       *)
(* button, and walks them again once the user approved what it planned.      *)
(* What a run may do at all, and what else may end it, is ApplyEngine's.     *)
(*                                                                          *)
(* The site turns a page or takes an application whatever is filled in: what *)
(* it would refuse by itself is not relied upon.                             *)
(***************************************************************************)
EXTENDS Naturals, Sequences, FiniteSets

CONSTANTS
    Controls,          \* the questions of the form
    KeyOf,          \* the key of their control: its id or name, else its place
    Walkers,        \* apply workers
    StepLimit,      \* GENERIC_APPLY_STEP_LIMIT
    MaxLooks,       \* GENERIC_APPLY_VISION_MAX_STEPS
    FormScenes      \* the situations looked at, see FormScene

\* A page: what it asks, and the buttons it has, "go" to the next page and
\* "send".  Their texts are clear, or a model has to say which is which.
FormPage == [asks : SUBSET Controls, required : SUBSET Controls, buttons : SUBSET {"go", "send"}, clear : BOOLEAN]

\* A situation: the pages when the form is prepared and later, whether its
\* adapter walks pages, the element its last button is, the questions a plain
\* fill cannot set, what models say of buttons and do with screenshots, and
\* the workers.
FormScene == [first : Seq(FormPage), later : Seq(FormPage), multi : BOOLEAN, tag : {"button", "div"},
              stuck : SUBSET Controls, says : SUBSET {"right", "wrong", "nothing"},
              moves : SUBSET {"fill", "misfill", "send", "skip", "other", "done", "give_up"}, walkers : SUBSET Walkers]

ASSUME FormConstants ==
    /\ KeyOf \in [Controls -> Controls] /\ {"none", "page"} \cap Controls = {}
    /\ StepLimit \in Nat \ {0} /\ MaxLooks \in Nat
    /\ FormScenes \subseteq FormScene
    /\ \A s \in FormScenes : s.walkers # {} => s.first # <<>> /\ s.later # <<>>

VARIABLES
    fscene,     \* the situation, which never changes
    layout,     \* the pages the site shows now
    standing,   \* the state of the run
    sheet,      \* its plan: fields by key, keys of the pages, and the looks it has used
    walk,       \* what each worker is doing
    approved,   \* history: the fields the user approved
    received,   \* history: what the site was sent, and on which walk
    looked      \* history: screenshots a model was shown

fvars == <<fscene, layout, standing, sheet, walk, approved, received, looked>>

NoField == [ask |-> "none", value |-> "none"]
Unfilled == [q \in Controls |-> NoField]
NoStep == [next |-> "none", submit |-> "none"]
Resting == [pc |-> "idle", pass |-> "none", pages |-> <<>>, at |-> 0, n |-> 0, known |-> [k \in Controls |-> NoField],
            all |-> [k \in Controls |-> NoField], filled |-> Unfilled, step |-> NoStep, gaps |-> {},
            failed |-> FALSE, looks |-> 0]

FormInit ==
    /\ fscene \in FormScenes
    /\ layout = fscene.first
    /\ standing = IF fscene.walkers = {} THEN "needs_user" ELSE "queued"
    /\ sheet = [fields |-> [k \in Controls |-> NoField], steps |-> <<>>, complete |-> FALSE, looks |-> 0]
    /\ walk = [w \in Walkers |-> Resting]
    /\ approved = [k \in Controls |-> NoField]
    /\ received = {}
    /\ looked = 0

\* The page a browser shows.
Shown(w) == walk[w].pages[walk[w].at]
KeysOf(page) == {KeyOf[q] : q \in page.asks}
HasValue(field) == field.value \in {"drafted", "typed"}

----------------------------------------------------------------------------
(* Ends of a walk *)

\* _after_answers
Announced(plan) ==
    IF \E k \in Controls : plan.fields[k].value = "open" THEN "awaiting_input"
    ELSE IF plan.steps # <<>> /\ ~plan.complete THEN "queued" ELSE "awaiting_review"

\* The run is handed to the user, or announced; the usage is saved after that.
EndsAs(w, state) ==
    /\ standing' = state
    /\ walk' = [walk EXCEPT ![w].pc = "save"]
Stops(w) == EndsAs(w, "needs_user")
WalkGoes(w, step) == walk' = [walk EXCEPT ![w] = step]

\* _save_usage
SaveUsage(w) ==
    /\ walk[w].pc = "save"
    /\ sheet' = [sheet EXCEPT !.looks = walk[w].looks]
    /\ WalkGoes(w, Resting)
    /\ UNCHANGED <<fscene, layout, standing, approved, received, looked>>

----------------------------------------------------------------------------
(* The buttons of a page *)

\* What a model says of them: the "wrong" one takes them for each other.
Said(page, says) ==
    LET go == IF "go" \in page.buttons THEN "go" ELSE "none"
        send == IF "send" \in page.buttons THEN "send" ELSE "none"
    IN IF says = "nothing" THEN NoStep
       ELSE IF says = "right" THEN [next |-> go, submit |-> send] ELSE [next |-> send, submit |-> go]
\* step_buttons: the texts, then form_map, then a screenshot, which costs a look.
ButtonSteps(w) ==
    LET page == Shown(w)
        says == IF page.clear THEN {"right"} ELSE fscene.says
        mapped == {[step |-> Said(page, s), looks |-> 0] : s \in says}
        silent == \E m \in mapped : m.step = NoStep
    IN IF silent /\ walk[w].looks < MaxLooks
       THEN {m \in mapped : m.step # NoStep} \cup {[step |-> Said(page, s), looks |-> 1] : s \in fscene.says}
       ELSE mapped
\* is_final: a Submit button and no Next.
IsFinal(step) == step.submit # "none" /\ step.next = "none"

\* A button is clicked: what the site gets, and the pages it may show then.
Sent(w, mark) ==
    received' = IF mark = "send" THEN received \cup {[pass |-> walk[w].pass, filled |-> walk[w].filled, pages |-> walk[w].pages]}
                ELSE received
PagesAfter(w, mark) ==
    IF mark = "go" /\ walk[w].at < Len(walk[w].pages) THEN {walk[w].at, walk[w].at + 1} ELSE {walk[w].at}

----------------------------------------------------------------------------
(* Opening the form *)

\* Answers of an earlier pass that are kept when the form is read again.
KnownFields == [k \in Controls |-> IF HasValue(sheet.fields[k]) THEN sheet.fields[k] ELSE NoField]

\* The first page shows, as the form is now.
Opened(w, pass) ==
    WalkGoes(w, [Resting EXCEPT !.pc = "read", !.pass = pass, !.pages = layout, !.at = 1, !.n = 1, !.looks = sheet.looks,
                                !.known = IF fscene.multi THEN KnownFields ELSE @])
\* Or a block, a sign-in page, a captcha, another site, or no form.
NotOpened(w) == standing' = "needs_user" /\ WalkGoes(w, [Resting EXCEPT !.pc = "save", !.looks = sheet.looks])

StartPrepare(w) ==
    /\ w \in fscene.walkers /\ walk[w].pc = "idle" /\ standing = "queued"
    /\ (standing' = "preparing" /\ Opened(w, "prepare")) \/ NotOpened(w)
    /\ UNCHANGED <<fscene, layout, sheet, approved, received, looked>>

StartSubmit(w) ==
    /\ w \in fscene.walkers /\ walk[w].pc = "idle" /\ standing = "submitting"
    /\ (standing' = "sending" /\ Opened(w, "submit")) \/ NotOpened(w)
    /\ UNCHANGED <<fscene, layout, sheet, approved, received, looked>>

----------------------------------------------------------------------------
(* Preparing *)

\* _plan_fields: known answers stay, and of the other questions some are answered.
PlannedField(w, q, answered) ==
    LET old == walk[w].known[KeyOf[q]] IN
    IF old # NoField THEN [old EXCEPT !.ask = q]
    ELSE [ask |-> q, value |-> IF q \in answered THEN "drafted"
                               ELSE IF q \in Shown(w).required THEN "open" ELSE "blank"]
\* A page adds the fields whose keys are new to the plan.
WithPage(w, answered) ==
    [k \in Controls |->
        LET here == {q \in Shown(w).asks : KeyOf[q] = k} IN
        IF walk[w].all[k] # NoField \/ here = {} THEN walk[w].all[k]
        ELSE PlannedField(w, CHOOSE q \in here : TRUE, answered)]

\* A page is read and planned.  A captcha, a file nobody has or no question at
\* all stops the run.
ReadPage(w) ==
    /\ walk[w].pc = "read" /\ walk[w].pass = "prepare"
    /\ \/ Stops(w) /\ UNCHANGED sheet
       \/ /\ Shown(w).asks # {}
          /\ \E answered \in SUBSET Shown(w).asks :
               LET all == WithPage(w, answered)
                   keys == KeysOf(Shown(w))
                   steps == IF walk[w].n = 1 THEN <<keys>> ELSE Append(sheet.steps, keys)
                   plan == [sheet EXCEPT !.fields = all, !.steps = IF fscene.multi THEN steps ELSE <<>>, !.complete = FALSE]
               IN /\ sheet' = plan
                  /\ IF fscene.multi
                     THEN WalkGoes(w, [walk[w] EXCEPT !.pc = "look", !.all = all]) /\ UNCHANGED standing
                     ELSE EndsAs(w, Announced(plan))
    /\ UNCHANGED <<fscene, layout, approved, received, looked>>

\* The last page completes the plan.  An open question stops the walk here; the
\* other pages are filled and turned.
LookForLast(w) ==
    /\ walk[w].pc = "look"
    /\ \E b \in ButtonSteps(w) :
         LET plan == [sheet EXCEPT !.complete = TRUE]
             open == \E k \in KeysOf(Shown(w)) : sheet.fields[k].value = "open"
             spent == [walk[w] EXCEPT !.looks = @ + b.looks, !.step = b.step]
         IN /\ looked' = looked + b.looks
            /\ IF IsFinal(b.step)
               THEN /\ sheet' = plan /\ standing' = Announced(plan)
                    /\ WalkGoes(w, [spent EXCEPT !.pc = "save"])
               ELSE IF open
               THEN /\ standing' = Announced(sheet) /\ UNCHANGED sheet
                    /\ WalkGoes(w, [spent EXCEPT !.pc = "save"])
               ELSE WalkGoes(w, [spent EXCEPT !.pc = "fill"]) /\ UNCHANGED <<sheet, standing>>
    /\ UNCHANGED <<fscene, layout, approved, received>>

----------------------------------------------------------------------------
(* Submitting *)

\* Fault: a page is filled with what fits, and the rest is left.
MatchesAlways(page, keys) == TRUE
\* A page still matches the plan: its required questions are planned, on this
\* page, with an answer.
MatchesPlan(page, keys) ==
    \A q \in page.required : KeyOf[q] \in keys /\ HasValue(sheet.fields[KeyOf[q]])

\* A reviewed page is read again.  The run stops when it changed, or shows a
\* captcha.
CheckPage(w) ==
    /\ walk[w].pc = "read" /\ walk[w].pass = "submit"
    /\ LET keys == IF fscene.multi THEN sheet.steps[walk[w].n] ELSE Controls IN
       \/ MatchesPlan(Shown(w), keys) /\ WalkGoes(w, [walk[w] EXCEPT !.pc = "fill"]) /\ UNCHANGED standing
       \/ Stops(w)
    /\ UNCHANGED <<fscene, layout, sheet, approved, received, looked>>

\* What the page says became of it: it was sent, or a captcha, an error or
\* nothing shows, and the user has to look.
Outcome == {"submitted", "needs_user"}

\* On the last page the Submit button is found again and clicked.
Send(w) ==
    /\ walk[w].pc = "send"
    /\ \/ Stops(w) /\ UNCHANGED <<received, looked>>      \* a captcha shows
       \/ \E b \in ButtonSteps(w), state \in Outcome :
            /\ looked' = looked + b.looks
            /\ IF b.step.submit = "none" \/ (fscene.multi /\ ~IsFinal(b.step))
               THEN standing' = "needs_user" /\ UNCHANGED received
               ELSE standing' = state /\ Sent(w, b.step.submit)
            /\ WalkGoes(w, [walk[w] EXCEPT !.pc = "save", !.looks = @ + b.looks])
    /\ UNCHANGED <<fscene, layout, sheet, approved>>

----------------------------------------------------------------------------
(* Filling and turning a page *)

\* What the walk has to put on a page.
Values(w) == {q \in Shown(w).asks : HasValue(sheet.fields[KeyOf[q]])}

\* The page that has been filled is turned, or it is the last one.
Turning(w) == IF walk[w].pass = "submit" /\ (~fscene.multi \/ walk[w].n = Len(sheet.steps)) THEN "send" ELSE "turn"

\* Controls found by their key take the planned answer, except the stuck ones.
SetPlain(w, gaps) ==
    [q \in Controls |-> IF q \in Values(w) \ gaps THEN sheet.fields[KeyOf[q]] ELSE walk[w].filled[q]]

\* fill_form: what cannot be set is left to the screenshots.
FillPage(w) ==
    /\ walk[w].pc = "fill"
    /\ LET gaps == Values(w) \cap fscene.stuck IN
       IF gaps # {} /\ ~fscene.multi THEN Stops(w) /\ UNCHANGED <<received, looked>>
       ELSE /\ WalkGoes(w, [walk[w] EXCEPT !.pc = IF gaps = {} THEN Turning(w) ELSE "gap", !.gaps = gaps, !.filled = SetPlain(w, gaps)])
            /\ UNCHANGED <<standing, received, looked>>
    /\ UNCHANGED <<fscene, layout, sheet, approved>>

\* _check: buttons, links and inputs whose text says that they send are refused.
MoveRefused(move) == move = "send" /\ fscene.tag = "button"

\* A gap is closed, or given up; after the last one the page is turned, or the
\* run stops.
GapEnds(w, gap, closed, looks) ==
    LET gaps == walk[w].gaps \ {gap}
        failed == walk[w].failed \/ ~closed
    IN IF gaps = {} /\ failed
       THEN /\ standing' = "needs_user"
            /\ WalkGoes(w, [walk[w] EXCEPT !.pc = "save", !.looks = @ + looks])
       ELSE /\ WalkGoes(w, [walk[w] EXCEPT !.gaps = gaps, !.failed = failed, !.looks = @ + looks,
                            !.pc = IF gaps # {} THEN "gap" ELSE IF gap = "page" THEN "again" ELSE Turning(w)])
            /\ UNCHANGED standing

\* _do: the answer to q is typed into a box; other moves leave the answers alone.
Typed(w, move, q, box) ==
    IF move \in {"fill", "misfill"} /\ q \in Controls THEN [walk[w].filled EXCEPT ![box] = sheet.fields[KeyOf[q]]]
    ELSE walk[w].filled

\* vision._run: a model sees the page and makes one move, within its budget and
\* with the answers of the gap.  No model may be there to see it.
Look(w) ==
    /\ walk[w].pc = "gap"
    /\ \E gap \in walk[w].gaps :
         \/ GapEnds(w, gap, FALSE, 0) /\ UNCHANGED <<received, looked>>
         \/ /\ walk[w].looks < MaxLooks
            /\ looked' = looked + 1
            /\ \E move \in fscene.moves :
                 \/ /\ move \in {"done", "give_up"} \/ MoveRefused(move)
                    /\ GapEnds(w, gap, move = "done", 1)
                    /\ UNCHANGED received
                 \/ /\ move \notin {"done", "give_up"} /\ ~MoveRefused(move)
                    /\ Sent(w, move)
                    /\ \E at \in IF move = "skip" THEN PagesAfter(w, "go") ELSE {walk[w].at},
                          q \in IF gap = "page" /\ Values(w) # {} THEN Values(w) ELSE {gap},
                          box \in Shown(w).asks :
                         /\ move = "fill" /\ q \in Shown(w).asks => box = q
                         /\ WalkGoes(w, [walk[w] EXCEPT !.looks = @ + 1, !.at = at, !.filled = Typed(w, move, q, box)])
                    /\ UNCHANGED standing
    /\ UNCHANGED <<fscene, layout, sheet, approved>>

\* next_step: the Next button is clicked, found by is_final or now.  A page that
\* stays is shown to a model once, and then it is clicked again.  A block, a
\* sign-in page, a captcha or another site stops the run.
TurnPage(w) ==
    /\ walk[w].pc \in {"turn", "again"}
    /\ \E b \in IF walk[w].pc = "turn" /\ walk[w].pass = "prepare" THEN {[step |-> walk[w].step, looks |-> 0]} ELSE ButtonSteps(w) :
         /\ looked' = looked + b.looks
         /\ \/ /\ b.step.next = "none"
               /\ standing' = "needs_user"
               /\ WalkGoes(w, [walk[w] EXCEPT !.pc = "save", !.looks = @ + b.looks])
               /\ UNCHANGED received
            \/ /\ b.step.next # "none"
               /\ Sent(w, b.step.next)
               /\ \E at \in PagesAfter(w, b.step.next) :
                    LET spent == [walk[w] EXCEPT !.looks = @ + b.looks, !.at = at, !.step = NoStep] IN
                    \/ /\ at # walk[w].at /\ (walk[w].pass = "submit" \/ walk[w].n < StepLimit)
                       /\ WalkGoes(w, [spent EXCEPT !.pc = "read", !.n = @ + 1])
                       /\ UNCHANGED standing
                    \/ /\ at = walk[w].at /\ walk[w].pc = "turn"
                       /\ WalkGoes(w, [spent EXCEPT !.pc = "gap", !.gaps = {"page"}])
                       /\ UNCHANGED standing
                    \/ /\ standing' = "needs_user"
                       /\ WalkGoes(w, [spent EXCEPT !.pc = "save"])
    /\ UNCHANGED <<fscene, layout, sheet, approved>>

----------------------------------------------------------------------------
(* The user, and the site *)

AnswerField ==
    /\ standing \in {"awaiting_input", "awaiting_review"} /\ fscene.walkers # {}
    /\ \E k \in Controls :
         /\ sheet.fields[k].value \in {"open", "drafted"}
         /\ LET plan == [sheet EXCEPT !.fields[k].value = "typed"] IN
            sheet' = plan /\ standing' = Announced(plan)
    /\ UNCHANGED <<fscene, layout, walk, approved, received, looked>>

ApproveForm ==
    /\ standing = "awaiting_review"
    /\ standing' = "submitting"
    /\ approved' = sheet.fields
    /\ UNCHANGED <<fscene, layout, sheet, walk, received, looked>>

FormChanges ==
    /\ layout # fscene.later
    /\ layout' = fscene.later
    /\ UNCHANGED <<fscene, standing, sheet, walk, approved, received, looked>>

FormNext ==
    \/ \E w \in Walkers :
         \/ StartPrepare(w) \/ StartSubmit(w) \/ ReadPage(w) \/ LookForLast(w)
         \/ CheckPage(w) \/ Send(w) \/ FillPage(w) \/ Look(w) \/ TurnPage(w) \/ SaveUsage(w)
    \/ AnswerField \/ ApproveForm \/ FormChanges

FormSpec == FormInit /\ [][FormNext]_fvars

----------------------------------------------------------------------------
(* Properties *)

Fields == [ask : Controls \cup {"none"}, value : {"none", "open", "blank", "drafted", "typed"}]
FormTypeOK ==
    /\ standing \in {"queued", "preparing", "awaiting_input", "awaiting_review", "submitting", "sending", "submitted",
                     "needs_user"}
    /\ sheet.fields \in [Controls -> Fields] /\ approved \in [Controls -> Fields]
    /\ \A n \in DOMAIN sheet.steps : sheet.steps[n] \subseteq Controls
    /\ sheet.complete \in BOOLEAN /\ sheet.looks \in 0 .. MaxLooks
    /\ \A w \in Walkers :
         /\ walk[w].pc \in {"idle", "read", "look", "fill", "gap", "turn", "again", "send", "save"}
         /\ walk[w].gaps \subseteq Controls \cup {"page"} /\ walk[w].looks \in 0 .. MaxLooks

\* An application leaves the browser only on a walk the user approved: reading a
\* form, with every click a model makes on the way, never sends it
\* (apply_engine.py:680 "stop before the final Submit", vision.py:10 "never a
\* button that sends the application").
ApprovedSends == \A r \in received : r.pass = "submit"

\* A form that was sent holds the answers the user approved, each at the
\* question it was approved for, and asked nothing else that is required
\* (_submit_steps: "each page is read again and must still match the plan").
SentAsReviewed ==
    \A r \in received : r.pass = "submit" =>
        /\ \A q \in Controls : r.filled[q] # NoField => r.filled[q] = approved[KeyOf[q]] /\ r.filled[q].ask = q
        /\ \A n \in DOMAIN r.pages : \A q \in r.pages[n].required :
               approved[KeyOf[q]].ask = q /\ HasValue(approved[KeyOf[q]])

\* No form leaves the browser but one the user reviewed, as it was reviewed.
OnlyReviewedSent == ApprovedSends /\ SentAsReviewed

\* All walks of a run together show a model at most MaxLooks screenshots
\* (vision.py:18, "Limits per run").  Not so: a run is announced before its
\* usage is saved, and the next walk may have started from the old one.
LooksBounded == looked <= MaxLooks
=============================================================================
