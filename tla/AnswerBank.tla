----------------------------- MODULE AnswerBank -----------------------------
(***************************************************************************)
(* The answers of one user to the questions of application forms            *)
(* (app/services/answer_bank.py, extension_assist.py, the plan, answer and   *)
(* approve of apply_engine.py, api/routes/answer_bank.py): forms are filled  *)
(* by a worker or for the extension, minutes long while a model answers;     *)
(* the user answers, reviews and keeps the bank meanwhile.                   *)
(*                                                                          *)
(* A question stands for all wordings with one question_hash.  A text says   *)
(* who wrote it: TypedTexts by the user, DraftTexts by a model; "" is none.  *)
(***************************************************************************)
EXTENDS Naturals, FiniteSets

CONSTANTS
    Questions,
    ProfileQuestions,   \* answered from the applicant info or the work authorization
    PrivateQuestions,   \* diversity questions, see _EEO_RULES
    Alike,              \* pairs of questions whose wordings pass SIMILARITY_MIN
    Forms,              \* apply runs
    BrowserForms,       \* the ones open in the user's browser
    Fillers,            \* workers and extension requests that may overlap
    TypedTexts, DraftTexts,
    MaxBank,            \* ANSWER_BANK_MAX_PER_USER
    BankScenes          \* the situations looked at, see BankScene

\* A situation: who fills which forms, what the user does and how often, and
\* whether an answer may be refused by the options of a field.
BankScene == [forms : SUBSET (Forms \cup {"page"}), fillers : SUBSET Fillers, does : SUBSET
                  {"answer", "save", "edit", "delete", "review", "picky"}, acts : Nat, asks : Nat]

ASSUME BankConstants ==
    /\ ProfileQuestions \cup PrivateQuestions \subseteq Questions /\ Alike \subseteq Questions \X Questions
    /\ BrowserForms \subseteq Forms /\ "page" \notin Forms /\ "" \notin TypedTexts \cup DraftTexts
    /\ TypedTexts \cap DraftTexts = {} /\ MaxBank \in Nat /\ BankScenes \subseteq BankScene

VARIABLES
    bscene,     \* the situation, which never changes
    bank,       \* the rows of answer_bank, by question
    plan,       \* the plan of each run, by question
    filler,     \* what each filler is doing
    saving,     \* the save of the user that is under way
    done,       \* acts of the user, and forms read
    seen,       \* history: texts the user wrote or was shown, by question
    told        \* history: questions a model was asked

bvars == <<bscene, bank, plan, filler, saving, done, seen, told>>

Texts == TypedTexts \cup DraftTexts
NoEntry == [text |-> "", approved |-> FALSE, origin |-> "none"]
Unplanned == [text |-> "", source |-> "none", approved |-> FALSE]
IdleFiller == [pc |-> "idle", form |-> "none", ask |-> {}, base |-> [q \in Questions |-> Unplanned]]
NoSave == [pc |-> "idle", question |-> "none", text |-> "", had |-> FALSE]

BankInit ==
    /\ bscene \in BankScenes
    /\ bank = [q \in Questions |-> NoEntry]
    /\ plan = [r \in Forms |-> [q \in Questions |-> Unplanned]]
    /\ filler = [f \in Fillers |-> IdleFiller]
    /\ saving = NoSave
    /\ done = [acts |-> 0, asks |-> 0]
    /\ seen = [q \in Questions |-> {}]
    /\ told = {}

Has(q) == bank[q].origin # "none"
BankFull == Cardinality({q \in Questions : Has(q)}) >= MaxBank

----------------------------------------------------------------------------
(* answer_fields *)

\* best_match: the same question, else one that is worded alike, approved ones
\* first.
Matches(q) ==
    LET alike == {n \in Questions : <<q, n>> \in Alike /\ Has(n)}
        good == {n \in alike : bank[n].approved}
    IN IF Has(q) THEN {q} ELSE IF good # {} THEN good ELSE alike
Planned(text, source, approved) ==
    [text |-> text, source |-> IF text = "" THEN "none" ELSE source, approved |-> approved /\ text # ""]

\* What a field is answered with before any model is asked, `fits` saying which
\* answers are among the options of their field.
KnownAnswer(q, fits) ==
    IF q \in PrivateQuestions THEN Planned("profile", "eeo", TRUE)
    ELSE IF q \in ProfileQuestions THEN Planned("profile", "profile", TRUE)
    ELSE IF Matches(q) = {} \/ ~fits THEN Unplanned
    ELSE LET e == bank[CHOOSE n \in Matches(q) : TRUE] IN Planned(e.text, "answer_bank", e.approved)
\* Diversity questions are never sent to a model, even when nobody answers them.
ForAI(fields, base) == {q \in fields \ PrivateQuestions : base[q].source = "none"}

\* A page is read.  Questions this run has answered keep their answer.
ReadForm(f) ==
    /\ f \in bscene.fillers /\ filler[f].pc = "idle" /\ done.asks < bscene.asks
    /\ \E form \in bscene.forms, fields \in SUBSET Questions \ {{}},
          fits \in {TRUE} \cup (IF "picky" \in bscene.does THEN {FALSE} ELSE {}) :
         LET old == IF form = "page" THEN IdleFiller.base ELSE plan[form]
             fresh == {q \in fields : old[q].source = "none"}
             base == [q \in Questions |-> IF q \in fresh THEN KnownAnswer(q, fits) ELSE old[q]]
         IN /\ form \in Forms \ BrowserForms => \A g \in Fillers : filler[g].form # form
            /\ fresh # {}
            /\ filler' = [filler EXCEPT ![f] = [pc |-> "ask", form |-> form, ask |-> ForAI(fresh, base), base |-> base]]
            /\ told' = told \cup ForAI(fresh, base)
    /\ done' = [done EXCEPT !.asks = @ + 1]
    /\ UNCHANGED <<bscene, bank, plan, saving, seen>>

\* Fault: the last answer is kept.
DraftedOver(q, text) == [bank[q] EXCEPT !.text = text, !.origin = IF @ = "none" THEN "ai" ELSE @]
\* save_ai_draft: never over an entry, and not into a full bank.
Drafted(q, text) == IF Has(q) \/ BankFull THEN bank[q] ELSE [text |-> text, approved |-> FALSE, origin |-> "ai"]

\* The model answers some of the questions, grounded, or none of them.  The
\* drafts are saved, and the plan is written as it was read, with what is new.
FillForm(f) ==
    LET t == filler[f] IN
    /\ t.pc = "ask"
    /\ \E answered \in SUBSET t.ask, text \in DraftTexts :
         /\ bank' = [q \in Questions |-> IF q \in answered THEN Drafted(q, text) ELSE bank[q]]
         /\ plan' = IF t.form = "page" THEN plan
                    ELSE [plan EXCEPT ![t.form] = [q \in Questions |->
                             IF q \in answered THEN Planned(text, "ai", FALSE) ELSE t.base[q]]]
         /\ seen' = IF t.form = "page" \/ t.form \in BrowserForms
                    THEN [q \in Questions |-> IF q \in answered THEN seen[q] \cup {text} ELSE seen[q]]
                    ELSE seen
    /\ filler' = [filler EXCEPT ![f] = IdleFiller]
    /\ UNCHANGED <<bscene, saving, done, told>>

----------------------------------------------------------------------------
(* The user *)

Acts == done.acts < bscene.acts /\ done' = [done EXCEPT !.acts = @ + 1]
Sees(q, text) == seen' = [seen EXCEPT ![q] = @ \cup {text}]
Own(text) == [text |-> text, approved |-> TRUE, origin |-> "user"]

\* answer and remember: the plan, and the bank unless the question is one of
\* diversity.  A bank that is full refuses the answer.
Remembered(q, text) ==
    IF q \in PrivateQuestions THEN bank ELSE [bank EXCEPT ![q] = Own(text)]
AnswerQuestion(r, q, text) ==
    /\ "answer" \in bscene.does /\ Acts /\ \E n \in Questions : plan[r][n].source # "none"
    /\ q \notin PrivateQuestions => Has(q) \/ ~BankFull
    /\ plan' = [plan EXCEPT ![r][q] = Planned(text, "user", TRUE)]
    /\ bank' = Remembered(q, text)
    /\ Sees(q, text)
    /\ UNCHANGED <<bscene, filler, saving, told>>

\* approve: reviewing the run approves the drafts of the questions it answered
\* with a model's text.
Reviewed(r) == {q \in Questions : plan[r][q].source = "ai"}
ApproveRun(r) ==
    /\ "review" \in bscene.does /\ r \notin BrowserForms /\ Acts
    /\ \A f \in Fillers : filler[f].form # r
    /\ Reviewed(r) # {}
    /\ bank' = [q \in Questions |-> IF q \in Reviewed(r) /\ Has(q) THEN [bank[q] EXCEPT !.approved = TRUE] ELSE bank[q]]
    /\ seen' = [q \in Questions |-> seen[q] \cup (IF plan[r][q].source # "none" THEN {plan[r][q].text} ELSE {})]
    /\ UNCHANGED <<bscene, plan, filler, saving, told>>

\* save_user_answer, from the bank's page or the panel of a page with no run:
\* the entry as it is read, then the row that is written.
SaveAnswer(q, text) ==
    /\ "save" \in bscene.does /\ saving = NoSave /\ Acts
    /\ q \notin PrivateQuestions /\ (Has(q) \/ ~BankFull)
    /\ saving' = [pc |-> "write", question |-> q, text |-> text, had |-> Has(q)]
    /\ UNCHANGED <<bscene, bank, plan, filler, seen, told>>
\* A draft saved meanwhile refuses the new row.
SaveCommits ==
    LET q == saving.question IN
    /\ saving.pc = "write"
    /\ IF Has(q) = saving.had
       THEN bank' = [bank EXCEPT ![q] = Own(saving.text)] /\ Sees(q, saving.text)
       ELSE UNCHANGED <<bank, seen>>
    /\ saving' = NoSave
    /\ UNCHANGED <<bscene, plan, filler, done, told>>

\* update_entry: an edit approves, unless the user says otherwise; an entry may
\* be approved as it is, or no longer.
EditEntry(q, text, approved) ==
    /\ "edit" \in bscene.does /\ Has(q) /\ Acts
    /\ bank' = [bank EXCEPT ![q].text = text, ![q].approved = approved]
    /\ Sees(q, text)
    /\ UNCHANGED <<bscene, plan, filler, saving, told>>
ApproveEntry(q, approved) ==
    /\ "edit" \in bscene.does /\ Has(q) /\ bank[q].approved # approved /\ Acts
    /\ bank' = [bank EXCEPT ![q].approved = approved]
    /\ Sees(q, bank[q].text)
    /\ UNCHANGED <<bscene, plan, filler, saving, told>>
DeleteEntry(q) ==
    /\ "delete" \in bscene.does /\ Has(q) /\ Acts
    /\ bank' = [bank EXCEPT ![q] = NoEntry]
    /\ UNCHANGED <<bscene, plan, filler, saving, seen, told>>

----------------------------------------------------------------------------
BankNext ==
    \/ \E f \in Fillers : ReadForm(f) \/ FillForm(f)
    \/ \E r \in Forms : ApproveRun(r) \/ \E q \in Questions, text \in TypedTexts : AnswerQuestion(r, q, text)
    \/ \E q \in Questions, text \in TypedTexts : SaveAnswer(q, text)
    \/ \E q \in Questions : DeleteEntry(q)
    \/ \E q \in Questions, approved \in BOOLEAN :
          ApproveEntry(q, approved) \/ \E text \in TypedTexts : EditEntry(q, text, approved)
    \/ SaveCommits
BankSpec == BankInit /\ [][BankNext]_bvars

----------------------------------------------------------------------------
(* Properties *)

PlanTexts == Texts \cup {"", "profile"}
BankTypeOK ==
    /\ bscene \in BankScenes
    /\ bank \in [Questions -> [text : Texts \cup {""}, approved : BOOLEAN, origin : {"none", "user", "ai"}]]
    /\ plan \in [Forms -> [Questions -> [text : PlanTexts, approved : BOOLEAN,
                                         source : {"none", "eeo", "profile", "answer_bank", "ai", "user"}]]]
    /\ told \subseteq Questions

\* What the bank calls the user's own is a text the user typed: a draft that a
\* worker or a page saves meanwhile never replaces it (answer_bank.py:149,
\* "Never overwrites an existing entry").
TypedStays == \A q \in Questions : bank[q].origin = "user" => bank[q].text \in TypedTexts

\* Diversity answers are in no plain-text bank and are never asked of a model
\* (answer_bank.py:13, extension_assist.py:153, apply_engine.py:772).
PrivateStays == \A q \in PrivateQuestions : ~Has(q) /\ q \notin told

\* The bank keeps what the user typed, and keeps out what is private.
AnswersStay == TypedStays /\ PrivateStays

\* An approved entry holds a text the user wrote or was shown ("Only answers
\* with approved=True may be submitted without the user seeing them",
\* answer_bank.py:22).
ApprovedWasSeen == \A q \in Questions : bank[q].approved => bank[q].text \in seen[q]

\* What the user answered stays in the plan of the run (extension_assist.py:126,
\* "Fields already answered in this run keep their answer").
AnswersKept == [][\A r \in Forms, q \in Questions :
                    plan[r][q].source = "user" => plan'[r][q].source = "user"]_bvars
=============================================================================
