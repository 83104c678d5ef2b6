---------------------------- MODULE SearchProofs ----------------------------
(***************************************************************************)
(* Theorems about SearchFeed, for any titles, any number of them at once,   *)
(* any jobs and whatever fails: first the counting of the titles, which     *)
(* needs no types, then the jobs, whose rows and steps are typed first.     *)
(***************************************************************************)
EXTENDS SearchFeed, FiniteSetTheorems, SequenceTheorems, TLAPS

----------------------------------------------------------------------------
(* The inductive invariant *)

\* Every title that has still to be counted is owed: it waits for its turn,
\* is about to be queued, or its task has not counted it yet.
ElementsOf(seq) == {seq[i] : i \in DOMAIN seq}
Starters == {t \in TitleSet : task[t].pc = "start"}
Starting == {task[t].title : t \in Starters}
Unborn == IF dispatcher.pc = "hold" THEN TitleSet
          ELSE ElementsOf(waiting) \cup ElementsOf(dispatcher.left) \cup Starting
Active == {t \in TitleSet : task[t].pc \in InTry \cup {"skip", "queued"}}
Owed == Unborn \cup Active

Distinct(seq) == \A i, k \in DOMAIN seq : seq[i] = seq[k] => i = k

\* The fields that the control of a task depends on.
Afters == {"triage", "finish", "drain", "applicants"}
TaskFields ==
    /\ DOMAIN task = TitleSet
    /\ \A t \in TitleSet : /\ {"pc", "after", "title"} \subseteq DOMAIN task[t]
                           /\ task[t].pc \in Steps /\ task[t].after \in Afters

RunFields ==
    /\ DOMAIN meta = {"status", "completed"} /\ meta.completed \in Nat
    /\ waiting \in Seq(TitleSet)
    /\ dispatcher \in [pc : {"hold", "send", "over"}, left : Seq(TitleSet)]

\* Before the dispatch nothing runs.
NothingYet ==
    dispatcher.pc = "hold" => /\ waiting = << >> /\ dispatcher.left = << >>
                              /\ \A t \in TitleSet : task[t].pc = "none"

\* A title is in one place at a time.
OnePlace ==
    /\ Distinct(waiting) /\ Distinct(dispatcher.left)
    /\ ElementsOf(waiting) \cap ElementsOf(dispatcher.left) = {}
    /\ \A t \in Starters : /\ task[t].title \in TitleSet
                           /\ task[t].title \notin ElementsOf(waiting) \cup ElementsOf(dispatcher.left)
    /\ \A t, u \in Starters : task[t].title = task[u].title => t = u
    /\ \A t \in Unborn : task[t].pc = "none"

\* The titles counted and the titles owed are no more than the titles.
Counted == meta.completed + Cardinality(Owed) <= Total

Inv == TaskFields /\ RunFields /\ NothingYet /\ OnePlace /\ Counted

----------------------------------------------------------------------------
(* Sets of titles *)

\* The titles of the search are as many as its list is long.
LEMMA TitlesCount == IsFiniteSet(TitleSet) /\ Cardinality(TitleSet) = Total
<1>1. Titles \in Bijection(1..Total, TitleSet)
  <2>1. Total \in Nat /\ DOMAIN Titles = 1..Total
    BY SearchConstants DEF Total
  <2>2. Titles \in [1..Total -> TitleSet]
    BY <2>1, SearchConstants DEF TitleSet, Total
  <2>3. \A s \in TitleSet : \E i \in 1..Total : Titles[i] = s
    BY <2>1 DEF TitleSet
  <2>4. \A i, k \in 1..Total : Titles[i] = Titles[k] => i = k
    BY <2>1, SearchConstants
  <2> QED
    BY <2>2, <2>3, <2>4 DEF Bijection, Injection, Surjection, IsInjective
<1>2. ExistsBijection(1..Total, TitleSet)
  BY <1>1 DEF ExistsBijection
<1>3. Total \in Nat
  BY SearchConstants DEF Total
<1>4. IsFiniteSet(1..Total) /\ Cardinality(1..Total) = Total
  BY <1>3, FS_Interval
<1> QED
  BY <1>2, <1>4, FS_Bijection

LEMMA ElementsOfSeq ==
    ASSUME NEW S, NEW seq \in Seq(S)
    PROVE  ElementsOf(seq) \subseteq S /\ (ElementsOf(seq) = {} => seq = << >>)
BY DEF ElementsOf

\* Taking the head of a list without repetitions takes it out of its elements.
LEMMA TailOfDistinct ==
    ASSUME NEW S, NEW seq \in Seq(S), seq # << >>, Distinct(seq)
    PROVE  /\ Head(seq) \in S /\ Tail(seq) \in Seq(S) /\ Distinct(Tail(seq))
           /\ ElementsOf(Tail(seq)) = ElementsOf(seq) \ {Head(seq)}
           /\ Head(seq) \in ElementsOf(seq)
<1>1. /\ Head(seq) \in S /\ Tail(seq) \in Seq(S) /\ Len(Tail(seq)) = Len(seq) - 1
      /\ \A i \in 1..Len(Tail(seq)) : Tail(seq)[i] = seq[i + 1]
  BY HeadTailProperties
<1>2. DOMAIN seq = 1..Len(seq) /\ Len(seq) \in Nat /\ Len(seq) > 0 /\ Head(seq) = seq[1]
  BY EmptySeq
<1>3. DOMAIN Tail(seq) = 1..(Len(seq) - 1)
  BY <1>1
<1>4. \A i \in DOMAIN Tail(seq) : i + 1 \in DOMAIN seq /\ Tail(seq)[i] = seq[i + 1]
  BY <1>1, <1>2, <1>3
<1>5. \A i, k \in DOMAIN seq : seq[i] = seq[k] => i = k
  BY DEF Distinct
<1>6. Distinct(Tail(seq))
  BY <1>2, <1>3, <1>4, <1>5 DEF Distinct
<1>7. ElementsOf(Tail(seq)) \subseteq ElementsOf(seq) \ {Head(seq)}
  <2> SUFFICES ASSUME NEW i \in DOMAIN Tail(seq)
               PROVE  Tail(seq)[i] \in ElementsOf(seq) /\ Tail(seq)[i] # Head(seq)
    BY DEF ElementsOf
  <2>1. i + 1 \in DOMAIN seq /\ 1 \in DOMAIN seq /\ i + 1 # 1 /\ Tail(seq)[i] = seq[i + 1]
    BY <1>2, <1>3, <1>4
  <2> QED
    BY <2>1, <1>2, <1>5 DEF ElementsOf
<1>8. ElementsOf(seq) \ {Head(seq)} \subseteq ElementsOf(Tail(seq))
  <2> SUFFICES ASSUME NEW i \in DOMAIN seq, seq[i] # Head(seq)
               PROVE  seq[i] \in ElementsOf(Tail(seq))
    BY DEF ElementsOf
  <2>1. i - 1 \in DOMAIN Tail(seq) /\ (i - 1) + 1 = i
    BY <1>2, <1>3
  <2>2. Tail(seq)[i - 1] = seq[i]
    BY <2>1, <1>4
  <2> QED
    BY <2>1, <2>2 DEF ElementsOf
<1> QED
  BY <1>1, <1>2, <1>6, <1>7, <1>8 DEF ElementsOf

\* Two parts of the list of titles, one after the other, have no repetition.
LEMMA TitlesSplit ==
    ASSUME NEW n \in 0..Total
    PROVE  LET first == SubSeq(Titles, 1, n)
               rest == SubSeq(Titles, n + 1, Total) IN
           /\ first \in Seq(TitleSet) /\ rest \in Seq(TitleSet)
           /\ Distinct(first) /\ Distinct(rest)
           /\ ElementsOf(rest) \cap ElementsOf(first) = {}
<1> DEFINE first == SubSeq(Titles, 1, n)
           rest == SubSeq(Titles, n + 1, Total)
<1>1. Total \in Nat /\ DOMAIN Titles = 1..Total /\ \A i \in 1..Total : Titles[i] \in TitleSet
  BY SearchConstants DEF Total, TitleSet
<1>2. \A i, k \in 1..Total : Titles[i] = Titles[k] => i = k
  BY <1>1, SearchConstants
<1>3. /\ first \in Seq(TitleSet) /\ Len(first) = n
      /\ \A i \in 1..n : first[i] = Titles[i]
  <2>1. /\ first \in Seq(TitleSet) /\ Len(first) = IF 1 <= n THEN n - 1 + 1 ELSE 0
        /\ \A i \in 1..(n - 1 + 1) : first[i] = Titles[1 + i - 1]
    BY <1>1, SubSeqProperties
  <2> QED
    BY <2>1, <1>1
<1>4. /\ rest \in Seq(TitleSet) /\ Len(rest) = Total - n
      /\ \A i \in 1..(Total - n) : rest[i] = Titles[n + i]
  <2>1. \A i \in (n + 1)..Total : Titles[i] \in TitleSet
    BY <1>1
  <2>2. /\ rest \in Seq(TitleSet) /\ Len(rest) = IF n + 1 <= Total THEN Total - (n + 1) + 1 ELSE 0
        /\ \A i \in 1..(Total - (n + 1) + 1) : rest[i] = Titles[(n + 1) + i - 1]
    BY <1>1, <2>1, SubSeqProperties
  <2> QED
    BY <2>2, <1>1
<1>5. DOMAIN first = 1..n /\ DOMAIN rest = 1..(Total - n)
  BY <1>3, <1>4
<1> HIDE DEF first, rest
<1>6. Distinct(first)
  <2> SUFFICES ASSUME NEW i \in 1..n, NEW k \in 1..n, first[i] = first[k] PROVE i = k
    BY <1>5 DEF Distinct
  <2> QED
    BY <1>1, <1>2, <1>3
<1>7. Distinct(rest)
  <2> SUFFICES ASSUME NEW i \in 1..(Total - n), NEW k \in 1..(Total - n), rest[i] = rest[k] PROVE i = k
    BY <1>5 DEF Distinct
  <2>1. n + i \in 1..Total /\ n + k \in 1..Total /\ Titles[n + i] = Titles[n + k]
    BY <1>1, <1>4
  <2> QED
    BY <2>1, <1>2
<1>8. ElementsOf(rest) \cap ElementsOf(first) = {}
  <2> SUFFICES ASSUME NEW i \in 1..(Total - n), NEW k \in 1..n, rest[i] = first[k] PROVE FALSE
    BY <1>5 DEF ElementsOf
  <2>1. n + i \in 1..Total /\ k \in 1..Total /\ Titles[n + i] = Titles[k] /\ n + i # k
    BY <1>1, <1>3, <1>4
  <2> QED
    BY <2>1, <1>2
<1> QED
  BY <1>3, <1>4, <1>6, <1>7, <1>8 DEF first, rest

----------------------------------------------------------------------------
(* What a step has to show *)

LEMMA OwedSize ==
    ASSUME OnePlace, RunFields
    PROVE  Owed \subseteq TitleSet /\ IsFiniteSet(Owed) /\ Cardinality(Owed) \in Nat
<1>1. Owed \subseteq TitleSet
  BY ElementsOfSeq DEF Owed, Unborn, Active, Starting, OnePlace, RunFields
<1> QED
  BY <1>1, TitlesCount, FS_Subset, FS_CardinalityType

\* A step that counts no title must owe no title it did not owe before.
LEMMA CountsNone ==
    ASSUME Inv, TaskFields', RunFields', NothingYet', OnePlace',
           Owed' \subseteq Owed, meta'.completed = meta.completed
    PROVE  Inv'
<1>1. Cardinality(Owed') <= Cardinality(Owed) /\ Cardinality(Owed') \in Nat /\ Cardinality(Owed) \in Nat
  <2>1. IsFiniteSet(Owed) /\ Cardinality(Owed) \in Nat
    BY OwedSize DEF Inv
  <2> QED
    BY <2>1, FS_Subset, FS_CardinalityType
<1>2. meta.completed \in Nat /\ Total \in Nat
  BY SearchConstants DEF Inv, RunFields, Total
<1>3. Counted'
  BY <1>1, <1>2 DEF Inv, Counted, Total
<1> QED
  BY <1>3 DEF Inv

\* A step that counts a title must have owed it, and owe it no more.
LEMMA CountsOne ==
    ASSUME Inv, TaskFields', RunFields', NothingYet', OnePlace',
           NEW u \in Owed, Owed' \subseteq Owed \ {u}, meta'.completed = meta.completed + 1
    PROVE  Inv'
<1>1. /\ Cardinality(Owed') <= Cardinality(Owed) - 1
      /\ Cardinality(Owed') \in Nat /\ Cardinality(Owed) \in Nat
  <2>1. IsFiniteSet(Owed) /\ Cardinality(Owed) \in Nat
    BY OwedSize DEF Inv
  <2>2. IsFiniteSet(Owed \ {u}) /\ Cardinality(Owed \ {u}) = Cardinality(Owed) - 1
    BY <2>1, FS_RemoveElement
  <2>3. IsFiniteSet(Owed') /\ Cardinality(Owed') <= Cardinality(Owed \ {u})
    BY <2>2, FS_Subset
  <2> QED
    BY <2>1, <2>2, <2>3, FS_CardinalityType
<1>2. meta.completed \in Nat /\ Total \in Nat
  BY SearchConstants DEF Inv, RunFields, Total
<1>3. Counted'
  BY <1>1, <1>2 DEF Inv, Counted, Total
<1> QED
  BY <1>3 DEF Inv

\* A record that goes on as the control of a task.
Control(record) ==
    /\ {"pc", "after", "title"} \subseteq DOMAIN record
    /\ record.pc \in Steps /\ record.after \in Afters

\* The task of a title changes, and neither starts another one nor is one
\* that does: what the invariant says of the titles' places is untouched.
LEMMA TaskGoesOn ==
    ASSUME Inv, NEW t \in TitleSet, NEW record, Control(record),
           task[t].pc \notin {"none", "start"}, record.pc \notin {"none", "start"},
           Set(t, record), UNCHANGED <<waiting, dispatcher>>,
           DOMAIN meta' = {"status", "completed"}, meta'.completed \in Nat
    PROVE  /\ TaskFields' /\ RunFields' /\ NothingYet' /\ OnePlace'
           /\ Unborn' = Unborn /\ t \notin Unborn
           /\ Active' = IF record.pc \in InTry \cup {"skip", "queued"} THEN Active \cup {t} ELSE Active \ {t}
<1>1. DOMAIN task = TitleSet
  BY DEF Inv, TaskFields
<1>2. DOMAIN task' = TitleSet /\ task'[t] = record
  BY <1>1 DEF Set
<1>3. \A u \in TitleSet \ {t} : task'[u] = task[u]
  BY <1>1 DEF Set
<1>4. TaskFields'
  BY <1>2, <1>3 DEF Inv, TaskFields, Control, TitleSet, Steps, InTry
<1>5. RunFields'
  BY DEF Inv, RunFields, TitleSet
<1>6. dispatcher.pc # "hold"
  BY DEF Inv, NothingYet
<1>7. NothingYet'
  BY <1>6 DEF NothingYet
<1>8. Starters' = Starters
  BY <1>2, <1>3 DEF Starters, TitleSet
<1>9. \A u \in Starters : task'[u] = task[u]
  BY <1>3 DEF Starters
<1>10. Starting' = Starting
  BY <1>8, <1>9 DEF Starting
<1>11. Unborn' = Unborn
  BY <1>10 DEF Unborn, ElementsOf, TitleSet
<1>12. t \notin Unborn
  BY DEF Inv, OnePlace
<1>13. OnePlace'
  <2>1. \A u \in Unborn' : task'[u].pc = "none"
    <3> SUFFICES ASSUME NEW u \in Unborn PROVE task'[u].pc = "none"
      BY <1>11
    <3>1. u \in TitleSet /\ task[u].pc = "none"
      BY OwedSize DEF Inv, OnePlace, Owed
    <3> QED
      BY <3>1, <1>3, <1>12
  <2> QED
    BY <2>1, <1>8, <1>9 DEF Inv, OnePlace, Distinct, ElementsOf, TitleSet
<1>14. Active' = IF record.pc \in InTry \cup {"skip", "queued"} THEN Active \cup {t} ELSE Active \ {t}
  BY <1>2, <1>3 DEF Active, TitleSet, InTry
<1> QED
  BY <1>4, <1>5, <1>7, <1>11, <1>12, <1>13, <1>14

\* A step of a title that is at work and stays at work.
LEMMA StaysActive ==
    ASSUME Inv, NEW t \in TitleSet, NEW record, Control(record), t \in Active,
           record.pc \in InTry \cup {"skip", "queued"},
           Set(t, record), UNCHANGED <<waiting, dispatcher, meta>>
    PROVE  Inv'
<1>1. task[t].pc \notin {"none", "start"} /\ record.pc \notin {"none", "start"}
  BY DEF Active, InTry
<1>2. DOMAIN meta' = {"status", "completed"} /\ meta'.completed \in Nat /\ meta'.completed = meta.completed
  BY DEF Inv, RunFields
<1>3. /\ TaskFields' /\ RunFields' /\ NothingYet' /\ OnePlace' /\ Unborn' = Unborn
      /\ Active' = Active \cup {t}
  BY <1>1, <1>2, TaskGoesOn
<1>4. Owed' \subseteq Owed
  BY <1>3 DEF Owed
<1> QED
  BY <1>2, <1>3, <1>4, CountsNone

----------------------------------------------------------------------------
(* The steps of a title at work *)

\* What every step between the search and the count does.
WorksOn(t, record) ==
    /\ Control(record) /\ record.pc \in InTry
    /\ Set(t, record) /\ UNCHANGED <<waiting, dispatcher, meta>>

LEMMA WorkingKeepsInv ==
    ASSUME Inv, NEW t \in TitleSet, task[t].pc \in InTry, NEW record, WorksOn(t, record)
    PROVE  Inv'
<1>1. t \in Active
  BY DEF Active
<1> QED
  BY <1>1, StaysActive DEF WorksOn

LEMMA FieldsOfTask ==
    ASSUME Inv, NEW t \in TitleSet
    PROVE  Control(task[t])
BY DEF Inv, TaskFields, Control

LEMMA GoingOn ==
    ASSUME Inv, NEW t \in TitleSet, task[t].pc \in InTry, NEW pc \in InTry, Goto(t, pc),
           UNCHANGED <<waiting, dispatcher, meta>>
    PROVE  Inv'
<1> DEFINE record == [task[t] EXCEPT !.pc = pc]
<1>1. Control(record) /\ record.pc \in InTry
  BY FieldsOfTask DEF Control, Steps
<1>2. WorksOn(t, record)
  BY <1>1 DEF WorksOn, Goto
<1> QED
  BY <1>2, WorkingKeepsInv

LEMMA SearchSteps ==
    ASSUME Inv, NEW t \in TitleSet, Search(t)
    PROVE  Inv'
<1>1. task[t].pc \in InTry
  BY DEF Search, At, InTry
<1> DEFINE fresh == [NotStarted EXCEPT !.kept = task[t].kept]
<1>2. CASE task[t].places = 0
  <2> DEFINE record == [fresh EXCEPT !.pc = IF CountApplicants THEN "applicants" ELSE "count"]
  <2>1. WorksOn(t, record)
    BY <1>2 DEF Search, WorksOn, Control, NotStarted, InTry, Steps, Afters
  <2> QED
    BY <1>1, <2>1, WorkingKeepsInv
<1>3. CASE task[t].places # 0
  <2>1. PICK found \in Found[t] :
          Set(t, [fresh EXCEPT !.pc = "triage", !.places = task[t].places - 1, !.todo = found])
    BY <1>3 DEF Search
  <2> DEFINE record == [fresh EXCEPT !.pc = "triage", !.places = task[t].places - 1, !.todo = found]
  <2>2. WorksOn(t, record)
    BY <2>1 DEF Search, WorksOn, Control, NotStarted, InTry, Steps, Afters
  <2> QED
    BY <1>1, <2>2, WorkingKeepsInv
<1> QED
  BY <1>2, <1>3

LEMMA UpsertSteps ==
    ASSUME Inv, NEW t \in TitleSet, Upsert(t)
    PROVE  Inv'
<1>1. task[t].pc \in InTry
  BY DEF Upsert, At, InTry
<1> DEFINE found == Head(task[t].todo)
           record == [task[t] EXCEPT !.pc = "claim", !.after = "triage", !.todo = Tail(@),
                                     !.job = found.job]
<1>2. WorksOn(t, record)
  BY FieldsOfTask DEF Upsert, WorksOn, Control, InTry, Steps, Afters
<1> QED
  BY <1>1, <1>2, WorkingKeepsInv

\* The record of a title that writes the entry of a job it keeps.
LEMMA KeepingControl ==
    ASSUME Inv, NEW t \in TitleSet, NEW job, NEW copy
    PROVE  Control(Keeping(t, job, copy)) /\ Keeping(t, job, copy).pc = "push"
BY FieldsOfTask DEF Keeping, Control, Steps, InTry

LEMMA DecideSteps ==
    ASSUME Inv, NEW t \in TitleSet, Decide(t)
    PROVE  Inv'
<1>1. task[t].pc \in InTry /\ UNCHANGED <<waiting, dispatcher, meta>>
  BY DEF Decide, At, InTry
<1>2. CASE Goto(t, "triage")
  BY <1>1, <1>2, GoingOn DEF InTry
<1> DEFINE job == task[t].job
           row == userJob[job]
           copy == canonical[job]
           reused == [Keeping(t, job, copy) EXCEPT !.kept = @ \cup {job}, !.result.known = row.known]
           stopped == [task[t] EXCEPT !.pc = IF row.state = "none" THEN "read" ELSE "write", !.row = row,
                                      !.result = [state |-> "filtered", known |-> "none"]]
           shown == [task[t] EXCEPT !.pc = "push", !.keeping = FALSE, !.entry = EntryOf(copy, FALSE),
                                    !.pending = Append(@, [job |-> job, copy |-> copy])]
<1>3. Control(reused) /\ reused.pc \in InTry
  BY KeepingControl DEF Control, InTry
<1>4. Control(stopped) /\ stopped.pc \in InTry
  BY FieldsOfTask DEF Control, InTry, Steps
<1>5. Control(shown) /\ shown.pc \in InTry
  BY FieldsOfTask DEF Control, InTry, Steps
<1>6. Goto(t, "triage") \/ Set(t, reused) \/ Set(t, stopped) \/ Set(t, shown)
  BY DEF Decide
<1> HIDE DEF reused, stopped, shown
<1> QED
  BY <1>1, <1>2, <1>3, <1>4, <1>5, <1>6, WorkingKeepsInv DEF WorksOn

\* Reading, writing and taking out the entry of a job.
LEMMA EntrySteps ==
    ASSUME Inv, NEW t \in TitleSet,
           Claim(t) \/ Replace(t) \/ Push(t) \/ Remember(t) \/ Remove(t) \/ TakeOut(t) \/ Forget(t)
    PROVE  Inv'
<1>1. task[t].pc \in InTry /\ UNCHANGED <<waiting, dispatcher, meta>>
  BY DEF Claim, Replace, Push, Remember, Remove, TakeOut, Forget, At, InTry
<1>2. task[t].after \in InTry
  BY DEF Inv, TaskFields, Afters, InTry
<1>3. CASE Replace(t)
  <2> DEFINE shown == recorded[task[t].job]
  <2>1. CASE shown.copy \in {0, task[t].best}
    BY <1>1, <1>2, <1>3, <2>1, GoingOn DEF Replace
  <2>2. CASE shown.copy \notin {0, task[t].best}
    <3> DEFINE record == [task[t] EXCEPT !.pc = "push", !.keeping = FALSE,
                                         !.entry = [shown EXCEPT !.copy = task[t].best]]
    <3>1. Set(t, record)
      BY <1>3, <2>2 DEF Replace
    <3>2. Control(record) /\ record.pc \in InTry
      BY FieldsOfTask DEF Control, InTry, Steps
    <3> QED
      BY <1>1, <3>1, <3>2, WorkingKeepsInv DEF WorksOn
  <2> QED
    BY <2>1, <2>2
<1>4. ASSUME \E pc \in InTry : Goto(t, pc)
      PROVE  Inv'
  BY <1>1, <1>4, GoingOn
<1>5. CASE Claim(t)
  BY <1>4, <1>5 DEF Claim, InTry
<1>6. CASE Push(t) \/ TakeOut(t)
  BY <1>4, <1>6 DEF Push, TakeOut, InTry
<1>7. CASE Remember(t)
  <2>1. Goto(t, IF task[t].keeping THEN "read" ELSE task[t].after)
    BY <1>7 DEF Remember
  <2>2. "read" \in InTry
    BY DEF InTry
  <2> QED
    BY <1>2, <1>4, <2>1, <2>2
<1>8. CASE Remove(t)
  <2>1. Goto(t, IF recorded[task[t].job].copy = 0 THEN task[t].after ELSE "takeout")
    BY <1>8 DEF Remove
  <2>2. "takeout" \in InTry
    BY DEF InTry
  <2> QED
    BY <1>2, <1>4, <2>1, <2>2
<1>9. CASE Forget(t)
  BY <1>2, <1>4, <1>9 DEF Forget
<1> QED
  BY <1>3, <1>5, <1>6, <1>7, <1>8, <1>9

\* Scoring a batch, and taking out what is left of a cancelled run.
LEMMA ScoreSteps ==
    ASSUME Inv, NEW t \in TitleSet, Score(t)
    PROVE  Inv'
<1>1. task[t].pc \in InTry /\ UNCHANGED <<waiting, dispatcher, meta>>
  BY DEF Score, At, InTry
<1> DEFINE pending == task[t].pending
           size == IF ScoreBatch < Len(pending) THEN ScoreBatch ELSE Len(pending)
           batch == SubSeq(pending, 1, size)
           rest == SubSeq(pending, size + 1, Len(pending))
           items(answer) == [i \in 1..size |-> [job |-> batch[i].job, copy |-> batch[i].copy,
                                                score |-> answer[i]]]
<1>2. CASE pending = << >>
  <2>1. Goto(t, "search")
    BY <1>2 DEF Score
  <2> QED
    BY <1>1, <2>1, GoingOn DEF InTry
<1>3. CASE pending # << >> /\ Cancelled
  <2>1. Goto(t, "drain")
    BY <1>3 DEF Score
  <2> QED
    BY <1>1, <2>1, GoingOn DEF InTry
<1>4. CASE pending # << >> /\ ~Cancelled
  <2>1. \E answer \in [1..size -> {"failed", "low", "good"}] :
          Set(t, [task[t] EXCEPT !.pc = "finish", !.pending = rest, !.scored = items(answer)])
    BY <1>4 DEF Score
  <2>2. PICK answer : Set(t, [task[t] EXCEPT !.pc = "finish", !.pending = rest, !.scored = items(answer)])
    BY <2>1
  <2> DEFINE scored == items(answer)
             record == [task[t] EXCEPT !.pc = "finish", !.pending = rest, !.scored = scored]
  <2>3. Set(t, record)
    BY <2>2
  <2> HIDE DEF rest, scored
  <2>4. Control(record) /\ record.pc \in InTry
    BY FieldsOfTask DEF Control, InTry, Steps
  <2> QED
    BY <1>1, <2>3, <2>4, WorkingKeepsInv DEF WorksOn
<1> QED
  BY <1>2, <1>3, <1>4

LEMMA DrainSteps ==
    ASSUME Inv, NEW t \in TitleSet, Drain(t) \/ ToScore(t)
    PROVE  Inv'
<1>1. task[t].pc \in InTry /\ UNCHANGED <<waiting, dispatcher, meta>>
  BY DEF Drain, ToScore, At, InTry
<1>2. CASE ToScore(t)
  BY <1>1, <1>2, GoingOn DEF ToScore, InTry
<1>3. CASE Drain(t)
  <2>1. CASE task[t].pending = << >>
    BY <1>1, <1>3, <2>1, GoingOn DEF Drain, InTry
  <2>2. CASE task[t].pending # << >>
    <3> DEFINE record == [task[t] EXCEPT !.pc = "remove", !.after = "drain",
                                         !.job = Head(task[t].pending).job, !.pending = Tail(@)]
    <3>1. Set(t, record)
      BY <1>3, <2>2 DEF Drain
    <3>2. Control(record) /\ record.pc \in InTry
      BY FieldsOfTask DEF Control, InTry, Steps, Afters
    <3> QED
      BY <1>1, <3>1, <3>2, WorkingKeepsInv DEF WorksOn
  <2> QED
    BY <2>1, <2>2
<1> QED
  BY <1>2, <1>3

LEMMA FinishScoredSteps ==
    ASSUME Inv, NEW t \in TitleSet, FinishScored(t)
    PROVE  Inv'
<1>1. task[t].pc \in InTry /\ UNCHANGED <<waiting, dispatcher, meta>>
  BY DEF FinishScored, At, InTry
<1> DEFINE done == Head(task[t].scored)
           next == [task[t] EXCEPT !.scored = Tail(@), !.after = "finish", !.job = done.job]
           removed == [next EXCEPT !.pc = "remove"]
           filtered == [next EXCEPT !.pc = "read", !.result = [state |-> "filtered", known |-> "low"]]
           kept == [Keeping(t, done.job, done.copy) EXCEPT
                      !.scored = next.scored, !.after = "finish", !.kept = @ \cup {done.job}]
<1>2. CASE task[t].scored = << >>
  BY <1>1, <1>2, GoingOn DEF FinishScored, InTry
<1>3. CASE task[t].scored # << >>
  <2>1. Set(t, removed) \/ Set(t, filtered) \/ Set(t, kept)
    BY <1>3 DEF FinishScored
  <2>2. Control(next)
    BY FieldsOfTask DEF Control, Afters
  <2>3. Control(kept) /\ kept.pc \in InTry
    BY KeepingControl DEF Control, InTry, Afters
  <2> HIDE DEF next
  <2>4. Control(removed) /\ removed.pc \in InTry
    BY <2>2 DEF Control, InTry, Steps
  <2>5. Control(filtered) /\ filtered.pc \in InTry
    BY <2>2 DEF Control, InTry, Steps
  <2> HIDE DEF removed, filtered, kept
  <2> QED
    BY <1>1, <2>1, <2>3, <2>4, <2>5, WorkingKeepsInv DEF WorksOn
<1> QED
  BY <1>2, <1>3

\* The user's row, the reload of the best copy, and the applicant counts.
LEMMA RowSteps ==
    ASSUME Inv, NEW t \in TitleSet, ReadRow(t) \/ WriteRow(t) \/ Reload(t) \/ ApplicantsEnd(t)
    PROVE  Inv'
<1>1. task[t].pc \in InTry /\ UNCHANGED <<waiting, dispatcher, meta>>
  BY DEF ReadRow, WriteRow, Reload, ApplicantsEnd, At, InTry
<1>2. CASE ReadRow(t)
  <2> DEFINE record == [task[t] EXCEPT !.pc = "write", !.row = userJob[task[t].job]]
  <2>1. Control(record) /\ record.pc \in InTry
    BY FieldsOfTask DEF Control, InTry, Steps
  <2>2. Set(t, record)
    BY <1>2 DEF ReadRow
  <2> QED
    BY <1>1, <2>1, <2>2, WorkingKeepsInv DEF WorksOn
<1>3. CASE Reload(t)
  <2> DEFINE record == [task[t] EXCEPT !.pc = "replace", !.best = canonical[task[t].job]]
  <2>1. Control(record) /\ record.pc \in InTry
    BY FieldsOfTask DEF Control, InTry, Steps
  <2>2. Set(t, record)
    BY <1>3 DEF Reload
  <2> QED
    BY <1>1, <2>1, <2>2, WorkingKeepsInv DEF WorksOn
<1>4. CASE WriteRow(t)
  <2> DEFINE result == task[t].result
             pc == CASE result.state = "seen" -> "reload"
                     [] result.state = "filtered" /\ result.known = "low" -> "remove"
                     [] OTHER -> task[t].after
  <2>1. Goto(t, pc)
    BY <1>4 DEF WriteRow
  <2>2. task[t].after \in InTry
    BY DEF Inv, TaskFields, Afters, InTry
  <2>3. pc \in {"reload", "remove", task[t].after}
    OBVIOUS
  <2>4. pc \in InTry
    BY <2>2, <2>3 DEF InTry
  <2> HIDE DEF pc
  <2> QED
    BY <1>1, <2>1, <2>4, GoingOn
<1>5. CASE ApplicantsEnd(t)
  BY <1>1, <1>5, GoingOn DEF ApplicantsEnd, InTry
<1> QED
  BY <1>2, <1>3, <1>4, <1>5

LEMMA ApplicantsFoundSteps ==
    ASSUME Inv, NEW t \in TitleSet, ApplicantsFound(t)
    PROVE  Inv'
<1>1. task[t].pc \in InTry /\ UNCHANGED <<waiting, dispatcher, meta>>
  BY DEF ApplicantsFound, UpdateRecorded, At, InTry
<1> DEFINE skipped(j) == [task[t] EXCEPT !.kept = @ \ {j}]
           counted(j) == [task[t] EXCEPT !.kept = @ \ {j}, !.pc = "push", !.after = "applicants", !.job = j,
                                         !.keeping = FALSE, !.entry = [recorded[j] EXCEPT !.applicants = TRUE]]
<1>2. PICK j \in task[t].kept : Set(t, IF recorded[j].copy = 0 \/ recorded[j].applicants
                                       THEN skipped(j) ELSE counted(j))
  BY DEF ApplicantsFound, UpdateRecorded
<1>3. Control(skipped(j)) /\ skipped(j).pc \in InTry
  BY <1>1, FieldsOfTask DEF Control
<1>4. Control(counted(j)) /\ counted(j).pc \in InTry
  BY FieldsOfTask DEF Control, InTry, Steps, Afters
<1> HIDE DEF skipped, counted
<1>5. Set(t, skipped(j)) \/ Set(t, counted(j))
  BY <1>2
<1> QED
  BY <1>1, <1>3, <1>4, <1>5, WorkingKeepsInv DEF WorksOn

LEMMA FailSteps ==
    ASSUME Inv, NEW t \in TitleSet, Fail(t)
    PROVE  Inv'
<1> DEFINE record == [NotStarted EXCEPT !.pc = "count"]
<1>1. Control(record) /\ record.pc \in InTry
  BY DEF NotStarted, Control, InTry, Steps, Afters
<1>2. task[t].pc \in InTry /\ WorksOn(t, record)
  BY <1>1 DEF Fail, WorksOn
<1> QED
  BY <1>2, WorkingKeepsInv

----------------------------------------------------------------------------
(* The steps that dispatch and count titles *)

LEMMA TakeTitleSteps ==
    ASSUME Inv, NEW t \in TitleSet, TakeTitle(t)
    PROVE  Inv'
<1> DEFINE record == [task[t] EXCEPT !.pc = IF Cancelled THEN "skip" ELSE "search", !.places = Places]
<1>1. Control(record) /\ record.pc \in InTry \cup {"skip", "queued"}
  BY FieldsOfTask DEF Control, InTry, Steps
<1>2. t \in Active
  BY DEF TakeTitle, At, Active
<1>3. Set(t, record) /\ UNCHANGED <<waiting, dispatcher, meta>>
  BY DEF TakeTitle
<1> QED
  BY <1>1, <1>2, <1>3, StaysActive

\* The title t was owed, and is not once it is counted.
LEMMA CountSteps ==
    ASSUME Inv, NEW t \in TitleSet, Count(t)
    PROVE  Inv'
<1> DEFINE record == [NotStarted EXCEPT !.pc = "next"]
<1>1. Control(record) /\ record.pc = "next"
  BY DEF NotStarted, Control, Steps, Afters, InTry
<1>2. /\ task[t].pc \in {"count", "skip"}
      /\ Set(t, record) /\ UNCHANGED <<waiting, dispatcher>>
      /\ meta' = [meta EXCEPT !.completed = @ + 1]
  BY DEF Count, At
<1>3. DOMAIN meta' = {"status", "completed"} /\ meta'.completed = meta.completed + 1 /\ meta'.completed \in Nat
  BY <1>2 DEF Inv, RunFields
<1>4. t \in Active /\ "next" \notin InTry \cup {"skip", "queued"}
  BY <1>2 DEF Active, InTry
<1>5. /\ TaskFields' /\ RunFields' /\ NothingYet' /\ OnePlace'
      /\ Unborn' = Unborn /\ t \notin Unborn /\ Active' = Active \ {t}
  <2> HIDE DEF record
  <2> QED
    BY <1>1, <1>2, <1>3, <1>4, TaskGoesOn
<1>6. t \in Owed /\ Owed' \subseteq Owed \ {t}
  BY <1>4, <1>5 DEF Owed
<1> QED
  BY <1>3, <1>5, <1>6, CountsOne

LEMMA NextTitleSteps ==
    ASSUME Inv, NEW t \in TitleSet, NextTitle(t)
    PROVE  Inv'
<1>1. /\ task[t].pc = "next" /\ UNCHANGED <<dispatcher, meta>>
      /\ DOMAIN task = TitleSet
  BY DEF NextTitle, At, Inv, TaskFields
<1>2. CASE waiting = << >>
  <2> DEFINE record == [task[t] EXCEPT !.pc = "over"]
  <2>1. Control(record) /\ record.pc = "over"
    BY FieldsOfTask DEF Control, Steps
  <2>2. Set(t, record) /\ UNCHANGED <<waiting, dispatcher, meta>>
    BY <1>1, <1>2 DEF NextTitle, Goto
  <2>3. "over" \notin InTry \cup {"skip", "queued"}
    BY DEF InTry
  <2>4. DOMAIN meta' = {"status", "completed"} /\ meta'.completed \in Nat /\ meta'.completed = meta.completed
    BY <1>1 DEF Inv, RunFields
  <2>5. /\ TaskFields' /\ RunFields' /\ NothingYet' /\ OnePlace'
        /\ Unborn' = Unborn /\ Active' = Active \ {t}
    <3> HIDE DEF record
    <3> QED
      BY <1>1, <2>1, <2>2, <2>3, <2>4, TaskGoesOn
  <2> QED
    BY <2>4, <2>5, CountsNone DEF Owed
<1>3. CASE waiting # << >>
  <2> DEFINE first == Head(waiting)
             record == [task[t] EXCEPT !.pc = "start", !.title = first]
  <2>1. Control(record) /\ record.pc = "start" /\ record.title = first
    BY FieldsOfTask DEF Control, Steps
  <2>2. task' = [task EXCEPT ![t] = record] /\ waiting' = Tail(waiting)
    BY <1>3 DEF NextTitle, Set
  <2> HIDE DEF record
  <2>3. /\ first \in TitleSet /\ waiting' \in Seq(TitleSet) /\ Distinct(waiting')
        /\ ElementsOf(waiting') = ElementsOf(waiting) \ {first} /\ first \in ElementsOf(waiting)
    BY <1>3, <2>2, TailOfDistinct DEF Inv, RunFields, OnePlace
  <2>4. task'[t] = record /\ DOMAIN task' = TitleSet /\ \A u \in TitleSet \ {t} : task'[u] = task[u]
    BY <1>1, <2>2
  <2>5. TaskFields'
    BY <2>1, <2>4 DEF Inv, TaskFields, Control, TitleSet, Steps, InTry
  <2>6. RunFields'
    BY <1>1, <2>3 DEF Inv, RunFields, TitleSet
  <2>7. dispatcher.pc # "hold"
    BY <1>1 DEF Inv, NothingYet
  <2>8. NothingYet'
    BY <1>1, <2>7 DEF NothingYet
  <2>9. Starters' = Starters \cup {t} /\ t \notin Starters
    BY <1>1, <2>1, <2>4 DEF Starters, TitleSet
  <2>10. \A u \in Starters : task'[u] = task[u]
    BY <2>4, <2>9 DEF Starters
  <2>11. Starting' = Starting \cup {first}
    BY <2>1, <2>4, <2>9, <2>10 DEF Starting
  <2>12. Unborn' = Unborn
    BY <1>1, <2>3, <2>7, <2>11 DEF Unborn, ElementsOf, TitleSet
  <2>13. Active' = Active
    BY <1>1, <2>1, <2>4 DEF Active, TitleSet, InTry
  <2>14. first \notin ElementsOf(dispatcher.left) /\ \A u \in Starters : task[u].title # first
    BY <2>3 DEF Inv, OnePlace
  <2>15. t \notin Unborn
    BY <1>1 DEF Inv, OnePlace
  <2>16. \A u \in Unborn' : task'[u].pc = "none"
    <3> SUFFICES ASSUME NEW u \in Unborn PROVE task'[u].pc = "none"
      BY <2>12
    <3>1. u \in TitleSet /\ task[u].pc = "none"
      BY OwedSize DEF Inv, OnePlace, Owed
    <3> QED
      BY <3>1, <2>4, <2>15
  <2>17. OnePlace'
    <3>1. Distinct(waiting') /\ Distinct(dispatcher'.left)
      BY <1>1, <2>3 DEF Inv, OnePlace
    <3>2. ElementsOf(waiting') \cap ElementsOf(dispatcher'.left) = {}
      BY <1>1, <2>3 DEF Inv, OnePlace
    <3>3. \A u \in Starters' : task'[u].title = IF u = t THEN first ELSE task[u].title
      BY <2>1, <2>4, <2>9, <2>10
    <3>4. \A u \in Starters' : /\ task'[u].title \in TitleSet'
                               /\ task'[u].title \notin ElementsOf(waiting') \cup ElementsOf(dispatcher'.left)
      BY <1>1, <2>3, <2>9, <2>14, <3>3 DEF Inv, OnePlace, TitleSet
    <3>5. \A u, v \in Starters' : task'[u].title = task'[v].title => u = v
      BY <2>9, <2>14, <3>3 DEF Inv, OnePlace
    <3> QED
      BY <3>1, <3>2, <3>4, <3>5, <2>16 DEF OnePlace
  <2>18. meta'.completed = meta.completed /\ Owed' \subseteq Owed
    BY <1>1, <2>12, <2>13 DEF Owed
  <2> QED
    BY <2>5, <2>6, <2>8, <2>17, <2>18, CountsNone
<1> QED
  BY <1>2, <1>3

\* No next title could be asked for, or the title could not be counted.
LEMMA UncountedSteps ==
    ASSUME Inv, NEW t \in TitleSet, NextFails(t) \/ CountLost(t)
    PROVE  Inv'
<1>1. \E pc \in {"over", "next"} : Goto(t, pc)
  BY DEF NextFails, CountLost
<1>2. PICK pc \in {"over", "next"} : Goto(t, pc)
  BY <1>1
<1> DEFINE record == [task[t] EXCEPT !.pc = pc]
<1>3. /\ task[t].pc \in {"next", "count"}
      /\ Set(t, record) /\ UNCHANGED <<waiting, dispatcher, meta>>
  BY <1>2 DEF NextFails, CountLost, At, Goto
<1>4. Control(record) /\ record.pc = pc
  BY <1>2, FieldsOfTask DEF Control, Steps
<1>5. DOMAIN meta' = {"status", "completed"} /\ meta'.completed \in Nat /\ meta'.completed = meta.completed
  BY <1>3 DEF Inv, RunFields
<1>6. pc \notin InTry \cup {"skip", "queued", "none", "start"}
  BY <1>2 DEF InTry
<1> HIDE DEF record
<1>7. /\ TaskFields' /\ RunFields' /\ NothingYet' /\ OnePlace'
      /\ Unborn' = Unborn /\ Active' = Active \ {t}
  BY <1>3, <1>4, <1>5, <1>6, TaskGoesOn
<1> QED
  BY <1>5, <1>7, CountsNone DEF Owed

\* A task that was about to start another title no longer is, and its record
\* owes nothing: the title is the only one that leaves the unborn.
LEMMA StarterLeaves ==
    ASSUME Inv, NEW t \in TitleSet, task[t].pc = "start"
    PROVE  /\ t \in Starters /\ task[t].title \in TitleSet /\ task[t].title # t
           /\ task[t].title \in Unborn /\ task[task[t].title].pc = "none"
           /\ dispatcher.pc # "hold" /\ t \notin Unborn
           /\ task[t].title \notin ElementsOf(waiting) \cup ElementsOf(dispatcher.left)
           /\ \A s \in Starters \ {t} : task[s].title # task[t].title
<1>1. t \in Starters
  BY DEF Starters
<1>2. dispatcher.pc # "hold"
  BY DEF Inv, NothingYet
<1>3. task[t].title \in TitleSet /\ task[t].title \in Unborn
  BY <1>1, <1>2 DEF Inv, OnePlace, Unborn, Starting
<1>4. task[task[t].title].pc = "none"
  BY <1>3 DEF Inv, OnePlace
<1>5. t \notin Unborn
  BY DEF Inv, OnePlace
<1> QED
  BY <1>1, <1>2, <1>3, <1>4, <1>5 DEF Inv, OnePlace

\* What is left of the invariant when the starter t leaves, for any step that
\* changes the tasks of t and of no title that is unborn, but the one t starts.
LEMMA WithoutStarter ==
    ASSUME Inv, NEW t \in TitleSet, task[t].pc = "start",
           DOMAIN task' = TitleSet, Control(task'[t]), Control(task'[task[t].title]),
           \A s \in TitleSet \ {t, task[t].title} : task'[s] = task[s],
           task'[t].pc \in {"over", "lost"}, task'[task[t].title].pc \in {"none", "queued"},
           UNCHANGED <<waiting, dispatcher>>,
           DOMAIN meta' = {"status", "completed"}, meta'.completed \in Nat
    PROVE  /\ TaskFields' /\ RunFields' /\ NothingYet' /\ OnePlace'
           /\ Unborn' = Unborn \ {task[t].title}
           /\ Active' \subseteq Active \cup {task[t].title}
           /\ task'[task[t].title].pc = "none" => Active' \subseteq Active
<1> DEFINE u == task[t].title
<1>1. /\ t \in Starters /\ u \in TitleSet /\ u # t /\ u \in Unborn /\ task[u].pc = "none"
      /\ dispatcher.pc # "hold" /\ t \notin Unborn
      /\ u \notin ElementsOf(waiting) \cup ElementsOf(dispatcher.left)
      /\ \A s \in Starters \ {t} : task[s].title # u
  BY StarterLeaves
<1>2. /\ DOMAIN task' = TitleSet /\ \A s \in TitleSet \ {t, u} : task'[s] = task[s]
      /\ task'[t].pc \in {"over", "lost"} /\ task'[u].pc \in {"none", "queued"}
      /\ Control(task'[t]) /\ Control(task'[u])
  OBVIOUS
<1> HIDE DEF u
<1>3. TaskFields'
  BY <1>1, <1>2 DEF Inv, TaskFields, Control, TitleSet, Steps, InTry
<1>4. RunFields'
  BY DEF Inv, RunFields, TitleSet
<1>5. NothingYet'
  BY <1>1 DEF NothingYet
<1>6. Starters' = Starters \ {t}
  BY <1>1, <1>2 DEF Starters, TitleSet
<1>7. \A s \in Starters' : s \in Starters /\ task'[s] = task[s]
  BY <1>1, <1>2, <1>6 DEF Starters
<1>8. Starting' = Starting \ {u}
  <2>1. Starting = {task[s].title : s \in Starters \ {t}} \cup {u}
    BY <1>1 DEF Starting, u
  <2>2. Starting' = {task[s].title : s \in Starters \ {t}}
    BY <1>6, <1>7 DEF Starting
  <2> QED
    BY <1>1, <2>1, <2>2
<1>9. Unborn' = Unborn \ {u}
  BY <1>1, <1>8 DEF Unborn, ElementsOf, TitleSet
<1>10. \A s \in Unborn' : task'[s].pc = "none"
  <2> SUFFICES ASSUME NEW s \in Unborn, s # u PROVE task'[s].pc = "none"
    BY <1>9
  <2>1. s \in TitleSet /\ task[s].pc = "none" /\ s # t
    BY <1>1, OwedSize DEF Inv, OnePlace, Owed
  <2> QED
    BY <2>1, <1>2
<1>11. OnePlace'
  <2>1. /\ Distinct(waiting') /\ Distinct(dispatcher'.left)
        /\ ElementsOf(waiting') \cap ElementsOf(dispatcher'.left) = {}
    BY DEF Inv, OnePlace
  <2>2. \A s \in Starters' : /\ task'[s].title \in TitleSet'
                             /\ task'[s].title \notin ElementsOf(waiting') \cup ElementsOf(dispatcher'.left)
    BY <1>7 DEF Inv, OnePlace, TitleSet
  <2>3. \A s, v \in Starters' : task'[s].title = task'[v].title => s = v
    BY <1>7 DEF Inv, OnePlace
  <2> QED
    BY <2>1, <2>2, <2>3, <1>10 DEF OnePlace
<1>12. Active' \subseteq Active \cup {u} /\ (task'[u].pc = "none" => Active' \subseteq Active)
  BY <1>1, <1>2 DEF Active, TitleSet, InTry
<1> QED
  BY <1>3, <1>4, <1>5, <1>9, <1>11, <1>12 DEF u

LEMMA StartTitleSteps ==
    ASSUME Inv, NEW t \in TitleSet, StartTitle(t)
    PROVE  Inv'
<1> DEFINE u == task[t].title
<1>1. /\ task[t].pc = "start" /\ UNCHANGED <<waiting, dispatcher, meta>>
      /\ task' = [task EXCEPT ![t].pc = "over", ![t].title = "none", ![u].pc = "queued"]
      /\ DOMAIN task = TitleSet
  BY DEF StartTitle, At, Inv, TaskFields
<1>2. u \in TitleSet /\ u # t /\ u \in Unborn
  BY <1>1, StarterLeaves
<1> HIDE DEF u
<1>3. /\ DOMAIN task' = TitleSet /\ \A s \in TitleSet \ {t, u} : task'[s] = task[s]
      /\ task'[t] = [task[t] EXCEPT !.pc = "over", !.title = "none"]
      /\ task'[u] = [task[u] EXCEPT !.pc = "queued"]
  BY <1>1, <1>2
<1>4. /\ Control(task'[t]) /\ Control(task'[u])
      /\ task'[t].pc = "over" /\ task'[u].pc = "queued"
  BY <1>2, <1>3, FieldsOfTask DEF Control, Steps
<1>5. DOMAIN meta' = {"status", "completed"} /\ meta'.completed \in Nat /\ meta'.completed = meta.completed
  BY <1>1 DEF Inv, RunFields
<1>6. /\ TaskFields' /\ RunFields' /\ NothingYet' /\ OnePlace'
      /\ Unborn' = Unborn \ {u} /\ Active' \subseteq Active \cup {u}
  BY <1>1, <1>3, <1>4, <1>5, WithoutStarter DEF u
<1>7. Owed' \subseteq Owed
  BY <1>2, <1>6 DEF Owed
<1> QED
  BY <1>5, <1>6, <1>7, CountsNone

\* The title that cannot be queued was owed, and is counted.
LEMMA StartFailsSteps ==
    ASSUME Inv, NEW t \in TitleSet, StartFails(t)
    PROVE  Inv'
<1> DEFINE u == task[t].title
           record == [NotStarted EXCEPT !.pc = "over"]
<1>1. /\ task[t].pc = "start" /\ UNCHANGED <<waiting, dispatcher>>
      /\ task' = [task EXCEPT ![t] = record] /\ DOMAIN task = TitleSet
      /\ meta' = [meta EXCEPT !.completed = @ + 1]
  BY DEF StartFails, At, Set, Inv, TaskFields
<1>2. Control(record) /\ record.pc = "over"
  BY DEF NotStarted, Control, Steps, Afters
<1>3. u \in TitleSet /\ u # t /\ u \in Unborn /\ task[u].pc = "none"
  BY <1>1, StarterLeaves
<1> HIDE DEF u, record
<1>4. DOMAIN task' = TitleSet /\ task'[t] = record /\ \A s \in TitleSet \ {t} : task'[s] = task[s]
  BY <1>1
<1>5. DOMAIN meta' = {"status", "completed"} /\ meta'.completed \in Nat /\ meta'.completed = meta.completed + 1
  BY <1>1 DEF Inv, RunFields
<1>6. Control(task'[u]) /\ task'[u].pc = "none" /\ task'[t].pc = "over" /\ Control(task'[t])
  BY <1>2, <1>3, <1>4, FieldsOfTask
<1>7. /\ TaskFields' /\ RunFields' /\ NothingYet' /\ OnePlace'
      /\ Unborn' = Unborn \ {u} /\ Active' \subseteq Active
  BY <1>1, <1>4, <1>5, <1>6, WithoutStarter DEF u
<1>8. u \notin Active
  BY <1>3 DEF Active, InTry
<1>9. u \in Owed /\ Owed' \subseteq Owed \ {u}
  BY <1>3, <1>7, <1>8 DEF Owed
<1> QED
  BY <1>5, <1>7, <1>9, CountsOne

\* A task that dies is owed no more; nor is the title it was about to start.
LEMMA CrashSteps ==
    ASSUME Inv, NEW t \in TitleSet, Crash(t)
    PROVE  Inv'
<1> DEFINE record == [NotStarted EXCEPT !.pc = "lost"]
<1>1. /\ task[t].pc \in Running /\ Set(t, record) /\ UNCHANGED <<waiting, dispatcher, meta>>
      /\ DOMAIN task = TitleSet
  BY DEF Crash, Inv, TaskFields
<1>2. Control(record) /\ record.pc = "lost"
  BY DEF NotStarted, Control, Steps, Afters
<1>3. DOMAIN meta' = {"status", "completed"} /\ meta'.completed \in Nat /\ meta'.completed = meta.completed
  BY <1>1 DEF Inv, RunFields
<1> HIDE DEF record
<1>4. CASE task[t].pc = "start"
  <2> DEFINE u == task[t].title
  <2>1. u \in TitleSet /\ u # t /\ u \in Unborn /\ task[u].pc = "none"
    BY <1>4, StarterLeaves
  <2> HIDE DEF u
  <2>2. DOMAIN task' = TitleSet /\ task'[t] = record /\ \A s \in TitleSet \ {t} : task'[s] = task[s]
    BY <1>1 DEF Set
  <2>3. Control(task'[u]) /\ task'[u].pc = "none" /\ task'[t].pc = "lost" /\ Control(task'[t])
    BY <1>2, <2>1, <2>2, FieldsOfTask
  <2>4. /\ TaskFields' /\ RunFields' /\ NothingYet' /\ OnePlace'
        /\ Unborn' = Unborn \ {u} /\ Active' \subseteq Active
    BY <1>1, <1>3, <1>4, <2>2, <2>3, WithoutStarter DEF u
  <2> QED
    BY <1>3, <2>4, CountsNone DEF Owed
<1>5. CASE task[t].pc # "start"
  <2>1. task[t].pc \notin {"none", "start"}
    BY <1>1, <1>5 DEF Running, InTry
  <2>2. "lost" \notin InTry \cup {"skip", "queued"}
    BY DEF InTry
  <2>3. /\ TaskFields' /\ RunFields' /\ NothingYet' /\ OnePlace'
        /\ Unborn' = Unborn /\ Active' = Active \ {t}
    BY <1>1, <1>2, <1>3, <2>1, <2>2, TaskGoesOn
  <2> QED
    BY <1>3, <2>3, CountsNone DEF Owed
<1> QED
  BY <1>4, <1>5

\* A step that changes no task and leaves of the unborn a part: the dispatch
\* of the first titles, a dispatcher that dies, and what users do.
LEMMA TasksUntouched ==
    ASSUME Inv, UNCHANGED task, RunFields', NothingYet', meta'.completed = meta.completed,
           Distinct(waiting'), Distinct(dispatcher'.left),
           ElementsOf(waiting') \cap ElementsOf(dispatcher'.left) = {},
           ElementsOf(waiting') \cup ElementsOf(dispatcher'.left)
             \subseteq IF dispatcher.pc = "hold" THEN TitleSet
                       ELSE ElementsOf(waiting) \cup ElementsOf(dispatcher.left),
           dispatcher'.pc = "hold" => dispatcher.pc = "hold"
    PROVE  Inv'
<1>1. TaskFields'
  BY DEF Inv, TaskFields, TitleSet, Steps, InTry
<1>2. Starters' = Starters /\ Starting' = Starting
  BY DEF Starters, Starting, TitleSet
<1>3. dispatcher.pc = "hold" => Starters = {}
  BY DEF Inv, NothingYet, Starters
<1>4. Starting \subseteq TitleSet
  BY DEF Starting, Inv, OnePlace
<1>5. Unborn' \subseteq Unborn
  <2>1. CASE dispatcher'.pc = "hold"
    BY <2>1 DEF Unborn, TitleSet
  <2>2. CASE dispatcher'.pc # "hold" /\ dispatcher.pc = "hold"
    BY <2>2, <1>2, <1>4 DEF Unborn
  <2>3. CASE dispatcher'.pc # "hold" /\ dispatcher.pc # "hold"
    BY <2>3, <1>2 DEF Unborn
  <2> QED
    BY <2>1, <2>2, <2>3
<1>6. OnePlace'
  <2>1. \A s \in Starters : task[s].title \notin ElementsOf(waiting') \cup ElementsOf(dispatcher'.left)
    BY <1>3 DEF Inv, OnePlace
  <2>2. \A s \in Starters' : /\ task'[s].title \in TitleSet'
                             /\ task'[s].title \notin ElementsOf(waiting') \cup ElementsOf(dispatcher'.left)
    BY <1>2, <2>1 DEF Inv, OnePlace, TitleSet
  <2>3. \A s, v \in Starters' : task'[s].title = task'[v].title => s = v
    BY <1>2 DEF Inv, OnePlace
  <2>4. \A s \in Unborn' : task'[s].pc = "none"
    BY <1>5 DEF Inv, OnePlace
  <2> QED
    BY <2>2, <2>3, <2>4 DEF OnePlace
<1>7. Active' = Active
  BY DEF Active, TitleSet, InTry
<1> QED
  BY <1>1, <1>5, <1>6, <1>7, CountsNone DEF Owed

LEMMA HoldSteps ==
    ASSUME Inv, Hold
    PROVE  Inv'
<1> DEFINE n == IF AtOnce < Total THEN AtOnce ELSE Total
           first == SubSeq(Titles, 1, n)
           rest == SubSeq(Titles, n + 1, Total)
<1>1. Total \in Nat /\ AtOnce \in Nat /\ n \in 0..Total
  BY SearchConstants DEF Total
<1>2. /\ first \in Seq(TitleSet) /\ rest \in Seq(TitleSet)
      /\ Distinct(first) /\ Distinct(rest)
      /\ ElementsOf(rest) \cap ElementsOf(first) = {}
  <2> HIDE DEF n
  <2> QED
    BY <1>1, TitlesSplit
<1>3. SubSeq(Titles, AtOnce + 1, Total) = rest
  <2>1. CASE AtOnce < Total
    BY <2>1
  <2>2. CASE ~(AtOnce < Total)
    <3>1. n = Total /\ Total + 1 > Total /\ AtOnce + 1 > Total
      BY <1>1, <2>2
    <3>2. SubSeq(Titles, AtOnce + 1, Total) = << >> /\ SubSeq(Titles, Total + 1, Total) = << >>
      BY <1>1, <3>1, SubSeqEmpty
    <3> QED
      BY <3>1, <3>2
  <2> QED
    BY <2>1, <2>2
<1>4. /\ dispatcher.pc = "hold" /\ waiting' = rest
      /\ dispatcher' = [pc |-> "send", left |-> first]
      /\ UNCHANGED <<task, meta>>
  BY <1>3 DEF Hold
<1> HIDE DEF first, rest
<1>5. RunFields'
  BY <1>2, <1>4 DEF Inv, RunFields, TitleSet
<1>6. NothingYet'
  BY <1>4 DEF NothingYet
<1>7. /\ Distinct(waiting') /\ Distinct(dispatcher'.left)
      /\ ElementsOf(waiting') \cap ElementsOf(dispatcher'.left) = {}
      /\ ElementsOf(waiting') \cup ElementsOf(dispatcher'.left) \subseteq TitleSet
  BY <1>2, <1>4, ElementsOfSeq
<1> QED
  BY <1>4, <1>5, <1>6, <1>7, TasksUntouched

LEMMA DispatcherCrashSteps ==
    ASSUME Inv, DispatcherCrash
    PROVE  Inv'
<1>1. dispatcher' = [pc |-> "over", left |-> << >>] /\ UNCHANGED <<task, meta, waiting>>
  BY DEF DispatcherCrash
<1>2. RunFields'
  BY <1>1 DEF Inv, RunFields, TitleSet
<1>3. NothingYet'
  BY <1>1 DEF NothingYet
<1>4. /\ Distinct(dispatcher'.left) /\ ElementsOf(dispatcher'.left) = {}
      /\ ElementsOf(waiting') = ElementsOf(waiting) /\ Distinct(waiting')
      /\ ElementsOf(waiting) \subseteq TitleSet
  BY <1>1, ElementsOfSeq DEF Distinct, ElementsOf, Inv, OnePlace, RunFields
<1> QED
  BY <1>1, <1>2, <1>3, <1>4, TasksUntouched

\* A cancelled run, a job the user saves, and a step of another program.
LEMMA RunUntouched ==
    ASSUME Inv, UNCHANGED <<task, waiting, dispatcher>>, UNCHANGED meta \/ Cancel
    PROVE  Inv'
<1>1. RunFields' /\ meta'.completed = meta.completed
  BY DEF Inv, RunFields, TitleSet, Cancel
<1>2. NothingYet'
  BY DEF Inv, NothingYet, TitleSet
<1>3. ElementsOf(waiting) \cup ElementsOf(dispatcher.left) \subseteq TitleSet
  BY ElementsOfSeq DEF Inv, RunFields
<1> QED
  BY <1>1, <1>2, <1>3, TasksUntouched DEF Inv, OnePlace, Distinct, ElementsOf

\* A title leaves the dispatcher for the queue of the workers.
LEMMA SendSteps ==
    ASSUME Inv, Send
    PROVE  Inv'
<1> DEFINE u == Head(dispatcher.left)
           record == [task[u] EXCEPT !.pc = "queued"]
<1>1. /\ dispatcher.pc = "send" /\ dispatcher.left # << >>
      /\ task' = [task EXCEPT ![u] = record] /\ dispatcher' = [dispatcher EXCEPT !.left = Tail(@)]
      /\ UNCHANGED <<meta, waiting>> /\ DOMAIN task = TitleSet
  BY DEF Send, Goto, Set, Inv, TaskFields
<1>2. /\ u \in TitleSet /\ Tail(dispatcher.left) \in Seq(TitleSet) /\ Distinct(Tail(dispatcher.left))
      /\ ElementsOf(Tail(dispatcher.left)) = ElementsOf(dispatcher.left) \ {u}
      /\ u \in ElementsOf(dispatcher.left)
  BY <1>1, TailOfDistinct DEF Inv, RunFields, OnePlace
<1>3. /\ dispatcher'.left = Tail(dispatcher.left) /\ dispatcher'.pc = "send"
      /\ dispatcher' \in [pc : {"hold", "send", "over"}, left : Seq(TitleSet)]
  BY <1>1, <1>2 DEF Inv, RunFields
<1> HIDE DEF u
<1>4. Control(record) /\ record.pc = "queued"
  BY <1>2, FieldsOfTask DEF Control, Steps
<1> HIDE DEF record
<1>5. DOMAIN task' = TitleSet /\ task'[u] = record /\ \A s \in TitleSet \ {u} : task'[s] = task[s]
  BY <1>1, <1>2
<1>6. u \in Unborn /\ task[u].pc = "none"
  BY <1>1, <1>2 DEF Unborn, Inv, OnePlace
<1>7. TaskFields'
  BY <1>4, <1>5 DEF Inv, TaskFields, Control, TitleSet, Steps, InTry
<1>8. RunFields'
  BY <1>1, <1>3 DEF Inv, RunFields, TitleSet
<1>9. NothingYet'
  BY <1>3 DEF NothingYet
<1>10. Starters' = Starters /\ \A s \in Starters : task'[s] = task[s]
  BY <1>4, <1>5, <1>6 DEF Starters, TitleSet
<1>11. Starting' = Starting /\ u \notin Starting
  BY <1>2, <1>10 DEF Starting, Inv, OnePlace
<1>12. u \notin ElementsOf(waiting)
  BY <1>2 DEF Inv, OnePlace
<1>13. ElementsOf(waiting') = ElementsOf(waiting) /\ Distinct(waiting')
  BY <1>1 DEF Inv, OnePlace, ElementsOf, Distinct
<1>14. Unborn' = Unborn \ {u}
  BY <1>1, <1>2, <1>3, <1>11, <1>12, <1>13 DEF Unborn
<1>15. Active' = Active \cup {u}
  BY <1>2, <1>4, <1>5 DEF Active, TitleSet, InTry
<1>16. \A s \in Unborn' : task'[s].pc = "none"
  <2> SUFFICES ASSUME NEW s \in Unborn, s # u PROVE task'[s].pc = "none"
    BY <1>14
  <2>1. s \in TitleSet /\ task[s].pc = "none"
    BY OwedSize DEF Inv, OnePlace, Owed
  <2> QED
    BY <2>1, <1>5
<1>17. OnePlace'
  <2>1. /\ Distinct(waiting') /\ Distinct(dispatcher'.left)
        /\ ElementsOf(waiting') \cap ElementsOf(dispatcher'.left) = {}
    BY <1>2, <1>3, <1>13 DEF Inv, OnePlace
  <2>2. \A s \in Starters' : /\ task'[s].title \in TitleSet'
                             /\ task'[s].title \notin ElementsOf(waiting') \cup ElementsOf(dispatcher'.left)
    BY <1>2, <1>3, <1>10, <1>13 DEF Inv, OnePlace, TitleSet
  <2>3. \A s, v \in Starters' : task'[s].title = task'[v].title => s = v
    BY <1>10 DEF Inv, OnePlace
  <2> QED
    BY <2>1, <2>2, <2>3, <1>16 DEF OnePlace
<1>18. meta'.completed = meta.completed /\ Owed' \subseteq Owed
  BY <1>1, <1>6, <1>14, <1>15 DEF Owed
<1> QED
  BY <1>7, <1>8, <1>9, <1>17, <1>18, CountsNone

----------------------------------------------------------------------------
(* The theorem *)

LEMMA InitInv == Init => Inv
<1> SUFFICES ASSUME Init PROVE Inv
  OBVIOUS
<1>1. /\ task = [t \in TitleSet |-> NotStarted] /\ waiting = << >>
      /\ dispatcher = [pc |-> "hold", left |-> << >>] /\ meta = [status |-> "running", completed |-> 0]
  BY DEF Init
<1>2. \A t \in TitleSet : task[t].pc = "none"
  BY <1>1 DEF NotStarted
<1>3. TaskFields
  BY <1>1 DEF TaskFields, NotStarted, Steps, Afters
<1>4. RunFields
  BY <1>1 DEF RunFields
<1>5. NothingYet
  BY <1>1, <1>2 DEF NothingYet
<1>6. Starters = {} /\ Unborn = TitleSet /\ Active = {}
  BY <1>1, <1>2 DEF Starters, Unborn, Active, InTry
<1>7. OnePlace
  BY <1>1, <1>2, <1>6 DEF OnePlace, Distinct, ElementsOf
<1>8. Counted
  <2>1. Owed = TitleSet
    BY <1>6 DEF Owed
  <2>2. meta.completed = 0 /\ Total \in Nat
    BY <1>1, SearchConstants DEF Total
  <2> QED
    BY <2>1, <2>2, TitlesCount DEF Counted
<1> QED
  BY <1>3, <1>4, <1>5, <1>7, <1>8 DEF Inv

LEMMA StepInv ==
    ASSUME Inv, NEW t \in TitleSet, Step(t)
    PROVE  Inv'
<1>1. CASE TakeTitle(t)
  BY <1>1, TakeTitleSteps
<1>2. CASE Search(t)
  BY <1>2, SearchSteps
<1>3. CASE Upsert(t)
  BY <1>3, UpsertSteps
<1>4. CASE Decide(t)
  BY <1>4, DecideSteps
<1>5. CASE Claim(t) \/ Replace(t) \/ Push(t) \/ Remember(t) \/ Remove(t) \/ TakeOut(t) \/ Forget(t)
  BY <1>5, EntrySteps
<1>6. CASE ToScore(t) \/ Drain(t)
  BY <1>6, DrainSteps
<1>7. CASE Score(t)
  BY <1>7, ScoreSteps
<1>8. CASE FinishScored(t)
  BY <1>8, FinishScoredSteps
<1>9. CASE ReadRow(t) \/ WriteRow(t) \/ Reload(t) \/ ApplicantsEnd(t)
  BY <1>9, RowSteps
<1>10. CASE ApplicantsFound(t)
  BY <1>10, ApplicantsFoundSteps
<1>11. CASE Count(t)
  BY <1>11, CountSteps
<1>12. CASE NextTitle(t)
  BY <1>12, NextTitleSteps
<1>13. CASE StartTitle(t)
  BY <1>13, StartTitleSteps
<1> QED
  BY <1>1, <1>2, <1>3, <1>4, <1>5, <1>6, <1>7, <1>8, <1>9, <1>10, <1>11, <1>12, <1>13 DEF Step

LEMMA NextInv == Inv /\ [Next]_vars => Inv'
<1> SUFFICES ASSUME Inv, [Next]_vars PROVE Inv'
  OBVIOUS
<1>1. CASE Hold
  BY <1>1, HoldSteps
<1>2. CASE Send
  BY <1>2, SendSteps
<1>3. CASE DispatcherCrash
  BY <1>3, DispatcherCrashSteps
<1>4. CASE Cancel
  BY <1>4, RunUntouched DEF Cancel
<1>5. CASE \E j \in Jobs, state \in UserStates : SetState(j, state)
  BY <1>5, RunUntouched DEF SetState
<1>6. ASSUME NEW t \in TitleSet, \/ Step(t) \/ StartFails(t) \/ Fail(t) \/ Crash(t)
                              \/ NextFails(t) \/ CountLost(t)
      PROVE  Inv'
  BY <1>6, StepInv, StartFailsSteps, FailSteps, CrashSteps, UncountedSteps
<1>7. CASE UNCHANGED vars
  BY <1>7, RunUntouched DEF vars
<1> QED
  BY <1>1, <1>2, <1>3, <1>4, <1>5, <1>6, <1>7 DEF Next

\* When as many titles are counted as the search has, none is owed.
LEMMA InvCompleted == Inv => CompletedMeansDone
<1> SUFFICES ASSUME Inv, Completed
             PROVE  /\ waiting = << >>
                    /\ \A t \in TitleSet : task[t].pc \in {"none", "next", "over", "lost"}
  BY DEF CompletedMeansDone
<1>1. IsFiniteSet(Owed) /\ Cardinality(Owed) \in Nat
  BY OwedSize DEF Inv
<1>2. Cardinality(Owed) = 0
  <2>1. meta.completed \in Nat /\ Total \in Nat /\ meta.completed >= Total
    BY SearchConstants DEF Inv, RunFields, Total, Completed
  <2> QED
    BY <1>1, <2>1 DEF Inv, Counted
<1>3. Owed = {}
  BY <1>1, <1>2, FS_EmptySet
<1>4. dispatcher.pc # "hold"
  <2>1. TitleSet # {}
    <3>1. Titles \in Seq(TitleSet) /\ Titles # << >>
      BY SearchConstants
    <3> QED
      BY <3>1, EmptySeq DEF TitleSet
  <2> QED
    BY <1>3, <2>1 DEF Owed, Unborn
<1>5. waiting = << >>
  BY <1>3, <1>4, ElementsOfSeq DEF Owed, Unborn, Inv, RunFields
<1>6. Starters = {}
  BY <1>3, <1>4 DEF Owed, Unborn, Starting
<1>7. ASSUME NEW t \in TitleSet
      PROVE  task[t].pc \in {"none", "next", "over", "lost"}
  <2>1. task[t].pc \notin InTry \cup {"skip", "queued"} /\ task[t].pc # "start"
    BY <1>3, <1>6 DEF Owed, Active, Starters
  <2>2. task[t].pc \in Steps
    BY DEF Inv, TaskFields
  <2> QED
    BY <2>1, <2>2 DEF Steps
<1> QED
  BY <1>5, <1>7

\* In every run a search that reads as completed has no title left to search:
\* the counter never runs ahead of the titles, whatever fails, is cancelled
\* or dies (count_keyword, _start_next_title, get_run_meta).
THEOREM CompletedIsDone == Spec => []CompletedMeansDone
<1>1. Init => Inv
  BY InitInv
<1>2. Inv /\ [Next]_vars => Inv'
  BY NextInv
<1>3. Inv => CompletedMeansDone
  BY InvCompleted
<1> QED
  BY <1>1, <1>2, <1>3, PTL DEF Spec


----------------------------------------------------------------------------
(* Types *)

Task ==
    [pc : Steps, after : Afters, places : Nat, todo : Seq(Item), pending : Seq(Item),
     scored : Seq(ScoredItem), kept : SUBSET Jobs, job : Jobs \cup {NoJob}, best : Nat,
     entry : Entry, keeping : BOOLEAN, row : UserRow, result : UserRow,
     title : TitleSet \cup {"none"}]

\* Where a task has a job in hand.
Handles == {"claim", "decide", "replace", "push", "remember", "remove", "takeout", "forget",
            "read", "write", "reload"}

History == [overlap : SUBSET Jobs, asked : [Jobs -> Nat], failures : Nat, crashes : Nat]

TasksTyped ==
    /\ task \in [TitleSet -> Task]
    /\ \A t \in TitleSet : task[t].pc \in Handles => task[t].job \in Jobs

Typed ==
    /\ canonical \in [Jobs -> Nat] /\ userJob \in [Jobs -> UserRow]
    /\ claimed \subseteq Jobs
    /\ recorded \in [Jobs -> Entry] /\ feed \in [Jobs -> Entry]
    /\ history \in History
    /\ TasksTyped

LEMMA NotStartedTyped == NotStarted \in Task /\ NoEntry \in Entry
BY DEF NotStarted, NoEntry, Task, Steps, Afters, Entry, UserRow, RowStates, Known

LEMMA InitTyped == Init => Typed
<1> SUFFICES ASSUME Init PROVE Typed
  OBVIOUS
<1>1. canonical \in [Jobs -> Nat] /\ userJob \in [Jobs -> UserRow]
  BY SearchConstants DEF Init, UserRow, RowStates, Sticky, Known
<1>2. TasksTyped
  <2>1. NotStarted.pc \notin Handles
    BY DEF NotStarted, Handles
  <2> QED
    BY <2>1, NotStartedTyped DEF Init, TasksTyped
<1>3. recorded \in [Jobs -> Entry] /\ feed \in [Jobs -> Entry]
  BY NotStartedTyped DEF Init
<1>4. history \in History
  BY DEF Init, History
<1> QED
  BY <1>1, <1>2, <1>3, <1>4 DEF Init, Typed

\* The task of a title becomes a record that is a task.
Becomes(t, record) ==
    record \in Task /\ (record.pc \in Handles => record.job \in Jobs) /\ Set(t, record)

LEMMA TaskTyped ==
    ASSUME Typed, NEW t \in TitleSet, NEW record, Becomes(t, record)
    PROVE  TasksTyped' /\ task'[t] = record /\ \A u \in TitleSet \ {t} : task'[u] = task[u]
<1>1. task' \in [TitleSet -> Task] /\ task'[t] = record /\ \A u \in TitleSet \ {t} : task'[u] = task[u]
  BY DEF Typed, TasksTyped, Becomes, Set
<1>2. \A u \in TitleSet : task'[u].pc \in Handles => task'[u].job \in Jobs
  BY <1>1 DEF Typed, TasksTyped, Becomes
<1> QED
  BY <1>1, <1>2 DEF TasksTyped

LEMMA TaskFieldsTyped ==
    ASSUME Typed, NEW t \in TitleSet
    PROVE  task[t] \in Task /\ (task[t].pc \in Handles => task[t].job \in Jobs)
BY DEF Typed, TasksTyped

LEMMA HeadOfItems ==
    ASSUME NEW S, NEW items \in Seq(S), items # << >>
    PROVE  Head(items) \in S /\ Tail(items) \in Seq(S)
BY HeadTailProperties

----------------------------------------------------------------------------
(* The lists of a task *)

\* Some of these items are of job j; no two of them are of the same job.
Has(items, j) == \E i \in DOMAIN items : items[i].job = j
OneOfEach(items) == \A i, k \in DOMAIN items : items[i].job = items[k].job => i = k

\* The copies of these items are stored, or better ones.
Within(items) == \A i \in DOMAIN items : items[i].copy <= canonical[items[i].job]

LEMMA HasNone ==
    ASSUME NEW j
    PROVE  ~Has(<< >>, j) /\ OneOfEach(<< >>) /\ Within(<< >>)
<1>1. DOMAIN << >> = {}
  OBVIOUS
<1> QED
  BY <1>1 DEF Has, OneOfEach, Within

LEMMA HasHeadAndTail ==
    ASSUME NEW S, NEW items \in Seq(S), items # << >>, NEW j
    PROVE  /\ Head(items) = items[1] /\ 1 \in DOMAIN items
           /\ Has(items, j) <=> Head(items).job = j \/ Has(Tail(items), j)
           /\ OneOfEach(items) => OneOfEach(Tail(items)) /\ ~Has(Tail(items), Head(items).job)
           /\ Within(items) => Within(Tail(items)) /\ Head(items).copy <= canonical[Head(items).job]
<1>1. /\ Head(items) = items[1] /\ Len(items) \in Nat \ {0} /\ DOMAIN items = 1..Len(items)
      /\ Len(Tail(items)) = Len(items) - 1 /\ Tail(items) \in Seq(S)
      /\ \A i \in 1..Len(Tail(items)) : Tail(items)[i] = items[i + 1]
  BY HeadTailProperties, EmptySeq, LenProperties
<1>2. DOMAIN Tail(items) = 1..(Len(items) - 1)
  BY <1>1
<1>3. \A i \in DOMAIN Tail(items) : i + 1 \in DOMAIN items /\ i + 1 # 1 /\ Tail(items)[i] = items[i + 1]
  BY <1>1, <1>2
<1>4. \A i \in DOMAIN items : i = 1 \/ (i - 1 \in DOMAIN Tail(items) /\ Tail(items)[i - 1] = items[i])
  BY <1>1, <1>2
<1>5. 1 \in DOMAIN items
  BY <1>1
<1>6. Has(items, j) <=> Head(items).job = j \/ Has(Tail(items), j)
  BY <1>1, <1>3, <1>4, <1>5 DEF Has
<1>7. ASSUME OneOfEach(items)
      PROVE  OneOfEach(Tail(items)) /\ ~Has(Tail(items), Head(items).job)
  <2>1. \A i, k \in DOMAIN Tail(items) : Tail(items)[i].job = Tail(items)[k].job => i + 1 = k + 1
    BY <1>3, <1>7 DEF OneOfEach
  <2>2. \A i, k \in DOMAIN Tail(items) : i + 1 = k + 1 => i = k
    BY <1>2
  <2>3. OneOfEach(Tail(items))
    BY <2>1, <2>2 DEF OneOfEach
  <2>4. \A i \in DOMAIN Tail(items) : Tail(items)[i].job # items[1].job
    BY <1>3, <1>5, <1>7 DEF OneOfEach
  <2> QED
    BY <2>3, <2>4, <1>1 DEF Has
<1>8. ASSUME Within(items)
      PROVE  Within(Tail(items)) /\ Head(items).copy <= canonical[Head(items).job]
  BY <1>1, <1>3, <1>5, <1>8 DEF Within
<1> QED
  BY <1>1, <1>5, <1>6, <1>7, <1>8

LEMMA HasAppended ==
    ASSUME NEW S, NEW items \in Seq(S), NEW item \in S, NEW j
    PROVE  /\ Append(items, item) \in Seq(S)
           /\ Has(Append(items, item), j) <=> Has(items, j) \/ item.job = j
           /\ OneOfEach(items) /\ ~Has(items, item.job) => OneOfEach(Append(items, item))
           /\ Within(items) /\ item.copy <= canonical[item.job] => Within(Append(items, item))
<1> DEFINE more == Append(items, item)
           n == Len(items)
<1>1. /\ more \in Seq(S) /\ n \in Nat /\ DOMAIN items = 1..n /\ DOMAIN more = 1..(n + 1)
      /\ more[n + 1] = item /\ \A i \in 1..n : more[i] = items[i]
  BY AppendProperties, LenProperties
<1> HIDE DEF more, n
<1>2. \A i \in DOMAIN more : i = n + 1 \/ (i \in DOMAIN items /\ more[i] = items[i])
  BY <1>1
<1>3. \A i \in DOMAIN items : i \in DOMAIN more /\ i # n + 1 /\ more[i] = items[i]
  BY <1>1
<1>4. n + 1 \in DOMAIN more
  BY <1>1
<1>5. Has(more, j) <=> Has(items, j) \/ item.job = j
  BY <1>1, <1>2, <1>3, <1>4 DEF Has
<1>6. OneOfEach(items) /\ ~Has(items, item.job) => OneOfEach(more)
  BY <1>1, <1>2 DEF Has, OneOfEach
<1>7. Within(items) /\ item.copy <= canonical[item.job] => Within(more)
  BY <1>1, <1>2 DEF Within
<1> QED
  BY <1>1, <1>5, <1>6, <1>7 DEF more

\* The items of a list are those of its first part and those of the rest.
LEMMA HasParts ==
    ASSUME NEW S, NEW items \in Seq(S), NEW size \in 0..Len(items), NEW j
    PROVE  LET batch == SubSeq(items, 1, size)
               rest == SubSeq(items, size + 1, Len(items)) IN
           /\ batch \in Seq(S) /\ rest \in Seq(S) /\ DOMAIN batch = 1..size
           /\ \A i \in 1..size : i \in DOMAIN items /\ batch[i] = items[i] /\ batch[i] \in S
           /\ Has(items, j) <=> Has(batch, j) \/ Has(rest, j)
           /\ OneOfEach(items) => OneOfEach(rest) /\ ~(Has(batch, j) /\ Has(rest, j))
           /\ Within(items) => Within(batch) /\ Within(rest)
<1> DEFINE n == Len(items)
           batch == SubSeq(items, 1, size)
           rest == SubSeq(items, size + 1, n)
<1>1. n \in Nat /\ DOMAIN items = 1..n /\ size \in Nat /\ size <= n /\ \A i \in 1..n : items[i] \in S
  BY LenProperties, ElementOfSeq
<1>2. /\ batch \in Seq(S) /\ Len(batch) = size /\ DOMAIN batch = 1..size
      /\ \A i \in 1..size : batch[i] = items[i]
  <2>1. \A i \in 1..size : items[i] \in S
    BY <1>1
  <2>2. /\ batch \in Seq(S) /\ Len(batch) = IF 1 <= size THEN size - 1 + 1 ELSE 0
        /\ \A i \in 1..(size - 1 + 1) : batch[i] = items[1 + i - 1]
    BY <1>1, <2>1, SubSeqProperties
  <2> QED
    BY <2>2, <1>1
<1>3. /\ rest \in Seq(S) /\ DOMAIN rest = 1..(n - size)
      /\ \A i \in 1..(n - size) : rest[i] = items[size + i]
  <2>1. \A i \in (size + 1)..n : items[i] \in S
    BY <1>1
  <2>2. /\ rest \in Seq(S) /\ Len(rest) = IF size + 1 <= n THEN n - (size + 1) + 1 ELSE 0
        /\ \A i \in 1..(n - (size + 1) + 1) : rest[i] = items[(size + 1) + i - 1]
    BY <1>1, <2>1, SubSeqProperties
  <2> QED
    BY <2>2, <1>1
<1> HIDE DEF n, batch, rest
<1>4. \A i \in DOMAIN items : \/ i \in DOMAIN batch /\ batch[i] = items[i]
                              \/ i - size \in DOMAIN rest /\ rest[i - size] = items[i]
  <2> SUFFICES ASSUME NEW i \in 1..n
               PROVE  \/ i \in DOMAIN batch /\ batch[i] = items[i]
                      \/ i - size \in DOMAIN rest /\ rest[i - size] = items[i]
    BY <1>1
  <2>1. i <= size \/ (i - size \in 1..(n - size) /\ size + (i - size) = i)
    BY <1>1
  <2>2. i <= size => i \in 1..size
    BY <1>1
  <2> QED
    BY <2>1, <2>2, <1>2, <1>3
<1>5. \A i \in DOMAIN rest : size + i \in DOMAIN items /\ rest[i] = items[size + i]
  BY <1>1, <1>3
<1>6. \A i \in DOMAIN batch : i \in DOMAIN items /\ batch[i] = items[i] /\ batch[i] \in S
  BY <1>1, <1>2
<1>7. Has(items, j) <=> Has(batch, j) \/ Has(rest, j)
  BY <1>4, <1>5, <1>6 DEF Has
<1>8. ASSUME OneOfEach(items) PROVE OneOfEach(rest) /\ ~(Has(batch, j) /\ Has(rest, j))
  <2>1. \A i, k \in DOMAIN rest : rest[i].job = rest[k].job => size + i = size + k
    BY <1>5, <1>8 DEF OneOfEach
  <2>2. \A i, k \in DOMAIN rest : size + i = size + k => i = k
    BY <1>1, <1>3
  <2>3. \A i \in DOMAIN batch, k \in DOMAIN rest : i # size + k
    BY <1>1, <1>2, <1>3
  <2>4. \A i \in DOMAIN batch, k \in DOMAIN rest : batch[i].job # rest[k].job
    BY <2>3, <1>5, <1>6, <1>8 DEF OneOfEach
  <2> QED
    BY <2>1, <2>2, <2>4 DEF OneOfEach, Has
<1>9. Within(items) => Within(batch) /\ Within(rest)
  BY <1>5, <1>6 DEF Within
<1> QED
  BY <1>2, <1>3, <1>6, <1>7, <1>8, <1>9 DEF n, batch, rest

----------------------------------------------------------------------------
(* The inductive invariant *)

Handling(t, j, places) == task[t].job = j /\ task[t].pc \in places

\* Title t is to have job j scored; or it has, and is to show it with its score.
Waits(t, j) == Handling(t, j, {"decide"}) \/ Has(task[t].pending, j)
Owns(t, j) ==
    \/ Waits(t, j)
    \/ Has(task[t].scored, j)
    \/ Handling(t, j, {"push", "remember"}) /\ task[t].keeping

\* A job has one owner at most, who claimed it, and is not scored before that.
Claims(j) ==
    /\ \A t \in TitleSet : Owns(t, j) => j \in claimed
    /\ \A t, u \in TitleSet : Owns(t, j) /\ Owns(u, j) => t = u
    /\ \A t \in TitleSet : Waits(t, j) => history.asked[j] = 0
    /\ history.asked[j] <= 1
    /\ history.asked[j] # 0 => j \in claimed

OwnItems(t) ==
    /\ OneOfEach(task[t].pending)
    /\ task[t].pc = "decide" => ~Has(task[t].pending, task[t].job)

\* A task leaves no item of its lists behind.
Lists(t) ==
    /\ task[t].scored # << >> =>
         task[t].pc = "finish" \/ (task[t].pc \in Handles \ {"claim", "decide"} /\ task[t].after = "finish")
    /\ task[t].pending # << >> =>
         \/ task[t].pc \in {"triage", "score", "finish", "drain"}
         \/ task[t].pc \in Handles /\ task[t].after # "applicants"
    /\ task[t].pc \in {"claim", "decide"} => task[t].after = "triage"

\* No task has a better copy of a job than the one stored, and the jobs in
\* hand are claimed.
Holds(t) ==
    /\ Within(task[t].pending) /\ Within(task[t].scored)
    /\ task[t].pc = "replace" => task[t].best <= canonical[task[t].job]
    /\ task[t].pc \in {"push", "remember"} => task[t].entry.copy <= canonical[task[t].job]
    /\ task[t].pc \in {"push", "remember"} /\ task[t].keeping =>
         task[t].entry.scored /\ task[t].result.state = "seen"
    /\ task[t].pc \in Handles \ {"claim"} => task[t].job \in claimed

\* What a task has read of the entry it handles is still so.
Fresh(t) ==
    task[t].pc \in Handles /\ task[t].job \notin history.overlap =>
      /\ task[t].pc = "decide" => recorded[task[t].job].copy = 0
      /\ task[t].pc = "replace" => recorded[task[t].job].copy <= task[t].best
      /\ task[t].pc \in {"push", "remember"} /\ ~task[t].keeping =>
           /\ recorded[task[t].job].copy <= task[t].entry.copy
           /\ recorded[task[t].job].copy = 0 =>
                Has(task[t].pending, task[t].job) /\ ~task[t].entry.scored
           /\ recorded[task[t].job].copy # 0 =>
                (task[t].entry.scored <=> recorded[task[t].job].scored)

Works(t) == OwnItems(t) /\ Lists(t) /\ Holds(t) /\ Fresh(t)

Remembered(j) == recorded[j].copy <= canonical[j] /\ (recorded[j].copy # 0 => j \in claimed)

\* With these results written, the job is shown in its best copy, or taken out.
TooLow(result) == result.state = "filtered" /\ result.known = "low"
Shows(result) == result.state = "seen" \/ TooLow(result)

\* Title t is still to put the entry of job j right: its copy, its score.
Fixes(t, j) ==
    \/ Has(task[t].pending, j) \/ Has(task[t].scored, j)
    \/ Handling(t, j, {"claim", "reload", "remove", "takeout", "forget"})
    \/ Handling(t, j, {"replace"}) /\ task[t].best = canonical[j]
    \/ Handling(t, j, {"push", "remember"}) /\ (task[t].keeping \/ task[t].entry.copy = canonical[j])
    \/ Handling(t, j, {"read", "write"}) /\ Shows(task[t].result)

Scores(t, j) ==
    \/ Has(task[t].pending, j) \/ Has(task[t].scored, j)
    \/ Handling(t, j, {"remove", "takeout", "forget"})
    \/ Handling(t, j, {"push", "remember"}) /\ task[t].keeping
    \/ Handling(t, j, {"read", "write"}) /\ TooLow(task[t].result)

\* Title t has changed the feed and is still to remember what it did.
Writing(t, j) == Handling(t, j, {"remember", "forget"})

NothingFailed == history.failures = 0 /\ \A t \in TitleSet : task[t].pc # "lost"

\* One title at a time changes the entry, and what is wrong with it some
\* title is still to put right.
OneWrites(j) ==
    /\ \A t, u \in TitleSet : Writing(t, j) /\ Writing(u, j) => t = u
    /\ \A t \in TitleSet : /\ Handling(t, j, {"remember"}) => feed[j] = task[t].entry
                           /\ Handling(t, j, {"forget"}) => feed[j] = NoEntry
Settles(j) ==
    /\ feed[j] = recorded[j] \/ \E t \in TitleSet : Writing(t, j)
    /\ recorded[j].copy \in {0, canonical[j]} \/ \E t \in TitleSet : Fixes(t, j)
    /\ recorded[j].copy = 0 \/ recorded[j].scored \/ \E t \in TitleSet : Scores(t, j)

Entries(j) ==
    /\ Remembered(j)
    /\ j \notin history.overlap => OneWrites(j)
    /\ j \notin history.overlap /\ NothingFailed => Settles(j)

JobsInv ==
    /\ Typed
    /\ \A j \in Jobs : Claims(j) /\ Entries(j)
    /\ \A t \in TitleSet : Works(t)

----------------------------------------------------------------------------
(* What a step has to show *)

\* The task of t changes, that of no other title.
Others(t) == \A u \in TitleSet \ {t} : task'[u] = task[u]
Moves(t) == TasksTyped' /\ Others(t)

LEMMA ClaimsKept ==
    ASSUME NEW j \in Jobs, Claims(j), NEW t \in TitleSet, Others(t),
           Typed, Typed', claimed \subseteq claimed',
           history'.asked[j] = history.asked[j],
           Owns(t, j)' => Owns(t, j), Waits(t, j)' => Waits(t, j)
    PROVE  Claims(j)'
<1>1. \A u \in TitleSet : (Owns(u, j)' => Owns(u, j)) /\ (Waits(u, j)' => Waits(u, j))
  BY DEF Others, Owns, Waits, Handling
<1> QED
  BY <1>1 DEF Claims

\* Another title's work is untouched by a step that changes no entry.
LEMMA WorksKept ==
    ASSUME NEW t \in TitleSet, Others(t), NEW u \in TitleSet, u # t, Works(u),
           UNCHANGED <<canonical, recorded>>, claimed \subseteq claimed',
           history'.overlap = history.overlap
    PROVE  Works(u)'
<1>1. task'[u] = task[u]
  BY DEF Others
<1> QED
  BY <1>1 DEF Works, OwnItems, Lists, Holds, Fresh, Within

\* What t was to put right it still is, or it is right.
StillRight(t, j) ==
    /\ Fixes(t, j) => Fixes(t, j)' \/ recorded[j].copy \in {0, canonical[j]}
    /\ Scores(t, j) => Scores(t, j)' \/ recorded[j].copy = 0 \/ recorded[j].scored

LEMMA EntriesKept ==
    ASSUME NEW j \in Jobs, Entries(j), NEW t \in TitleSet, Others(t),
           UNCHANGED <<canonical, recorded, feed>>, claimed \subseteq claimed',
           history'.overlap = history.overlap, NothingFailed' => NothingFailed,
           ~Writing(t, j)', NothingFailed' => ~Writing(t, j) /\ StillRight(t, j)
    PROVE  Entries(j)'
<1>1. \A u \in TitleSet : /\ Writing(u, j)' => Writing(u, j)
                          /\ NothingFailed' => (Writing(u, j)' <=> Writing(u, j))
  BY DEF Others, Writing, Handling
<1>2. Remembered(j)'
  BY DEF Entries, Remembered
<1>3. OneWrites(j) => OneWrites(j)'
  <2>1. \A u \in TitleSet : u = t \/ task'[u] = task[u]
    BY DEF Others
  <2> QED
    BY <1>1, <2>1 DEF OneWrites, Writing, Handling
<1>4. ASSUME Settles(j), NothingFailed' PROVE Settles(j)'
  <2>1. \A u \in TitleSet : (u # t /\ Fixes(u, j) => Fixes(u, j)') /\ (u # t /\ Scores(u, j) => Scores(u, j)')
    BY DEF Others, Fixes, Scores, Handling
  <2>2. StillRight(t, j)
    BY <1>4
  <2>3. feed'[j] = recorded'[j] \/ \E u \in TitleSet : Writing(u, j)'
    BY <1>1, <1>4 DEF Settles
  <2>4. recorded'[j].copy \in {0, canonical'[j]} \/ \E u \in TitleSet : Fixes(u, j)'
    BY <1>4, <2>1, <2>2 DEF Settles, StillRight
  <2>5. recorded'[j].copy = 0 \/ recorded'[j].scored \/ \E u \in TitleSet : Scores(u, j)'
    BY <1>4, <2>1, <2>2 DEF Settles, StillRight
  <2> QED
    BY <2>3, <2>4, <2>5 DEF Settles
<1> QED
  BY <1>2, <1>3, <1>4 DEF Entries

\* A step of t that changes no entry.
Quiet(t) ==
    /\ Moves(t) /\ Works(t)'
    /\ UNCHANGED <<canonical, recorded, feed>> /\ claimed \subseteq claimed'
    /\ history'.overlap = history.overlap /\ (NothingFailed' => NothingFailed)
    /\ \A j \in Jobs : ~Writing(t, j)' /\ (NothingFailed' => ~Writing(t, j) /\ StillRight(t, j))

LEMMA QuietKeeps ==
    ASSUME JobsInv, Typed', NEW t \in TitleSet, Quiet(t), \A j \in Jobs : Claims(j)'
    PROVE  JobsInv'
<1>1. \A j \in Jobs : Entries(j)'
  BY EntriesKept DEF JobsInv, Quiet, Moves
<1>2. \A u \in TitleSet : Works(u)'
  BY WorksKept DEF JobsInv, Quiet, Moves
<1> QED
  BY <1>1, <1>2 DEF JobsInv

\* One that gives t no job either.
LEMMA QuietStep ==
    ASSUME JobsInv, Typed', NEW t \in TitleSet, Quiet(t), history'.asked = history.asked,
           \A j \in Jobs : (Owns(t, j)' => Owns(t, j)) /\ (Waits(t, j)' => Waits(t, j))
    PROVE  JobsInv'
<1>1. \A j \in Jobs : Claims(j)'
  BY ClaimsKept DEF JobsInv, Quiet, Moves
<1> QED
  BY <1>1, QuietKeeps

----------------------------------------------------------------------------
(* Titles that have no job *)

Resting == {"none", "queued", "skip", "search", "applicants", "count", "next", "start", "over", "lost"}
Rests(t) == task[t].pc \notin Handles /\ task[t].pending = << >> /\ task[t].scored = << >>

LEMMA WhereTasksRest ==
    ASSUME NEW t \in TitleSet, Works(t), task[t].pc \in Resting
    PROVE  Rests(t)
BY DEF Works, Lists, Rests, Resting, Handles

LEMMA HasNothing ==
    ASSUME NEW t \in TitleSet, Rests(t), NEW j
    PROVE  ~Owns(t, j) /\ ~Waits(t, j) /\ ~Fixes(t, j) /\ ~Scores(t, j) /\ ~Writing(t, j)
<1>1. ~Has(task[t].pending, j) /\ ~Has(task[t].scored, j)
  BY HasNone DEF Rests
<1> QED
  BY <1>1 DEF Rests, Handles, Owns, Waits, Fixes, Scores, Writing, Handling

LEMMA HasNothingThen ==
    ASSUME NEW t \in TitleSet, Rests(t)', NEW j
    PROVE  ~Owns(t, j)' /\ ~Waits(t, j)' /\ ~Fixes(t, j)' /\ ~Scores(t, j)' /\ ~Writing(t, j)' /\ Works(t)'
<1>1. DOMAIN << >> = {}
  OBVIOUS
<1>2. task'[t].pending = << >> /\ task'[t].scored = << >> /\ task'[t].pc \notin Handles
  BY DEF Rests
<1>3. ~Has(task[t].pending, j)' /\ ~Has(task[t].scored, j)'
  BY <1>1, <1>2 DEF Has
<1>4. Works(t)'
  BY <1>1, <1>2 DEF Works, OwnItems, Lists, Holds, Fresh, Within, OneOfEach, Handles
<1> QED
  BY <1>2, <1>3, <1>4 DEF Handles, Owns, Waits, Fixes, Scores, Writing, Handling

\* A step after which the titles that went on have no job, nor had one
\* unless something failed.
LEMMA RestingKeeps ==
    ASSUME JobsInv, Typed',
           \A u \in TitleSet : task'[u] = task[u] \/ (Rests(u)' /\ (Rests(u) \/ ~NothingFailed')),
           UNCHANGED <<canonical, recorded, feed, claimed>>,
           history'.overlap = history.overlap, history'.asked = history.asked,
           NothingFailed' => NothingFailed
    PROVE  JobsInv'
<1>1. \A u \in TitleSet, j \in Jobs : /\ Owns(u, j)' => Owns(u, j)
                                      /\ Waits(u, j)' => Waits(u, j)
                                      /\ Writing(u, j)' => Writing(u, j)
                                      /\ Writing(u, j)' => task'[u] = task[u]
  BY HasNothingThen DEF Owns, Waits, Writing, Handling
<1>2. \A j \in Jobs : Claims(j)'
  BY <1>1 DEF JobsInv, Claims
<1>3. \A u \in TitleSet : Works(u)'
  <2> SUFFICES ASSUME NEW u \in TitleSet PROVE Works(u)'
    OBVIOUS
  <2>1. CASE task'[u] = task[u]
    BY <2>1 DEF JobsInv, Works, OwnItems, Lists, Holds, Fresh, Within
  <2>2. CASE Rests(u)'
    BY <2>2, HasNothingThen
  <2> QED
    BY <2>1, <2>2
<1>4. ASSUME NEW j \in Jobs PROVE Entries(j)'
  <2>1. Entries(j)
    BY DEF JobsInv
  <2>2. Remembered(j)'
    BY <2>1 DEF Entries, Remembered
  <2>3. OneWrites(j) => OneWrites(j)'
    BY <1>1 DEF OneWrites, Writing, Handling
  <2>4. ASSUME Settles(j), NothingFailed' PROVE Settles(j)'
    <3>1. \A u \in TitleSet : /\ Writing(u, j) => Writing(u, j)'
                              /\ Fixes(u, j) => Fixes(u, j)'
                              /\ Scores(u, j) => Scores(u, j)'
      BY <2>4, HasNothing DEF Writing, Fixes, Scores, Handling
    <3> QED
      BY <2>4, <3>1 DEF Settles
  <2> QED
    BY <2>1, <2>2, <2>3, <2>4 DEF Entries
<1> QED
  BY <1>2, <1>3, <1>4 DEF JobsInv

LEMMA NothingHappened ==
    ASSUME JobsInv, Typed', UNCHANGED <<canonical, recorded, feed, claimed, task>>,
           history'.overlap = history.overlap, history'.asked = history.asked,
           history'.failures = history.failures
    PROVE  JobsInv'
<1>1. NothingFailed' => NothingFailed
  BY DEF NothingFailed, TitleSet
<1> QED
  BY <1>1, RestingKeeps

\* A title goes from rest to rest.
LEMMA RestsOn ==
    ASSUME JobsInv, NEW t \in TitleSet, NEW record, Becomes(t, record),
           task[t].pc \in Resting \ {"lost"}, record.pc \notin Handles,
           record.pending = << >>, record.scored = << >>,
           UNCHANGED <<canonical, userJob, recorded, feed, claimed>>,
           history' \in History, history'.overlap = history.overlap, history'.asked = history.asked,
           history'.failures = 0 => history.failures = 0
    PROVE  JobsInv'
<1>1. Moves(t) /\ task'[t] = record /\ Typed'
  <2>1. TasksTyped' /\ task'[t] = record /\ \A u \in TitleSet \ {t} : task'[u] = task[u]
    BY TaskTyped DEF JobsInv
  <2> QED
    BY <2>1 DEF JobsInv, Typed, Moves, Others
<1>2. Rests(t) /\ Rests(t)'
  BY <1>1, WhereTasksRest DEF JobsInv, Rests
<1>3. NothingFailed' => NothingFailed
  BY <1>1 DEF NothingFailed, Moves, Others
<1> QED
  BY <1>1, <1>2, <1>3, RestingKeeps DEF Moves, Others

\* A title fails or its worker dies.
LEMMA GivesUp ==
    ASSUME JobsInv, NEW t \in TitleSet, Fail(t) \/ Crash(t)
    PROVE  JobsInv'
<1>1. PICK pc \in {"count", "lost"} :
        /\ Set(t, [NotStarted EXCEPT !.pc = pc])
        /\ pc = "count" => history' = [history EXCEPT !.failures = @ + 1]
        /\ pc = "lost" => history' = [history EXCEPT !.crashes = @ + 1]
  BY DEF Fail, Crash
<1>2. Becomes(t, [NotStarted EXCEPT !.pc = pc])
  BY <1>1, NotStartedTyped DEF Becomes, Task, Steps, InTry, Handles
<1>3. TasksTyped' /\ task'[t] = [NotStarted EXCEPT !.pc = pc] /\ Others(t)
  BY <1>2, TaskTyped DEF JobsInv, Others
<1>4. Rests(t)'
  BY <1>3 DEF Rests, Handles, NotStarted
<1>5. /\ history' \in History /\ history'.overlap = history.overlap /\ history'.asked = history.asked
      /\ pc = "count" => history'.failures # 0
  BY <1>1 DEF JobsInv, Typed, History
<1>6. ~NothingFailed'
  BY <1>3, <1>5, NotStartedTyped DEF NothingFailed, Task
<1>7. Typed'
  BY <1>3, <1>5 DEF JobsInv, Typed, Fail, Crash
<1> QED
  BY <1>3, <1>4, <1>5, <1>6, <1>7, RestingKeeps DEF Fail, Crash, Others

LEMMA SearchTyped ==
    ASSUME Typed, NEW t \in TitleSet, Search(t)
    PROVE  \E record : /\ Becomes(t, record) /\ record.pc \notin Handles
                       /\ record.pending = << >> /\ record.scored = << >>
<1> DEFINE fresh == [NotStarted EXCEPT !.kept = task[t].kept]
<1>1. fresh \in Task
  BY NotStartedTyped, TaskFieldsTyped DEF Task
<1>2. CASE task[t].places = 0
  <2> DEFINE record == [fresh EXCEPT !.pc = IF CountApplicants THEN "applicants" ELSE "count"]
  <2>1. record \in Task /\ record.pc \in {"applicants", "count"} /\ Set(t, record)
    BY <1>1, <1>2 DEF Search, Task, Steps, InTry
  <2>2. record.pending = << >> /\ record.scored = << >>
    BY DEF NotStarted
  <2> QED
    BY <2>1, <2>2 DEF Becomes, Handles
<1>3. CASE task[t].places # 0
  <2>1. PICK found \in Found[t] :
          Set(t, [fresh EXCEPT !.pc = "triage", !.places = task[t].places - 1, !.todo = found])
    BY <1>3 DEF Search
  <2>2. found \in Seq(Item)
    BY SearchConstants DEF Item
  <2>3. task[t].places - 1 \in Nat
    BY <1>3, TaskFieldsTyped DEF Task
  <2> DEFINE record == [fresh EXCEPT !.pc = "triage", !.places = task[t].places - 1, !.todo = found]
  <2>4. record \in Task /\ record.pc = "triage" /\ Set(t, record)
    BY <1>1, <2>1, <2>2, <2>3 DEF Task, Steps, InTry
  <2>5. record.pending = << >> /\ record.scored = << >>
    BY DEF NotStarted
  <2> QED
    BY <2>4, <2>5 DEF Becomes, Handles
<1> QED
  BY <1>2, <1>3

LEMMA GoesToRest ==
    ASSUME JobsInv, NEW t \in TitleSet, NEW pc \in Resting, Goto(t, pc),
           task[t].pc \in Resting \ {"lost"},
           UNCHANGED <<canonical, userJob, recorded, feed, claimed>>,
           history' \in History, history'.overlap = history.overlap, history'.asked = history.asked,
           history'.failures = 0 => history.failures = 0
    PROVE  JobsInv'
<1> DEFINE record == [task[t] EXCEPT !.pc = pc]
<1>1. task[t] \in Task /\ Rests(t)
  BY TaskFieldsTyped, WhereTasksRest DEF JobsInv
<1>2. record \in Task /\ record.pc = pc /\ record.pending = << >> /\ record.scored = << >>
  BY <1>1 DEF Task, Rests, Resting, Steps, InTry
<1>3. Becomes(t, record) /\ record.pc \notin Handles
  BY <1>2 DEF Becomes, Goto, Resting, Handles
<1> HIDE DEF record
<1> QED
  BY <1>2, <1>3, RestsOn

LEMMA HistoryTyped ==
    ASSUME JobsInv
    PROVE  /\ history \in History
           /\ LET more == [history EXCEPT !.failures = @ + 1] IN
              /\ more \in History /\ more.overlap = history.overlap /\ more.asked = history.asked
              /\ more.failures # 0
           /\ LET more == [history EXCEPT !.crashes = @ + 1] IN
              /\ more \in History /\ more.overlap = history.overlap /\ more.asked = history.asked
              /\ more.failures = history.failures
BY DEF JobsInv, Typed, History

LEMMA TurnsKeep ==
    ASSUME Inv, JobsInv, NEW t \in TitleSet,
           \/ TakeTitle(t) \/ Search(t) \/ ApplicantsEnd(t) \/ Count(t) \/ NextTitle(t)
           \/ NextFails(t) \/ StartFails(t) \/ CountLost(t)
    PROVE  JobsInv'
<1>1. task[t] \in Task /\ history \in History
  BY TaskFieldsTyped DEF JobsInv, Typed
<1>2. CASE TakeTitle(t)
  <2> DEFINE record == [task[t] EXCEPT !.pc = IF Cancelled THEN "skip" ELSE "search", !.places = Places]
  <2>1. record \in Task /\ record.pc \in {"skip", "search"}
    BY <1>1, SearchConstants DEF Task, Steps, InTry
  <2>2. task[t].pc = "queued" /\ Set(t, record)
    BY <1>2 DEF TakeTitle, At
  <2>3. record.pending = << >> /\ record.scored = << >>
    BY <1>1, <2>2, WhereTasksRest DEF JobsInv, Resting, Rests, Task
  <2>4. Becomes(t, record) /\ record.pc \notin Handles /\ task[t].pc \in Resting \ {"lost"}
    BY <2>1, <2>2 DEF Becomes, Handles, Resting
  <2> HIDE DEF record
  <2> QED
    BY <1>1, <1>2, <2>3, <2>4, RestsOn DEF TakeTitle
<1>3. CASE Search(t)
  <2>1. PICK record : /\ Becomes(t, record) /\ record.pc \notin Handles
                      /\ record.pending = << >> /\ record.scored = << >>
    BY <1>3, SearchTyped DEF JobsInv
  <2>2. task[t].pc \in Resting \ {"lost"}
    BY <1>3 DEF Search, At, Resting
  <2> QED
    BY <1>1, <1>3, <2>1, <2>2, RestsOn DEF Search
<1>4. CASE ApplicantsEnd(t)
  BY <1>1, <1>4, GoesToRest DEF ApplicantsEnd, At, Resting
<1>5. CASE Count(t)
  <2> DEFINE record == [NotStarted EXCEPT !.pc = "next"]
  <2>1. record \in Task /\ record.pc = "next" /\ record.pending = << >> /\ record.scored = << >>
    BY NotStartedTyped DEF Task, NotStarted, Steps
  <2>2. Becomes(t, record) /\ record.pc \notin Handles /\ task[t].pc \in Resting \ {"lost"}
    BY <1>5, <2>1 DEF Count, At, Becomes, Handles, Resting
  <2> HIDE DEF record
  <2> QED
    BY <1>1, <1>5, <2>1, <2>2, RestsOn DEF Count
<1>6. CASE NextTitle(t)
  <2>1. task[t].pc = "next" /\ UNCHANGED <<canonical, userJob, recorded, feed, claimed, history>>
    BY <1>6 DEF NextTitle, At
  <2>2. CASE waiting = << >>
    <3>1. Goto(t, "over")
      BY <1>6, <2>2 DEF NextTitle
    <3> QED
      BY <1>1, <2>1, <3>1, GoesToRest DEF Resting
  <2>3. CASE waiting # << >>
    <3> DEFINE record == [task[t] EXCEPT !.pc = "start", !.title = Head(waiting)]
    <3>1. Set(t, record) /\ Head(waiting) \in TitleSet
      BY <1>6, <2>3, HeadOfItems DEF NextTitle, Inv, RunFields
    <3>2. record \in Task /\ record.pc = "start"
      BY <1>1, <3>1 DEF Task, Steps, InTry
    <3>3. record.pending = << >> /\ record.scored = << >>
      BY <1>1, <2>1, WhereTasksRest DEF JobsInv, Resting, Rests, Task
    <3>4. Becomes(t, record) /\ record.pc \notin Handles /\ task[t].pc \in Resting \ {"lost"}
      BY <2>1, <3>1, <3>2 DEF Becomes, Handles, Resting
    <3> HIDE DEF record
    <3> QED
      BY <1>1, <2>1, <3>3, <3>4, RestsOn
  <2> QED
    BY <2>2, <2>3
<1>7. CASE NextFails(t)
  BY <1>7, HistoryTyped, GoesToRest DEF NextFails, At, Resting
<1>8. CASE StartFails(t)
  <2> DEFINE record == [NotStarted EXCEPT !.pc = "over"]
  <2>1. record \in Task /\ record.pc = "over" /\ record.pending = << >> /\ record.scored = << >>
    BY NotStartedTyped DEF Task, NotStarted, Steps
  <2>2. Becomes(t, record) /\ record.pc \notin Handles /\ task[t].pc \in Resting \ {"lost"}
    BY <1>8, <2>1 DEF StartFails, At, Becomes, Handles, Resting
  <2>3. /\ history' \in History /\ history'.overlap = history.overlap /\ history'.asked = history.asked
        /\ history'.failures # 0 /\ UNCHANGED <<canonical, userJob, recorded, feed, claimed>>
    BY <1>8, HistoryTyped DEF StartFails
  <2> HIDE DEF record
  <2> QED
    BY <2>1, <2>2, <2>3, RestsOn
<1>9. CASE CountLost(t)
  BY <1>9, HistoryTyped, GoesToRest DEF CountLost, At, Resting
<1> QED
  BY <1>2, <1>3, <1>4, <1>5, <1>6, <1>7, <1>8, <1>9

\* A title that another one is to start, or that is to be queued, has not begun.
LEMMA NotBegun ==
    ASSUME Inv, NEW u \in Unborn
    PROVE  u \in TitleSet /\ task[u].pc = "none"
BY OwedSize DEF Inv, OnePlace, Owed

LEMMA StartTitleKeeps ==
    ASSUME Inv, JobsInv, NEW t \in TitleSet, StartTitle(t)
    PROVE  JobsInv'
<1>1. task[t].pc = "start" /\ task[t] \in Task
  BY TaskFieldsTyped DEF StartTitle, At, JobsInv
<1>2. PICK u \in TitleSet : u = task[t].title /\ task[u].pc = "none" /\ u # t
  <2>1. task[t].title \in Unborn
    BY <1>1 DEF Unborn, Starting, Starters, Inv, NothingYet
  <2> QED
    BY <1>1, <2>1, NotBegun
<1>3. Rests(t) /\ Rests(u) /\ task[u] \in Task
  BY <1>1, <1>2, WhereTasksRest, TaskFieldsTyped DEF JobsInv, Resting
<1>4. /\ task' = [task EXCEPT ![t].pc = "over", ![t].title = "none", ![u].pc = "queued"]
      /\ UNCHANGED <<canonical, userJob, recorded, feed, claimed, history>>
  BY <1>2 DEF StartTitle
<1>5. /\ task'[t] = [task[t] EXCEPT !.pc = "over", !.title = "none"]
      /\ task'[u] = [task[u] EXCEPT !.pc = "queued"]
      /\ \A v \in TitleSet \ {t, u} : task'[v] = task[v]
      /\ DOMAIN task' = TitleSet
  BY <1>2, <1>4 DEF JobsInv, Typed, TasksTyped
<1>6. task'[t] \in Task /\ task'[u] \in Task
  BY <1>1, <1>3, <1>5 DEF Task, Steps
<1>7. task'[t].pc = "over" /\ task'[u].pc = "queued"
  BY <1>1, <1>3, <1>5 DEF Task
<1>8. Rests(t)' /\ Rests(u)'
  BY <1>1, <1>3, <1>5, <1>7 DEF Rests, Task, Handles
<1>9. TasksTyped'
  <2>1. task' = [v \in TitleSet |-> task'[v]]
    BY <1>4, <1>5 DEF JobsInv, Typed, TasksTyped
  <2>2. \A v \in TitleSet : task'[v] \in Task /\ (task'[v].pc \in Handles => task'[v].job \in Jobs)
    BY <1>5, <1>6, <1>7, TaskFieldsTyped DEF JobsInv, Handles
  <2> QED
    BY <2>1, <2>2 DEF TasksTyped
<1>10. Typed'
  BY <1>4, <1>9 DEF JobsInv, Typed
<1>11. NothingFailed' => NothingFailed
  BY <1>1, <1>2, <1>4, <1>5 DEF NothingFailed
<1> QED
  BY <1>3, <1>4, <1>5, <1>8, <1>10, <1>11, RestingKeeps

LEMMA SendKeeps ==
    ASSUME Inv, JobsInv, Send
    PROVE  JobsInv'
<1> DEFINE t == Head(dispatcher.left)
<1>1. dispatcher.pc = "send" /\ dispatcher.left \in Seq(TitleSet) /\ dispatcher.left # << >>
  BY DEF Send, Inv, RunFields
<1>2. t \in TitleSet /\ task[t].pc = "none"
  <2>1. t \in ElementsOf(dispatcher.left)
    BY <1>1, HeadTailProperties, EmptySeq DEF ElementsOf
  <2> QED
    BY <1>1, <2>1, NotBegun DEF Unborn
<1>3. Goto(t, "queued") /\ UNCHANGED <<canonical, userJob, recorded, feed, claimed, history>>
  BY DEF Send
<1> HIDE DEF t
<1> QED
  BY <1>2, <1>3, HistoryTyped, GoesToRest DEF Resting

\* Steps that change no task.
LEMMA TasklessKeeps ==
    ASSUME JobsInv,
           \/ Hold \/ DispatcherCrash \/ Cancel
           \/ \E j \in Jobs, state \in UserStates : SetState(j, state)
           \/ UNCHANGED vars
    PROVE  JobsInv'
<1>1. /\ UNCHANGED <<canonical, recorded, feed, claimed, task>>
      /\ history' \in History /\ history'.overlap = history.overlap /\ history'.asked = history.asked
      /\ history'.failures = history.failures
  BY HistoryTyped DEF Hold, DispatcherCrash, Cancel, SetState, vars
<1>2. userJob' \in [Jobs -> UserRow]
  <2>1. ASSUME NEW j \in Jobs, NEW state \in UserStates, SetState(j, state)
        PROVE  userJob' \in [Jobs -> UserRow]
    <3>1. state \in RowStates
      BY SearchConstants DEF RowStates, Sticky
    <3> QED
      BY <2>1, <3>1 DEF SetState, JobsInv, Typed, UserRow
  <2> QED
    BY <2>1 DEF Hold, DispatcherCrash, Cancel, vars, JobsInv, Typed
<1>3. TasksTyped'
  BY <1>1 DEF JobsInv, Typed, TasksTyped
<1>4. Typed'
  BY <1>1, <1>2, <1>3 DEF JobsInv, Typed
<1> QED
  BY <1>1, <1>4, NothingHappened

----------------------------------------------------------------------------
(* Titles at work *)

\* The fields of t that the invariant speaks of, but for where it is.
SameWork(t) ==
    /\ task'[t].after = task[t].after /\ task'[t].job = task[t].job /\ task'[t].best = task[t].best
    /\ task'[t].pending = task[t].pending /\ task'[t].scored = task[t].scored
    /\ task'[t].entry = task[t].entry /\ task'[t].keeping = task[t].keeping
    /\ task'[t].result = task[t].result

LEMMA MovesTo ==
    ASSUME Typed, NEW t \in TitleSet, NEW record, Becomes(t, record)
    PROVE  Moves(t) /\ task'[t] = record
BY TaskTyped DEF Moves, Others

LEMMA GoesTo ==
    ASSUME Typed, NEW t \in TitleSet, NEW pc \in Steps, Goto(t, pc),
           pc \in Handles => task[t].pc \in Handles
    PROVE  Moves(t) /\ task'[t].pc = pc /\ SameWork(t)
<1> DEFINE record == [task[t] EXCEPT !.pc = pc]
<1>1. task[t] \in Task
  BY TaskFieldsTyped
<1>2. record \in Task /\ record.pc = pc /\ record.job = task[t].job
  BY <1>1 DEF Task
<1>3. Becomes(t, record)
  BY <1>2, TaskFieldsTyped DEF Becomes, Goto
<1>4. Moves(t) /\ task'[t] = record
  BY <1>3, MovesTo
<1> QED
  BY <1>1, <1>2, <1>4 DEF SameWork, Task

LEMMA QuietTyped ==
    ASSUME Typed, TasksTyped', UNCHANGED <<canonical, recorded, feed>>,
           claimed' \subseteq Jobs, userJob' \in [Jobs -> UserRow], history' \in History
    PROVE  Typed'
BY DEF Typed

LEMMA FailuresStay ==
    ASSUME Typed, NEW t \in TitleSet, Others(t), task[t].pc # "lost",
           history'.failures = history.failures
    PROVE  NothingFailed' => NothingFailed
BY DEF NothingFailed, Others

\* What a step of t that changes no entry, and gives t no job, has to show.
LEMMA QuietWork ==
    ASSUME JobsInv, NEW t \in TitleSet, Moves(t), Works(t)', task[t].pc # "lost",
           UNCHANGED <<canonical, recorded, feed, claimed, history>>,
           userJob' \in [Jobs -> UserRow],
           \A j \in Jobs : /\ ~Writing(t, j) /\ ~Writing(t, j)' /\ StillRight(t, j)
                           /\ Owns(t, j)' => Owns(t, j)
                           /\ Waits(t, j)' => Waits(t, j)
    PROVE  JobsInv'
<1>1. Typed'
  BY QuietTyped DEF JobsInv, Moves, Typed
<1>2. NothingFailed' => NothingFailed
  BY FailuresStay DEF JobsInv, Moves
<1>3. Quiet(t)
  BY <1>2 DEF Quiet
<1> QED
  BY <1>1, <1>3, QuietStep

\* t has done with its job for now and goes back to where it took it from.
LEMMA Returns ==
    ASSUME JobsInv, NEW t \in TitleSet, task[t].pc \in Handles \ {"claim", "decide"},
           Goto(t, task[t].after)
    PROVE  /\ Moves(t) /\ SameWork(t) /\ task'[t].pc = task[t].after
           /\ task'[t].pc \in {"triage", "finish", "drain", "applicants"}
<1>1. task[t].after \in {"triage", "finish", "drain", "applicants"}
  BY TaskFieldsTyped DEF JobsInv, Task, Afters
<1>2. task[t].after \in Steps /\ task[t].after \notin Handles
  BY <1>1 DEF Steps, InTry, Handles
<1> QED
  BY <1>1, <1>2, GoesTo DEF JobsInv

LEMMA ReturnedWorks ==
    ASSUME NEW t \in TitleSet, Works(t), task[t].pc \in Handles \ {"claim", "decide"},
           SameWork(t), task'[t].pc = task[t].after,
           task'[t].pc \in {"triage", "finish", "drain", "applicants"}, UNCHANGED canonical
    PROVE  Works(t)'
<1>1. OwnItems(t)' /\ Holds(t)' /\ Fresh(t)'
  BY DEF Works, OwnItems, Holds, Fresh, SameWork, Within, Handles
<1>2. Lists(t)'
  BY DEF Works, Lists, SameWork, Handles
<1> QED
  BY <1>1, <1>2 DEF Works

\* It had nothing to put right, or what it had is right.
LEMMA ReturnKeeps ==
    ASSUME JobsInv, NEW t \in TitleSet,
           task[t].pc \in Handles \ {"claim", "decide", "remember", "forget"},
           Goto(t, task[t].after),
           UNCHANGED <<canonical, recorded, feed, claimed, history>>,
           userJob' \in [Jobs -> UserRow],
           Fixes(t, task[t].job) => \/ Has(task[t].pending, task[t].job) \/ Has(task[t].scored, task[t].job)
                                    \/ recorded[task[t].job].copy \in {0, canonical[task[t].job]},
           Scores(t, task[t].job) => \/ Has(task[t].pending, task[t].job) \/ Has(task[t].scored, task[t].job)
                                     \/ recorded[task[t].job].copy = 0 \/ recorded[task[t].job].scored
    PROVE  JobsInv'
<1>1. /\ Moves(t) /\ SameWork(t) /\ task'[t].pc = task[t].after
      /\ task'[t].pc \in {"triage", "finish", "drain", "applicants"}
  BY Returns
<1>2. Works(t)'
  BY <1>1, ReturnedWorks DEF JobsInv
<1>3. ASSUME NEW j \in Jobs
      PROVE  /\ ~Writing(t, j) /\ ~Writing(t, j)' /\ StillRight(t, j)
             /\ (Owns(t, j)' => Owns(t, j)) /\ (Waits(t, j)' => Waits(t, j))
  <2>1. /\ Has(task[t].pending, j)' <=> Has(task[t].pending, j)
        /\ Has(task[t].scored, j)' <=> Has(task[t].scored, j)
    BY <1>1 DEF SameWork, Has
  <2>2. ~Writing(t, j) /\ ~Writing(t, j)'
    BY <1>1 DEF Writing, Handling
  <2>3. (Owns(t, j)' => Owns(t, j)) /\ (Waits(t, j)' => Waits(t, j))
    BY <1>1, <2>1 DEF Owns, Waits, Handling
  <2>4. StillRight(t, j)
    BY <2>1 DEF StillRight, Fixes, Scores, Handling
  <2> QED
    BY <2>2, <2>3, <2>4
<1>4. task[t].pc # "lost"
  BY DEF Handles
<1> QED
  BY <1>1, <1>2, <1>3, <1>4, QuietWork

LEMMA ToScoreKeeps ==
    ASSUME JobsInv, NEW t \in TitleSet, ToScore(t)
    PROVE  JobsInv'
<1>1. task[t].pc = "triage" /\ UNCHANGED <<canonical, userJob, recorded, feed, claimed, history>>
  BY DEF ToScore, At
<1>2. Moves(t) /\ task'[t].pc = "score" /\ SameWork(t)
  BY <1>1, GoesTo DEF ToScore, JobsInv, Steps, InTry, Handles
<1>3. Works(t)'
  BY <1>1, <1>2 DEF JobsInv, Works, OwnItems, Lists, Holds, Fresh, SameWork, Within, Handles
<1>4. ASSUME NEW j \in Jobs
      PROVE  /\ ~Writing(t, j) /\ ~Writing(t, j)' /\ StillRight(t, j)
             /\ (Owns(t, j)' => Owns(t, j)) /\ (Waits(t, j)' => Waits(t, j))
  <2>1. /\ Has(task[t].pending, j)' <=> Has(task[t].pending, j)
        /\ Has(task[t].scored, j)' <=> Has(task[t].scored, j)
    BY <1>2 DEF SameWork, Has
  <2> QED
    BY <1>1, <1>2, <2>1 DEF Writing, StillRight, Fixes, Scores, Owns, Waits, Handling
<1> QED
  BY <1>1, <1>2, <1>3, <1>4, QuietWork DEF JobsInv, Typed

LEMMA ReplaceKeeps ==
    ASSUME JobsInv, NEW t \in TitleSet, Replace(t)
    PROVE  JobsInv'
<1> DEFINE shown == recorded[task[t].job]
           record == [task[t] EXCEPT !.pc = "push", !.keeping = FALSE,
                                     !.entry = [shown EXCEPT !.copy = task[t].best]]
<1>1. task[t].pc = "replace" /\ UNCHANGED <<canonical, userJob, recorded, feed, claimed, history>>
  BY DEF Replace, At
<1>2. task[t] \in Task /\ task[t].job \in Jobs /\ shown \in Entry
  BY <1>1, TaskFieldsTyped DEF JobsInv, Handles, Typed
<1>3. Works(t)
  BY DEF JobsInv
<1>4. CASE shown.copy \in {0, task[t].best}
  <2>1. Goto(t, task[t].after)
    BY <1>4 DEF Replace
  <2>2. Fixes(t, task[t].job) => \/ Has(task[t].pending, task[t].job) \/ Has(task[t].scored, task[t].job)
                                 \/ shown.copy \in {0, canonical[task[t].job]}
    BY <1>1, <1>4 DEF Fixes, Handling
  <2>3. Scores(t, task[t].job) => Has(task[t].pending, task[t].job) \/ Has(task[t].scored, task[t].job)
    BY <1>1 DEF Scores, Handling
  <2> QED
    BY <1>1, <2>1, <2>2, <2>3, ReturnKeeps DEF Handles, JobsInv, Typed
<1>5. CASE shown.copy \notin {0, task[t].best}
  <2>1. record \in Task
    BY <1>2 DEF Task, Entry, Steps, InTry
  <2>2. /\ record.pc = "push" /\ record.job = task[t].job /\ record.after = task[t].after
        /\ record.pending = task[t].pending /\ record.scored = task[t].scored
        /\ record.entry.copy = task[t].best /\ record.entry.scored = shown.scored
        /\ record.keeping = FALSE
    BY <1>2 DEF Task, Entry
  <2>3. Becomes(t, record)
    BY <1>2, <1>5, <2>1, <2>2 DEF Becomes, Replace
  <2>4. Moves(t) /\ task'[t] = record
    BY <2>3, MovesTo DEF JobsInv
  <2> HIDE DEF record
  <2>5. Works(t)'
    <3>1. OwnItems(t)' /\ Lists(t)'
      BY <1>1, <1>3, <2>2, <2>4 DEF Works, OwnItems, Lists, Handles
    <3>2. Holds(t)'
      BY <1>1, <1>3, <2>2, <2>4 DEF Works, Holds, Within, Handles
    <3>3. Fresh(t)'
      BY <1>1, <1>3, <1>5, <2>2, <2>4 DEF Works, Fresh, Handles
    <3> QED
      BY <3>1, <3>2, <3>3 DEF Works
  <2>6. ASSUME NEW j \in Jobs
        PROVE  /\ ~Writing(t, j) /\ ~Writing(t, j)' /\ StillRight(t, j)
               /\ (Owns(t, j)' => Owns(t, j)) /\ (Waits(t, j)' => Waits(t, j))
    <3>1. /\ Has(task[t].pending, j)' <=> Has(task[t].pending, j)
          /\ Has(task[t].scored, j)' <=> Has(task[t].scored, j)
      BY <2>2, <2>4 DEF Has
    <3> QED
      BY <1>1, <2>2, <2>4, <3>1 DEF Writing, StillRight, Fixes, Scores, Owns, Waits, Handling
  <2> QED
    BY <1>1, <2>4, <2>5, <2>6, QuietWork DEF JobsInv, Typed
<1> QED
  BY <1>4, <1>5

LEMMA RemoveKeeps ==
    ASSUME JobsInv, NEW t \in TitleSet, Remove(t)
    PROVE  JobsInv'
<1>1. task[t].pc = "remove" /\ UNCHANGED <<canonical, userJob, recorded, feed, claimed, history>>
  BY DEF Remove, At
<1>2. CASE recorded[task[t].job].copy = 0
  <2>1. Goto(t, task[t].after)
    BY <1>2 DEF Remove
  <2> QED
    BY <1>1, <1>2, <2>1, ReturnKeeps DEF Handles, JobsInv, Typed
<1>3. CASE recorded[task[t].job].copy # 0
  <2>1. Goto(t, "takeout")
    BY <1>3 DEF Remove
  <2>2. Moves(t) /\ task'[t].pc = "takeout" /\ SameWork(t)
    BY <1>1, <2>1, GoesTo DEF JobsInv, Steps, InTry, Handles
  <2>3. Works(t)'
    BY <1>1, <2>2 DEF JobsInv, Works, OwnItems, Lists, Holds, Fresh, SameWork, Within, Handles
  <2>4. ASSUME NEW j \in Jobs
        PROVE  /\ ~Writing(t, j) /\ ~Writing(t, j)' /\ StillRight(t, j)
               /\ (Owns(t, j)' => Owns(t, j)) /\ (Waits(t, j)' => Waits(t, j))
    <3>1. /\ Has(task[t].pending, j)' <=> Has(task[t].pending, j)
          /\ Has(task[t].scored, j)' <=> Has(task[t].scored, j)
      BY <2>2 DEF SameWork, Has
    <3> QED
      BY <1>1, <2>2, <3>1 DEF SameWork, Writing, StillRight, Fixes, Scores, Owns, Waits, Handling
  <2> QED
    BY <1>1, <2>2, <2>3, <2>4, QuietWork DEF JobsInv, Typed
<1> QED
  BY <1>2, <1>3

LEMMA DrainKeeps ==
    ASSUME JobsInv, NEW t \in TitleSet, Drain(t)
    PROVE  JobsInv'
<1>1. task[t].pc = "drain" /\ UNCHANGED <<canonical, userJob, recorded, feed, claimed, history>>
  BY DEF Drain, At
<1>2. task[t] \in Task /\ Works(t)
  BY TaskFieldsTyped DEF JobsInv
<1>3. task[t].scored = << >>
  BY <1>1, <1>2 DEF Works, Lists, Handles
<1>4. CASE task[t].pending = << >>
  <2>1. Goto(t, "search")
    BY <1>4 DEF Drain
  <2>2. Moves(t) /\ task'[t].pc = "search" /\ SameWork(t)
    BY <1>1, <2>1, GoesTo DEF JobsInv, Steps, InTry, Handles
  <2>3. Rests(t) /\ Rests(t)'
    BY <1>1, <1>3, <1>4, <2>2 DEF Rests, SameWork, Handles
  <2>4. Works(t)'
    BY <2>3, HasNothingThen
  <2>5. ASSUME NEW j \in Jobs
        PROVE  /\ ~Writing(t, j) /\ ~Writing(t, j)' /\ StillRight(t, j)
               /\ (Owns(t, j)' => Owns(t, j)) /\ (Waits(t, j)' => Waits(t, j))
    BY <2>3, HasNothing, HasNothingThen DEF StillRight
  <2> QED
    BY <1>1, <2>2, <2>4, <2>5, QuietWork DEF JobsInv, Typed
<1>5. CASE task[t].pending # << >>
  <2> DEFINE item == Head(task[t].pending)
             record == [task[t] EXCEPT !.pc = "remove", !.after = "drain",
                                       !.job = Head(task[t].pending).job, !.pending = Tail(@)]
  <2>1. task[t].pending \in Seq(Item)
    BY <1>2 DEF Task
  <2>2. item \in Item /\ Tail(task[t].pending) \in Seq(Item)
    BY <1>5, <2>1, HeadOfItems
  <2>3. item.job \in Jobs
    BY <2>2 DEF Item
  <2>4. record \in Task
    BY <1>2, <2>2, <2>3 DEF Task, Steps, InTry, Afters
  <2>5. /\ record.pc = "remove" /\ record.job = item.job /\ record.after = "drain"
        /\ record.pending = Tail(task[t].pending) /\ record.scored = << >>
    BY <1>2, <1>3 DEF Task
  <2>6. Becomes(t, record)
    BY <1>5, <2>3, <2>4, <2>5 DEF Becomes, Drain
  <2>7. Moves(t) /\ task'[t] = record
    BY <2>6, MovesTo DEF JobsInv
  <2>8. \A j \in Jobs : /\ Has(task[t].pending, j) <=> item.job = j \/ Has(task'[t].pending, j)
                        /\ OneOfEach(task'[t].pending) /\ Within(task'[t].pending)
    <3> SUFFICES ASSUME NEW j \in Jobs
                 PROVE  /\ Has(task[t].pending, j) <=> item.job = j \/ Has(task'[t].pending, j)
                        /\ OneOfEach(task'[t].pending) /\ Within(task'[t].pending)
      OBVIOUS
    <3>1. OneOfEach(task[t].pending) /\ Within(task[t].pending)
      BY <1>2 DEF Works, OwnItems, Holds
    <3>2. task'[t].pending = Tail(task[t].pending)
      BY <2>5, <2>7
    <3> QED
      BY <1>5, <2>1, <3>1, <3>2, HasHeadAndTail
  <2>9. Has(task[t].pending, item.job)
    BY <2>3, <2>8
  <2>10. item.job \in claimed
    <3>1. Owns(t, item.job)
      BY <2>9 DEF Owns, Waits
    <3> QED
      BY <2>3, <3>1 DEF JobsInv, Claims
  <2> HIDE DEF record, item
  <2>11. Works(t)'
    <3>1. OwnItems(t)' /\ Lists(t)'
      BY <2>3, <2>5, <2>7, <2>8 DEF OwnItems, Lists, OneOfEach, Handles
    <3>2. Holds(t)'
      BY <1>1, <2>3, <2>5, <2>7, <2>8, <2>10, HasNone DEF Holds, Within
    <3>3. Fresh(t)'
      BY <2>5, <2>7 DEF Fresh
    <3> QED
      BY <3>1, <3>2, <3>3 DEF Works
  <2>12. ASSUME NEW j \in Jobs
        PROVE  /\ ~Writing(t, j) /\ ~Writing(t, j)' /\ StillRight(t, j)
               /\ (Owns(t, j)' => Owns(t, j)) /\ (Waits(t, j)' => Waits(t, j))
    <3>1. Has(task[t].pending, j) <=> item.job = j \/ Has(task[t].pending, j)'
      BY <2>8 DEF Has
    <3>2. ~Has(task[t].scored, j) /\ ~Has(task[t].scored, j)'
      <4>1. DOMAIN << >> = {}
        OBVIOUS
      <4> QED
        BY <4>1, <1>3, <2>5, <2>7 DEF Has
    <3> QED
      BY <1>1, <2>5, <2>7, <3>1, <3>2
         DEF Writing, StillRight, Fixes, Scores, Owns, Waits, Handling
  <2> QED
    BY <1>1, <2>7, <2>11, <2>12, QuietWork DEF JobsInv, Typed
<1> QED
  BY <1>4, <1>5

LEMMA FinishScoredKeeps ==
    ASSUME JobsInv, NEW t \in TitleSet, FinishScored(t)
    PROVE  JobsInv'
<1>1. task[t].pc = "finish" /\ UNCHANGED <<canonical, userJob, recorded, feed, claimed, history>>
  BY DEF FinishScored, At
<1>2. task[t] \in Task /\ Works(t)
  BY TaskFieldsTyped DEF JobsInv
<1>3. CASE task[t].scored = << >>
  <2>1. Goto(t, "score")
    BY <1>3 DEF FinishScored
  <2>2. Moves(t) /\ task'[t].pc = "score" /\ SameWork(t)
    BY <1>1, <2>1, GoesTo DEF JobsInv, Steps, InTry, Handles
  <2>3. Works(t)'
    BY <1>1, <1>2, <1>3, <2>2 DEF Works, OwnItems, Lists, Holds, Fresh, SameWork, Within, Handles
  <2>4. ASSUME NEW j \in Jobs
        PROVE  /\ ~Writing(t, j) /\ ~Writing(t, j)' /\ StillRight(t, j)
               /\ (Owns(t, j)' => Owns(t, j)) /\ (Waits(t, j)' => Waits(t, j))
    <3>1. /\ Has(task[t].pending, j)' <=> Has(task[t].pending, j)
          /\ Has(task[t].scored, j)' <=> Has(task[t].scored, j)
      BY <2>2 DEF SameWork, Has
    <3> QED
      BY <1>1, <2>2, <3>1 DEF Writing, StillRight, Fixes, Scores, Owns, Waits, Handling
  <2> QED
    BY <1>1, <2>2, <2>3, <2>4, QuietWork DEF JobsInv, Typed
<1>4. CASE task[t].scored # << >>
  <2> DEFINE done == Head(task[t].scored)
             next == [task[t] EXCEPT !.scored = Tail(@), !.after = "finish", !.job = done.job]
             failed == [next EXCEPT !.pc = "remove"]
             low == [next EXCEPT !.pc = "read", !.result = [state |-> "filtered", known |-> "low"]]
             good == [Keeping(t, done.job, done.copy) EXCEPT
                        !.scored = next.scored, !.after = "finish", !.kept = @ \cup {done.job}]
  <2>1. task[t].scored \in Seq(ScoredItem)
    BY <1>2 DEF Task
  <2>2. done \in ScoredItem /\ Tail(task[t].scored) \in Seq(ScoredItem)
    BY <1>4, <2>1, HeadOfItems
  <2>3. done.job \in Jobs /\ done.copy \in Nat
    BY <2>2 DEF ScoredItem
  <2>4. Set(t, failed) \/ Set(t, low) \/ Set(t, good)
    BY <1>4, <2>2 DEF FinishScored, ScoredItem
  <2> HIDE DEF done
  <2>5. /\ failed \in Task /\ failed.pc = "remove"
        /\ failed.job = done.job /\ failed.after = "finish"
        /\ failed.pending = task[t].pending /\ failed.scored = Tail(task[t].scored)
    BY <1>2, <2>2, <2>3 DEF Task, Steps, InTry, Afters
  <2>6. /\ low \in Task /\ low.pc = "read" /\ low.result = [state |-> "filtered", known |-> "low"]
        /\ low.job = done.job /\ low.after = "finish"
        /\ low.pending = task[t].pending /\ low.scored = Tail(task[t].scored)
    BY <1>2, <2>2, <2>3 DEF Task, Steps, InTry, Afters, UserRow, RowStates, Known
  <2>7. /\ good \in Task /\ good.pc = "push" /\ good.keeping = TRUE
        /\ good.entry.copy = done.copy /\ good.entry.scored = TRUE /\ good.result.state = "seen"
        /\ good.job = done.job /\ good.after = "finish"
        /\ good.pending = task[t].pending /\ good.scored = Tail(task[t].scored)
    <3> DEFINE keep == Keeping(t, done.job, done.copy)
    <3> DEFINE entry == EntryOf(done.copy, TRUE)
               result == [state |-> "seen", known |-> "good"]
    <3>3. entry \in Entry /\ entry.copy = done.copy /\ entry.scored = TRUE
      BY <2>3 DEF EntryOf, Entry
    <3>4. result \in UserRow /\ result.state = "seen"
      BY DEF UserRow, RowStates, Known
    <3>5. keep = [task[t] EXCEPT !.pc = "push", !.job = done.job, !.keeping = TRUE,
                                 !.entry = entry, !.result = result]
      BY DEF Keeping
    <3> HIDE DEF keep, entry, result
    <3>1. /\ keep \in Task /\ keep.pc = "push" /\ keep.keeping = TRUE
          /\ keep.entry.copy = done.copy /\ keep.entry.scored = TRUE /\ keep.result.state = "seen"
          /\ keep.job = done.job /\ keep.pending = task[t].pending
      BY <1>2, <2>3, <3>3, <3>4, <3>5 DEF Task, Steps, InTry
    <3>2. next.scored = Tail(task[t].scored)
      BY <1>2 DEF Task
    <3> HIDE DEF keep, next
    <3> QED
      BY <2>2, <2>3, <3>1, <3>2 DEF keep, Task, Afters
  <2>8. PICK record \in {failed, low, good} : Becomes(t, record)
    BY <2>3, <2>4, <2>5, <2>6, <2>7 DEF Becomes
  <2>9. Moves(t) /\ task'[t] = record
    BY <2>8, MovesTo DEF JobsInv
  <2> HIDE DEF failed, low, good
  <2>10. /\ task'[t].job = done.job /\ task'[t].after = "finish"
         /\ task'[t].pending = task[t].pending /\ task'[t].scored = Tail(task[t].scored)
         /\ \/ task'[t].pc = "remove"
            \/ task'[t].pc = "read" /\ task'[t].result.known = "low" /\ task'[t].result.state = "filtered"
            \/ /\ task'[t].pc = "push" /\ task'[t].keeping = TRUE /\ task'[t].entry.copy = done.copy
               /\ task'[t].entry.scored = TRUE /\ task'[t].result.state = "seen"
    BY <2>5, <2>6, <2>7, <2>8, <2>9
  <2>11. /\ \A j \in Jobs : Has(task[t].scored, j) <=> done.job = j \/ Has(task[t].scored, j)'
         /\ Within(Tail(task[t].scored)) /\ done.copy <= canonical[done.job]
    <3>1. Within(task[t].scored)
      BY <1>2 DEF Works, Holds
    <3>2. ASSUME NEW j \in Jobs
          PROVE  /\ Has(task[t].scored, j) <=> done.job = j \/ Has(Tail(task[t].scored), j)
                 /\ Within(Tail(task[t].scored)) /\ done.copy <= canonical[done.job]
      BY <1>4, <2>1, <3>1, HasHeadAndTail DEF done
    <3>3. \A j \in Jobs : Has(task[t].scored, j)' <=> Has(Tail(task[t].scored), j)
      BY <2>10 DEF Has
    <3> QED
      BY <2>3, <3>2, <3>3
  <2>12. done.job \in claimed
    <3>1. Owns(t, done.job)
      BY <2>3, <2>11 DEF Owns
    <3> QED
      BY <2>3, <3>1 DEF JobsInv, Claims
  <2>13. Works(t)'
    <3>1. OwnItems(t)' /\ Lists(t)'
      BY <1>2, <2>10 DEF Works, OwnItems, Lists, Handles
    <3>2. Holds(t)'
      BY <1>1, <1>2, <2>10, <2>11, <2>12 DEF Works, Holds, Within
    <3>3. Fresh(t)'
      BY <2>10 DEF Fresh
    <3> QED
      BY <3>1, <3>2, <3>3 DEF Works
  <2>14. ASSUME NEW j \in Jobs
        PROVE  /\ ~Writing(t, j) /\ ~Writing(t, j)' /\ StillRight(t, j)
               /\ (Owns(t, j)' => Owns(t, j)) /\ (Waits(t, j)' => Waits(t, j))
    <3>1. Has(task[t].pending, j) <=> Has(task[t].pending, j)'
      BY <2>10 DEF Has
    <3>2. Has(task[t].scored, j) <=> done.job = j \/ Has(task[t].scored, j)'
      BY <2>11
    <3>3. ~Writing(t, j) /\ ~Writing(t, j)'
      BY <1>1, <2>10 DEF Writing, Handling
    <3>4. (Owns(t, j)' => Owns(t, j)) /\ (Waits(t, j)' => Waits(t, j))
      BY <1>1, <2>10, <3>1, <3>2 DEF Owns, Waits, Handling
    <3>5. StillRight(t, j)
      BY <1>1, <2>10, <3>1, <3>2 DEF StillRight, Fixes, Scores, Handling, Shows, TooLow
    <3> QED
      BY <3>3, <3>4, <3>5
  <2> QED
    BY <1>1, <2>9, <2>13, <2>14, QuietWork DEF JobsInv, Typed
<1> QED
  BY <1>3, <1>4

LEMMA ReadRowKeeps ==
    ASSUME JobsInv, NEW t \in TitleSet, ReadRow(t)
    PROVE  JobsInv'
<1> DEFINE record == [task[t] EXCEPT !.pc = "write", !.row = userJob[task[t].job]]
<1>1. task[t].pc = "read" /\ UNCHANGED <<canonical, userJob, recorded, feed, claimed, history>>
  BY DEF ReadRow, At
<1>2. task[t] \in Task /\ task[t].job \in Jobs /\ Works(t)
  BY <1>1, TaskFieldsTyped DEF JobsInv, Handles
<1>3. record \in Task
  BY <1>2 DEF JobsInv, Typed, Task, Steps, InTry
<1>4. Becomes(t, record)
  BY <1>2, <1>3 DEF Becomes, ReadRow, Task
<1>5. Moves(t) /\ task'[t] = record
  BY <1>4, MovesTo DEF JobsInv
<1>6. task'[t].pc = "write" /\ SameWork(t)
  BY <1>2, <1>5 DEF SameWork, Task
<1> HIDE DEF record
<1>7. Works(t)'
  BY <1>1, <1>2, <1>6 DEF Works, OwnItems, Lists, Holds, Fresh, SameWork, Within, Handles
<1>8. ASSUME NEW j \in Jobs
      PROVE  /\ ~Writing(t, j) /\ ~Writing(t, j)' /\ StillRight(t, j)
             /\ (Owns(t, j)' => Owns(t, j)) /\ (Waits(t, j)' => Waits(t, j))
  <2>1. /\ Has(task[t].pending, j)' <=> Has(task[t].pending, j)
        /\ Has(task[t].scored, j)' <=> Has(task[t].scored, j)
    BY <1>6 DEF SameWork, Has
  <2> QED
    BY <1>1, <1>6, <2>1 DEF SameWork, Writing, StillRight, Fixes, Scores, Owns, Waits, Handling
<1> QED
  BY <1>1, <1>5, <1>7, <1>8, QuietWork DEF JobsInv, Typed

LEMMA WriteRowKeeps ==
    ASSUME JobsInv, NEW t \in TitleSet, WriteRow(t)
    PROVE  JobsInv'
<1>1. task[t].pc = "write" /\ UNCHANGED <<canonical, recorded, feed, claimed, history>>
  BY DEF WriteRow, At
<1>2. task[t] \in Task /\ task[t].job \in Jobs /\ Works(t)
  BY <1>1, TaskFieldsTyped DEF JobsInv, Handles
<1>3. userJob' \in [Jobs -> UserRow]
  <2> DEFINE j == task[t].job
             read == IF task[t].row.state = "none" THEN userJob[j] ELSE task[t].row
             result == task[t].result
             row == IF userJob[j].state = "none" THEN result ELSE Updated(userJob[j], read, result)
  <2>1. userJob[j] \in UserRow /\ result \in UserRow /\ userJob \in [Jobs -> UserRow]
    BY <1>2 DEF JobsInv, Typed, Task
  <2>2. userJob' = [userJob EXCEPT ![j] = row]
    BY DEF WriteRow
  <2>3. row \in UserRow
    <3> HIDE DEF read
    <3> QED
      BY <2>1 DEF Updated, UserRow
  <2> HIDE DEF row
  <2> QED
    BY <1>2, <2>1, <2>2, <2>3
<1> DEFINE place == CASE task[t].result.state = "seen" -> "reload"
                      [] task[t].result.state = "filtered" /\ task[t].result.known = "low" -> "remove"
                      [] OTHER -> task[t].after
<1>6. Goto(t, place)
  BY DEF WriteRow
<1>7. /\ task[t].result.state = "seen" => place = "reload"
      /\ TooLow(task[t].result) => place = "remove"
      /\ ~Shows(task[t].result) => place = task[t].after
  BY DEF TooLow, Shows
<1> HIDE DEF place
<1>4. CASE ~Shows(task[t].result)
  <2>1. Goto(t, task[t].after)
    BY <1>4, <1>6, <1>7
  <2> QED
    BY <1>1, <1>3, <1>4, <2>1, ReturnKeeps DEF Handles, Fixes, Scores, Handling, Shows
<1>5. CASE Shows(task[t].result)
  <2>1. PICK pc \in {"reload", "remove"} : /\ Goto(t, pc)
                                           /\ task[t].result.state = "seen" => pc = "reload"
                                           /\ TooLow(task[t].result) => pc = "remove"
    BY <1>5, <1>6, <1>7 DEF Shows, TooLow
  <2>2. Moves(t) /\ task'[t].pc = pc /\ SameWork(t)
    BY <1>1, <2>1, GoesTo DEF JobsInv, Steps, InTry, Handles
  <2>3. Works(t)'
    BY <1>1, <1>2, <2>1, <2>2 DEF Works, OwnItems, Lists, Holds, Fresh, SameWork, Within, Handles
  <2>4. ASSUME NEW j \in Jobs
        PROVE  /\ ~Writing(t, j) /\ ~Writing(t, j)' /\ StillRight(t, j)
               /\ (Owns(t, j)' => Owns(t, j)) /\ (Waits(t, j)' => Waits(t, j))
    <3>1. /\ Has(task[t].pending, j)' <=> Has(task[t].pending, j)
          /\ Has(task[t].scored, j)' <=> Has(task[t].scored, j)
      BY <2>2 DEF SameWork, Has
    <3> QED
      BY <1>1, <2>1, <2>2, <3>1
         DEF SameWork, Writing, StillRight, Fixes, Scores, Owns, Waits, Handling, Shows, TooLow
  <2> QED
    BY <1>1, <1>3, <2>2, <2>3, <2>4, QuietWork
<1> QED
  BY <1>4, <1>5

LEMMA ReloadKeeps ==
    ASSUME JobsInv, NEW t \in TitleSet, Reload(t)
    PROVE  JobsInv'
<1> DEFINE record == [task[t] EXCEPT !.pc = "replace", !.best = canonical[task[t].job]]
<1>1. task[t].pc = "reload" /\ UNCHANGED <<canonical, userJob, recorded, feed, claimed, history>>
  BY DEF Reload, At
<1>2. task[t] \in Task /\ task[t].job \in Jobs /\ Works(t) /\ canonical[task[t].job] \in Nat
  BY <1>1, TaskFieldsTyped DEF JobsInv, Handles, Typed
<1>3. record \in Task
  BY <1>2 DEF Task, Steps, InTry
<1>4. /\ record.pc = "replace" /\ record.job = task[t].job /\ record.after = task[t].after
      /\ record.pending = task[t].pending /\ record.scored = task[t].scored
      /\ record.best = canonical[task[t].job]
  BY <1>2 DEF Task
<1>5. Becomes(t, record)
  BY <1>2, <1>3, <1>4 DEF Becomes, Reload
<1>6. Moves(t) /\ task'[t] = record
  BY <1>5, MovesTo DEF JobsInv
<1> HIDE DEF record
<1>7. Works(t)'
  <2>1. recorded[task[t].job].copy <= canonical[task[t].job]
    BY <1>2 DEF JobsInv, Entries, Remembered
  <2>2. OwnItems(t)' /\ Lists(t)' /\ Fresh(t)'
    BY <1>1, <1>2, <1>4, <1>6, <2>1 DEF Works, OwnItems, Lists, Fresh, Handles
  <2>3. Holds(t)'
    BY <1>1, <1>2, <1>4, <1>6 DEF Works, Holds, Within, Handles
  <2> QED
    BY <2>2, <2>3 DEF Works
<1>8. ASSUME NEW j \in Jobs
      PROVE  /\ ~Writing(t, j) /\ ~Writing(t, j)' /\ StillRight(t, j)
             /\ (Owns(t, j)' => Owns(t, j)) /\ (Waits(t, j)' => Waits(t, j))
  <2>1. /\ Has(task[t].pending, j)' <=> Has(task[t].pending, j)
        /\ Has(task[t].scored, j)' <=> Has(task[t].scored, j)
    BY <1>4, <1>6 DEF Has
  <2> QED
    BY <1>1, <1>4, <1>6, <2>1 DEF Writing, StillRight, Fixes, Scores, Owns, Waits, Handling
<1> QED
  BY <1>1, <1>6, <1>7, <1>8, QuietWork DEF JobsInv, Typed

\* Claiming a job: the first title to do so owns it.
LEMMA ClaimKeeps ==
    ASSUME JobsInv, NEW t \in TitleSet, Claim(t)
    PROVE  JobsInv'
<1>1. /\ task[t].pc = "claim" /\ UNCHANGED <<canonical, userJob, recorded, feed, history>>
      /\ claimed' = claimed \cup {task[t].job}
  BY DEF Claim, At
<1>2. PICK job \in Jobs : job = task[t].job
  BY <1>1, TaskFieldsTyped DEF JobsInv, Handles
<1>3. Works(t) /\ Claims(job) /\ Entries(job)
  BY DEF JobsInv
<1>4. PICK pc \in {"reload", "decide"} : Goto(t, pc) /\ (pc = "reload" <=> job \in claimed)
  BY <1>2 DEF Claim
<1>5. Moves(t) /\ task'[t].pc = pc /\ SameWork(t)
  BY <1>1, <1>4, GoesTo DEF JobsInv, Steps, InTry, Handles
<1>6. Typed'
  BY <1>1, <1>2, <1>5, QuietTyped DEF JobsInv, Typed, Moves
<1>7. \A j \in Jobs : /\ Has(task[t].pending, j)' <=> Has(task[t].pending, j)
                      /\ Has(task[t].scored, j)' <=> Has(task[t].scored, j)
  BY <1>5 DEF SameWork, Has
<1>8. pc = "decide" => /\ \A u \in TitleSet : ~Owns(u, job)
                       /\ history.asked[job] = 0 /\ recorded[job].copy = 0
  BY <1>3, <1>4 DEF Claims, Entries, Remembered
<1>9. Works(t)'
  <2>1. OwnItems(t)' /\ Lists(t)'
    BY <1>1, <1>2, <1>3, <1>4, <1>5, <1>8 DEF Works, OwnItems, Lists, Owns, Waits, SameWork, Handles
  <2>2. Holds(t)'
    BY <1>1, <1>2, <1>3, <1>4, <1>5 DEF Works, Holds, Within, SameWork, Handles
  <2>3. Fresh(t)'
    BY <1>1, <1>2, <1>4, <1>5, <1>8 DEF Fresh, SameWork
  <2> QED
    BY <2>1, <2>2, <2>3 DEF Works
<1>10. \A j \in Jobs : ~Writing(t, j) /\ ~Writing(t, j)' /\ StillRight(t, j)
  <2> SUFFICES ASSUME NEW j \in Jobs PROVE ~Writing(t, j) /\ ~Writing(t, j)' /\ StillRight(t, j)
    OBVIOUS
  <2>1. ~Writing(t, j) /\ ~Writing(t, j)'
    BY <1>1, <1>5 DEF Writing, Handling
  <2>2. StillRight(t, j)
    BY <1>1, <1>2, <1>4, <1>5, <1>7, <1>8 DEF SameWork, StillRight, Fixes, Scores, Handling
  <2> QED
    BY <2>1, <2>2
<1>11. Quiet(t)
  <2>1. NothingFailed' => NothingFailed
    BY <1>1, <1>5, FailuresStay DEF JobsInv, Moves
  <2> QED
    BY <1>1, <1>5, <1>9, <1>10, <2>1 DEF Quiet
<1>12. ASSUME NEW j \in Jobs PROVE Claims(j)'
  <2>1. Claims(j)
    BY DEF JobsInv
  <2>2. \A u \in TitleSet \ {t} : (Owns(u, j)' <=> Owns(u, j)) /\ (Waits(u, j)' <=> Waits(u, j))
    BY <1>5 DEF Moves, Others, Owns, Waits, Handling
  <2>3. CASE j = job /\ pc = "decide"
    <3>1. \A u \in TitleSet : (Owns(u, j)' => u = t) /\ (Waits(u, j)' => u = t)
      BY <1>8, <2>2, <2>3 DEF Owns
    <3>2. j \in claimed' /\ history'.asked[j] = 0
      BY <1>1, <1>2, <1>8, <2>3
    <3> QED
      BY <3>1, <3>2 DEF Claims
  <2>4. CASE ~(j = job /\ pc = "decide")
    <3>1. (Owns(t, j)' => Owns(t, j)) /\ (Waits(t, j)' => Waits(t, j))
      BY <1>1, <1>2, <1>5, <1>7, <2>4 DEF SameWork, Owns, Waits, Handling
    <3> QED
      BY <1>1, <1>5, <1>6, <2>1, <3>1, ClaimsKept DEF JobsInv, Moves
  <2> QED
    BY <2>3, <2>4
<1> QED
  BY <1>6, <1>11, <1>12, QuietKeeps

LEMMA DecideKeeps ==
    ASSUME JobsInv, NEW t \in TitleSet, Decide(t)
    PROVE  JobsInv'
<1>1. task[t].pc = "decide" /\ UNCHANGED <<canonical, userJob, recorded, feed, claimed, history>>
  BY DEF Decide, At
<1>2. PICK job \in Jobs : job = task[t].job
  BY <1>1, TaskFieldsTyped DEF JobsInv, Handles
<1>3. /\ task[t] \in Task /\ Works(t) /\ canonical[job] \in Nat /\ userJob[job] \in UserRow
      /\ recorded[job] \in Entry /\ userJob \in [Jobs -> UserRow]
  BY TaskFieldsTyped DEF JobsInv, Typed
<1>4. task[t].scored = << >> /\ task[t].after = "triage" /\ job \in claimed
  BY <1>1, <1>2, <1>3 DEF Works, Lists, Holds, Handles
<1> DEFINE row == userJob[job]
           copy == canonical[job]
           item == [job |-> job, copy |-> copy]
           reused == [Keeping(t, job, copy) EXCEPT !.kept = @ \cup {job}, !.result.known = row.known]
           stopped == [task[t] EXCEPT !.pc = IF row.state = "none" THEN "read" ELSE "write", !.row = row,
                                      !.result = [state |-> "filtered", known |-> "none"]]
           shown == [task[t] EXCEPT !.pc = "push", !.keeping = FALSE, !.entry = EntryOf(copy, FALSE),
                                    !.pending = Append(@, item)]
<1>5. Goto(t, "triage") \/ Set(t, reused) \/ Set(t, stopped) \/ Set(t, shown)
  BY <1>2 DEF Decide
<1> HIDE DEF row, copy
<1>6. /\ reused \in Task /\ reused.pc = "push" /\ reused.keeping = TRUE
      /\ reused.entry.copy = copy /\ reused.entry.scored = TRUE /\ reused.result.state = "seen"
      /\ reused.job = job /\ reused.after = "triage"
      /\ reused.pending = task[t].pending /\ reused.scored = << >>
  <2> DEFINE entry == EntryOf(copy, TRUE)
             result == [state |-> "seen", known |-> "good"]
             keep == [task[t] EXCEPT !.pc = "push", !.job = job, !.keeping = TRUE,
                                     !.entry = entry, !.result = result]
  <2>1. copy \in Nat /\ row \in UserRow
    BY <1>3 DEF row, copy
  <2>2. entry \in Entry /\ entry.copy = copy /\ entry.scored = TRUE
    BY <2>1 DEF EntryOf, Entry
  <2>3. result \in UserRow /\ result.state = "seen"
    BY DEF UserRow, RowStates, Known
  <2>4. Keeping(t, job, copy) = keep
    BY DEF Keeping
  <2> HIDE DEF entry, result
  <2>5. /\ keep \in Task /\ keep.pc = "push" /\ keep.keeping = TRUE
        /\ keep.entry.copy = copy /\ keep.entry.scored = TRUE /\ keep.result = result
        /\ keep.job = job /\ keep.pending = task[t].pending /\ keep.after = "triage"
        /\ keep.scored = << >>
    BY <1>3, <1>4, <2>2, <2>3 DEF Task, Steps, InTry
  <2> DEFINE known == [result EXCEPT !.known = row.known]
  <2>6. known \in UserRow /\ known.state = "seen"
    BY <2>1, <2>3 DEF UserRow
  <2>7. reused = [keep EXCEPT !.kept = @ \cup {job}, !.result = known]
    BY <2>4, <2>5
  <2> HIDE DEF keep, known, reused
  <2> QED
    BY <1>3, <2>5, <2>6, <2>7 DEF Task
<1>7. /\ stopped \in Task /\ stopped.pc \in {"read", "write"} /\ ~Shows(stopped.result)
      /\ stopped.job = job /\ stopped.after = "triage"
      /\ stopped.pending = task[t].pending /\ stopped.scored = << >>
  <2> DEFINE result == [state |-> "filtered", known |-> "none"]
  <2>1. result \in UserRow /\ ~Shows(result)
    BY DEF UserRow, RowStates, Known, Shows, TooLow
  <2>2. row \in UserRow
    BY <1>3 DEF row
  <2> HIDE DEF result
  <2>3. stopped = [task[t] EXCEPT !.pc = IF row.state = "none" THEN "read" ELSE "write", !.row = row,
                                  !.result = result]
    BY DEF result
  <2> QED
    BY <1>2, <1>3, <1>4, <2>1, <2>2, <2>3 DEF Task, Steps, InTry
<1>8. /\ Append(task[t].pending, item) \in Seq(Item)
      /\ \A j \in Jobs : Has(Append(task[t].pending, item), j) <=> Has(task[t].pending, j) \/ j = job
      /\ OneOfEach(Append(task[t].pending, item)) /\ Within(Append(task[t].pending, item))
  <2>1. task[t].pending \in Seq(Item) /\ item \in Item /\ item.job = job /\ item.copy = canonical[job]
    BY <1>3 DEF Task, Item, copy
  <2>2. OneOfEach(task[t].pending) /\ ~Has(task[t].pending, item.job) /\ Within(task[t].pending)
    BY <1>1, <1>2, <1>3, <2>1 DEF Works, OwnItems, Holds
  <2> HIDE DEF item
  <2>3. canonical[item.job] <= canonical[item.job]
    BY <1>3, <2>1
  <2> QED
    BY <2>1, <2>2, <2>3, HasAppended
<1>9. /\ shown \in Task /\ shown.pc = "push" /\ shown.keeping = FALSE
      /\ shown.entry.copy = copy /\ shown.entry.scored = FALSE
      /\ shown.job = job /\ shown.after = "triage"
      /\ shown.pending = Append(task[t].pending, item) /\ shown.scored = << >>
  <2> DEFINE entry == EntryOf(copy, FALSE)
  <2>1. entry \in Entry /\ entry.copy = copy /\ entry.scored = FALSE
    BY <1>3 DEF EntryOf, Entry, copy
  <2> HIDE DEF entry
  <2>2. shown = [task[t] EXCEPT !.pc = "push", !.keeping = FALSE, !.entry = entry,
                                !.pending = Append(@, item)]
    BY DEF entry
  <2> HIDE DEF item
  <2> QED
    BY <1>2, <1>3, <1>4, <1>8, <2>1, <2>2 DEF Task, Steps, InTry
<1> HIDE DEF reused, stopped, shown, item
<1>10. CASE Goto(t, "triage")
  <2>1. Moves(t) /\ task'[t].pc = "triage" /\ SameWork(t)
    BY <1>10, GoesTo DEF JobsInv, Steps, InTry, Handles
  <2>2. Works(t)'
    BY <1>1, <1>3, <1>4, <2>1 DEF Works, OwnItems, Lists, Holds, Fresh, SameWork, Within, Handles
  <2>3. ASSUME NEW j \in Jobs
        PROVE  /\ ~Writing(t, j) /\ ~Writing(t, j)' /\ StillRight(t, j)
               /\ (Owns(t, j)' => Owns(t, j)) /\ (Waits(t, j)' => Waits(t, j))
    <3>1. /\ Has(task[t].pending, j)' <=> Has(task[t].pending, j)
          /\ Has(task[t].scored, j)' <=> Has(task[t].scored, j)
      BY <2>1 DEF SameWork, Has
    <3> QED
      BY <1>1, <2>1, <3>1 DEF Writing, StillRight, Fixes, Scores, Owns, Waits, Handling
  <2> QED
    BY <1>1, <1>3, <2>1, <2>2, <2>3, QuietWork
<1>11. ASSUME Set(t, reused) \/ Set(t, stopped) \/ Set(t, shown)
       PROVE  JobsInv'
  <2>1. PICK record \in {reused, stopped, shown} : Becomes(t, record)
    BY <1>6, <1>7, <1>9, <1>11 DEF Becomes
  <2>2. Moves(t) /\ task'[t] = record
    BY <2>1, MovesTo DEF JobsInv
  <2>3. /\ task'[t].job = job /\ task'[t].after = "triage" /\ task'[t].scored = << >>
        /\ \/ /\ task'[t].pc = "push" /\ task'[t].keeping = TRUE /\ task'[t].entry.copy = copy
              /\ task'[t].entry.scored = TRUE /\ task'[t].result.state = "seen"
              /\ task'[t].pending = task[t].pending
           \/ task'[t].pc \in {"read", "write"} /\ task'[t].pending = task[t].pending
           \/ /\ task'[t].pc = "push" /\ task'[t].keeping = FALSE /\ task'[t].entry.copy = copy
              /\ task'[t].entry.scored = FALSE
              /\ task'[t].pending = Append(task[t].pending, item)
    BY <1>6, <1>7, <1>9, <2>1, <2>2
  <2>4. /\ OneOfEach(task'[t].pending) /\ Within(task'[t].pending)
        /\ \A j \in Jobs : Has(task[t].pending, j)' => Has(task[t].pending, j) \/ j = job
        /\ \A j \in Jobs : Has(task[t].pending, j) => Has(task[t].pending, j)'
        /\ task'[t].pc = "push" /\ task'[t].keeping = FALSE => Has(task[t].pending, job)'
    <3>1. OneOfEach(task[t].pending) /\ Within(task[t].pending)
      BY <1>3 DEF Works, OwnItems, Holds
    <3>2. \A j \in Jobs : Has(task[t].pending, j)' <=> Has(task'[t].pending, j)
      BY DEF Has
    <3>3. task'[t].pending \in {task[t].pending, Append(task[t].pending, item)}
      BY <2>3
    <3>4. task'[t].keeping = FALSE /\ task'[t].pc = "push" => task'[t].pending = Append(task[t].pending, item)
      BY <2>3
    <3> QED
      BY <1>8, <3>1, <3>2, <3>3, <3>4
  <2>5. Works(t)'
    <3>1. OwnItems(t)' /\ Lists(t)'
      BY <2>3, <2>4 DEF OwnItems, Lists, OneOfEach, Handles
    <3>2. Holds(t)'
      <4>1. Within(<< >>)
        BY HasNone
      <4>2. copy = canonical[job] /\ copy \in Nat
        BY <1>3 DEF copy
      <4> QED
        BY <1>1, <1>4, <2>3, <2>4, <4>1, <4>2 DEF Holds, Within
    <3>3. Fresh(t)'
      <4>1. job \notin history.overlap => recorded[job].copy = 0
        BY <1>1, <1>2, <1>3 DEF Works, Fresh, Handles
      <4>2. copy \in Nat
        BY <1>3 DEF copy
      <4> QED
        BY <1>1, <2>3, <2>4, <4>1, <4>2 DEF Fresh
    <3> QED
      BY <3>1, <3>2, <3>3 DEF Works
  <2>6. ASSUME NEW j \in Jobs
        PROVE  /\ ~Writing(t, j) /\ ~Writing(t, j)' /\ StillRight(t, j)
               /\ (Owns(t, j)' => Owns(t, j)) /\ (Waits(t, j)' => Waits(t, j))
    <3>1. ~Has(task[t].scored, j) /\ ~Has(task[t].scored, j)'
      <4>1. DOMAIN << >> = {}
        OBVIOUS
      <4> QED
        BY <4>1, <1>4, <2>3 DEF Has
    <3>2. (Owns(t, j)' => Owns(t, j)) /\ (Waits(t, j)' => Waits(t, j))
      BY <1>1, <1>2, <2>3, <2>4, <3>1 DEF Owns, Waits, Handling
    <3>3. ~Writing(t, j) /\ ~Writing(t, j)'
      BY <1>1, <2>3 DEF Writing, Handling
    <3>4. StillRight(t, j)
      BY <1>1, <2>3, <2>4, <3>1 DEF StillRight, Fixes, Scores, Handling
    <3> QED
      BY <3>2, <3>3, <3>4
  <2> QED
    BY <1>1, <1>3, <2>2, <2>5, <2>6, QuietWork
<1> QED
  BY <1>5, <1>10, <1>11

LEMMA ApplicantsFoundKeeps ==
    ASSUME JobsInv, NEW t \in TitleSet, ApplicantsFound(t)
    PROVE  JobsInv'
<1>1. task[t].pc = "applicants" /\ UNCHANGED <<canonical, userJob, recorded, feed, claimed, history>>
  BY DEF ApplicantsFound, At
<1>2. task[t] \in Task /\ Works(t) /\ Rests(t)
  BY <1>1, TaskFieldsTyped, WhereTasksRest DEF JobsInv, Resting
<1>3. PICK job \in Jobs : job \in task[t].kept /\ UpdateRecorded(t, job)
  BY <1>2 DEF ApplicantsFound, Task
<1>4. recorded[job] \in Entry /\ Remembered(job)
  BY DEF JobsInv, Typed, Entries
<1> DEFINE shown == recorded[job]
           nothing == [task[t] EXCEPT !.kept = @ \ {job}]
           entry == [shown EXCEPT !.applicants = TRUE]
           updated == [task[t] EXCEPT !.kept = @ \ {job}, !.pc = "push", !.after = "applicants", !.job = job,
                                      !.keeping = FALSE, !.entry = entry]
<1>5. CASE shown.copy = 0 \/ shown.applicants
  <2>1. Set(t, nothing)
    BY <1>3, <1>5 DEF UpdateRecorded
  <2>2. nothing \in Task /\ nothing.pc = "applicants" /\ nothing.pending = << >> /\ nothing.scored = << >>
    BY <1>1, <1>2 DEF Task, Rests
  <2>3. Becomes(t, nothing)
    BY <2>1, <2>2 DEF Becomes, Handles
  <2> HIDE DEF nothing
  <2> QED
    BY <1>1, <2>2, <2>3, HistoryTyped, RestsOn DEF Resting, Handles
<1>6. CASE ~(shown.copy = 0 \/ shown.applicants)
  <2>1. Set(t, updated)
    BY <1>3, <1>6 DEF UpdateRecorded
  <2>2. entry \in Entry /\ entry.copy = shown.copy /\ entry.scored = shown.scored
    BY <1>4 DEF Entry
  <2> HIDE DEF entry
  <2>3. /\ updated \in Task /\ updated.pc = "push" /\ updated.after = "applicants"
        /\ updated.job = job /\ updated.keeping = FALSE /\ updated.entry = entry
        /\ updated.pending = << >> /\ updated.scored = << >>
    BY <1>2, <2>2 DEF Task, Rests, Steps, InTry, Afters
  <2>4. Becomes(t, updated)
    BY <2>1, <2>3 DEF Becomes
  <2>5. Moves(t) /\ task'[t] = updated
    BY <2>4, MovesTo DEF JobsInv
  <2> HIDE DEF updated
  <2>6. DOMAIN << >> = {}
    OBVIOUS
  <2>7. Works(t)'
    <3>1. job \in claimed /\ shown.copy \in Nat /\ shown.copy <= canonical[job]
      BY <1>4, <1>6 DEF Remembered, Entry
    <3>2. OwnItems(t)' /\ Lists(t)' /\ Holds(t)'
      BY <1>1, <2>2, <2>3, <2>5, <2>6, <3>1 DEF OwnItems, OneOfEach, Lists, Holds, Within
    <3>3. Fresh(t)'
      BY <1>1, <1>6, <2>2, <2>3, <2>5, <3>1 DEF Fresh
    <3> QED
      BY <3>2, <3>3 DEF Works
  <2>8. ASSUME NEW j \in Jobs
        PROVE  /\ ~Writing(t, j) /\ ~Writing(t, j)' /\ StillRight(t, j)
               /\ (Owns(t, j)' => Owns(t, j)) /\ (Waits(t, j)' => Waits(t, j))
    <3>1. ~Fixes(t, j) /\ ~Scores(t, j) /\ ~Writing(t, j)
      BY <1>2, HasNothing
    <3>2. ~Has(task[t].scored, j)' /\ ~Has(task[t].pending, j)'
      BY <2>3, <2>5, <2>6 DEF Has
    <3> QED
      BY <2>3, <2>5, <3>1, <3>2 DEF Writing, StillRight, Owns, Waits, Handling
  <2> QED
    BY <1>1, <2>5, <2>7, <2>8, QuietWork DEF JobsInv, Typed
<1> QED
  BY <1>5, <1>6

\* A batch goes to the AI: its jobs were not asked about before.
LEMMA ScoreKeeps ==
    ASSUME JobsInv, NEW t \in TitleSet, Score(t)
    PROVE  JobsInv'
<1>1. task[t].pc = "score" /\ UNCHANGED <<canonical, userJob, recorded, feed, claimed>>
  BY DEF Score, At
<1>2. task[t] \in Task /\ Works(t) /\ task[t].pending \in Seq(Item) /\ Len(task[t].pending) \in Nat
  BY TaskFieldsTyped DEF JobsInv, Task
<1>3. task[t].scored = << >>
  BY <1>1, <1>2 DEF Works, Lists, Handles
<1> DEFINE pending == task[t].pending
           size == IF ScoreBatch < Len(pending) THEN ScoreBatch ELSE Len(pending)
           batch == SubSeq(pending, 1, size)
           rest == SubSeq(pending, size + 1, Len(pending))
<1>4. CASE pending = << >> \/ Cancelled
  <2>1. PICK pc \in {"search", "drain"} :
          /\ Goto(t, pc) /\ UNCHANGED history /\ (pc = "search" => pending = << >>)
    BY <1>4 DEF Score
  <2>2. Moves(t) /\ task'[t].pc = pc /\ SameWork(t)
    BY <1>1, <2>1, GoesTo DEF JobsInv, Steps, InTry, Handles
  <2>3. Works(t)'
    BY <1>1, <1>2, <1>3, <2>1, <2>2
       DEF Works, OwnItems, Lists, Holds, Fresh, SameWork, Within, Handles
  <2>4. ASSUME NEW j \in Jobs
        PROVE  /\ ~Writing(t, j) /\ ~Writing(t, j)' /\ StillRight(t, j)
               /\ (Owns(t, j)' => Owns(t, j)) /\ (Waits(t, j)' => Waits(t, j))
    <3>1. /\ Has(task[t].pending, j)' <=> Has(task[t].pending, j)
          /\ Has(task[t].scored, j)' <=> Has(task[t].scored, j)
      BY <2>2 DEF SameWork, Has
    <3> QED
      BY <1>1, <2>1, <2>2, <3>1 DEF Writing, StillRight, Fixes, Scores, Owns, Waits, Handling
  <2> QED
    BY <1>1, <2>1, <2>2, <2>3, <2>4, QuietWork DEF JobsInv, Typed
<1>5. CASE pending # << >> /\ ~Cancelled
  <2>1. PICK answer \in [1..size -> {"failed", "low", "good"}] :
          Set(t, [task[t] EXCEPT
                    !.pc = "finish", !.pending = rest,
                    !.scored = [i \in 1..size |-> [job |-> batch[i].job, copy |-> batch[i].copy,
                                                   score |-> answer[i]]]])
    BY <1>5 DEF Score
  <2>2. history' = [history EXCEPT !.asked =
                      [j \in Jobs |-> IF \E i \in 1..size : batch[i].job = j THEN @[j] + 1 ELSE @[j]]]
    BY <1>5 DEF Score
  <2>3. size \in 0..Len(pending)
    BY <1>2, SearchConstants
  <2>4. OneOfEach(pending) /\ Within(pending)
    BY <1>2 DEF Works, OwnItems, Holds
  <2>5. /\ rest \in Seq(Item) /\ DOMAIN batch = 1..size /\ size \in Nat
        /\ \A i \in 1..size : batch[i] \in Item
        /\ \A j \in Jobs : /\ Has(pending, j) <=> Has(batch, j) \/ Has(rest, j)
                           /\ ~(Has(batch, j) /\ Has(rest, j))
        /\ OneOfEach(rest) /\ Within(batch) /\ Within(rest)
    <3>0. pending \in Seq(Item)
      BY <1>2
    <3> HIDE DEF size, pending
    <3>1. ASSUME NEW j
          PROVE  /\ rest \in Seq(Item) /\ DOMAIN batch = 1..size
                 /\ \A i \in 1..size : batch[i] \in Item
                 /\ Has(pending, j) <=> Has(batch, j) \/ Has(rest, j)
                 /\ OneOfEach(pending) => OneOfEach(rest) /\ ~(Has(batch, j) /\ Has(rest, j))
                 /\ Within(pending) => Within(batch) /\ Within(rest)
      BY <2>3, <3>0, HasParts
    <3> HIDE DEF batch, rest, pending
    <3>2. size \in Nat
      BY <1>2, <2>3
    <3> QED
      BY <2>4, <3>1, <3>2
  <2> HIDE DEF size, batch, rest
  <2> DEFINE scored == [i \in 1..size |-> [job |-> batch[i].job, copy |-> batch[i].copy, score |-> answer[i]]]
             record == [task[t] EXCEPT !.pc = "finish", !.pending = rest, !.scored = scored]
  <2>6. /\ scored \in Seq(ScoredItem) /\ DOMAIN scored = 1..size
        /\ \A i \in 1..size : scored[i].job = batch[i].job /\ scored[i].copy = batch[i].copy
    <3>1. \A i \in 1..size : scored[i] \in ScoredItem
      BY <2>5 DEF ScoredItem, Item
    <3>2. scored \in [1..size -> ScoredItem]
      BY <3>1
    <3>3. scored \in Seq(ScoredItem)
      BY <2>5, <3>2
    <3> QED
      BY <3>3
  <2>7. \A j : Has(scored, j) <=> Has(batch, j)
    BY <2>5, <2>6 DEF Has
  <2>8. Within(scored)
    BY <2>5, <2>6 DEF Within
  <2> HIDE DEF scored
  <2>9. /\ record \in Task /\ record.pc = "finish" /\ record.pending = rest /\ record.scored = scored
    BY <1>2, <2>5, <2>6 DEF Task, Steps, InTry
  <2>10. Becomes(t, record)
    BY <2>1, <2>9 DEF Becomes, Handles, scored
  <2>11. Moves(t) /\ task'[t] = record
    BY <2>10, MovesTo DEF JobsInv
  <2> HIDE DEF record
  <2>12. /\ history' \in History /\ history'.overlap = history.overlap
         /\ history'.failures = history.failures
         /\ \A j \in Jobs : history'.asked[j] = IF Has(batch, j) THEN history.asked[j] + 1
                                                ELSE history.asked[j]
    <3> DEFINE asked == [j \in Jobs |-> IF \E i \in 1..size : batch[i].job = j
                                        THEN history.asked[j] + 1 ELSE history.asked[j]]
    <3>1. history \in History
      BY DEF JobsInv, Typed
    <3>2. asked \in [Jobs -> Nat]
      BY <3>1 DEF History
    <3>3. history' = [history EXCEPT !.asked = asked]
      BY <2>2
    <3>4. \A j \in Jobs : asked[j] = IF Has(batch, j) THEN history.asked[j] + 1 ELSE history.asked[j]
      BY <2>5 DEF Has
    <3> HIDE DEF asked
    <3> QED
      BY <3>1, <3>2, <3>3, <3>4 DEF History
  <2>13. Typed'
    BY <1>1, <2>11, <2>12, QuietTyped DEF JobsInv, Typed, Moves
  <2>14. \A j \in Jobs : /\ Has(task[t].pending, j)' <=> Has(rest, j)
                         /\ Has(task[t].scored, j)' <=> Has(batch, j)
                         /\ ~Has(task[t].scored, j)
    <3>1. DOMAIN << >> = {}
      OBVIOUS
    <3>2. \A j \in Jobs : ~Has(task[t].scored, j)
      BY <1>3, <3>1 DEF Has
    <3>3. \A j \in Jobs : Has(task[t].pending, j)' <=> Has(rest, j)
      BY <2>9, <2>11 DEF Has
    <3>4. \A j \in Jobs : Has(task[t].scored, j)' <=> Has(scored, j)
      BY <2>9, <2>11 DEF Has
    <3> QED
      BY <2>7, <3>2, <3>3, <3>4
  <2>15. Works(t)'
    <3>1. OwnItems(t)' /\ Lists(t)' /\ Fresh(t)'
      BY <2>5, <2>9, <2>11 DEF OwnItems, Lists, Fresh, OneOfEach, Handles
    <3>2. Holds(t)'
      BY <1>1, <2>5, <2>8, <2>9, <2>11 DEF Holds, Within, Handles
    <3> QED
      BY <3>1, <3>2 DEF Works
  <2>16. \A j \in Jobs : ~Writing(t, j)' /\ ~Writing(t, j) /\ StillRight(t, j)
    <3> SUFFICES ASSUME NEW j \in Jobs PROVE ~Writing(t, j)' /\ ~Writing(t, j) /\ StillRight(t, j)
      OBVIOUS
    <3>1. ~Writing(t, j)' /\ ~Writing(t, j)
      BY <1>1, <2>9, <2>11 DEF Writing, Handling
    <3>2. StillRight(t, j)
      BY <1>1, <2>5, <2>14 DEF StillRight, Fixes, Scores, Handling
    <3> QED
      BY <3>1, <3>2
  <2>17. NothingFailed' => NothingFailed
    BY <1>1, <2>11, <2>12, FailuresStay DEF JobsInv, Moves
  <2>18. Quiet(t)
    BY <1>1, <2>11, <2>12, <2>15, <2>16, <2>17 DEF Quiet
  <2>19. ASSUME NEW j \in Jobs PROVE Claims(j)'
    <3>1. Claims(j) /\ history.asked[j] \in Nat
      BY DEF JobsInv, Typed, History
    <3>2. \A u \in TitleSet \ {t} : (Owns(u, j)' <=> Owns(u, j)) /\ (Waits(u, j)' <=> Waits(u, j))
      BY <2>11 DEF Moves, Others, Owns, Waits, Handling
    <3>3. (Owns(t, j)' => Owns(t, j)) /\ (Waits(t, j)' => Waits(t, j))
      BY <1>1, <2>5, <2>9, <2>11, <2>14 DEF Owns, Waits, Handling
    <3>4. CASE ~Has(batch, j)
      <4>1. history'.asked[j] = history.asked[j]
        BY <2>12, <3>4
      <4> QED
        BY <1>1, <2>11, <2>13, <3>1, <3>3, <4>1, ClaimsKept DEF JobsInv, Moves
    <3>5. CASE Has(batch, j)
      <4>1. Waits(t, j) /\ Owns(t, j)
        BY <2>5, <3>5 DEF Waits, Owns
      <4>2. history'.asked[j] = 1 /\ j \in claimed'
        BY <1>1, <2>12, <3>1, <3>5, <4>1 DEF Claims
      <4>3. ~Waits(t, j)'
        BY <2>5, <2>9, <2>11, <2>14, <3>5 DEF Waits, Handling
      <4>4. \A u \in TitleSet : (Owns(u, j)' => u = t) /\ ~Waits(u, j)'
        BY <3>1, <3>2, <4>1, <4>3 DEF Claims, Owns
      <4> QED
        BY <4>2, <4>4 DEF Claims
    <3> QED
      BY <3>4, <3>5
  <2> QED
    BY <2>13, <2>18, <2>19, QuietKeeps
<1> QED
  BY <1>4, <1>5

\* A better copy is stored: the title that brought it is to see that it is shown.
LEMMA UpsertKeeps ==
    ASSUME JobsInv, NEW t \in TitleSet, Upsert(t)
    PROVE  JobsInv'
<1> DEFINE found == Head(task[t].todo)
           record == [task[t] EXCEPT !.pc = "claim", !.after = "triage", !.todo = Tail(@),
                                     !.job = Head(task[t].todo).job]
<1>1. task[t].pc = "triage" /\ task[t].todo # << >> /\ UNCHANGED <<userJob, recorded, feed, claimed, history>>
  BY DEF Upsert, At
<1>2. task[t] \in Task /\ task[t].todo \in Seq(Item) /\ Works(t)
  BY TaskFieldsTyped DEF JobsInv, Task
<1>3. found \in Item /\ Tail(task[t].todo) \in Seq(Item)
  BY <1>1, <1>2, HeadOfItems
<1>4. PICK job \in Jobs, copy \in Nat : job = found.job /\ copy = found.copy
  BY <1>3 DEF Item
<1> HIDE DEF found
<1>5. Set(t, record) /\ canonical' = [canonical EXCEPT ![job] = Better(@, copy)]
  BY <1>4 DEF Upsert, found
<1>6. /\ record \in Task /\ record.pc = "claim" /\ record.job = job /\ record.after = "triage"
      /\ record.pending = task[t].pending /\ record.scored = task[t].scored
  BY <1>2, <1>3, <1>4 DEF Task, Steps, InTry, Afters, found
<1>7. Becomes(t, record)
  BY <1>5, <1>6 DEF Becomes
<1>8. Moves(t) /\ task'[t] = record
  BY <1>7, MovesTo DEF JobsInv
<1> HIDE DEF record
<1>9. /\ canonical' \in [Jobs -> Nat]
      /\ \A j \in Jobs : canonical'[j] >= canonical[j]
      /\ \A j \in Jobs \ {job} : canonical'[j] = canonical[j]
  BY <1>5 DEF JobsInv, Typed, Better
<1>10. Typed'
  BY <1>1, <1>8, <1>9 DEF JobsInv, Typed, Moves
<1>11. \A j \in Jobs : /\ Has(task[t].pending, j)' <=> Has(task[t].pending, j)
                       /\ Has(task[t].scored, j)' <=> Has(task[t].scored, j)
  BY <1>6, <1>8 DEF Has
<1>12. ASSUME NEW j \in Jobs PROVE Claims(j)'
  <2>1. (Owns(t, j)' => Owns(t, j)) /\ (Waits(t, j)' => Waits(t, j))
    BY <1>6, <1>8, <1>11 DEF Owns, Waits, Handling
  <2> QED
    BY <1>1, <1>8, <1>10, <2>1, ClaimsKept DEF JobsInv, Moves
<1>13. \A u \in TitleSet : /\ task'[u].pending = task[u].pending /\ task'[u].scored = task[u].scored
                           /\ Within(task[u].pending)' /\ Within(task[u].scored)'
  <2> SUFFICES ASSUME NEW u \in TitleSet
               PROVE  /\ task'[u].pending = task[u].pending /\ task'[u].scored = task[u].scored
                      /\ Within(task[u].pending)' /\ Within(task[u].scored)'
    OBVIOUS
  <2>1. task'[u].pending = task[u].pending /\ task'[u].scored = task[u].scored
    BY <1>6, <1>8 DEF Moves, Others
  <2>2. Within(task[u].pending) /\ Within(task[u].scored)
    BY DEF JobsInv, Works, Holds
  <2>3. task[u].pending \in Seq(Item) /\ task[u].scored \in Seq(ScoredItem)
    BY TaskFieldsTyped DEF JobsInv, Task
  <2>4. /\ \A i \in DOMAIN task[u].pending : task[u].pending[i] \in Item
        /\ \A i \in DOMAIN task[u].scored : task[u].scored[i] \in ScoredItem
    BY <2>3
  <2>5. \A i \in DOMAIN task[u].pending :
           task[u].pending[i].copy \in Nat /\ task[u].pending[i].job \in Jobs
    BY <2>4 DEF Item
  <2>6. \A i \in DOMAIN task[u].scored :
           task[u].scored[i].copy \in Nat /\ task[u].scored[i].job \in Jobs
    BY <2>4 DEF ScoredItem
  <2>7. canonical \in [Jobs -> Nat]
    BY DEF JobsInv, Typed
  <2>8. Within(task[u].pending)'
    BY <1>9, <2>1, <2>2, <2>5, <2>7 DEF Within
  <2>9. Within(task[u].scored)'
    BY <1>9, <2>1, <2>2, <2>6, <2>7 DEF Within
  <2> QED
    BY <2>1, <2>8, <2>9
<1>14. ASSUME NEW u \in TitleSet PROVE Works(u)'
  <2>1. Works(u)
    BY DEF JobsInv
  <2>2. CASE u = t
    <3>1. OwnItems(t)' /\ Lists(t)' /\ Fresh(t)'
      BY <1>1, <1>2, <1>6, <1>8 DEF Works, OwnItems, Lists, Fresh, Handles
    <3>2. Holds(t)'
      BY <1>6, <1>8, <1>13 DEF Holds
    <3> QED
      BY <2>2, <3>1, <3>2 DEF Works
  <2>3. CASE u # t
    <3>1. task'[u] = task[u] /\ task[u] \in Task
      BY <1>8, <2>3, TaskFieldsTyped DEF Moves, Others, JobsInv
    <3>2. OwnItems(u)' /\ Lists(u)' /\ Fresh(u)'
      BY <1>1, <2>1, <3>1 DEF Works, OwnItems, Lists, Fresh
    <3>3. Holds(u)'
      <4>1. task[u].best \in Nat /\ task[u].entry.copy \in Nat /\ canonical \in [Jobs -> Nat]
        BY <3>1 DEF Task, Entry, JobsInv, Typed
      <4>2. task[u].pc \in Handles => task[u].job \in Jobs
        BY TaskFieldsTyped DEF JobsInv
      <4>3. task[u].pc = "replace" => task[u].best <= canonical'[task[u].job]
        BY <1>9, <2>1, <4>1, <4>2 DEF Works, Holds, Handles
      <4>4. task[u].pc \in {"push", "remember"} => task[u].entry.copy <= canonical'[task[u].job]
        BY <1>9, <2>1, <4>1, <4>2 DEF Works, Holds, Handles
      <4> QED
        BY <1>1, <1>13, <2>1, <3>1, <4>3, <4>4 DEF Works, Holds
    <3> QED
      BY <3>2, <3>3 DEF Works
  <2> QED
    BY <2>2, <2>3
<1>15. NothingFailed' => NothingFailed
  BY <1>1, <1>8, FailuresStay DEF JobsInv, Moves
<1>16. ASSUME NEW j \in Jobs PROVE Entries(j)'
  <2>1. Entries(j) /\ recorded[j] \in Entry /\ canonical[j] \in Nat
    BY DEF JobsInv, Typed
  <2>2. Remembered(j)'
    <3>1. recorded[j].copy \in Nat /\ canonical'[j] \in Nat
      BY <1>9, <2>1 DEF Entry
    <3> QED
      BY <1>1, <1>9, <2>1, <3>1 DEF Entries, Remembered
  <2>3. \A u \in TitleSet : Writing(u, j)' <=> Writing(u, j)
    BY <1>1, <1>6, <1>8 DEF Moves, Others, Writing, Handling
  <2>4. OneWrites(j) => OneWrites(j)'
    <3>1. \A u \in TitleSet : u = t \/ task'[u] = task[u]
      BY <1>8 DEF Moves, Others
    <3>2. ~Handling(t, j, {"remember"})' /\ ~Handling(t, j, {"forget"})'
      BY <1>6, <1>8 DEF Handling
    <3> QED
      BY <1>1, <2>3, <3>1, <3>2 DEF OneWrites, Handling
  <2>5. ASSUME Settles(j), NothingFailed' PROVE Settles(j)'
    <3>1. feed'[j] = recorded'[j] \/ \E u \in TitleSet : Writing(u, j)'
      BY <1>1, <2>3, <2>5 DEF Settles
    <3>2. \A u \in TitleSet : Scores(u, j) => Scores(u, j)'
      BY <1>1, <1>6, <1>8, <1>11 DEF Moves, Others, Scores, Handling
    <3>3. recorded'[j].copy = 0 \/ recorded'[j].scored \/ \E u \in TitleSet : Scores(u, j)'
      BY <1>1, <2>5, <3>2 DEF Settles
    <3>4. CASE j = job
      <4>1. Fixes(t, j)'
        BY <1>6, <1>8, <3>4 DEF Fixes, Handling
      <4> QED
        BY <3>1, <3>3, <4>1 DEF Settles
    <3>5. CASE j # job
      <4>1. canonical'[j] = canonical[j]
        BY <1>9, <3>5
      <4>2. \A u \in TitleSet : Fixes(u, j) => Fixes(u, j)'
        BY <1>1, <1>6, <1>8, <1>11, <4>1 DEF Moves, Others, Fixes, Handling
      <4>3. recorded'[j].copy \in {0, canonical'[j]} \/ \E u \in TitleSet : Fixes(u, j)'
        BY <1>1, <2>5, <4>1, <4>2 DEF Settles
      <4> QED
        BY <3>1, <3>3, <4>3 DEF Settles
    <3> QED
      BY <3>4, <3>5
  <2> QED
    BY <1>1, <1>15, <2>1, <2>2, <2>4, <2>5 DEF Entries
<1> QED
  BY <1>10, <1>12, <1>14, <1>16 DEF JobsInv

----------------------------------------------------------------------------
(* Writing the feed *)

\* What t does with the entry of its job while others hold what they read of
\* it is noted.
LEMMA OverlapNoted ==
    ASSUME JobsInv, NEW t \in TitleSet, task[t].job \in Jobs, NoteOverlap(t)
    PROVE  /\ history' \in History /\ history'.failures = history.failures
           /\ history'.asked = history.asked /\ history.overlap \subseteq history'.overlap
           /\ \A j \in Jobs \ {task[t].job} : j \in history'.overlap <=> j \in history.overlap
           /\ task[t].job \notin history'.overlap => Writers(task[t].job) \subseteq {t}
<1>1. history \in History
  BY DEF JobsInv, Typed
<1>2. CASE Writers(task[t].job) \ {t} = {}
  BY <1>1, <1>2 DEF NoteOverlap
<1>3. CASE Writers(task[t].job) \ {t} # {}
  <2>1. history' = [history EXCEPT !.overlap = history.overlap \cup {task[t].job}]
    BY <1>3 DEF NoteOverlap
  <2>2. /\ history' \in History /\ history'.failures = history.failures
        /\ history'.asked = history.asked /\ history'.overlap = history.overlap \cup {task[t].job}
    BY <1>1, <2>1 DEF History
  <2> QED
    BY <2>2
<1> QED
  BY <1>2, <1>3

\* The next entry of the feed: t has read what it replaces, and remembers it next.
Appends(t, entry) ==
    /\ Moves(t) /\ SameWork(t)
    /\ \/ task[t].pc = "push" /\ task'[t].pc = "remember" /\ entry = task[t].entry
       \/ task[t].pc = "takeout" /\ task'[t].pc = "forget" /\ entry = NoEntry
    /\ feed' = [feed EXCEPT ![task[t].job] = entry] /\ NoteOverlap(t)
    /\ UNCHANGED <<canonical, userJob, claimed, recorded>>

LEMMA AppendKeeps ==
    ASSUME JobsInv, NEW t \in TitleSet, NEW entry \in Entry, Appends(t, entry)
    PROVE  JobsInv'
<1>1. /\ task[t].pc \in {"push", "takeout"} /\ task'[t].pc \in {"remember", "forget"}
      /\ Others(t) /\ SameWork(t) /\ Moves(t)
  BY DEF Appends, Moves
<1>2. PICK job \in Jobs : job = task[t].job
  BY <1>1, TaskFieldsTyped DEF JobsInv, Handles
<1>3. /\ history' \in History /\ history'.failures = history.failures
      /\ history'.asked = history.asked /\ history.overlap \subseteq history'.overlap
      /\ \A j \in Jobs \ {job} : j \in history'.overlap <=> j \in history.overlap
      /\ job \notin history'.overlap => Writers(job) \subseteq {t}
  BY <1>2, OverlapNoted DEF Appends
<1>4. /\ feed' = [feed EXCEPT ![job] = entry] /\ UNCHANGED <<canonical, userJob, claimed, recorded>>
      /\ feed' \in [Jobs -> Entry] /\ feed'[job] = entry /\ \A j \in Jobs \ {job} : feed'[j] = feed[j]
  BY <1>2 DEF Appends, JobsInv, Typed
<1>5. Typed'
  BY <1>1, <1>3, <1>4 DEF JobsInv, Typed, Moves
<1>6. \A j \in Jobs : /\ Has(task[t].pending, j)' <=> Has(task[t].pending, j)
                      /\ Has(task[t].scored, j)' <=> Has(task[t].scored, j)
  BY <1>1 DEF SameWork, Has
<1>7. ASSUME NEW j \in Jobs PROVE Claims(j)'
  <2>1. (Owns(t, j)' => Owns(t, j)) /\ (Waits(t, j)' => Waits(t, j))
    BY <1>1, <1>6 DEF Appends, SameWork, Owns, Waits, Handling
  <2> QED
    BY <1>1, <1>3, <1>4, <1>5, <2>1, ClaimsKept DEF JobsInv
<1>8. ASSUME NEW u \in TitleSet PROVE Works(u)'
  <2>1. Works(u)
    BY DEF JobsInv
  <2>2. CASE u = t
    <3>1. OwnItems(t)' /\ Lists(t)'
      BY <1>1, <2>1, <2>2 DEF Works, OwnItems, Lists, SameWork, Handles
    <3>2. Holds(t)'
      BY <1>1, <1>4, <2>1, <2>2 DEF Appends, Works, Holds, Within, SameWork, Handles
    <3>3. Fresh(t)'
      BY <1>1, <1>2, <1>3, <1>4, <2>1, <2>2 DEF Appends, Works, Fresh, SameWork, Handles
    <3> QED
      BY <2>2, <3>1, <3>2, <3>3 DEF Works
  <2>3. CASE u # t
    <3>1. task'[u] = task[u]
      BY <1>1, <2>3 DEF Others
    <3> QED
      BY <1>3, <1>4, <2>1, <3>1 DEF Works, OwnItems, Lists, Holds, Within, Fresh
  <2> QED
    BY <2>2, <2>3
<1>9. NothingFailed' => NothingFailed
  BY <1>1, <1>3, FailuresStay DEF JobsInv
<1>10. ASSUME NEW j \in Jobs PROVE Entries(j)'
  <2>1. Entries(j)
    BY DEF JobsInv
  <2>2. Remembered(j)'
    BY <1>4, <2>1 DEF Entries, Remembered
  <2>3. \A u \in TitleSet : u = t \/ task'[u] = task[u]
    BY <1>1 DEF Others
  <2>4. \A u \in TitleSet : (Fixes(u, j) => Fixes(u, j)') /\ (Scores(u, j) => Scores(u, j)')
    BY <1>1, <1>4, <1>6, <2>3 DEF Appends, SameWork, Fixes, Scores, Handling
  <2>5. CASE j = job
    <3>1. ASSUME job \notin history'.overlap PROVE OneWrites(job)' /\ Writing(t, job)'
      <4>1. \A u \in TitleSet : Writing(u, job)' => u = t
        BY <1>3, <2>3, <3>1 DEF Writing, Handling, Writers
      <4>2. Writing(t, job)'
        BY <1>1, <1>2 DEF Writing, Handling, SameWork
      <4>3. ASSUME NEW u \in TitleSet
            PROVE  /\ Handling(u, job, {"remember"})' => feed'[job] = task'[u].entry
                   /\ Handling(u, job, {"forget"})' => feed'[job] = NoEntry
        <5>1. Handling(u, job, {"remember"})' \/ Handling(u, job, {"forget"})' => u = t
          BY <4>1 DEF Writing, Handling
        <5> QED
          BY <1>1, <1>4, <5>1 DEF Appends, Handling, SameWork
      <4> QED
        BY <4>1, <4>2, <4>3 DEF OneWrites
    <3>2. ASSUME Settles(job), Writing(t, job)' PROVE Settles(job)'
      BY <1>4, <2>4, <2>5, <3>2 DEF Settles
    <3> QED
      BY <1>3, <1>9, <2>1, <2>2, <2>5, <3>1, <3>2 DEF Entries
  <2>6. CASE j # job
    <3>1. \A u \in TitleSet : Writing(u, j)' <=> Writing(u, j)
      BY <1>1, <1>2, <2>3, <2>6 DEF Writing, Handling, SameWork
    <3>2. OneWrites(j) => OneWrites(j)'
      <4>1. ~Handling(t, j, {"remember"})' /\ ~Handling(t, j, {"forget"})'
        BY <1>1, <1>2, <2>6 DEF Handling, SameWork
      <4> QED
        BY <1>4, <2>3, <2>6, <3>1, <4>1 DEF OneWrites, Handling
    <3>3. Settles(j) => Settles(j)'
      BY <1>4, <2>4, <2>6, <3>1 DEF Settles
    <3>4. j \in history'.overlap <=> j \in history.overlap
      BY <1>3, <2>6
    <3> QED
      BY <1>9, <2>1, <2>2, <3>2, <3>3, <3>4 DEF Entries
  <2> QED
    BY <2>5, <2>6
<1> QED
  BY <1>5, <1>7, <1>8, <1>10 DEF JobsInv

LEMMA PushAndTakeOutKeep ==
    ASSUME JobsInv, NEW t \in TitleSet, Push(t) \/ TakeOut(t)
    PROVE  JobsInv'
<1>1. CASE Push(t)
  <2>1. task[t].pc = "push" /\ Goto(t, "remember") /\ task[t].entry \in Entry
    BY <1>1, TaskFieldsTyped DEF Push, At, JobsInv, Task
  <2>2. Moves(t) /\ task'[t].pc = "remember" /\ SameWork(t)
    BY <2>1, GoesTo DEF JobsInv, Steps, InTry, Handles
  <2>3. Appends(t, task[t].entry)
    BY <1>1, <2>1, <2>2 DEF Push, Appends
  <2> QED
    BY <2>1, <2>3, AppendKeeps
<1>2. CASE TakeOut(t)
  <2>1. task[t].pc = "takeout" /\ Goto(t, "forget")
    BY <1>2 DEF TakeOut, At
  <2>2. Moves(t) /\ task'[t].pc = "forget" /\ SameWork(t)
    BY <2>1, GoesTo DEF JobsInv, Steps, InTry, Handles
  <2>3. Appends(t, NoEntry)
    BY <1>2, <2>1, <2>2 DEF TakeOut, Appends
  <2> QED
    BY <2>3, NotStartedTyped, AppendKeeps
<1> QED
  BY <1>1, <1>2

\* The entry is remembered, or forgotten, as it is in the feed.
Notes(t, entry) ==
    /\ Moves(t) /\ SameWork(t)
    /\ \/ /\ task[t].pc = "remember" /\ entry = task[t].entry
          /\ IF task[t].keeping THEN task'[t].pc = "read" ELSE task'[t].pc = task[t].after
       \/ task[t].pc = "forget" /\ entry = NoEntry /\ task'[t].pc = task[t].after
    /\ recorded' = [recorded EXCEPT ![task[t].job] = entry] /\ NoteOverlap(t)
    /\ UNCHANGED <<canonical, userJob, claimed, feed>>

LEMMA NoteKeeps ==
    ASSUME JobsInv, NEW t \in TitleSet, NEW entry \in Entry, Notes(t, entry)
    PROVE  JobsInv'
<1>1. task[t].pc \in {"remember", "forget"} /\ Others(t) /\ SameWork(t) /\ Moves(t)
  BY DEF Notes, Moves
<1>2. PICK job \in Jobs : job = task[t].job
  BY <1>1, TaskFieldsTyped DEF JobsInv, Handles
<1>3. /\ history' \in History /\ history'.failures = history.failures
      /\ history'.asked = history.asked /\ history.overlap \subseteq history'.overlap
      /\ \A j \in Jobs \ {job} : j \in history'.overlap <=> j \in history.overlap
      /\ job \notin history'.overlap => Writers(job) \subseteq {t}
  BY <1>2, OverlapNoted DEF Notes
<1>4. /\ recorded' = [recorded EXCEPT ![job] = entry] /\ UNCHANGED <<canonical, userJob, claimed, feed>>
      /\ recorded' \in [Jobs -> Entry] /\ recorded'[job] = entry
      /\ \A j \in Jobs \ {job} : recorded'[j] = recorded[j]
  BY <1>2 DEF Notes, JobsInv, Typed
<1>5. Typed'
  BY <1>1, <1>3, <1>4 DEF JobsInv, Typed, Moves
<1>6. \A j \in Jobs : /\ Has(task[t].pending, j)' <=> Has(task[t].pending, j)
                      /\ Has(task[t].scored, j)' <=> Has(task[t].scored, j)
  BY <1>1 DEF SameWork, Has
<1>7. /\ task[t].after \in {"triage", "finish", "drain", "applicants"}
      /\ task'[t].pc \in {"read", task[t].after} /\ task[t] \in Task /\ Works(t)
  BY TaskFieldsTyped DEF Notes, JobsInv, Task, Afters
<1>8. ASSUME NEW j \in Jobs PROVE Claims(j)'
  <2>1. (Owns(t, j)' => Owns(t, j)) /\ (Waits(t, j)' => Waits(t, j))
    BY <1>6, <1>7 DEF Owns, Waits, Handling
  <2> QED
    BY <1>1, <1>3, <1>4, <1>5, <2>1, ClaimsKept DEF JobsInv
\* Nobody decides on the job: it is shown already, or was claimed by t.
<1>9. ASSUME NEW u \in TitleSet, u # t, Handling(u, job, {"decide"}), job \notin history'.overlap
      PROVE  entry.copy = 0
  <2>1. CASE task[t].pc = "forget"
    BY <1>1, <2>1 DEF Notes, NoEntry
  <2>2. CASE task[t].pc = "remember"
    <3>1. Owns(u, job) /\ recorded[job].copy = 0
      BY <1>3, <1>9 DEF Owns, Waits, JobsInv, Works, Fresh, Handling, Handles
    <3>2. task[t].keeping \/ Has(task[t].pending, job)
      BY <1>2, <1>3, <1>7, <1>9, <2>2, <3>1 DEF Works, Fresh, Handles
    <3>3. Owns(t, job)
      BY <1>2, <2>2, <3>2 DEF Owns, Waits, Handling
    <3> QED
      BY <1>9, <3>1, <3>3 DEF JobsInv, Claims
  <2> QED
    BY <1>1, <2>1, <2>2
<1>10. ASSUME NEW u \in TitleSet PROVE Works(u)'
  <2>1. Works(u)
    BY DEF JobsInv
  <2>2. CASE u = t
    <3>1. OwnItems(t)' /\ Fresh(t)'
      BY <1>1, <1>7 DEF Works, OwnItems, Fresh, SameWork, Handles
    <3>2. Lists(t)'
      BY <1>1, <1>7 DEF Works, Lists, SameWork, Handles
    <3>3. Holds(t)'
      BY <1>1, <1>4, <1>7 DEF Works, Holds, Within, SameWork, Handles
    <3> QED
      BY <2>2, <3>1, <3>2, <3>3 DEF Works
  <2>3. CASE u # t
    <3>1. task'[u] = task[u]
      BY <1>1, <2>3 DEF Others
    <3>2. OwnItems(u)' /\ Lists(u)' /\ Holds(u)'
      BY <1>4, <2>1, <3>1 DEF Works, OwnItems, Lists, Holds, Within
    <3>3. Fresh(u)'
      <4>1. CASE task[u].pc \in Handles /\ task[u].job = job
        <5>1. job \notin history'.overlap => task[u].pc \notin {"replace", "push", "remember"}
          BY <1>3, <2>3, <4>1 DEF Writers
        <5>2. task[u].pc = "decide" /\ job \notin history'.overlap => entry.copy = 0
          BY <1>9, <2>3, <4>1 DEF Handling
        <5> QED
          BY <1>4, <3>1, <4>1, <5>1, <5>2 DEF Fresh
      <4>2. CASE task[u].pc \in Handles /\ task[u].job # job
        <5>1. task[u].job \in Jobs \ {job}
          BY <4>2, TaskFieldsTyped DEF JobsInv
        <5> QED
          BY <1>3, <1>4, <2>1, <3>1, <5>1 DEF Works, Fresh
      <4>3. CASE task[u].pc \notin Handles
        BY <3>1, <4>3 DEF Fresh
      <4> QED
        BY <4>1, <4>2, <4>3
    <3> QED
      BY <3>2, <3>3 DEF Works
  <2> QED
    BY <2>2, <2>3
<1>11. NothingFailed' => NothingFailed
  BY <1>1, <1>3, FailuresStay DEF JobsInv
<1>12. \A u \in TitleSet : u = t \/ task'[u] = task[u]
  BY <1>1 DEF Others
<1>13. ASSUME NEW j \in Jobs, j # job PROVE Entries(j)'
  <2>1. Entries(j)
    BY DEF JobsInv
  <2>2. Remembered(j)'
    BY <1>4, <1>13, <2>1 DEF Entries, Remembered
  <2>3. \A u \in TitleSet : Writing(u, j)' <=> Writing(u, j)
    BY <1>1, <1>2, <1>12, <1>13 DEF Writing, Handling, SameWork
  <2>4. OneWrites(j) => OneWrites(j)'
    <3>1. ~Handling(t, j, {"remember"})' /\ ~Handling(t, j, {"forget"})'
      BY <1>1, <1>2, <1>13 DEF Handling, SameWork
    <3> QED
      BY <1>4, <1>12, <1>13, <2>3, <3>1 DEF OneWrites, Handling
  <2>5. \A u \in TitleSet : (Fixes(u, j) => Fixes(u, j)') /\ (Scores(u, j) => Scores(u, j)')
    BY <1>1, <1>2, <1>4, <1>6, <1>12, <1>13 DEF SameWork, Fixes, Scores, Handling
  <2>6. Settles(j) => Settles(j)'
    BY <1>4, <1>13, <2>3, <2>5 DEF Settles
  <2>7. j \in history'.overlap <=> j \in history.overlap
    BY <1>3, <1>13
  <2> QED
    BY <1>11, <2>1, <2>2, <2>4, <2>6, <2>7 DEF Entries
<1>14. Remembered(job)'
  <2>1. CASE task[t].pc = "forget"
    <3>1. entry.copy = 0
      BY <2>1 DEF Notes, NoEntry
    <3> QED
      BY <1>4, <3>1 DEF Remembered, JobsInv, Typed
  <2>2. CASE task[t].pc = "remember"
    <3>1. entry.copy <= canonical[job] /\ job \in claimed
      BY <1>2, <1>7, <2>2 DEF Notes, Works, Holds, Handles
    <3> QED
      BY <1>4, <3>1 DEF Remembered
  <2> QED
    BY <1>1, <2>1, <2>2
<1>15. ASSUME job \notin history'.overlap
       PROVE  /\ OneWrites(job)' /\ feed'[job] = recorded'[job]
              /\ \A u \in TitleSet \ {t} : /\ task'[u] = task[u]
                                           /\ ~Handling(u, job, {"replace", "push", "remember", "takeout", "forget"})
  <2>1. OneWrites(job)
    BY <1>3, <1>15 DEF JobsInv, Entries
  <2>2. \A u \in TitleSet \ {t} : task'[u] = task[u] /\ u \notin Writers(job)
    BY <1>3, <1>12, <1>15
  <2>3. \A u \in TitleSet \ {t} : ~Handling(u, job, {"replace", "push", "remember", "takeout", "forget"})
    BY <2>2 DEF Handling, Writers
  <2>4. \A u \in TitleSet : ~Handling(u, job, {"remember"})' /\ ~Handling(u, job, {"forget"})' /\ ~Writing(u, job)'
    BY <1>7, <2>2, <2>3 DEF Handling, Writing
  <2>5. feed[job] = entry
    BY <1>1, <1>2, <2>1 DEF Notes, OneWrites, Handling
  <2> QED
    BY <1>4, <2>2, <2>3, <2>4, <2>5 DEF OneWrites
<1>16. ASSUME job \notin history'.overlap, NothingFailed', task[t].pc = "remember", task[t].keeping
       PROVE  Settles(job)'
  <2>1. task'[t].pc = "read" /\ entry.scored /\ task'[t].result.state = "seen" /\ task'[t].job = job
    BY <1>1, <1>2, <1>7, <1>16 DEF Notes, Works, Holds, SameWork
  <2>2. Fixes(t, job)'
    BY <2>1 DEF Fixes, Handling, Shows
  <2> QED
    BY <1>4, <1>15, <1>16, <2>1, <2>2 DEF Settles
<1>17. ASSUME job \notin history'.overlap, NothingFailed', task[t].pc = "remember", ~task[t].keeping
       PROVE  Settles(job)'
  <2>1. Settles(job)
    BY <1>3, <1>11, <1>17 DEF JobsInv, Entries
  <2>2. /\ recorded[job].copy <= entry.copy /\ entry.copy <= canonical[job]
        /\ recorded[job].copy = 0 => Has(task[t].pending, job) /\ ~entry.scored
        /\ recorded[job].copy # 0 => (entry.scored <=> recorded[job].scored)
        /\ entry.copy \in Nat /\ recorded[job].copy \in Nat /\ canonical[job] \in Nat
    BY <1>2, <1>3, <1>7, <1>17 DEF Notes, Works, Fresh, Holds, Handles, JobsInv, Typed, Entry
  <2>3. Has(task[t].pending, job) => Fixes(t, job)' /\ Scores(t, job)'
    BY <1>6 DEF Fixes, Scores
  <2>4. \A u \in TitleSet \ {t} : (Fixes(u, job) => Fixes(u, job)') /\ (Scores(u, job) => Scores(u, job)')
    BY <1>4, <1>15, <1>17 DEF Fixes, Scores, Handling
  <2>5. Fixes(t, job) => Fixes(t, job)' \/ entry.copy = canonical[job]
    BY <1>2, <1>6, <1>17 DEF Notes, Fixes, Handling
  <2>6. Scores(t, job) => Scores(t, job)'
    BY <1>2, <1>6, <1>17 DEF Scores, Handling
  <2>7. entry.copy \in {0, canonical[job]} \/ \E u \in TitleSet : Fixes(u, job)'
    <3>1. CASE recorded[job].copy = 0
      BY <2>2, <2>3, <3>1
    <3>2. CASE recorded[job].copy = canonical[job]
      BY <2>2, <3>2
    <3>3. CASE \E u \in TitleSet : Fixes(u, job)
      BY <2>4, <2>5, <3>3
    <3> QED
      BY <2>1, <3>1, <3>2, <3>3 DEF Settles
  <2>8. entry.copy = 0 \/ entry.scored \/ \E u \in TitleSet : Scores(u, job)'
    <3>1. CASE recorded[job].copy = 0
      BY <2>2, <2>3, <3>1
    <3>2. CASE recorded[job].copy # 0 /\ recorded[job].scored
      BY <2>2, <3>2
    <3>3. CASE \E u \in TitleSet : Scores(u, job)
      BY <2>4, <2>6, <3>3
    <3> QED
      BY <2>1, <3>1, <3>2, <3>3 DEF Settles
  <2> QED
    BY <1>4, <1>15, <1>17, <2>7, <2>8 DEF Settles
<1>18. ASSUME job \notin history'.overlap, task[t].pc = "forget" PROVE Settles(job)'
  <2>1. recorded'[job].copy = 0
    BY <1>4, <1>18 DEF Notes, NoEntry
  <2> QED
    BY <1>15, <1>18, <2>1 DEF Settles
<1>19. Entries(job)'
  BY <1>1, <1>14, <1>15, <1>16, <1>17, <1>18 DEF Entries
<1> QED
  BY <1>5, <1>8, <1>10, <1>13, <1>19 DEF JobsInv

LEMMA RememberAndForgetKeep ==
    ASSUME JobsInv, NEW t \in TitleSet, Remember(t) \/ Forget(t)
    PROVE  JobsInv'
<1>1. task[t] \in Task
  BY TaskFieldsTyped DEF JobsInv
<1>2. CASE Remember(t)
  <2>1. /\ task[t].pc = "remember" /\ task[t].entry \in Entry
        /\ Goto(t, IF task[t].keeping THEN "read" ELSE task[t].after)
    BY <1>1, <1>2 DEF Remember, At, Task
  <2>2. /\ Moves(t) /\ SameWork(t)
        /\ IF task[t].keeping THEN task'[t].pc = "read" ELSE task'[t].pc = task[t].after
    <3>1. CASE task[t].keeping
      BY <2>1, <3>1, GoesTo DEF JobsInv, Steps, InTry, Handles
    <3>2. CASE ~task[t].keeping
      BY <2>1, <3>2, Returns DEF Handles
    <3> QED
      BY <3>1, <3>2
  <2>3. Notes(t, task[t].entry)
    BY <1>2, <2>1, <2>2 DEF Remember, Notes
  <2> QED
    BY <2>1, <2>3, NoteKeeps
<1>3. CASE Forget(t)
  <2>1. task[t].pc = "forget" /\ Goto(t, task[t].after)
    BY <1>3 DEF Forget, At
  <2>2. Moves(t) /\ SameWork(t) /\ task'[t].pc = task[t].after
    BY <2>1, Returns DEF Handles
  <2>3. Notes(t, NoEntry)
    BY <1>3, <2>1, <2>2 DEF Forget, Notes
  <2> QED
    BY <2>3, NotStartedTyped, NoteKeeps
<1> QED
  BY <1>2, <1>3

----------------------------------------------------------------------------
(* The theorems *)

LEMMA InitJobs == Init => JobsInv
<1> SUFFICES ASSUME Init PROVE JobsInv
  OBVIOUS
<1>1. Typed
  BY InitTyped
<1>2. \A t \in TitleSet : Rests(t)
  BY DEF Init, NotStarted, Rests, Handles
<1>3. ASSUME NEW t \in TitleSet PROVE Works(t)
  <2>1. DOMAIN << >> = {}
    OBVIOUS
  <2> QED
    BY <1>2, <2>1 DEF Works, OwnItems, Lists, Holds, Fresh, Within, OneOfEach, Rests, Handles
<1>4. ASSUME NEW j \in Jobs PROVE Claims(j) /\ Entries(j)
  <2>1. \A t \in TitleSet : ~Owns(t, j) /\ ~Waits(t, j) /\ ~Writing(t, j)
    BY <1>2, HasNothing
  <2>2. Claims(j)
    BY <2>1 DEF Claims, Init
  <2>3. recorded[j] = NoEntry /\ feed[j] = NoEntry /\ canonical[j] \in Nat
    BY <1>1 DEF Init, Typed
  <2>4. OneWrites(j)
    BY <2>1 DEF OneWrites, Writing, Handling
  <2>5. Remembered(j) /\ Settles(j)
    BY <2>3 DEF Remembered, Settles, NoEntry
  <2> QED
    BY <2>2, <2>4, <2>5 DEF Entries
<1> QED
  BY <1>1, <1>3, <1>4 DEF JobsInv

LEMMA NextJobs == Inv /\ JobsInv /\ [Next]_vars => JobsInv'
<1> SUFFICES ASSUME Inv, JobsInv, [Next]_vars PROVE JobsInv'
  OBVIOUS
<1>1. CASE \/ Hold \/ DispatcherCrash \/ Cancel
           \/ \E j \in Jobs, state \in UserStates : SetState(j, state)
           \/ UNCHANGED vars
  BY <1>1, TasklessKeeps
<1>2. CASE Send
  BY <1>2, SendKeeps
<1>3. ASSUME NEW t \in TitleSet,
             Step(t) \/ NextFails(t) \/ StartFails(t) \/ Fail(t) \/ CountLost(t) \/ Crash(t)
      PROVE  JobsInv'
  <2>1. CASE \/ TakeTitle(t) \/ Search(t) \/ ApplicantsEnd(t) \/ Count(t) \/ NextTitle(t)
             \/ NextFails(t) \/ StartFails(t) \/ CountLost(t)
    BY <2>1, TurnsKeep
  <2>2. CASE Fail(t) \/ Crash(t)
    BY <2>2, GivesUp
  <2>3. CASE Upsert(t)
    BY <2>3, UpsertKeeps
  <2>4. CASE Claim(t)
    BY <2>4, ClaimKeeps
  <2>5. CASE Decide(t)
    BY <2>5, DecideKeeps
  <2>6. CASE Replace(t) \/ Remove(t)
    BY <2>6, ReplaceKeeps, RemoveKeeps
  <2>7. CASE Push(t) \/ TakeOut(t)
    BY <2>7, PushAndTakeOutKeep
  <2>8. CASE Remember(t) \/ Forget(t)
    BY <2>8, RememberAndForgetKeep
  <2>9. CASE ToScore(t) \/ Score(t) \/ Drain(t) \/ FinishScored(t)
    BY <2>9, ToScoreKeeps, ScoreKeeps, DrainKeeps, FinishScoredKeeps
  <2>10. CASE ReadRow(t) \/ WriteRow(t) \/ Reload(t)
    BY <2>10, ReadRowKeeps, WriteRowKeeps, ReloadKeeps
  <2>11. CASE ApplicantsFound(t)
    BY <2>11, ApplicantsFoundKeeps
  <2>12. CASE StartTitle(t)
    BY <2>12, StartTitleKeeps
  <2> QED
    BY <1>3, <2>1, <2>2, <2>3, <2>4, <2>5, <2>6, <2>7, <2>8, <2>9, <2>10, <2>11, <2>12 DEF Step
<1> QED
  BY <1>1, <1>2, <1>3 DEF Next

LEMMA JobsInvariant == Spec => [](Inv /\ JobsInv)
<1>1. Init => Inv /\ JobsInv
  BY InitInv, InitJobs
<1>2. Inv /\ JobsInv /\ [Next]_vars => (Inv /\ JobsInv)'
  BY NextInv, NextJobs
<1> QED
  BY <1>1, <1>2, PTL DEF Spec

\* The status and the counter of the run.
RunTyped == meta \in [status : {"running", "cancelled"}, completed : Nat]

\* A step of a title leaves them alone, or counts the title.
LEMMA MetaMoves ==
    ASSUME NEW t \in TitleSet,
           Step(t) \/ NextFails(t) \/ StartFails(t) \/ Fail(t) \/ CountLost(t) \/ Crash(t)
    PROVE  meta' = meta \/ meta' = [meta EXCEPT !.completed = @ + 1]
<1>1. CASE Count(t) \/ StartFails(t)
  BY <1>1 DEF Count, StartFails
<1>2. CASE NextFails(t) \/ Fail(t) \/ CountLost(t) \/ Crash(t)
  BY <1>2 DEF NextFails, Fail, CountLost, Crash
<1>3. CASE TakeTitle(t) \/ Search(t) \/ Upsert(t) \/ Claim(t) \/ Decide(t)
  BY <1>3 DEF TakeTitle, Search, Upsert, Claim, Decide
<1>4. CASE Replace(t) \/ Push(t) \/ Remember(t) \/ Remove(t) \/ TakeOut(t) \/ Forget(t)
  BY <1>4 DEF Replace, Push, Remember, Remove, TakeOut, Forget
<1>5. CASE ToScore(t) \/ Score(t) \/ Drain(t) \/ FinishScored(t) \/ NextTitle(t) \/ StartTitle(t)
  BY <1>5 DEF ToScore, Score, Drain, FinishScored, NextTitle, StartTitle
<1>6. CASE ReadRow(t) \/ WriteRow(t) \/ Reload(t) \/ ApplicantsFound(t) \/ ApplicantsEnd(t)
  BY <1>6 DEF ReadRow, WriteRow, Reload, ApplicantsFound, ApplicantsEnd
<1> QED
  BY <1>1, <1>2, <1>3, <1>4, <1>5, <1>6 DEF Step

LEMMA RunStaysTyped == RunTyped /\ [Next]_vars => RunTyped'
<1> SUFFICES ASSUME RunTyped, [Next]_vars PROVE RunTyped'
  OBVIOUS
<1>1. CASE meta' = meta \/ meta' = [meta EXCEPT !.completed = @ + 1]
  BY <1>1 DEF RunTyped
<1>2. CASE Cancel
  BY <1>2 DEF Cancel, RunTyped
<1>3. CASE Hold \/ Send \/ DispatcherCrash \/ UNCHANGED vars
  BY <1>1, <1>3 DEF Hold, Send, DispatcherCrash, vars
<1>4. CASE \E j \in Jobs, state \in UserStates : SetState(j, state)
  BY <1>1, <1>4 DEF SetState
<1>5. CASE \E t \in TitleSet : Step(t) \/ NextFails(t) \/ StartFails(t) \/ Fail(t)
                              \/ CountLost(t) \/ Crash(t)
  BY <1>1, <1>5, MetaMoves
<1> QED
  BY <1>2, <1>3, <1>4, <1>5 DEF Next

\* In every state the tables, the run in Redis and the tasks are well formed,
\* and no more titles count as complete than the search has (get_run_meta).
THEOREM SearchTypes == Spec => []TypeOK
<1>1. Inv /\ JobsInv /\ RunTyped => TypeOK
  <2> SUFFICES ASSUME Inv, JobsInv, RunTyped PROVE TypeOK
    OBVIOUS
  <2>1. meta \in [status : {"running", "cancelled"}, completed : 0..Total]
    <3>1. Cardinality(Owed) \in Nat
      BY OwedSize DEF Inv
    <3>2. meta.completed \in 0..Total
      BY <3>1, TitlesCount, FS_CardinalityType DEF RunTyped, Inv, Counted
    <3> QED
      BY <3>2 DEF RunTyped
  <2>2. \A t \in TitleSet : task[t].pc = "start" => task[t].title \in TitleSet
    BY DEF Inv, OnePlace, Starters
  <2>3. \A t \in TitleSet : task[t] \in Task
    BY DEF JobsInv, Typed, TasksTyped
  <2> QED
    BY <2>1, <2>2, <2>3 DEF TypeOK, JobsInv, Typed, TasksTyped, Inv, RunFields, Task, Afters
<1>2. Init => RunTyped
  BY DEF Init, RunTyped
<1> QED
  BY <1>1, <1>2, RunStaysTyped, JobsInvariant, PTL DEF Spec

\* Of all the titles and sources that surface a job in a run, one has it
\* scored, and once, however they interleave, fail or die (claim_job_key).
THEOREM JobScoredOnce == Spec => []ScoredOnce
<1>1. JobsInv => ScoredOnce
  BY DEF JobsInv, Claims, ScoredOnce
<1> QED
  BY <1>1, JobsInvariant, PTL

\* When every title is over, and none failed or died, the feed shows each job
\* that no two titles wrote at a time with its score and in the best copy
\* stored, and shows nothing that was taken out (replace_recorded,
\* remove_recorded, update_recorded).
THEOREM FeedIsSettled == Spec => []FeedSettles
<1>1. JobsInv => FeedSettles
  <2> SUFFICES ASSUME JobsInv, \A t \in TitleSet : task[t].pc = "over", history.failures = 0,
                      NEW j \in Jobs \ history.overlap
               PROVE  /\ feed[j] = recorded[j]
                      /\ feed[j].copy # 0 => feed[j].scored /\ feed[j].copy = canonical[j]
    BY DEF FeedSettles
  <2>1. \A t \in TitleSet : Rests(t)
    BY WhereTasksRest DEF JobsInv, Resting
  <2>2. \A t \in TitleSet : ~Writing(t, j) /\ ~Fixes(t, j) /\ ~Scores(t, j)
    BY <2>1, HasNothing
  <2>3. NothingFailed
    BY DEF NothingFailed
  <2>4. Settles(j)
    BY <2>3 DEF JobsInv, Entries
  <2> QED
    BY <2>2, <2>4 DEF Settles
<1> QED
  BY <1>1, JobsInvariant, PTL

=============================================================================
