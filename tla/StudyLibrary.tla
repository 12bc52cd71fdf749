---------------------------- MODULE StudyLibrary ----------------------------
(***************************************************************************)
(* The study library: the table of saved items, the view models of the     *)
(* library screen and the detail screen, each drawing from its own         *)
(* snapshot of the table, the writes they launch, the confirmation of a    *)
(* deletion, and the quiz of a detail screen.                              *)
(*                                                                         *)
(* A write is the whole row as the screen shows it with one field changed. *)
(* Room runs the writes one after the other and then tells the snapshots;  *)
(* meanwhile the user taps on, opens items and goes back, which cancels    *)
(* the writes of the screen that is left.                                  *)
(***************************************************************************)
EXTENDS Integers, FiniteSets, Sequences

CONSTANTS NItems,    \* bound: items saved; the later one has the larger id
          Correct,   \* Correct[q]: the letter of the question, "" if it has none
          Filters,   \* the sets of ids a query and a type may select
          MaxWrites  \* bound: writes launched

ASSUME LibraryAssumption ==
  NItems \in Nat /\ MaxWrites \in Nat /\ Filters \subseteq SUBSET (1 .. NItems) /\ Correct \in Seq(STRING)

VARIABLES table,    \* the rows, by id
          writes,   \* launched and not done, [no, by, op, id, row]: the no-th to be launched
          screen,   \* Home, Library, or the id of the item shown
          shown,    \* the snapshots of the two view models
          dirty,    \* snapshots that have not followed their sources yet
          filter,   \* ids that match the query and the type
          dialog,   \* place in the list whose card asks for a confirmation, or 0
          selectedOption, currentScore, questionsAnswered, \* the quiz shown
          intent,   \* history: the rows if every tap had changed its own field at once
          asked,    \* history: the item the confirmation was opened for
          spoilt,   \* history: a tap acted on something else than the user saw, or was lost
          retaken, saved, launched, gone \* history: Retake was tapped; ids used; writes launched; ids deleted

data == <<table, writes>>
drawn == <<shown, dirty, filter>>
quiz == <<selectedOption, currentScore, questionsAnswered, retaken>>
vars == <<data, screen, drawn, dialog, quiz, intent, asked, spoilt, saved, launched, gone>>

Items == 1 .. NItems
Home == -1
Library == 0
Models == {"library", "detail"}
Questions == DOMAIN Correct
Letters == {"A", "B"}
NoRows == <<>>
NewRow == [isFavorite |-> FALSE, quizScore |-> -1]

Drop(rows, ids) == [i \in DOMAIN rows \ ids |-> rows[i]]
model == IF screen \in Items THEN "detail" ELSE "library"
alive(m) == screen # Home /\ (m = "detail" => screen \in Items)

\* What a snapshot would draw now: the detail screen finds its item, unfiltered.
View(m) == Drop(table, Items \ (IF m = "detail" THEN {screen} ELSE filter))
\* ORDER BY createdAt DESC: the place of item i in the list.
Place(i) == Cardinality({j \in DOMAIN shown["library"] : j >= i})

\* The next of these writes, and the last of them.
First(ws) == {w \in ws : \A v \in ws : w.no <= v.no}
Last(ws) == {w \in ws : \A v \in ws : v.no <= w.no}

\* The row an item will have when the writes are done; {} if it is gone.
Settled(i) ==
  LET its == {w \in writes : w.id = i} IN
  IF i \notin DOMAIN table \/ \E w \in its : w.op = "delete" THEN {}
  ELSE IF its = {} THEN {table[i]} ELSE {w.row : w \in Last(its)}

FreshQuiz ==
  /\ selectedOption' = [q \in Questions |-> "none"]
  /\ currentScore' = 0 /\ questionsAnswered' = 0 /\ retaken' = FALSE

Init ==
  /\ table = NoRows /\ writes = {} /\ screen = Home
  /\ shown = [m \in Models |-> NoRows] /\ dirty = Models /\ filter = Items /\ dialog = 0
  /\ selectedOption = [q \in Questions |-> "none"]
  /\ currentScore = 0 /\ questionsAnswered = 0 /\ retaken = FALSE
  /\ intent = NoRows /\ asked = 0 /\ spoilt = FALSE /\ saved = 0 /\ launched = 0 /\ gone = {}

----------------------------------------------------------------------------
(* The database *)

\* The clipboard screen's insert lands, wherever the user is by then.
insertItem ==
  /\ saved < NItems /\ saved' = saved + 1
  /\ table' = [i \in DOMAIN table \union {saved'} |-> IF i = saved' THEN NewRow ELSE table[i]]
  /\ intent' = IF spoilt THEN NoRows ELSE [i \in DOMAIN intent \union {saved'} |-> IF i = saved' THEN NewRow ELSE intent[i]]
  /\ dirty' = Models
  /\ UNCHANGED <<writes, screen, shown, filter, dialog, quiz, asked, spoilt, launched, gone>>

\* Mutant: an update inserts the row if it is not there.
WriteUpsert ==
  /\ \E w \in First(writes) :
     /\ writes' = writes \ {w}
     /\ IF w.op = "delete"
        THEN table' = Drop(table, {w.id}) /\ gone' = gone \union {w.id}
        ELSE table' = [i \in DOMAIN table \union {w.id} |-> IF i = w.id THEN w.row ELSE table[i]] /\ UNCHANGED gone
  /\ dirty' = Models
  /\ UNCHANGED <<screen, shown, filter, dialog, quiz, intent, asked, spoilt, saved, launched>>

\* @Update changes the row with that id if there is one, @Delete removes it.
Write ==
  /\ \E w \in First(writes) :
     /\ writes' = writes \ {w}
     /\ IF w.op = "delete"
        THEN table' = Drop(table, {w.id}) /\ gone' = gone \union {w.id}
        ELSE table' = [i \in DOMAIN table |-> IF i = w.id THEN w.row ELSE table[i]] /\ UNCHANGED gone
  /\ dirty' = Models
  /\ UNCHANGED <<screen, shown, filter, dialog, quiz, intent, asked, spoilt, saved, launched>>

\* combine: a snapshot follows the table and the filter.  The cards of the list
\* keep their state by place, so a dialog stays where it is, whatever moves in.
Refresh(m) ==
  /\ alive(m) /\ m \in dirty
  /\ dirty' = dirty \ {m}
  /\ shown' = [shown EXCEPT ![m] = View(m)]
  /\ dialog' = IF m = "library" /\ dialog > Cardinality(DOMAIN View(m)) THEN 0 ELSE dialog
  /\ UNCHANGED <<data, screen, filter, quiz, intent, asked, spoilt, saved, launched, gone>>

----------------------------------------------------------------------------
(* Taps *)

\* The history of the rows, kept while it is not spoilt.
Meant(rows) == IF spoilt' THEN NoRows ELSE rows

launch(op, i, row) ==
  /\ launched < MaxWrites /\ launched' = launched + 1
  /\ writes' = writes \union {[no |-> launched', by |-> model, op |-> op, id |-> i, row |-> row]}

\* An update of the row the screen shows; the user means the one field.
update(i, row, meant) ==
  /\ launch("update", i, row)
  /\ spoilt' = (spoilt \/ Settled(i) # {shown[model][i]})
  /\ intent' = Meant([j \in DOMAIN intent |-> IF j = i THEN meant ELSE intent[j]])

toggleFavorite(i) ==
  /\ screen \in {Library, i} /\ dialog = 0 /\ i \in DOMAIN shown[model]
  /\ update(i, [shown[model][i] EXCEPT !.isFavorite = ~@],
            IF i \in DOMAIN intent THEN [intent[i] EXCEPT !.isFavorite = ~@] ELSE NewRow)
  /\ UNCHANGED <<table, screen, drawn, dialog, quiz, asked, saved, gone>>

\* Mutant: the list is not made again for a new query.
setFilterOnly(F) ==
  /\ screen = Library /\ dialog = 0 /\ filter # F
  /\ filter' = F
  /\ UNCHANGED <<data, screen, shown, dirty, dialog, quiz, intent, asked, spoilt, saved, launched, gone>>

setFilter(F) ==
  /\ screen = Library /\ dialog = 0 /\ filter # F
  /\ filter' = F /\ dirty' = dirty \union {"library"}
  /\ UNCHANGED <<data, screen, shown, dialog, quiz, intent, asked, spoilt, saved, launched, gone>>

AskDelete(i) ==
  /\ screen = Library /\ dialog = 0 /\ i \in DOMAIN shown["library"]
  /\ dialog' = Place(i) /\ asked' = i
  /\ UNCHANGED <<data, screen, drawn, quiz, intent, spoilt, saved, launched, gone>>

\* The card at that place deletes the item it shows now.
ConfirmDelete ==
  /\ dialog # 0 /\ dialog' = 0 /\ asked' = 0
  /\ \E i \in DOMAIN shown["library"] :
       /\ Place(i) = dialog
       /\ launch("delete", i, NewRow)
       /\ spoilt' = (spoilt \/ i # asked)
  /\ intent' = Meant(Drop(intent, {asked}))
  /\ UNCHANGED <<table, screen, drawn, quiz, saved, gone>>

CancelDelete ==
  /\ dialog # 0 /\ dialog' = 0 /\ asked' = 0
  /\ UNCHANGED <<data, screen, drawn, quiz, intent, spoilt, saved, launched, gone>>

OpenLibrary ==
  /\ screen = Home /\ screen' = Library
  /\ shown' = [shown EXCEPT !["library"] = NoRows] /\ dirty' = Models /\ filter' = Items
  /\ UNCHANGED <<data, dialog, quiz, intent, asked, spoilt, saved, launched, gone>>

OpenItem(i) ==
  /\ screen = Library /\ dialog = 0 /\ i \in DOMAIN shown["library"]
  /\ screen' = i
  /\ shown' = [shown EXCEPT !["detail"] = NoRows] /\ dirty' = Models
  /\ FreshQuiz
  /\ UNCHANGED <<data, filter, dialog, intent, asked, spoilt, saved, launched, gone>>

\* The scope of the view model is cancelled: its writes are not made, but for
\* one that has begun.
Back ==
  /\ screen # Home /\ dialog = 0
  /\ screen' = IF screen = Library THEN Home ELSE Library
  /\ \E begun \in {{}, First(writes)} :
       LET lost == {w \in writes \ begun : w.by = model} IN
       /\ writes' = (writes \ (begun \union lost)) \union {[w EXCEPT !.by = "begun"] : w \in begun}
       /\ spoilt' = (spoilt \/ lost # {})
  /\ intent' = Meant(intent)
  /\ shown' = [shown EXCEPT ![model] = NoRows]
  /\ FreshQuiz
  /\ UNCHANGED <<table, dirty, filter, dialog, asked, saved, launched, gone>>

----------------------------------------------------------------------------
(* The quiz: content that does not change, one card per question. *)

N == Cardinality(Questions)

\* Mutant: a question that was answered can be answered again.
AnswerAgain(q, letter) ==
  LET score == IF letter = Correct[q] THEN currentScore + 1 ELSE currentScore IN
  /\ screen \in DOMAIN shown["detail"]
  /\ selectedOption' = [selectedOption EXCEPT ![q] = letter]
  /\ IF questionsAnswered < N
     THEN /\ currentScore' = score /\ questionsAnswered' = questionsAnswered + 1
          /\ IF questionsAnswered + 1 = N
             THEN update(screen, [shown["detail"][screen] EXCEPT !.quizScore = score],
                         IF screen \in DOMAIN intent THEN [intent[screen] EXCEPT !.quizScore = score] ELSE NewRow)
             ELSE UNCHANGED <<writes, intent, spoilt, launched>>
     ELSE UNCHANGED <<currentScore, questionsAnswered, writes, intent, spoilt, launched>>
  /\ UNCHANGED <<table, screen, drawn, dialog, retaken, asked, saved, gone>>

\* onClick of an option, and onAnswer.
Answer(q, letter) ==
  LET score == IF letter = Correct[q] THEN currentScore + 1 ELSE currentScore IN
  /\ screen \in DOMAIN shown["detail"] /\ selectedOption[q] = "none"
  /\ selectedOption' = [selectedOption EXCEPT ![q] = letter]
  /\ IF questionsAnswered < N
     THEN /\ currentScore' = score /\ questionsAnswered' = questionsAnswered + 1
          /\ IF questionsAnswered + 1 = N
             THEN update(screen, [shown["detail"][screen] EXCEPT !.quizScore = score],
                         IF screen \in DOMAIN intent THEN [intent[screen] EXCEPT !.quizScore = score] ELSE NewRow)
             ELSE UNCHANGED <<writes, intent, spoilt, launched>>
     ELSE UNCHANGED <<currentScore, questionsAnswered, writes, intent, spoilt, launched>>
  /\ UNCHANGED <<table, screen, drawn, dialog, retaken, asked, saved, gone>>

\* The options selected on the cards stay.
Retake ==
  /\ screen \in DOMAIN shown["detail"] /\ questionsAnswered = N /\ N > 0
  /\ currentScore' = 0 /\ questionsAnswered' = 0 /\ retaken' = TRUE
  /\ UNCHANGED <<data, screen, drawn, dialog, selectedOption, intent, asked, spoilt, saved, launched, gone>>

RefreshDrawn == Refresh(model)

Next ==
  \/ insertItem \/ Write \/ \E m \in Models : Refresh(m)
  \/ \E i \in Items : toggleFavorite(i) \/ AskDelete(i) \/ OpenItem(i)
  \/ \E F \in Filters : setFilter(F)
  \/ ConfirmDelete \/ CancelDelete \/ OpenLibrary \/ Back
  \/ \E q \in Questions, letter \in Letters : Answer(q, letter)
  \/ Retake

\* The screen that is drawn collects its snapshot, and Room runs its writes.
Spec == Init /\ [][Next]_vars /\ WF_vars(RefreshDrawn) /\ WF_vars(Write)

----------------------------------------------------------------------------
(* Properties *)

\* Once the writes are done the table is what the user did, field by field and
\* item by item, over both screens, unless a tap came before the screen showed
\* an earlier one, a list moved under its dialog, or a screen was left before
\* its write; and an item that was deleted never comes back.
TableIsTheUsersWork ==
  /\ gone \intersect DOMAIN table = {}
  /\ writes = {} /\ ~spoilt => table = intent

\* The score counts every question once, and right only if the option is the
\* correct one; after Retake nothing is counted any more, as no card can be
\* answered again.
ScoreCountsAnswers ==
  LET answered == {q \in Questions : selectedOption[q] # "none"} IN
  IF retaken THEN questionsAnswered = 0 /\ currentScore = 0 /\ answered = Questions
  ELSE /\ questionsAnswered = Cardinality(answered)
       /\ currentScore = Cardinality({q \in answered : selectedOption[q] = Correct[q]})

\* What a screen shows catches up with the table and the filter.
ShowsTheTable ==
  (screen # Home /\ writes = {})
    ~> (screen = Home \/ writes # {} \/ shown[model] = View(model))
=============================================================================
