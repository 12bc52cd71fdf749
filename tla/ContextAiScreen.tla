-------------------------- MODULE ContextAiScreen --------------------------
(***************************************************************************)
(* The view model behind its screen: the calls a user can make of it       *)
(* through the controls ContextAiScreen shows.  The suggestion cards and   *)
(* the monitoring switch are always enabled; the buttons of the result     *)
(* card depend on the state, which the screen shows without delay.         *)
(***************************************************************************)
EXTENDS ClipboardViewModel

(* The actions whose results have titles the screen lists for Save and for *)
(* the follow-up section.                                                  *)
SavableTypes ==
  {"EXPLAIN", "SUMMARIZE", "SIMPLIFY", "GENERATE_STUDY_QUESTIONS",
   "FLASHCARDS", "QUIZ"}
FollowUpTypes == SavableTypes \cup {"PREPARE_ANSWER"}

(* ActionResultCard below its progress indicator: with its text field, or  *)
(* with the result and, unless it is an error, the row of buttons.         *)
DismissShown     == actionResult # Null /\ ~isGenerating
EditFieldShown   == DismissShown /\ editingText # Null
ButtonsShown     == DismissShown /\ editingText = Null /\ ~actionResult.isError
SaveShown        == ButtonsShown /\ actionResult.origin.action \in SavableTypes
FollowUpShown    == ButtonsShown /\ actionResult.origin.action \in FollowUpTypes
WarningCardShown == pendingAiAction # Null

ScreenUser ==
  \/ \E enabled \in BOOLEAN : setMonitoringEnabled(enabled)
  \/ \E action \in suggestedActions : performAction(action)
  \/ \E action \in suggestedActions : performSensitiveAction(action)
  \/ WarningCardShown /\ confirmAiAction
  \/ WarningCardShown /\ cancelAiAction
  \/ ButtonsShown /\ regenerateAction
  \/ FollowUpShown /\ askFollowUp
  \/ ButtonsShown /\ startEditing
  \/ EditFieldShown /\ saveEdit
  \/ EditFieldShown /\ cancelEdit
  \/ DismissShown /\ clearActionResult
  \/ \E c \in Contents \ Protected : ButtonsShown /\ copyText(c)
  \/ SaveShown /\ saveStudyItem
  \/ FollowUpShown /\ saveFollowUp

ScreenNext == Environment \/ Internal \/ ScreenUser

ScreenSpec     == Init /\ [][ScreenNext]_vars
ScreenFairSpec == ScreenSpec /\ Fairness
----------------------------------------------------------------------------
(* The result card belongs to the text on the screen as long as no text is *)
(* read during a request (applyResult clears the result, Resume sets it).  *)
ResultForShownText ==
  ~crossed /\ actionResult # Null =>
    latestClipboard \in {Null, actionResult.origin.text}

(* An edit ends up in the result it was started from, as long as requests  *)
(* come one at a time: a left-over editingText never reaches another one.  *)
EditInPlace ==
  ~overlapped /\ actionResult # Null => actionResult.content = actionResult.origin

(* Until a text is read during a request, the follow-up answer under a     *)
(* result was made from the text of that result; and until requests        *)
(* overlap as well, it was asked under that very result: executeAction     *)
(* drops the follow-up of the result it replaces, and nothing else         *)
(* replaces a result while a follow-up answer is on its way.               *)
FollowUpMatches ==
  ~crossed /\ actionResult # Null /\ followUpResult # Null =>
    /\ followUpResult.answer.text = actionResult.origin.text
    /\ ~overlapped => followUpResult.about = actionResult.origin

(* A study item is filed under the action that made its content and the    *)
(* text the content was made from, or without a text.                      *)
SavedUnderItsSource ==
  ~crossed /\ ~overlapped =>
    \A item \in saving :
      /\ item.type = item.content.action
      /\ item.sourceText \in {Null, item.content.text}

(* A text that looks sensitive reaches the AI engine only after the user   *)
(* has confirmed it in the warning card, by any of the four ways a request *)
(* starts, as long as no text is read during a request.                    *)
ConfirmedUnlessCrossed ==
  ~crossed =>
    \A j \in Jobs :
      ~Idle(j) /\ job[j].text \in SensitiveTexts => job[j].text \in approved
----------------------------------------------------------------------------
(* ClipboardViewModel.kt on executeAction's caller: "AI actions require    *)
(* explicit confirmation if sensitive".                                    *)
SensitiveNeedsConfirmation ==
  \A j \in Jobs :
    ~Idle(j) /\ job[j].text \in SensitiveTexts => job[j].text \in approved

(* ClipboardViewModel.kt on applyResult: "Clear previous result on new     *)
(* clipboard content".                                                     *)
ResultClearedOnNewText ==
  actionResult # Null /\ latestClipboard # Null =>
    actionResult.origin.text = latestClipboard
============================================================================
