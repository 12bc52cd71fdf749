------------------------- MODULE ClipboardViewModel -------------------------
(***************************************************************************)
(* ClipboardViewModel with the ClipboardMonitor and the ActionHandler it   *)
(* owns, over the AI engine as module EngineService promises it.  Every    *)
(* method of the view model, and every resumption of one of its            *)
(* coroutines, runs on the main thread up to its next suspension point     *)
(* (viewModelScope uses Dispatchers.Main.immediate), so each is one step;  *)
(* the suspension points are the AI engine and the study repository.       *)
(*                                                                         *)
(* Here every public method may be called in any state.  Which of them the *)
(* user can reach is the business of module ContextAiScreen.               *)
(***************************************************************************)
EXTENDS ActionSuggestions, ClipboardMonitor, Naturals, FiniteSets

CONSTANTS
  Jobs,          \* the AI requests that can be under way at once
  TypeOf,        \* RuleBasedContentClassifier.classify of each preview
  Academic,      \* the previews for which isAcademicQuestion holds
  SensitiveTexts,\* the previews SensitiveContentFilter matches
  MaxSaving      \* bound: study items on their way to the repository

ASSUME ClassifierAssumption ==
  /\ TypeOf \in [Texts -> ContentTypes]
  /\ Academic \subseteq Texts
  /\ SensitiveTexts \subseteq Texts
  /\ MaxSaving \in Nat

VARIABLES
  alive,             \* onCleared has not run
  monitoringEnabled, latestClipboard, isTruncated, suggestedActions,
  actionResult, pendingAiAction, isGenerating, lastAction,
  editingText, followUpResult,   \* the fields of ClipboardUiState
  job,               \* the coroutine of each AI request under way
  saving,            \* study items handed to the repository
  approved,          \* history: texts the user confirmed for the AI
  overlapped,        \* history: an action began while a request was under way
  crossed            \* history: a text was read while a request was under way

resultVars == <<actionResult, isGenerating, lastAction, editingText, followUpResult>>
clipVars   == <<latestClipboard, isTruncated, suggestedActions>>
uiVars     == <<monitoringEnabled, clipVars, resultVars, pendingAiAction>>
histVars   == <<approved, overlapped, crossed>>
vars == <<clip, monVars, alive, uiVars, job, saving, histVars>>

(* A generated text is identified by the action and the text it answers.   *)
Origin == [action : ActionTypes, text : Texts]
(* origin stands for the title of an ActionResult, content for its content.*)
ActionResult == [origin : Origin, content : Origin, isError : BOOLEAN]
(* about is history: the result a follow-up was asked under, if any.       *)
FollowUp == [answer : Origin, about : Origin \cup {Null}]
Job    == [kind : {"action", "followUp"}, action : ActionTypes, text : Texts,
           about : Origin \cup {Null}]
Item   == [type : ActionTypes, content : Origin, sourceText : Texts \cup {Null}]

ASSUME NullAssumption == Null \notin Job

Idle(j) == job[j] = Null
Busy    == \E j \in Jobs : ~Idle(j)
SuggestedFor(t) == Suggestions(TypeOf[t], t \in Academic)

UiTypeOK ==
  /\ alive \in BOOLEAN
  /\ monitoringEnabled \in BOOLEAN
  /\ latestClipboard \in Texts \cup {Null}
  /\ isTruncated \in BOOLEAN
  /\ suggestedActions \in SUBSET ActionTypes
  /\ actionResult \in ActionResult \cup {Null}
  /\ pendingAiAction \in ActionTypes \cup {Null}
  /\ isGenerating \in BOOLEAN
  /\ lastAction \in ActionTypes \cup {Null}
  /\ editingText \in Origin \cup {Null}
  /\ followUpResult \in FollowUp \cup {Null}
  /\ job \in [Jobs -> Job \cup {Null}]
  /\ saving \in SUBSET Item
  /\ approved \in SUBSET Texts
  /\ overlapped \in BOOLEAN
  /\ crossed \in BOOLEAN

TypeOK == MonTypeOK /\ UiTypeOK

Init ==
  /\ MonInit
  /\ alive = TRUE
  /\ monitoringEnabled = FALSE
  /\ latestClipboard = Null
  /\ isTruncated = FALSE
  /\ suggestedActions = {}
  /\ actionResult = Null
  /\ pendingAiAction = Null
  /\ isGenerating = FALSE
  /\ lastAction = Null
  /\ editingText = Null
  /\ followUpResult = Null
  /\ job = [j \in Jobs |-> Null]
  /\ saving = {}
  /\ approved = {}
  /\ overlapped = FALSE
  /\ crossed = FALSE
----------------------------------------------------------------------------
(* Mutant: a new text leaves the old result.                               *)
applyTextOnly(r) ==
  /\ r.kind = "Text"
  /\ latestClipboard' = r.preview
  /\ isTruncated' = r.truncated
  /\ suggestedActions' = SuggestedFor(r.preview)
  /\ crossed' = (crossed \/ Busy)
  /\ UNCHANGED actionResult

(* Mutant: the suggestions outlive the text they were made for.            *)
applyNothingKeepSuggestions(r) ==
  /\ r.kind \in {"Empty", "Sensitive"}
  /\ latestClipboard' = Null
  /\ isTruncated' = FALSE
  /\ UNCHANGED <<suggestedActions, actionResult, crossed>>

(* ClipboardUiState.applyResult, for the result r of a read of the monitor *)
applyText(r) ==
  /\ r.kind = "Text"
  /\ latestClipboard' = r.preview
  /\ isTruncated' = r.truncated
  /\ suggestedActions' = SuggestedFor(r.preview)
  /\ actionResult' = Null
  /\ crossed' = (crossed \/ Busy)

applyNothingToShow(r) ==
  /\ r.kind \in {"Empty", "Sensitive"}
  /\ latestClipboard' = Null
  /\ isTruncated' = FALSE
  /\ suggestedActions' = {}
  /\ UNCHANGED <<actionResult, crossed>>

applyUnavailable(r) ==
  /\ r.kind = "Unavailable"
  /\ suggestedActions' = IF latestClipboard = Null THEN {} ELSE suggestedActions
  /\ UNCHANGED <<latestClipboard, isTruncated, actionResult, crossed>>

noCallback(r) ==
  /\ r = NoResult
  /\ UNCHANGED <<clipVars, actionResult, crossed>>

applyResult(r) ==
  /\ applyText(r) \/ applyNothingToShow(r) \/ applyUnavailable(r) \/ noCallback(r)
  /\ UNCHANGED <<alive, pendingAiAction, isGenerating, lastAction, editingText,
                 followUpResult, job, saving, approved, overlapped>>

setMonitoringEnabled(enabled) ==
  /\ alive
  /\ monitoringEnabled' = enabled
  /\ \E r \in Results : MonSetMonitoringEnabled(enabled, r) /\ applyResult(r)

onWindowFocusChanged(hasFocus) ==
  /\ alive
  /\ \E r \in Results : MonSetHasWindowFocus(hasFocus, r) /\ applyResult(r)
  /\ UNCHANGED monitoringEnabled

onPrimaryClipChanged ==
  /\ alive
  /\ \E r \in Results : MonClipChanged(r) /\ applyResult(r)
  /\ UNCHANGED monitoringEnabled

(* Another application puts a new clip on the system clipboard.            *)
CopyElsewhere(c) ==
  /\ alive
  /\ SetPrimaryClip(c)
  /\ UNCHANGED <<alive, uiVars, job, saving, histVars>>
----------------------------------------------------------------------------
(* ActionHandler.copyToClipboard puts unflagged text on the clipboard.     *)
copyToClipboard(c) == SetPrimaryClip([content |-> c, flagged |-> FALSE])

(* The flag isError of the results ActionHandler computes itself.          *)
LocalOutcomes(action) ==
  IF action \in {"SHOW_STEPS", "FOLLOW_UP"} THEN {FALSE} ELSE BOOLEAN

(* A request suspends its coroutine in the AI engine.                      *)
Launch(j, kind, action, text, about) ==
  /\ Idle(j)
  /\ job' = [job EXCEPT ![j] = [kind |-> kind, action |-> action, text |-> text,
                               about |-> about]]
  /\ isGenerating' = TRUE

(* handleAction of an action the AI engine answers: up to the suspension.  *)
ExecuteEngineAction(action, text) ==
  /\ action \in EngineActionTypes
  /\ \E j \in Jobs : Launch(j, "action", action, text, Null)
  /\ actionResult' = Null
  /\ UNCHANGED <<clip, monVars>>

(* Mutant: only an answer of the engine ends the progress indicator.       *)
ExecuteLocalStillGenerating(action, text) ==
  /\ action \notin EngineActionTypes
  /\ \E isError \in LocalOutcomes(action) :
       LET origin == [action |-> action, text |-> text] IN
       /\ actionResult' =
            [origin |-> origin, content |-> origin, isError |-> isError]
       /\ IF action = "COPY" /\ ~isError
            THEN copyToClipboard(text)
            ELSE UNCHANGED <<clip, monVars>>
  /\ isGenerating' = TRUE
  /\ UNCHANGED job

(* handleAction of an action that does not suspend: to the end of it.      *)
ExecuteLocalAction(action, text) ==
  /\ action \notin EngineActionTypes
  /\ \E isError \in LocalOutcomes(action) :
       LET origin == [action |-> action, text |-> text] IN
       /\ actionResult' =
            [origin |-> origin, content |-> origin, isError |-> isError]
       /\ IF action = "COPY" /\ ~isError
            THEN copyToClipboard(text)
            ELSE UNCHANGED <<clip, monVars>>
  /\ isGenerating' = FALSE
  /\ UNCHANGED job

(* Mutant: a new action leaves the editor open.                            *)
executeActionKeepEdit(action, text) ==
  /\ \/ ExecuteEngineAction(action, text)
     \/ ExecuteLocalAction(action, text)
  /\ lastAction' = action
  /\ followUpResult' = Null
  /\ overlapped' = (overlapped \/ Busy)
  /\ UNCHANGED <<alive, monitoringEnabled, clipVars, editingText, saving, crossed>>

(* Mutant: a new action leaves the old follow-up answer.                   *)
executeActionKeepFollowUp(action, text) ==
  /\ \/ ExecuteEngineAction(action, text)
     \/ ExecuteLocalAction(action, text)
  /\ lastAction' = action
  /\ editingText' = Null
  /\ overlapped' = (overlapped \/ Busy)
  /\ UNCHANGED <<alive, monitoringEnabled, clipVars, followUpResult, saving, crossed>>

executeAction(action, text) ==
  /\ \/ ExecuteEngineAction(action, text)
     \/ ExecuteLocalAction(action, text)
  /\ lastAction' = action
  /\ editingText' = Null
  /\ followUpResult' = Null
  /\ overlapped' = (overlapped \/ Busy)
  /\ UNCHANGED <<alive, monitoringEnabled, clipVars, saving, crossed>>

(* Mutant: an AI action is missing from isAiAction.                        *)
NeedsConfirmationExceptExplain(action, text) ==
  action \in AiActionTypes \ {"EXPLAIN"} /\ text \in SensitiveTexts

NeedsConfirmation(action, text) ==
  action \in AiActionTypes /\ text \in SensitiveTexts

performAction(action) ==
  /\ alive
  /\ latestClipboard # Null
  /\ ~NeedsConfirmation(action, latestClipboard)
  /\ executeAction(action, latestClipboard)
  /\ UNCHANGED <<pendingAiAction, approved>>

performSensitiveAction(action) ==
  /\ alive
  /\ latestClipboard # Null
  /\ NeedsConfirmation(action, latestClipboard)
  /\ pendingAiAction' = action
  /\ UNCHANGED <<clip, monVars, alive, monitoringEnabled, clipVars, resultVars,
                 job, saving, histVars>>

confirmAiAction ==
  /\ alive
  /\ pendingAiAction # Null
  /\ latestClipboard # Null
  /\ pendingAiAction' = Null
  /\ approved' = approved \cup {latestClipboard}
  /\ executeAction(pendingAiAction, latestClipboard)

regenerateAction ==
  /\ alive
  /\ lastAction # Null
  /\ latestClipboard # Null
  /\ executeAction(lastAction, latestClipboard)
  /\ UNCHANGED <<pendingAiAction, approved>>

(* The result on the screen, but for its edits.                            *)
ShownOrigin == IF actionResult = Null THEN Null ELSE actionResult.origin

askFollowUp ==
  /\ alive
  /\ latestClipboard # Null
  /\ \E j \in Jobs :
       Launch(j, "followUp", "FOLLOW_UP", latestClipboard, ShownOrigin)
  /\ overlapped' = (overlapped \/ Busy)
  /\ UNCHANGED <<clip, monVars, alive, monitoringEnabled, clipVars, actionResult,
                 pendingAiAction, lastAction, editingText, followUpResult, saving,
                 approved, crossed>>

(* The engine has answered: the coroutine resumes with the generated text, *)
(* whatever the screen shows by now.                                       *)
ResumeAction(j) ==
  /\ job[j].kind = "action"
  /\ actionResult' =
       LET origin == [action |-> job[j].action, text |-> job[j].text] IN
       [origin |-> origin, content |-> origin, isError |-> FALSE]
  /\ UNCHANGED followUpResult

ResumeFollowUp(j) ==
  /\ job[j].kind = "followUp"
  /\ followUpResult' =
       [answer |-> [action |-> "FOLLOW_UP", text |-> job[j].text],
        about |-> job[j].about]
  /\ UNCHANGED actionResult

(* Mutant: the answer does not end the progress indicator.                 *)
ResumeStillGenerating(j) ==
  /\ alive
  /\ ~Idle(j)
  /\ ResumeAction(j) \/ ResumeFollowUp(j)
  /\ job' = [job EXCEPT ![j] = Null]
  /\ UNCHANGED <<clip, monVars, alive, monitoringEnabled, clipVars, isGenerating,
                 pendingAiAction, lastAction, editingText, saving, histVars>>

Resume(j) ==
  /\ alive
  /\ ~Idle(j)
  /\ ResumeAction(j) \/ ResumeFollowUp(j)
  /\ isGenerating' = FALSE
  /\ job' = [job EXCEPT ![j] = Null]
  /\ UNCHANGED <<clip, monVars, alive, monitoringEnabled, clipVars,
                 pendingAiAction, lastAction, editingText, saving, histVars>>
----------------------------------------------------------------------------
(* What the handlers that only edit the result leave alone.                *)
UnchangedByEditing ==
  UNCHANGED <<clip, monVars, alive, monitoringEnabled, clipVars, isGenerating,
              lastAction, followUpResult, job, saving, histVars>>

cancelAiAction ==
  /\ alive
  /\ pendingAiAction' = Null
  /\ UNCHANGED <<actionResult, editingText>>
  /\ UnchangedByEditing

(* Mutant: the editor takes the whole result instead of its content.       *)
startEditingResult ==
  /\ alive
  /\ actionResult # Null
  /\ editingText' = actionResult
  /\ UNCHANGED <<actionResult, pendingAiAction>>
  /\ UnchangedByEditing

startEditing ==
  /\ alive
  /\ actionResult # Null
  /\ editingText' = actionResult.content
  /\ UNCHANGED <<actionResult, pendingAiAction>>
  /\ UnchangedByEditing

(* updateEditingText changes the characters, not what they are an edit of. *)
saveEdit ==
  /\ alive
  /\ editingText # Null
  /\ actionResult' = IF actionResult = Null THEN Null
                     ELSE [actionResult EXCEPT !.content = editingText]
  /\ editingText' = Null
  /\ UNCHANGED pendingAiAction
  /\ UnchangedByEditing

cancelEdit ==
  /\ alive
  /\ editingText' = Null
  /\ UNCHANGED <<actionResult, pendingAiAction>>
  /\ UnchangedByEditing

clearActionResult ==
  /\ alive
  /\ actionResult' = Null
  /\ UNCHANGED <<editingText, pendingAiAction>>
  /\ UnchangedByEditing

(* copyText: the user copies a generated text, which is no protected one.  *)
(* A copy that fails changes nothing.                                      *)
copyText(c) ==
  /\ alive
  /\ copyToClipboard(c)
  /\ UNCHANGED <<alive, uiVars, job, saving, histVars>>
----------------------------------------------------------------------------
(* saveStudyItem: the item is put together from the state of the click.    *)
SaveItem(item) ==
  /\ alive
  /\ Cardinality(saving \cup {item}) <= MaxSaving
  /\ saving' = saving \cup {item}
  /\ UNCHANGED <<clip, monVars, alive, uiVars, job, histVars>>

saveStudyItem ==
  /\ actionResult # Null
  /\ SaveItem([type |-> actionResult.origin.action,
               content |-> actionResult.content,
               sourceText |-> latestClipboard])

(* Mutant: a follow-up answer is saved under the type of the result.       *)
saveFollowUpAsResult ==
  /\ followUpResult # Null
  /\ actionResult # Null
  /\ SaveItem([type |-> actionResult.origin.action, content |-> followUpResult.answer,
               sourceText |-> latestClipboard])

saveFollowUp ==
  /\ followUpResult # Null
  /\ SaveItem([type |-> "FOLLOW_UP", content |-> followUpResult.answer,
               sourceText |-> latestClipboard])

(* studyRepository.insertItem returns and the coroutine resumes.           *)
ItemInserted(item) ==
  /\ alive
  /\ saving' = saving \ {item}
  /\ UNCHANGED <<clip, monVars, alive, uiVars, job, histVars>>

(* The scope is cancelled with every coroutine in it, then onCleared       *)
(* releases the monitor and the engine.                                    *)
onCleared ==
  /\ alive
  /\ alive' = FALSE
  /\ MonRelease
  /\ job' = [j \in Jobs |-> Null]
  /\ saving' = {}
  /\ UNCHANGED <<uiVars, histVars>>
----------------------------------------------------------------------------
(* The actions that some preview suggests.                                 *)
Offerable == UNION {SuggestedFor(t) : t \in Texts}

Environment ==
  \/ \E c \in ForeignClips : CopyElsewhere(c)
  \/ \E hasFocus \in BOOLEAN : onWindowFocusChanged(hasFocus)
  \/ onCleared

Internal ==
  \/ onPrimaryClipChanged
  \/ \E j \in Jobs : Resume(j)
  \/ \E item \in saving : ItemInserted(item)

User ==
  \/ \E enabled \in BOOLEAN : setMonitoringEnabled(enabled)
  \/ \E action \in Offerable : performAction(action)
  \/ \E action \in Offerable : performSensitiveAction(action)
  \/ confirmAiAction
  \/ cancelAiAction
  \/ regenerateAction
  \/ askFollowUp
  \/ startEditing
  \/ saveEdit
  \/ cancelEdit
  \/ clearActionResult
  \/ \E c \in Contents \ Protected : copyText(c)
  \/ saveStudyItem
  \/ saveFollowUp

Next == Environment \/ Internal \/ User

Spec == Init /\ [][Next]_vars

(* The main looper runs what is posted to it, and the engine answers       *)
(* (LocalAIEngine!ImplementsService).                                      *)
Fairness ==
  /\ WF_vars(onPrimaryClipChanged)
  /\ \A j \in Jobs : WF_vars(Resume(j))
----------------------------------------------------------------------------
(* ClipboardMonitor's contract, "reads text from the system clipboard only *)
(* while monitoring is on and the app has window focus": a text that       *)
(* appears on the screen comes from a read in a state where both hold, and *)
(* is the preview of the unflagged clip that is on the clipboard then.     *)
ReadsOnlyWhenAllowed ==
  [][latestClipboard' \notin {latestClipboard, Null} =>
       /\ monEnabled' /\ monFocus'
       /\ clip' # NoClip
       /\ ~isSensitive(clip')
       /\ latestClipboard' = PreviewOf[clip'.content]]_vars

(* The generated text o was made from a text the application may see.      *)
MadeFromVisible(o) == o = Null \/ o.text \in Visible

(* A text that is only ever copied with EXTRA_IS_SENSITIVE gets nowhere in *)
(* the application: not on the screen, not to the AI engine, not into a    *)
(* result or an edit of one, and not into the study library.               *)
NoProtectedText ==
  /\ latestClipboard \in Visible \cup {Null}
  /\ \A j \in Jobs : ~Idle(j) => job[j].text \in Visible
  /\ actionResult # Null =>
       MadeFromVisible(actionResult.origin) /\ MadeFromVisible(actionResult.content)
  /\ MadeFromVisible(editingText)
  /\ followUpResult # Null => MadeFromVisible(followUpResult.answer)
  /\ \A item \in saving :
       MadeFromVisible(item.content) /\ item.sourceText \in Visible \cup {Null}

(* What the screen shows for a clip.                                       *)
Shown(c) ==
  IF c = NoClip \/ (c # NoClip /\ (isSensitive(c) \/ c.content \in Blank))
    THEN Null ELSE PreviewOf[c.content]

(* While monitoring is on and the window has focus, the screen shows what  *)
(* is on the clipboard, unless a change report is on its way or the        *)
(* clipboard manager refused the last read: none of the three occasions on *)
(* which the monitor reads is missing.                                     *)
DisplayFresh ==
  alive /\ monEnabled /\ monFocus /\ ~notice /\ ~refused =>
    latestClipboard = Shown(clip)

(* The content type's suggestions and the truncation note belong to the    *)
(* text on the screen, whichever results of applyResult led to it.         *)
DerivedFieldsMatch ==
  /\ suggestedActions =
       IF latestClipboard = Null THEN {} ELSE SuggestedFor(latestClipboard)
  /\ isTruncated <=> latestClipboard \in Truncated

(* The progress indicator: it never runs without a request under way, and  *)
(* it runs during every request as long as no action begins during another *)
(* (executeAction and askFollowUp reset the one flag isGenerating when     *)
(* they end, whatever else is under way).                                  *)
IndicatorTruthful ==
  alive => /\ isGenerating => Busy
           /\ Busy /\ ~overlapped => isGenerating

(* The progress indicator stops, whatever the user does meanwhile.         *)
IndicatorEnds == isGenerating ~> (~isGenerating \/ ~alive)

(* A screen that keeps monitoring and focus catches up with the clipboard. *)
DisplayCatchesUp ==
  <>[](alive /\ monEnabled /\ monFocus) =>
    []<>(refused \/ latestClipboard = Shown(clip))
============================================================================
