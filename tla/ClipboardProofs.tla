--------------------------- MODULE ClipboardProofs ---------------------------
(***************************************************************************)
(* Proofs about the view model for every set of contents, texts and        *)
(* requests.  They are about Spec, in which every public method may be     *)
(* called in any state.  The last part is about the view model behind its  *)
(* screen: the screen implements Spec, so all of this holds of it as well, *)
(* and more is true.                                                       *)
(***************************************************************************)
EXTENDS ContextAiScreen, TLAPS

LEMMA SuggestionsAreActions == \A t \in Texts : SuggestedFor(t) \in SUBSET ActionTypes
<1> SUFFICES ASSUME NEW t \in Texts PROVE SuggestedFor(t) \in SUBSET ActionTypes
  OBVIOUS
<1>1. TypeOf[t] \in ContentTypes
  BY ClassifierAssumption
<1> QED
  BY <1>1 DEF SuggestedFor, Suggestions, ContentTypes, ActionTypes

(* What a read hands to the view model.                                    *)
LEMMA TextResults ==
  ASSUME NEW r \in Results, r.kind = "Text"
  PROVE  r.preview \in Texts /\ r.truncated \in BOOLEAN
BY DEF Results, Outcome

LEMMA ApplyResultType ==
  ASSUME TypeOK, NEW r \in Results, applyResult(r), monitoringEnabled' \in BOOLEAN
  PROVE  UiTypeOK'
<1> USE DEF TypeOK, UiTypeOK, applyResult, clipVars
<1>1. CASE applyText(r)
  BY <1>1, TextResults, SuggestionsAreActions DEF applyText, Busy, Idle
<1>2. CASE applyNothingToShow(r)
  BY <1>2 DEF applyNothingToShow
<1>3. CASE applyUnavailable(r)
  BY <1>3 DEF applyUnavailable
<1>4. CASE noCallback(r)
  BY <1>4 DEF noCallback
<1> QED
  BY <1>1, <1>2, <1>3, <1>4

LEMMA ForeignClipType == ForeignClips \subseteq Clips
BY PreviewAssumption DEF ForeignClips, Clips

LEMMA TypeInit == Init => TypeOK
<1> SUFFICES ASSUME Init PROVE TypeOK
  OBVIOUS
<1>1. MonTypeOK
  BY ForeignClipType DEF Init, MonInit, MonTypeOK
<1>2. UiTypeOK
  BY DEF Init, UiTypeOK
<1> QED
  BY <1>1, <1>2 DEF TypeOK

(* The monitor's actions keep its types.                                   *)
LEMMA MonitorType ==
  ASSUME MonTypeOK, NEW r \in Results, NEW b \in BOOLEAN,
         \/ MonSetMonitoringEnabled(b, r)
         \/ MonSetHasWindowFocus(b, r)
         \/ MonClipChanged(r)
  PROVE  MonTypeOK'
<1> USE DEF MonTypeOK, tryRead
<1>1. CASE MonSetMonitoringEnabled(b, r)
  BY <1>1 DEF MonSetMonitoringEnabled, registerListener, unregisterListener
<1>2. CASE MonSetHasWindowFocus(b, r)
  BY <1>2 DEF MonSetHasWindowFocus
<1>3. CASE MonClipChanged(r)
  BY <1>3 DEF MonClipChanged
<1> QED
  BY <1>1, <1>2, <1>3

LEMMA SetClipType ==
  ASSUME MonTypeOK, NEW c \in Clips, SetPrimaryClip(c)
  PROVE  MonTypeOK'
BY DEF MonTypeOK, SetPrimaryClip

LEMMA CopyType ==
  ASSUME MonTypeOK, NEW c \in Contents, copyToClipboard(c)
  PROVE  MonTypeOK'
<1>1. [content |-> c, flagged |-> FALSE] \in Clips
  BY DEF Clips
<1> QED
  BY <1>1, SetClipType DEF copyToClipboard

LEMMA ShownOriginType ==
  ASSUME TypeOK
  PROVE  ShownOrigin \in Origin \cup {Null}
BY DEF ShownOrigin, TypeOK, UiTypeOK, ActionResult

LEMMA LaunchType ==
  ASSUME TypeOK, NEW j \in Jobs, NEW kind \in {"action", "followUp"},
         NEW action \in ActionTypes, NEW text \in Texts,
         NEW about \in Origin \cup {Null}, Launch(j, kind, action, text, about)
  PROVE  job' \in [Jobs -> Job \cup {Null}] /\ isGenerating' \in BOOLEAN
<1>1. [kind |-> kind, action |-> action, text |-> text, about |-> about] \in Job
  BY DEF Job
<1> QED
  BY <1>1 DEF TypeOK, UiTypeOK, Launch

LEMMA ExecuteType ==
  ASSUME TypeOK, NEW action \in ActionTypes, NEW text \in Texts,
         executeAction(action, text),
         pendingAiAction' \in ActionTypes \cup {Null},
         approved' \in SUBSET Texts
  PROVE  TypeOK'
<1>1. CASE ExecuteEngineAction(action, text)
  <2>1. MonTypeOK'
    BY <1>1 DEF ExecuteEngineAction, TypeOK, MonTypeOK, monVars
  <2>2. job' \in [Jobs -> Job \cup {Null}] /\ isGenerating' \in BOOLEAN
    BY <1>1, LaunchType DEF ExecuteEngineAction
  <2>3. UiTypeOK'
    BY <1>1, <2>2
    DEF ExecuteEngineAction, executeAction, TypeOK, UiTypeOK, clipVars, Busy, Idle
  <2> QED
    BY <2>1, <2>3 DEF TypeOK
<1>2. CASE ExecuteLocalAction(action, text)
  <2>1. PICK isError \in BOOLEAN :
          /\ actionResult' =
               [origin |-> [action |-> action, text |-> text],
                content |-> [action |-> action, text |-> text],
                isError |-> isError]
          /\ IF action = "COPY" /\ ~isError
               THEN copyToClipboard(text)
               ELSE UNCHANGED <<clip, monVars>>
    BY <1>2 DEF ExecuteLocalAction, LocalOutcomes
  <2>2. MonTypeOK'
    <3>1. CASE copyToClipboard(text)
      BY <3>1, CopyType, PreviewAssumption DEF TypeOK
    <3>2. CASE UNCHANGED <<clip, monVars>>
      BY <3>2 DEF TypeOK, MonTypeOK, monVars
    <3> QED
      BY <2>1, <3>1, <3>2
  <2>3. actionResult' \in ActionResult
    BY <2>1 DEF ActionResult, Origin
  <2>4. UiTypeOK'
    BY <1>2, <2>3
    DEF ExecuteLocalAction, executeAction, TypeOK, UiTypeOK, clipVars, Busy, Idle
  <2> QED
    BY <2>2, <2>4 DEF TypeOK
<1> QED
  BY <1>1, <1>2 DEF executeAction

LEMMA ActionTypeFacts ==
  /\ EngineActionTypes \subseteq ActionTypes
  /\ "FOLLOW_UP" \in ActionTypes
  /\ Offerable \subseteq ActionTypes
BY SuggestionsAreActions DEF EngineActionTypes, ActionTypes, Offerable

(* The three ways a read reaches the view model.                           *)
LEMMA EnabledType ==
  ASSUME TypeOK, NEW b \in BOOLEAN, setMonitoringEnabled(b)
  PROVE  TypeOK'
<1>1. PICK r \in Results : MonSetMonitoringEnabled(b, r) /\ applyResult(r)
  BY DEF setMonitoringEnabled
<1>2. MonTypeOK'
  BY <1>1, MonitorType DEF TypeOK
<1>3. UiTypeOK'
  BY <1>1, ApplyResultType DEF setMonitoringEnabled
<1> QED
  BY <1>2, <1>3 DEF TypeOK

LEMMA FocusType ==
  ASSUME TypeOK, NEW b \in BOOLEAN, onWindowFocusChanged(b)
  PROVE  TypeOK'
<1>1. PICK r \in Results : MonSetHasWindowFocus(b, r) /\ applyResult(r)
  BY DEF onWindowFocusChanged
<1>2. MonTypeOK'
  BY <1>1, MonitorType DEF TypeOK
<1>3. UiTypeOK'
  BY <1>1, ApplyResultType DEF onWindowFocusChanged, TypeOK, UiTypeOK
<1> QED
  BY <1>2, <1>3 DEF TypeOK

LEMMA ClipChangedType ==
  ASSUME TypeOK, onPrimaryClipChanged
  PROVE  TypeOK'
<1>1. PICK r \in Results : MonClipChanged(r) /\ applyResult(r)
  BY DEF onPrimaryClipChanged
<1>2. MonTypeOK'
  BY <1>1, MonitorType DEF TypeOK
<1>3. UiTypeOK'
  BY <1>1, ApplyResultType DEF onPrimaryClipChanged, TypeOK, UiTypeOK
<1> QED
  BY <1>2, <1>3 DEF TypeOK

LEMMA AskType ==
  ASSUME TypeOK,
         \/ \E action \in Offerable : performAction(action)
         \/ \E action \in Offerable : performSensitiveAction(action)
         \/ confirmAiAction
         \/ regenerateAction
         \/ askFollowUp
  PROVE  TypeOK'
<1>1. ASSUME NEW action \in Offerable, performAction(action) PROVE TypeOK'
  <2>1. latestClipboard \in Texts /\ action \in ActionTypes
    BY <1>1, ActionTypeFacts DEF performAction, TypeOK, UiTypeOK
  <2> QED
    BY <1>1, <2>1, ExecuteType DEF performAction, TypeOK, UiTypeOK
<1>2. ASSUME NEW action \in Offerable, performSensitiveAction(action) PROVE TypeOK'
  BY <1>2, ActionTypeFacts
  DEF performSensitiveAction, TypeOK, UiTypeOK, MonTypeOK, monVars, clipVars,
      resultVars, histVars
<1>3. CASE confirmAiAction
  <2>1. latestClipboard \in Texts /\ pendingAiAction \in ActionTypes
    BY <1>3 DEF confirmAiAction, TypeOK, UiTypeOK
  <2> QED
    BY <1>3, <2>1, ExecuteType DEF confirmAiAction, TypeOK, UiTypeOK
<1>4. CASE regenerateAction
  <2>1. latestClipboard \in Texts /\ lastAction \in ActionTypes
    BY <1>4 DEF regenerateAction, TypeOK, UiTypeOK
  <2> QED
    BY <1>4, <2>1, ExecuteType DEF regenerateAction, TypeOK, UiTypeOK
<1>5. CASE askFollowUp
  <2>1. PICK j \in Jobs :
          Launch(j, "followUp", "FOLLOW_UP", latestClipboard, ShownOrigin)
    BY <1>5 DEF askFollowUp
  <2>2. latestClipboard \in Texts
    BY <1>5 DEF askFollowUp, TypeOK, UiTypeOK
  <2>3. job' \in [Jobs -> Job \cup {Null}] /\ isGenerating' \in BOOLEAN
    BY <2>1, <2>2, LaunchType, ActionTypeFacts, ShownOriginType
  <2> QED
    BY <1>5, <2>3
    DEF askFollowUp, TypeOK, UiTypeOK, MonTypeOK, monVars, clipVars, Busy, Idle
<1> QED
  BY <1>1, <1>2, <1>3, <1>4, <1>5

LEMMA ResumeType ==
  ASSUME TypeOK, NEW j \in Jobs, Resume(j)
  PROVE  TypeOK'
<1>1. job[j] \in Job
  BY DEF Resume, Idle, TypeOK, UiTypeOK
<1>2. MonTypeOK'
  BY DEF Resume, TypeOK, MonTypeOK, monVars
<1>3. /\ actionResult' \in ActionResult \cup {Null}
      /\ followUpResult' \in FollowUp \cup {Null}
  <2>1. CASE ResumeAction(j)
    BY <1>1, <2>1 DEF ResumeAction, ActionResult, Origin, Job, TypeOK, UiTypeOK
  <2>2. CASE ResumeFollowUp(j)
    BY <1>1, <2>2, ActionTypeFacts
    DEF ResumeFollowUp, FollowUp, Origin, Job, TypeOK, UiTypeOK
  <2> QED
    BY <2>1, <2>2 DEF Resume
<1>4. UiTypeOK'
  BY <1>3 DEF Resume, TypeOK, UiTypeOK, clipVars, histVars
<1> QED
  BY <1>2, <1>4 DEF TypeOK

LEMMA EditType ==
  ASSUME TypeOK,
         \/ cancelAiAction
         \/ startEditing
         \/ saveEdit
         \/ cancelEdit
         \/ clearActionResult
  PROVE  TypeOK'
<1>1. /\ actionResult' \in ActionResult \cup {Null}
      /\ editingText' \in Origin \cup {Null}
      /\ pendingAiAction' \in ActionTypes \cup {Null}
      /\ UnchangedByEditing
  BY DEF cancelAiAction, startEditing, saveEdit, cancelEdit, clearActionResult,
         ActionResult, TypeOK, UiTypeOK
<1> QED
  BY <1>1 DEF UnchangedByEditing, TypeOK, UiTypeOK, MonTypeOK, monVars, clipVars,
              histVars

LEMMA SaveType ==
  ASSUME TypeOK,
         \/ saveStudyItem
         \/ saveFollowUp
         \/ \E item \in saving : ItemInserted(item)
  PROVE  TypeOK'
<1> USE DEF TypeOK, UiTypeOK, MonTypeOK, monVars, uiVars, clipVars, resultVars, histVars
<1>1. CASE saveStudyItem
  <2>1. [type |-> actionResult.origin.action, content |-> actionResult.content,
         sourceText |-> latestClipboard] \in Item
    BY <1>1 DEF saveStudyItem, ActionResult, Origin, Item
  <2> QED
    BY <1>1, <2>1 DEF saveStudyItem, SaveItem
<1>2. CASE saveFollowUp
  <2>1. [type |-> "FOLLOW_UP", content |-> followUpResult.answer,
         sourceText |-> latestClipboard] \in Item
    BY <1>2, ActionTypeFacts DEF saveFollowUp, FollowUp, Item
  <2> QED
    BY <1>2, <2>1 DEF saveFollowUp, SaveItem
<1>3. CASE \E item \in saving : ItemInserted(item)
  BY <1>3 DEF ItemInserted
<1> QED
  BY <1>1, <1>2, <1>3

LEMMA SystemType ==
  ASSUME TypeOK,
         \/ \E c \in ForeignClips : CopyElsewhere(c)
         \/ \E c \in Contents \ Protected : copyText(c)
         \/ onCleared
  PROVE  TypeOK'
<1> USE DEF uiVars, clipVars, resultVars, histVars
<1>1. ASSUME NEW c \in ForeignClips, CopyElsewhere(c) PROVE TypeOK'
  <2>1. c \in Clips /\ MonTypeOK /\ SetPrimaryClip(c)
    BY <1>1, ForeignClipType DEF CopyElsewhere, TypeOK
  <2>2. MonTypeOK'
    BY <2>1, SetClipType
  <2> QED
    BY <1>1, <2>2 DEF CopyElsewhere, TypeOK, UiTypeOK
<1>2. ASSUME NEW c \in Contents, copyText(c) PROVE TypeOK'
  <2>1. MonTypeOK'
    BY <1>2, CopyType DEF copyText, TypeOK
  <2> QED
    BY <1>2, <2>1 DEF copyText, TypeOK, UiTypeOK
<1>3. CASE onCleared
  <2>1. MonTypeOK'
    BY <1>3 DEF onCleared, MonRelease, unregisterListener, TypeOK, MonTypeOK
  <2>2. job' \in [Jobs -> Job \cup {Null}]
    BY <1>3 DEF onCleared
  <2>3. UiTypeOK'
    BY <1>3, <2>2 DEF onCleared, TypeOK, UiTypeOK
  <2> QED
    BY <2>1, <2>3 DEF TypeOK
<1> QED
  BY <1>1, <1>2, <1>3

LEMMA TypeStep == TypeOK /\ [Next]_vars => TypeOK'
<1> SUFFICES ASSUME TypeOK, [Next]_vars PROVE TypeOK'
  OBVIOUS
<1>1. CASE Environment
  BY <1>1, FocusType, SystemType DEF Environment
<1>2. CASE Internal
  BY <1>2, ClipChangedType, ResumeType, SaveType DEF Internal
<1>3. CASE User
  BY <1>3, EnabledType, AskType, EditType, SystemType, SaveType DEF User
<1>4. CASE UNCHANGED vars
  BY <1>4 DEF vars, monVars, uiVars, clipVars, resultVars, histVars, TypeOK,
              MonTypeOK, UiTypeOK
<1> QED
  BY <1>1, <1>2, <1>3, <1>4 DEF Next

(* Every variable of the view model and the monitor keeps its type.        *)
THEOREM TypeCorrect == Spec => []TypeOK
<1>1. Init => TypeOK
  BY TypeInit
<1>2. TypeOK /\ [Next]_vars => TypeOK'
  BY TypeStep
<1> QED
  BY <1>1, <1>2, PTL DEF Spec
----------------------------------------------------------------------------
(***************************************************************************)
(* The progress indicator.  IndicatorTruthful is not inductive: that one   *)
(* answer ends the indicator rightly rests on there being no other request *)
(* under way, for as long as no action began during another (AtMostOne).   *)
(***************************************************************************)
AtMostOne ==
  ~overlapped => \A i, j \in Jobs : ~Idle(i) /\ ~Idle(j) => i = j

IndicatorInv == TypeOK /\ AtMostOne /\ IndicatorTruthful

LEMMA IndicatorInit == Init => IndicatorInv
<1> SUFFICES ASSUME Init PROVE IndicatorInv
  OBVIOUS
<1>1. TypeOK
  BY TypeInit
<1>2. AtMostOne /\ IndicatorTruthful
  BY DEF Init, AtMostOne, IndicatorTruthful, Busy, Idle
<1> QED
  BY <1>1, <1>2 DEF IndicatorInv

LEMMA LaunchFacts ==
  ASSUME TypeOK, NEW j \in Jobs, NEW kind \in {"action", "followUp"},
         NEW action \in ActionTypes, NEW text \in Texts,
         NEW about \in Origin \cup {Null}, Launch(j, kind, action, text, about)
  PROVE  /\ job'[j] # Null
         /\ \A i \in Jobs : i # j => job'[i] = job[i]
         /\ isGenerating'
<1>1. [kind |-> kind, action |-> action, text |-> text, about |-> about] \in Job
  BY DEF Job
<1>2. job \in [Jobs -> Job \cup {Null}]
  BY DEF TypeOK, UiTypeOK
<1> QED
  BY <1>1, <1>2, NullAssumption DEF Launch

(* A request that begins: it is under way, and alone unless another is.    *)
LEMMA LaunchIndicates ==
  ASSUME IndicatorInv, NEW kind \in {"action", "followUp"},
         NEW action \in ActionTypes, NEW text \in Texts,
         NEW about \in Origin \cup {Null},
         \E j \in Jobs : Launch(j, kind, action, text, about),
         overlapped' = (overlapped \/ Busy)
  PROVE  AtMostOne' /\ IndicatorTruthful'
<1>1. PICK j \in Jobs : Launch(j, kind, action, text, about)
  OBVIOUS
<1>2. /\ job'[j] # Null
      /\ \A i \in Jobs : i # j => job'[i] = job[i]
      /\ isGenerating'
  BY <1>1, LaunchFacts DEF IndicatorInv
<1>3. Busy'
  BY <1>2 DEF Busy, Idle
<1>4. AtMostOne'
  <2>1. CASE Busy
    BY <2>1 DEF AtMostOne
  <2>2. CASE ~Busy
    BY <1>2, <2>2 DEF AtMostOne, Busy, Idle
  <2> QED
    BY <2>1, <2>2
<1>5. IndicatorTruthful'
  BY <1>2, <1>3 DEF IndicatorTruthful
<1> QED
  BY <1>4, <1>5

LEMMA ExecuteIndicates ==
  ASSUME IndicatorInv, NEW action \in ActionTypes, NEW text \in Texts,
         executeAction(action, text)
  PROVE  AtMostOne' /\ IndicatorTruthful'
<1>1. CASE ExecuteEngineAction(action, text)
  BY <1>1, LaunchIndicates DEF executeAction, ExecuteEngineAction
<1>2. CASE ExecuteLocalAction(action, text)
  <2>1. /\ job' = job
        /\ ~isGenerating'
        /\ overlapped' = (overlapped \/ Busy)
    BY <1>2 DEF executeAction, ExecuteLocalAction
  <2>2. Busy' <=> Busy
    BY <2>1 DEF Busy, Idle
  <2>3. AtMostOne'
    BY <2>1 DEF IndicatorInv, AtMostOne, Idle
  <2>4. IndicatorTruthful'
    BY <2>1, <2>2 DEF IndicatorTruthful
  <2> QED
    BY <2>3, <2>4
<1> QED
  BY <1>1, <1>2 DEF executeAction

LEMMA AskIndicates ==
  ASSUME IndicatorInv,
         \/ \E action \in Offerable : performAction(action)
         \/ confirmAiAction
         \/ regenerateAction
         \/ askFollowUp
  PROVE  AtMostOne' /\ IndicatorTruthful'
<1>1. /\ latestClipboard # Null => latestClipboard \in Texts
      /\ pendingAiAction # Null => pendingAiAction \in ActionTypes
      /\ lastAction # Null => lastAction \in ActionTypes
  BY DEF IndicatorInv, TypeOK, UiTypeOK
<1>2. ASSUME NEW action \in Offerable, performAction(action)
      PROVE  AtMostOne' /\ IndicatorTruthful'
  BY <1>1, <1>2, ActionTypeFacts, ExecuteIndicates DEF performAction
<1>3. CASE confirmAiAction
  BY <1>1, <1>3, ExecuteIndicates DEF confirmAiAction
<1>4. CASE regenerateAction
  BY <1>1, <1>4, ExecuteIndicates DEF regenerateAction
<1>5. CASE askFollowUp
  BY <1>1, <1>5, ActionTypeFacts, LaunchIndicates, ShownOriginType
  DEF askFollowUp, IndicatorInv
<1> QED
  BY <1>2, <1>3, <1>4, <1>5

(* An answer: the last one, unless requests have overlapped.               *)
LEMMA ResumeIndicates ==
  ASSUME IndicatorInv, NEW j \in Jobs, Resume(j)
  PROVE  AtMostOne' /\ IndicatorTruthful'
<1>1. /\ ~Idle(j)
      /\ job'[j] = Null
      /\ \A i \in Jobs : i # j => job'[i] = job[i]
      /\ ~isGenerating'
      /\ overlapped' = overlapped
  BY DEF Resume, histVars, IndicatorInv, TypeOK, UiTypeOK
<1>2. AtMostOne'
  BY <1>1 DEF IndicatorInv, AtMostOne, Idle
<1>3. ~overlapped => ~Busy'
  BY <1>1 DEF IndicatorInv, AtMostOne, Busy, Idle
<1>4. IndicatorTruthful'
  BY <1>1, <1>3 DEF IndicatorTruthful
<1> QED
  BY <1>2, <1>4

LEMMA QuietIndicates ==
  ASSUME IndicatorInv, UNCHANGED <<alive, isGenerating, job, overlapped>>
  PROVE  AtMostOne' /\ IndicatorTruthful'
BY DEF IndicatorInv, AtMostOne, IndicatorTruthful, Busy, Idle

LEMMA OtherIndicates ==
  ASSUME IndicatorInv,
         \/ \E c \in ForeignClips : CopyElsewhere(c)
         \/ \E b \in BOOLEAN : onWindowFocusChanged(b)
         \/ onCleared
         \/ onPrimaryClipChanged
         \/ \E item \in saving : ItemInserted(item)
         \/ \E b \in BOOLEAN : setMonitoringEnabled(b)
         \/ \E action \in Offerable : performSensitiveAction(action)
         \/ cancelAiAction \/ startEditing \/ saveEdit \/ cancelEdit
         \/ clearActionResult
         \/ \E c \in Contents \ Protected : copyText(c)
         \/ saveStudyItem \/ saveFollowUp
         \/ UNCHANGED vars
  PROVE  AtMostOne' /\ IndicatorTruthful'
<1>1. CASE onCleared
  BY <1>1 DEF onCleared, AtMostOne, IndicatorTruthful, Idle
<1>2. CASE \/ \E b \in BOOLEAN : onWindowFocusChanged(b)
           \/ onPrimaryClipChanged
           \/ \E b \in BOOLEAN : setMonitoringEnabled(b)
  <2>1. UNCHANGED <<alive, isGenerating, job, overlapped>>
    BY <1>2 DEF onWindowFocusChanged, onPrimaryClipChanged, setMonitoringEnabled,
                applyResult
  <2> QED
    BY <2>1, QuietIndicates
<1>3. CASE \/ \E c \in ForeignClips : CopyElsewhere(c)
           \/ \E c \in Contents \ Protected : copyText(c)
           \/ \E action \in Offerable : performSensitiveAction(action)
  <2>1. UNCHANGED <<alive, isGenerating, job, overlapped>>
    BY <1>3 DEF CopyElsewhere, copyText, performSensitiveAction, uiVars,
                resultVars, histVars
  <2> QED
    BY <2>1, QuietIndicates
<1>4. CASE cancelAiAction \/ startEditing \/ saveEdit \/ cancelEdit \/ clearActionResult
  <2>1. UNCHANGED <<alive, isGenerating, job, overlapped>>
    BY <1>4 DEF cancelAiAction, startEditing, saveEdit, cancelEdit,
                clearActionResult, UnchangedByEditing, histVars
  <2> QED
    BY <2>1, QuietIndicates
<1>5. CASE saveStudyItem \/ saveFollowUp \/ (\E item \in saving : ItemInserted(item))
  <2>1. UNCHANGED <<alive, isGenerating, job, overlapped>>
    BY <1>5 DEF saveStudyItem, saveFollowUp, SaveItem, ItemInserted, uiVars,
                resultVars, histVars
  <2> QED
    BY <2>1, QuietIndicates
<1>6. CASE UNCHANGED vars
  <2>1. UNCHANGED <<alive, isGenerating, job, overlapped>>
    BY <1>6 DEF vars, uiVars, resultVars, histVars
  <2> QED
    BY <2>1, QuietIndicates
<1> QED
  BY <1>1, <1>2, <1>3, <1>4, <1>5, <1>6

LEMMA IndicatorStep == IndicatorInv /\ [Next]_vars => IndicatorInv'
<1> SUFFICES ASSUME IndicatorInv, [Next]_vars PROVE IndicatorInv'
  OBVIOUS
<1>1. TypeOK'
  BY TypeStep DEF IndicatorInv
<1>2. AtMostOne' /\ IndicatorTruthful'
  <2>1. CASE Environment
    BY <2>1, OtherIndicates DEF Environment
  <2>2. CASE Internal
    BY <2>2, OtherIndicates, ResumeIndicates DEF Internal
  <2>3. CASE User
    BY <2>3, OtherIndicates, AskIndicates DEF User
  <2>4. CASE UNCHANGED vars
    BY <2>4, OtherIndicates
  <2> QED
    BY <2>1, <2>2, <2>3, <2>4 DEF Next
<1> QED
  BY <1>1, <1>2 DEF IndicatorInv

(* The progress indicator never runs without a request under way, and runs *)
(* during every request while no action has begun during another           *)
(* (executeAction, askFollowUp).                                           *)
THEOREM IndicatorIsTruthful == Spec => []IndicatorTruthful
<1>1. Init => IndicatorInv
  BY IndicatorInit
<1>2. IndicatorInv /\ [Next]_vars => IndicatorInv'
  BY IndicatorStep
<1>3. IndicatorInv => IndicatorTruthful
  BY DEF IndicatorInv
<1> QED
  BY <1>1, <1>2, <1>3, PTL DEF Spec

----------------------------------------------------------------------------
(***************************************************************************)
(* A text that other applications only copy with the sensitive flag gets   *)
(* nowhere in the application.  NoProtectedText is not inductive: the      *)
(* application itself writes texts to the clipboard, without the flag, and *)
(* reads them back.  The invariant therefore also speaks of the clipboard: *)
(* what a read would return is visible already (ClipClear).                *)
(***************************************************************************)
ClipClear ==
  clip # NoClip /\ ~isSensitive(clip) /\ clip.content \notin Blank =>
    PreviewOf[clip.content] \in Visible

PrivacyInv == TypeOK /\ ClipClear /\ NoProtectedText

LEMMA VisibleTexts == Visible \subseteq Texts
BY PreviewAssumption DEF Visible

LEMMA ForeignClear ==
  ASSUME NEW c \in ForeignClips, c # NoClip, ~isSensitive(c), c.content \notin Blank
  PROVE  PreviewOf[c.content] \in Visible
BY PreviewAssumption DEF ForeignClips, isSensitive, Visible

LEMMA PrivacyInit == Init => PrivacyInv
<1> SUFFICES ASSUME Init PROVE PrivacyInv
  OBVIOUS
<1>1. TypeOK
  BY TypeInit
<1>2. ClipClear
  BY ForeignClear DEF Init, MonInit, ClipClear
<1>3. NoProtectedText
  BY DEF Init, NoProtectedText, MadeFromVisible, Idle
<1> QED
  BY <1>1, <1>2, <1>3 DEF PrivacyInv

(* A read returns nothing that is not visible.                             *)
LEMMA ReadClear ==
  ASSUME PrivacyInv, NEW r \in Results, NEW b \in BOOLEAN,
         \/ MonSetMonitoringEnabled(b, r)
         \/ MonSetHasWindowFocus(b, r)
         \/ MonClipChanged(r)
  PROVE  /\ r.kind = "Text" => r.preview \in Visible
         /\ clip' = clip
<1>1. clip' = clip
  BY DEF MonSetMonitoringEnabled, MonSetHasWindowFocus, MonClipChanged
<1>2. r \in readClipboard \/ r = NoResult
  BY DEF MonSetMonitoringEnabled, MonSetHasWindowFocus, MonClipChanged, tryRead
<1>3. CASE r \in readClipboard
  <2>1. CASE clip # NoClip /\ ~isSensitive(clip) /\ clip.content \notin Blank
    <3>1. \/ r = Outcome("Unavailable")
          \/ r = Outcome("Empty")
          \/ r = TextResult(clip.content)
      BY <1>3, <2>1 DEF readClipboard, ClipOutcome
    <3>2. PreviewOf[clip.content] \in Visible
      BY <2>1 DEF PrivacyInv, ClipClear
    <3> QED
      BY <1>1, <3>1, <3>2 DEF TextResult, Outcome
  <2>2. CASE ~(clip # NoClip /\ ~isSensitive(clip) /\ clip.content \notin Blank)
    <3>1. \/ r = Outcome("Unavailable")
          \/ r = Outcome("Empty")
          \/ r = Outcome("Sensitive")
      BY <1>3, <2>2 DEF readClipboard, ClipOutcome
    <3> QED
      BY <1>1, <3>1 DEF Outcome
  <2> QED
    BY <1>1, <2>1, <2>2
<1>4. CASE r = NoResult
  BY <1>1, <1>4 DEF NoResult, Outcome
<1> QED
  BY <1>2, <1>3, <1>4

LEMMA ApplyClear ==
  ASSUME PrivacyInv, NEW r \in Results, applyResult(r), clip' = clip,
         r.kind = "Text" => r.preview \in Visible
  PROVE  ClipClear' /\ NoProtectedText'
<1>1. ClipClear'
  BY DEF PrivacyInv, ClipClear, isSensitive
<1>2. /\ latestClipboard' \in Visible \cup {Null}
      /\ actionResult' \in {actionResult, Null}
  BY DEF applyResult, applyText, applyNothingToShow, applyUnavailable, noCallback,
         clipVars, PrivacyInv, NoProtectedText
<1>3. UNCHANGED <<job, editingText, followUpResult, saving>>
  BY DEF applyResult
<1> QED
  BY <1>1, <1>2, <1>3 DEF PrivacyInv, NoProtectedText, MadeFromVisible, Idle

LEMMA ReadIsClear ==
  ASSUME PrivacyInv,
         \/ \E b \in BOOLEAN : setMonitoringEnabled(b)
         \/ \E b \in BOOLEAN : onWindowFocusChanged(b)
         \/ onPrimaryClipChanged
  PROVE  ClipClear' /\ NoProtectedText'
<1>1. PICK r \in Results, b \in BOOLEAN :
        /\ \/ MonSetMonitoringEnabled(b, r)
           \/ MonSetHasWindowFocus(b, r)
           \/ MonClipChanged(r)
        /\ applyResult(r)
  BY DEF setMonitoringEnabled, onWindowFocusChanged, onPrimaryClipChanged
<1> QED
  BY <1>1, ReadClear, ApplyClear

(* What the application copies is a text it shows or one it generated.     *)
LEMMA CopyClear ==
  ASSUME PrivacyInv, NEW c \in Contents, c \in Visible \/ c \notin Protected,
         copyToClipboard(c)
  PROVE  ClipClear'
<1>1. clip' = [content |-> c, flagged |-> FALSE]
  BY DEF copyToClipboard, SetPrimaryClip
<1>2. c \notin Blank => PreviewOf[c] \in Visible
  <2>1. CASE c \in Visible
    BY <2>1, VisibleTexts, PreviewAssumption
  <2>2. CASE c \notin Protected
    BY <2>2 DEF Visible
  <2> QED
    BY <2>1, <2>2
<1> QED
  BY <1>1, <1>2 DEF ClipClear, isSensitive

LEMMA LaunchClear ==
  ASSUME PrivacyInv, NEW j \in Jobs, NEW kind, NEW action, NEW text \in Visible,
         NEW about, Launch(j, kind, action, text, about)
  PROVE  \A i \in Jobs : job'[i] # Null => job'[i].text \in Visible
BY DEF PrivacyInv, TypeOK, UiTypeOK, NoProtectedText, Launch, Idle

LEMMA ExecuteClear ==
  ASSUME PrivacyInv, NEW action \in ActionTypes, NEW text \in Visible,
         executeAction(action, text)
  PROVE  ClipClear' /\ NoProtectedText'
<1>1. CASE ExecuteEngineAction(action, text)
  <2>1. \A i \in Jobs : job'[i] # Null => job'[i].text \in Visible
    BY <1>1, LaunchClear DEF ExecuteEngineAction
  <2>2. ClipClear'
    BY <1>1 DEF ExecuteEngineAction, PrivacyInv, ClipClear, isSensitive
  <2> QED
    BY <1>1, <2>1, <2>2
    DEF executeAction, ExecuteEngineAction, clipVars, PrivacyInv, NoProtectedText,
        MadeFromVisible, Idle
<1>2. CASE ExecuteLocalAction(action, text)
  <2>1. PICK isError \in BOOLEAN :
          /\ actionResult' =
               [origin |-> [action |-> action, text |-> text],
                content |-> [action |-> action, text |-> text],
                isError |-> isError]
          /\ IF action = "COPY" /\ ~isError
               THEN copyToClipboard(text)
               ELSE UNCHANGED <<clip, monVars>>
    BY <1>2 DEF ExecuteLocalAction, LocalOutcomes
  <2>2. ClipClear'
    <3>1. CASE copyToClipboard(text)
      BY <3>1, CopyClear, VisibleTexts, PreviewAssumption
    <3>2. CASE UNCHANGED <<clip, monVars>>
      BY <3>2 DEF PrivacyInv, ClipClear, isSensitive
    <3> QED
      BY <2>1, <3>1, <3>2
  <2>3. actionResult'.origin.text = text /\ actionResult'.content.text = text
    BY <2>1
  <2> QED
    BY <1>2, <2>2, <2>3
    DEF executeAction, ExecuteLocalAction, clipVars, PrivacyInv, NoProtectedText,
        MadeFromVisible, Idle
<1> QED
  BY <1>1, <1>2 DEF executeAction

LEMMA AskIsClear ==
  ASSUME PrivacyInv,
         \/ \E action \in Offerable : performAction(action)
         \/ \E action \in Offerable : performSensitiveAction(action)
         \/ confirmAiAction
         \/ regenerateAction
         \/ askFollowUp
  PROVE  ClipClear' /\ NoProtectedText'
<1> latestClipboard # Null => latestClipboard \in Visible
  BY DEF PrivacyInv, NoProtectedText
<1>1. ASSUME NEW action \in Offerable, performAction(action)
      PROVE  ClipClear' /\ NoProtectedText'
  BY <1>1, ActionTypeFacts, ExecuteClear DEF performAction
<1>2. ASSUME NEW action \in Offerable, performSensitiveAction(action)
      PROVE  ClipClear' /\ NoProtectedText'
  BY <1>2
  DEF performSensitiveAction, clipVars, resultVars, PrivacyInv, ClipClear,
      isSensitive, NoProtectedText, MadeFromVisible, Idle
<1>3. CASE confirmAiAction
  BY <1>3, ExecuteClear DEF confirmAiAction, PrivacyInv, TypeOK, UiTypeOK
<1>4. CASE regenerateAction
  BY <1>4, ExecuteClear DEF regenerateAction, PrivacyInv, TypeOK, UiTypeOK
<1>5. CASE askFollowUp
  <2>1. \A i \in Jobs : job'[i] # Null => job'[i].text \in Visible
    BY <1>5, LaunchClear DEF askFollowUp
  <2> QED
    BY <1>5, <2>1
    DEF askFollowUp, clipVars, PrivacyInv, ClipClear, isSensitive, NoProtectedText,
        MadeFromVisible, Idle
<1> QED
  BY <1>1, <1>2, <1>3, <1>4, <1>5

LEMMA ResumeClear ==
  ASSUME PrivacyInv, NEW j \in Jobs, Resume(j)
  PROVE  ClipClear' /\ NoProtectedText'
<1>1. job[j] \in Job /\ job[j].text \in Visible
  BY DEF Resume, Idle, PrivacyInv, TypeOK, UiTypeOK, NoProtectedText
<1>2. ClipClear'
  BY DEF Resume, PrivacyInv, ClipClear, isSensitive
<1>3. \A i \in Jobs : job'[i] # Null => job'[i].text \in Visible
  BY DEF Resume, Idle, PrivacyInv, TypeOK, UiTypeOK, NoProtectedText
<1>4. /\ actionResult' # Null => /\ MadeFromVisible(actionResult'.origin)
                                 /\ MadeFromVisible(actionResult'.content)
      /\ followUpResult' # Null => MadeFromVisible(followUpResult'.answer)
  <2>1. CASE ResumeAction(j)
    BY <1>1, <2>1 DEF ResumeAction, MadeFromVisible, PrivacyInv, NoProtectedText
  <2>2. CASE ResumeFollowUp(j)
    BY <1>1, <2>2 DEF ResumeFollowUp, MadeFromVisible, PrivacyInv, NoProtectedText
  <2> QED
    BY <2>1, <2>2 DEF Resume
<1> QED
  BY <1>2, <1>3, <1>4
  DEF Resume, clipVars, PrivacyInv, NoProtectedText, MadeFromVisible, Idle

LEMMA EditClear ==
  ASSUME PrivacyInv,
         \/ cancelAiAction
         \/ startEditing
         \/ saveEdit
         \/ cancelEdit
         \/ clearActionResult
  PROVE  ClipClear' /\ NoProtectedText'
<1>1. UnchangedByEditing
  BY DEF cancelAiAction, startEditing, saveEdit, cancelEdit, clearActionResult
<1>2. /\ actionResult' # Null => /\ MadeFromVisible(actionResult'.origin)
                                 /\ MadeFromVisible(actionResult'.content)
      /\ MadeFromVisible(editingText')
  BY DEF cancelAiAction, startEditing, saveEdit, cancelEdit, clearActionResult,
         MadeFromVisible, ActionResult, PrivacyInv, TypeOK, UiTypeOK, NoProtectedText
<1> QED
  BY <1>1, <1>2
  DEF UnchangedByEditing, clipVars, PrivacyInv, ClipClear, isSensitive,
      NoProtectedText, MadeFromVisible, Idle

LEMMA SaveClear ==
  ASSUME PrivacyInv,
         \/ saveStudyItem
         \/ saveFollowUp
         \/ \E item \in saving : ItemInserted(item)
  PROVE  ClipClear' /\ NoProtectedText'
<1> USE DEF PrivacyInv, NoProtectedText, MadeFromVisible
<1>1. UNCHANGED <<clip, latestClipboard, actionResult, editingText, followUpResult, job>>
  BY DEF saveStudyItem, saveFollowUp, SaveItem, ItemInserted, uiVars, clipVars, resultVars
<1>2. \A item \in saving' :
        MadeFromVisible(item.content) /\ item.sourceText \in Visible \cup {Null}
  BY DEF saveStudyItem, saveFollowUp, SaveItem, ItemInserted
<1> QED
  BY <1>1, <1>2 DEF ClipClear, isSensitive, Idle

LEMMA SystemClear ==
  ASSUME PrivacyInv,
         \/ \E c \in ForeignClips : CopyElsewhere(c)
         \/ \E c \in Contents \ Protected : copyText(c)
         \/ onCleared
  PROVE  ClipClear' /\ NoProtectedText'
<1>1. ClipClear'
  <2>1. ASSUME NEW c \in ForeignClips, CopyElsewhere(c) PROVE ClipClear'
    <3>1. clip' = c
      BY <2>1 DEF CopyElsewhere, SetPrimaryClip
    <3> QED
      BY <3>1, ForeignClear DEF ClipClear, isSensitive
  <2>2. ASSUME NEW c \in Contents \ Protected, copyText(c) PROVE ClipClear'
    BY <2>2, CopyClear DEF copyText
  <2>3. CASE onCleared
    BY <2>3 DEF onCleared, MonRelease, PrivacyInv, ClipClear, isSensitive
  <2> QED
    BY <2>1, <2>2, <2>3
<1>2. /\ UNCHANGED <<latestClipboard, actionResult, editingText, followUpResult>>
      /\ job' \in {job, [j \in Jobs |-> Null]}
      /\ saving' \in {saving, {}}
  BY DEF CopyElsewhere, copyText, onCleared, uiVars, clipVars, resultVars
<1> QED
  BY <1>1, <1>2 DEF PrivacyInv, NoProtectedText, MadeFromVisible, Idle

LEMMA PrivacyStep == PrivacyInv /\ [Next]_vars => PrivacyInv'
<1> SUFFICES ASSUME PrivacyInv, [Next]_vars PROVE PrivacyInv'
  OBVIOUS
<1>1. TypeOK'
  BY TypeStep DEF PrivacyInv
<1>2. ClipClear' /\ NoProtectedText'
  <2>1. CASE Environment
    BY <2>1, ReadIsClear, SystemClear DEF Environment
  <2>2. CASE Internal
    BY <2>2, ReadIsClear, ResumeClear, SaveClear DEF Internal
  <2>3. CASE User
    BY <2>3, ReadIsClear, AskIsClear, EditClear, SystemClear, SaveClear DEF User
  <2>4. CASE UNCHANGED vars
    BY <2>4
    DEF vars, uiVars, clipVars, resultVars, PrivacyInv, ClipClear, isSensitive,
        NoProtectedText, MadeFromVisible, Idle
  <2> QED
    BY <2>1, <2>2, <2>3, <2>4 DEF Next
<1> QED
  BY <1>1, <1>2 DEF PrivacyInv

(* A text that is only ever copied with EXTRA_IS_SENSITIVE reaches neither *)
(* the screen nor the AI engine nor the study library (readClipboard).     *)
THEOREM ProtectedTextStaysOut == Spec => []NoProtectedText
<1>1. Init => PrivacyInv
  BY PrivacyInit
<1>2. PrivacyInv /\ [Next]_vars => PrivacyInv'
  BY PrivacyStep
<1>3. PrivacyInv => NoProtectedText
  BY DEF PrivacyInv
<1> QED
  BY <1>1, <1>2, <1>3, PTL DEF Spec

----------------------------------------------------------------------------
(***************************************************************************)
(* What the screen shows is what the monitor was allowed to read, belongs  *)
(* together, and is up to date.  The invariant adds to the properties that *)
(* a monitor in use has its callback, and its listener exactly while       *)
(* monitoring is on (MonitorWired).                                        *)
(***************************************************************************)
MonitorWired == alive => callbackSet /\ (listening <=> monEnabled)

DisplayInv == TypeOK /\ MonitorWired /\ DerivedFieldsMatch /\ DisplayFresh

Readable(c) == c # NoClip /\ ~isSensitive(c) /\ c.content \notin Blank

(* The outcomes of a read, in terms of the clip that is read.              *)
LEMMA ReadOutcome ==
  ASSUME NEW r \in readClipboard
  PROVE  \/ r = Outcome("Unavailable")
         \/ r = TextResult(clip.content) /\ Readable(clip)
         \/ r \in {Outcome("Empty"), Outcome("Sensitive")}
<1>1. CASE Readable(clip)
  BY <1>1 DEF readClipboard, ClipOutcome, Readable
<1>2. CASE ~Readable(clip)
  BY <1>2 DEF readClipboard, ClipOutcome, Readable
<1> QED
  BY <1>1, <1>2

LEMMA HonestOutcome ==
  /\ Readable(clip) => ClipOutcome = TextResult(clip.content)
  /\ ~Readable(clip) => ClipOutcome \in {Outcome("Empty"), Outcome("Sensitive")}
BY DEF ClipOutcome, Readable

LEMMA ShownCases ==
  ASSUME NEW c
  PROVE  /\ Readable(c) => Shown(c) = PreviewOf[c.content]
         /\ ~Readable(c) => Shown(c) = Null
BY DEF Readable, Shown

(* A read brings at most the text on the clipboard to the screen, with the *)
(* suggestions and the note that belong to it; one that is not refused     *)
(* brings the screen up to date.                                           *)
LEMMA ReadApplied ==
  ASSUME TypeOK, DerivedFieldsMatch, NEW r \in readClipboard, applyResult(r)
  PROVE  /\ \/ latestClipboard' \in {latestClipboard, Null}
            \/ latestClipboard' = PreviewOf[clip.content] /\ Readable(clip)
         /\ r = ClipOutcome => latestClipboard' = Shown(clip)
         /\ DerivedFieldsMatch'
<1>1. CASE r = Outcome("Unavailable")
  <2>1. applyUnavailable(r)
    BY <1>1 DEF applyResult, applyText, applyNothingToShow, noCallback, NoResult, Outcome
  <2>2. r # ClipOutcome
    BY <1>1, HonestOutcome DEF Outcome, TextResult
  <2> QED
    BY <2>1, <2>2 DEF applyUnavailable, DerivedFieldsMatch
<1>2. CASE r = TextResult(clip.content) /\ Readable(clip)
  <2>1. /\ r.kind = "Text"
        /\ r.preview = Shown(clip)
        /\ r.truncated = (clip.content \in Truncated)
    BY <1>2, ShownCases DEF TextResult
  <2>2. applyText(r)
    BY <2>1 DEF applyResult, applyNothingToShow, applyUnavailable, noCallback,
                NoResult, Outcome
  <2>3. clip.content \in Contents \ Blank
    BY <1>2 DEF Readable, TypeOK, MonTypeOK, Clips
  <2>4. PreviewOf[clip.content] \in Texts /\ Shown(clip) = PreviewOf[clip.content]
    BY <1>2, <2>3, ShownCases, PreviewAssumption
  <2>5. Null \notin Texts
    BY PreviewAssumption
  <2>6. PreviewOf[clip.content] \in Truncated <=> clip.content \in Truncated
    BY <2>3, PreviewAssumption
  <2>7. latestClipboard' = Shown(clip) /\ latestClipboard' # Null
    BY <2>1, <2>2, <2>4, <2>5 DEF applyText
  <2>8. suggestedActions' = SuggestedFor(latestClipboard')
    BY <2>2 DEF applyText
  <2>9. isTruncated' <=> latestClipboard' \in Truncated
    BY <2>1, <2>2, <2>4, <2>6, <2>7 DEF applyText
  <2> QED
    BY <1>2, <2>4, <2>7, <2>8, <2>9 DEF DerivedFieldsMatch
<1>3. CASE r \in {Outcome("Empty"), Outcome("Sensitive")}
  <2>1. applyNothingToShow(r)
    BY <1>3 DEF applyResult, applyText, applyUnavailable, noCallback, NoResult, Outcome
  <2>2. Null \notin Truncated
    BY PreviewAssumption
  <2>3. r = ClipOutcome => Shown(clip) = Null
    <3>1. CASE Readable(clip)
      BY <1>3, <3>1, HonestOutcome DEF Outcome, TextResult
    <3>2. CASE ~Readable(clip)
      BY <3>2, ShownCases
    <3> QED
      BY <3>1, <3>2
  <2> QED
    BY <2>1, <2>2, <2>3 DEF applyNothingToShow, DerivedFieldsMatch
<1> QED
  BY <1>1, <1>2, <1>3, ReadOutcome

LEMMA NoReadApplied ==
  ASSUME applyResult(NoResult)
  PROVE  UNCHANGED clipVars
BY DEF applyResult, applyText, applyNothingToShow, applyUnavailable, noCallback,
       NoResult, Outcome

LEMMA DisplayInit == Init => DisplayInv
<1> SUFFICES ASSUME Init PROVE DisplayInv
  OBVIOUS
<1>1. TypeOK
  BY TypeInit
<1>2. MonitorWired /\ DisplayFresh
  BY DEF Init, MonInit, MonitorWired, DisplayFresh
<1>3. DerivedFieldsMatch
  BY PreviewAssumption DEF Init, DerivedFieldsMatch
<1> QED
  BY <1>1, <1>2, <1>3 DEF DisplayInv

(* What one of the three occasions to read does: it reads, where the       *)
(* monitor may, or the monitor may not read afterwards either.             *)
LEMMA Occasion ==
  ASSUME DisplayInv, alive, NEW r \in Results, NEW b \in BOOLEAN,
         \/ MonSetMonitoringEnabled(b, r)
         \/ MonSetHasWindowFocus(b, r)
         \/ MonClipChanged(r)
  PROVE  /\ clip' = clip
         /\ callbackSet' /\ (listening' <=> monEnabled')
         /\ \/ /\ r \in readClipboard
               /\ monEnabled' /\ monFocus'
               /\ refused' = (r # ClipOutcome)
            \/ /\ r = NoResult
               /\ ~(monEnabled' /\ monFocus')
<1> USE DEF DisplayInv, MonitorWired, TypeOK, MonTypeOK
<1>1. CASE MonSetMonitoringEnabled(b, r)
  BY <1>1 DEF MonSetMonitoringEnabled, registerListener, unregisterListener, tryRead
<1>2. CASE MonSetHasWindowFocus(b, r)
  BY <1>2 DEF MonSetHasWindowFocus, tryRead
<1>3. CASE MonClipChanged(r)
  BY <1>3 DEF MonClipChanged, tryRead
<1> QED
  BY <1>1, <1>2, <1>3

LEMMA ReadShows ==
  ASSUME DisplayInv,
         \/ \E b \in BOOLEAN : setMonitoringEnabled(b)
         \/ \E b \in BOOLEAN : onWindowFocusChanged(b)
         \/ onPrimaryClipChanged
  PROVE  /\ MonitorWired' /\ DerivedFieldsMatch' /\ DisplayFresh'
         /\ latestClipboard' \notin {latestClipboard, Null} =>
              /\ monEnabled' /\ monFocus'
              /\ clip' = clip /\ Readable(clip)
              /\ latestClipboard' = PreviewOf[clip.content]
<1>1. PICK r \in Results, b \in BOOLEAN :
        /\ \/ MonSetMonitoringEnabled(b, r)
           \/ MonSetHasWindowFocus(b, r)
           \/ MonClipChanged(r)
        /\ applyResult(r)
  BY DEF setMonitoringEnabled, onWindowFocusChanged, onPrimaryClipChanged
<1>2. alive /\ alive' = alive
  BY <1>1 DEF applyResult, setMonitoringEnabled, onWindowFocusChanged,
              onPrimaryClipChanged
<1>3. /\ clip' = clip
      /\ callbackSet' /\ (listening' <=> monEnabled')
      /\ \/ /\ r \in readClipboard
            /\ monEnabled' /\ monFocus'
            /\ refused' = (r # ClipOutcome)
         \/ /\ r = NoResult
            /\ ~(monEnabled' /\ monFocus')
  BY <1>1, <1>2, Occasion
<1>4. MonitorWired'
  BY <1>3 DEF MonitorWired
<1>5. Shown(clip)' = Shown(clip)
  BY <1>3 DEF Shown, isSensitive
<1>6. CASE r \in readClipboard /\ monEnabled' /\ monFocus'
             /\ refused' = (r # ClipOutcome)
  <2>1. /\ \/ latestClipboard' \in {latestClipboard, Null}
           \/ latestClipboard' = PreviewOf[clip.content] /\ Readable(clip)
        /\ r = ClipOutcome => latestClipboard' = Shown(clip)
        /\ DerivedFieldsMatch'
    BY <1>1, <1>6, ReadApplied DEF DisplayInv
  <2>2. DisplayFresh'
    BY <1>5, <1>6, <2>1 DEF DisplayFresh
  <2> QED
    BY <1>3, <1>4, <1>6, <2>1, <2>2
<1>7. CASE r = NoResult /\ ~(monEnabled' /\ monFocus')
  <2>1. UNCHANGED clipVars
    BY <1>1, <1>7, NoReadApplied
  <2>2. DerivedFieldsMatch'
    BY <2>1 DEF clipVars, DisplayInv, DerivedFieldsMatch
  <2>3. DisplayFresh'
    BY <1>7 DEF DisplayFresh
  <2> QED
    BY <1>4, <2>1, <2>2, <2>3 DEF clipVars
<1> QED
  BY <1>3, <1>6, <1>7

(* A new clip reports itself, or the screen need not show it.              *)
LEMMA CopyShows ==
  ASSUME DisplayInv, NEW c, SetPrimaryClip(c), alive' = alive, UNCHANGED clipVars
  PROVE  MonitorWired' /\ DerivedFieldsMatch' /\ DisplayFresh'
<1>1. MonitorWired'
  BY DEF SetPrimaryClip, DisplayInv, MonitorWired
<1>2. DerivedFieldsMatch'
  BY DEF clipVars, DisplayInv, DerivedFieldsMatch
<1>3. alive /\ monEnabled /\ monFocus => notice'
  BY DEF SetPrimaryClip, DisplayInv, MonitorWired, TypeOK, MonTypeOK
<1>4. DisplayFresh'
  BY <1>3 DEF SetPrimaryClip, DisplayFresh
<1> QED
  BY <1>1, <1>2, <1>4

LEMMA QuietShows ==
  ASSUME DisplayInv, UNCHANGED <<clip, monVars, alive, clipVars>>
  PROVE  MonitorWired' /\ DerivedFieldsMatch' /\ DisplayFresh'
<1>1. Shown(clip)' = Shown(clip)
  BY DEF Shown, isSensitive
<1> QED
  BY <1>1 DEF monVars, clipVars, DisplayInv, MonitorWired, DerivedFieldsMatch, DisplayFresh

LEMMA ExecuteShows ==
  ASSUME DisplayInv, NEW action, NEW text, executeAction(action, text)
  PROVE  MonitorWired' /\ DerivedFieldsMatch' /\ DisplayFresh'
<1>1. alive' = alive /\ UNCHANGED clipVars
  BY DEF executeAction
<1>2. (\E c : SetPrimaryClip(c)) \/ UNCHANGED <<clip, monVars>>
  BY DEF executeAction, ExecuteEngineAction, ExecuteLocalAction, copyToClipboard
<1> QED
  BY <1>1, <1>2, CopyShows, QuietShows

(* Everything but the three occasions leaves the text on the screen alone. *)
LEMMA OtherShows ==
  ASSUME DisplayInv,
         \/ \E c \in ForeignClips : CopyElsewhere(c)
         \/ onCleared
         \/ \E j \in Jobs : Resume(j)
         \/ \E item \in saving : ItemInserted(item)
         \/ \E action \in Offerable : performAction(action)
         \/ \E action \in Offerable : performSensitiveAction(action)
         \/ confirmAiAction \/ cancelAiAction \/ regenerateAction \/ askFollowUp
         \/ startEditing \/ saveEdit \/ cancelEdit \/ clearActionResult
         \/ \E c \in Contents \ Protected : copyText(c)
         \/ saveStudyItem \/ saveFollowUp
         \/ UNCHANGED vars
  PROVE  /\ MonitorWired' /\ DerivedFieldsMatch' /\ DisplayFresh'
         /\ latestClipboard' = latestClipboard
<1>1. ASSUME NEW c, CopyElsewhere(c) \/ copyText(c)
      PROVE  /\ MonitorWired' /\ DerivedFieldsMatch' /\ DisplayFresh'
             /\ latestClipboard' = latestClipboard
  <2>1. alive' = alive /\ UNCHANGED clipVars
    BY <1>1 DEF CopyElsewhere, copyText, uiVars
  <2>2. \E d : SetPrimaryClip(d)
    BY <1>1 DEF CopyElsewhere, copyText, copyToClipboard
  <2> QED
    BY <2>1, <2>2, CopyShows DEF clipVars
<1>2. CASE onCleared
  BY <1>2 DEF onCleared, uiVars, clipVars, DisplayInv, MonitorWired,
              DerivedFieldsMatch, DisplayFresh
<1>3. ASSUME NEW action, NEW text, executeAction(action, text)
      PROVE  /\ MonitorWired' /\ DerivedFieldsMatch' /\ DisplayFresh'
             /\ latestClipboard' = latestClipboard
  BY <1>3, ExecuteShows DEF executeAction, clipVars
<1>4. CASE \/ \E action \in Offerable : performAction(action)
           \/ confirmAiAction
           \/ regenerateAction
  BY <1>3, <1>4 DEF performAction, confirmAiAction, regenerateAction
<1>5. CASE \/ \E j \in Jobs : Resume(j)
           \/ \E action \in Offerable : performSensitiveAction(action)
           \/ askFollowUp
  <2>1. UNCHANGED <<clip, monVars, alive, clipVars>>
    BY <1>5 DEF Resume, performSensitiveAction, askFollowUp
  <2> QED
    BY <2>1, QuietShows DEF clipVars
<1>6. CASE cancelAiAction \/ startEditing \/ saveEdit \/ cancelEdit \/ clearActionResult
  <2>1. UNCHANGED <<clip, monVars, alive, clipVars>>
    BY <1>6 DEF cancelAiAction, startEditing, saveEdit, cancelEdit,
                clearActionResult, UnchangedByEditing
  <2> QED
    BY <2>1, QuietShows DEF clipVars
<1>7. CASE saveStudyItem \/ saveFollowUp \/ (\E item \in saving : ItemInserted(item))
  <2>1. UNCHANGED <<clip, monVars, alive, clipVars>>
    BY <1>7 DEF saveStudyItem, saveFollowUp, SaveItem, ItemInserted, uiVars
  <2> QED
    BY <2>1, QuietShows DEF clipVars
<1>8. CASE UNCHANGED vars
  <2>1. UNCHANGED <<clip, monVars, alive, clipVars>>
    BY <1>8 DEF vars, uiVars
  <2> QED
    BY <2>1, QuietShows DEF clipVars
<1> QED
  BY <1>1, <1>2, <1>4, <1>5, <1>6, <1>7, <1>8

LEMMA DisplayStep ==
  ASSUME DisplayInv, [Next]_vars
  PROVE  /\ DisplayInv'
         /\ latestClipboard' \notin {latestClipboard, Null} =>
              /\ monEnabled' /\ monFocus'
              /\ clip' # NoClip
              /\ ~isSensitive(clip')
              /\ latestClipboard' = PreviewOf[clip'.content]
<1>1. TypeOK'
  BY TypeStep DEF DisplayInv
<1>2. CASE \/ \E b \in BOOLEAN : setMonitoringEnabled(b)
           \/ \E b \in BOOLEAN : onWindowFocusChanged(b)
           \/ onPrimaryClipChanged
  BY <1>1, <1>2, ReadShows DEF DisplayInv, Readable
<1>3. CASE ~(\/ \E b \in BOOLEAN : setMonitoringEnabled(b)
             \/ \E b \in BOOLEAN : onWindowFocusChanged(b)
             \/ onPrimaryClipChanged)
  BY <1>1, <1>3, OtherShows DEF DisplayInv, Next, Environment, Internal, User
<1> QED
  BY <1>2, <1>3

LEMMA DisplayInvariant == Spec => []DisplayInv
<1>1. Init => DisplayInv
  BY DisplayInit
<1>2. DisplayInv /\ [Next]_vars => DisplayInv'
  BY DisplayStep
<1> QED
  BY <1>1, <1>2, PTL DEF Spec

(* No occasion to read the clipboard is missed: with monitoring on and the *)
(* focus held, the screen shows what is on the clipboard, but for a change *)
(* report still to be handled or a read the system refused.                *)
THEOREM DisplayIsFresh == Spec => []DisplayFresh
<1>1. DisplayInv => DisplayFresh
  BY DEF DisplayInv
<1> QED
  BY <1>1, DisplayInvariant, PTL

(* The suggestions and the truncation note on the screen are those of the  *)
(* text on the screen (ClipboardUiState.applyResult).                      *)
THEOREM SuggestionsFit == Spec => []DerivedFieldsMatch
<1>1. DisplayInv => DerivedFieldsMatch
  BY DEF DisplayInv
<1> QED
  BY <1>1, DisplayInvariant, PTL

(* A text appears on the screen only by a read of ClipboardMonitor with    *)
(* monitoring on and the window focused, of an unflagged clip.             *)
THEOREM NoReadBehindTheBack == Spec => ReadsOnlyWhenAllowed
<1>1. DisplayInv /\ [Next]_vars =>
        [latestClipboard' \notin {latestClipboard, Null} =>
           /\ monEnabled' /\ monFocus'
           /\ clip' # NoClip
           /\ ~isSensitive(clip')
           /\ latestClipboard' = PreviewOf[clip'.content]]_vars
  BY DisplayStep
<1> QED
  BY <1>1, DisplayInvariant, PTL DEF Spec, ReadsOnlyWhenAllowed

----------------------------------------------------------------------------
(***************************************************************************)
(* The view model behind its screen.  The screen offers only actions that  *)
(* some text suggests.  Behind it results, requests, follow-up answers and *)
(* confirmations are all about one text as long as no text is read during  *)
(* a request (OneText), and the editor is closed while a request is under  *)
(* way as long as requests come one at a time (EditsInOrder).              *)
(***************************************************************************)

(* The user has confirmed t for the AI engine, if that is called for.      *)
Cleared(t) == t \in SensitiveTexts => t \in approved

(* Everything the screen shows or waits for is about the text t, and what  *)
(* was or may again be sent to the engine is cleared for it.               *)
About(t) ==
  /\ latestClipboard \in {Null, t}
  /\ \A j \in Jobs : ~Idle(j) => job[j].text = t
  /\ actionResult # Null => actionResult.origin.text = t
  /\ followUpResult # Null /\ (Busy \/ actionResult # Null) =>
       followUpResult.answer.text = t
  /\ Busy => Cleared(t)
  /\ actionResult # Null /\ actionResult.origin.action \in EngineActionTypes =>
       Cleared(t)
  /\ (Busy \/ actionResult # Null) /\ lastAction \in EngineActionTypes => Cleared(t)

OneText == ~crossed => \E t \in Texts \cup {Null} : About(t)

EditsInOrder ==
  ~overlapped =>
    /\ Busy => editingText = Null
    /\ editingText # Null /\ actionResult # Null =>
         editingText = actionResult.origin

FollowUpMarked ==
  followUpResult # Null => followUpResult.answer.action = "FOLLOW_UP"

(* Until requests overlap or a text crosses one, a follow-up that is shown *)
(* or under way was asked under the result on the screen, and none is      *)
(* shown while an action is under way.                                     *)
AskedUnder(about) == actionResult # Null => about = actionResult.origin

FollowUpsInOrder ==
  ~crossed /\ ~overlapped =>
    /\ \A j \in Jobs : ~Idle(j) =>
         IF job[j].kind = "followUp" THEN AskedUnder(job[j].about)
                                     ELSE followUpResult = Null
    /\ followUpResult # Null => AskedUnder(followUpResult.about)

(* What holds of the view model anyway, and what holds behind the screen.  *)
ModelInv == DisplayInv /\ IndicatorInv
ScreenInv ==
  /\ ModelInv
  /\ OneText
  /\ EditsInOrder
  /\ EditInPlace
  /\ FollowUpMarked
  /\ FollowUpsInOrder
  /\ SavedUnderItsSource

----------------------------------------------------------------------------
(* The screen implements the view model. *)

(* The cards on the screen are among those some text brings there.         *)
LEMMA CardsAreOfferable ==
  ASSUME DisplayInv
  PROVE  suggestedActions \subseteq Offerable
BY DEF DisplayInv, TypeOK, UiTypeOK, DerivedFieldsMatch, Offerable

LEMMA ScreenStepsAreSteps ==
  ASSUME DisplayInv, [ScreenNext]_vars
  PROVE  [Next]_vars
<1>1. suggestedActions \subseteq Offerable
  BY CardsAreOfferable
<1>2. CASE ScreenUser
  BY <1>1, <1>2 DEF ScreenUser, Next, User
<1> QED
  BY <1>2 DEF ScreenNext, Next

LEMMA ModelInit == Init => ModelInv
BY DisplayInit, IndicatorInit DEF ModelInv

LEMMA ModelStep ==
  ASSUME ModelInv, [ScreenNext]_vars
  PROVE  ModelInv'
<1>1. [Next]_vars
  BY ScreenStepsAreSteps DEF ModelInv
<1>2. DisplayInv'
  BY <1>1, DisplayStep DEF ModelInv
<1>3. IndicatorInv'
  BY <1>1, IndicatorStep DEF ModelInv
<1> QED
  BY <1>2, <1>3 DEF ModelInv

(* Every behaviour of the screen is one of the view model whose methods    *)
(* may be called in any state: the controls ContextAiScreen shows call     *)
(* them with arguments it may be called with.                              *)
THEOREM ScreenImplementsViewModel == ScreenSpec => Spec
<1>1. Init => DisplayInv
  BY DisplayInit
<1>2. DisplayInv /\ [ScreenNext]_vars => DisplayInv'
  BY ScreenStepsAreSteps, DisplayStep
<1>3. DisplayInv /\ [ScreenNext]_vars => [Next]_vars
  BY ScreenStepsAreSteps
<1> QED
  BY <1>1, <1>2, <1>3, PTL DEF ScreenSpec, Spec
----------------------------------------------------------------------------
(* One text. *)

LEMMA OneTextInit == Init => OneText
<1> SUFFICES ASSUME Init PROVE About(Null)
  BY DEF OneText
<1> QED
  BY DEF Init, About, Busy, Idle

(* A read: a new text finds no request under way, or it crosses one.       *)
LEMMA ReadAbout ==
  ASSUME OneText, NEW r \in Results, applyResult(r)
  PROVE  OneText'
<1>1. UNCHANGED <<job, followUpResult, lastAction, approved>>
  BY DEF applyResult
<1>2. Busy' <=> Busy
  BY <1>1 DEF Busy, Idle
<1>3. CASE applyText(r)
  <2>1. latestClipboard' = r.preview /\ r.preview \in Texts /\ actionResult' = Null
    BY <1>3, TextResults DEF applyText
  <2>2. ~crossed' => ~Busy
    BY <1>3 DEF applyText
  <2>3. ~Busy => About(r.preview)'
    BY <1>1, <1>2, <2>1 DEF About, Busy, Idle
  <2> QED
    BY <2>1, <2>2, <2>3 DEF OneText
<1>4. CASE applyNothingToShow(r) \/ applyUnavailable(r) \/ noCallback(r)
  <2>1. /\ latestClipboard' \in {latestClipboard, Null}
        /\ actionResult' = actionResult
        /\ crossed' = crossed
    BY <1>4 DEF applyNothingToShow, applyUnavailable, noCallback, clipVars
  <2>2. ASSUME NEW t, About(t) PROVE About(t)'
    BY <1>1, <1>2, <2>1, <2>2 DEF About, Cleared, Idle
  <2> QED
    BY <2>1, <2>2 DEF OneText
<1> QED
  BY <1>3, <1>4 DEF applyResult

LEMMA ReadsAbout ==
  ASSUME OneText,
         \/ \E b \in BOOLEAN : setMonitoringEnabled(b)
         \/ \E b \in BOOLEAN : onWindowFocusChanged(b)
         \/ onPrimaryClipChanged
  PROVE  OneText'
<1>1. PICK r \in Results : applyResult(r)
  BY DEF setMonitoringEnabled, onWindowFocusChanged, onPrimaryClipChanged
<1> QED
  BY <1>1, ReadAbout

(* A request that begins: it is about the text on the screen.              *)
LEMMA LaunchAbout ==
  ASSUME TypeOK, NEW t, \A i \in Jobs : ~Idle(i) => job[i].text = t,
         NEW kind \in {"action", "followUp"}, NEW action \in ActionTypes, t \in Texts,
         NEW about \in Origin \cup {Null},
         \E j \in Jobs : Launch(j, kind, action, t, about)
  PROVE  /\ \A i \in Jobs : ~Idle(i)' => job'[i].text = t
         /\ Busy'
<1>1. PICK j \in Jobs : Launch(j, kind, action, t, about)
  OBVIOUS
<1>2. /\ job'[j] # Null
      /\ \A i \in Jobs : i # j => job'[i] = job[i]
  BY <1>1, LaunchFacts
<1>3. job'[j].text = t
  BY <1>1 DEF TypeOK, UiTypeOK, Launch
<1> QED
  BY <1>2, <1>3 DEF Busy, Idle

LEMMA ExecuteAbout ==
  ASSUME ModelInv, NEW t, About(t), latestClipboard # Null,
         NEW action \in ActionTypes, executeAction(action, latestClipboard),
         approved \subseteq approved',
         action \in EngineActionTypes => (t \in SensitiveTexts => t \in approved')
  PROVE  About(t)'
<1>1. t = latestClipboard /\ t \in Texts
  BY DEF About, ModelInv, DisplayInv, TypeOK, UiTypeOK
<1>2. /\ latestClipboard' = latestClipboard
      /\ lastAction' = action
      /\ followUpResult' = Null
  BY DEF executeAction, clipVars
<1>3. CASE ExecuteEngineAction(action, latestClipboard)
  <2>1. /\ \A i \in Jobs : ~Idle(i)' => job'[i].text = t
        /\ Busy'
    BY <1>1, <1>3, LaunchAbout DEF ExecuteEngineAction, About, ModelInv, DisplayInv
  <2>2. actionResult' = Null /\ action \in EngineActionTypes
    BY <1>3 DEF ExecuteEngineAction
  <2> QED
    BY <1>1, <1>2, <2>1, <2>2 DEF About, Cleared
<1>4. CASE ExecuteLocalAction(action, latestClipboard)
  <2>1. /\ job' = job
        /\ actionResult'.origin = [action |-> action, text |-> latestClipboard]
        /\ action \notin EngineActionTypes
    BY <1>4 DEF ExecuteLocalAction
  <2>2. Busy' <=> Busy
    BY <2>1 DEF Busy, Idle
  <2>3. Busy => Cleared(t)'
    BY DEF About, Cleared
  <2> QED
    BY <1>1, <1>2, <2>1, <2>2, <2>3 DEF About, Idle
<1> QED
  BY <1>3, <1>4 DEF executeAction

LEMMA EngineFacts ==
  /\ EngineActionTypes \subseteq AiActionTypes
  /\ FollowUpTypes \subseteq EngineActionTypes
BY DEF EngineActionTypes, AiActionTypes, ActionTypes, LocalActionTypes,
       FollowUpTypes, SavableTypes

(* The ways to the engine: a card, the warning card, Regenerate and the    *)
(* question of the follow-up section.                                      *)
LEMMA AskAbout ==
  ASSUME ScreenInv,
         \/ \E action \in suggestedActions : performAction(action)
         \/ WarningCardShown /\ confirmAiAction
         \/ ButtonsShown /\ regenerateAction
         \/ FollowUpShown /\ askFollowUp
  PROVE  OneText'
<1>1. crossed' = crossed
  BY DEF performAction, confirmAiAction, regenerateAction, askFollowUp, executeAction
<1> SUFFICES ASSUME ~crossed PROVE OneText'
  BY <1>1 DEF OneText
<1>2. PICK t \in Texts \cup {Null} : About(t)
  BY DEF ScreenInv, OneText
<1> SUFFICES About(t)'
  BY DEF OneText
<1>3. /\ suggestedActions \subseteq ActionTypes
      /\ lastAction # Null => lastAction \in ActionTypes
      /\ pendingAiAction # Null => pendingAiAction \in ActionTypes
      /\ latestClipboard # Null => latestClipboard = t /\ t \in Texts
      /\ ModelInv
  BY <1>2 DEF ScreenInv, ModelInv, DisplayInv, TypeOK, UiTypeOK, About
<1>4. ASSUME NEW action \in suggestedActions, performAction(action) PROVE About(t)'
  <2>1. /\ latestClipboard # Null
        /\ executeAction(action, latestClipboard)
        /\ approved' = approved
        /\ action \in EngineActionTypes => t \notin SensitiveTexts
    BY <1>3, <1>4, EngineFacts DEF performAction, NeedsConfirmation
  <2> QED
    BY <1>2, <1>3, <2>1, ExecuteAbout
<1>5. CASE WarningCardShown /\ confirmAiAction
  <2>1. /\ latestClipboard # Null
        /\ pendingAiAction # Null
        /\ executeAction(pendingAiAction, latestClipboard)
        /\ approved' = approved \cup {latestClipboard}
    BY <1>5 DEF confirmAiAction
  <2>2. approved \subseteq approved' /\ t \in approved' /\ pendingAiAction \in ActionTypes
    BY <1>3, <2>1
  <2> QED
    BY <1>2, <1>3, <2>1, <2>2, ExecuteAbout
<1>6. CASE ButtonsShown /\ regenerateAction
  <2>1. /\ latestClipboard # Null
        /\ lastAction # Null
        /\ executeAction(lastAction, latestClipboard)
        /\ approved' = approved
        /\ lastAction \in EngineActionTypes => Cleared(t)
    BY <1>2, <1>6 DEF regenerateAction, ButtonsShown, DismissShown, About
  <2>2. /\ approved \subseteq approved' /\ lastAction \in ActionTypes
        /\ lastAction \in EngineActionTypes => (t \in SensitiveTexts => t \in approved')
    BY <1>3, <2>1 DEF Cleared
  <2> QED
    BY <1>2, <1>3, <2>1, <2>2, ExecuteAbout
<1>7. CASE FollowUpShown /\ askFollowUp
  <2>1. actionResult # Null /\ actionResult.origin.action \in EngineActionTypes
    BY <1>7, EngineFacts DEF FollowUpShown, ButtonsShown, DismissShown
  <2>2. /\ latestClipboard # Null
        /\ \E j \in Jobs :
             Launch(j, "followUp", "FOLLOW_UP", latestClipboard, ShownOrigin)
        /\ UNCHANGED <<latestClipboard, actionResult, followUpResult, lastAction, approved>>
    BY <1>7 DEF askFollowUp, clipVars
  <2>3. /\ \A i \in Jobs : ~Idle(i)' => job'[i].text = t
        /\ Busy'
    BY <1>2, <1>3, <2>2, LaunchAbout, ActionTypeFacts, ShownOriginType
    DEF About, ModelInv, DisplayInv
  <2>4. Cleared(t) /\ (Cleared(t) => Cleared(t)')
    BY <1>2, <2>1, <2>2 DEF About, Cleared
  <2>5. followUpResult # Null => followUpResult.answer.text = t
    BY <1>2, <2>1 DEF About
  <2> QED
    BY <1>2, <2>1, <2>2, <2>3, <2>4, <2>5 DEF About
<1> QED
  BY <1>4, <1>5, <1>6, <1>7

(* An answer is about the text its request was about.                      *)
LEMMA ResumeAbout ==
  ASSUME ModelInv, OneText, NEW j \in Jobs, Resume(j)
  PROVE  OneText'
<1>1. /\ ~Idle(j) /\ Busy
      /\ job'[j] = Null
      /\ \A i \in Jobs : i # j => job'[i] = job[i]
      /\ UNCHANGED <<latestClipboard, lastAction, approved, crossed>>
  BY DEF Resume, Busy, clipVars, histVars, ModelInv, DisplayInv, TypeOK, UiTypeOK
<1> SUFFICES ASSUME ~crossed PROVE OneText'
  BY <1>1 DEF OneText
<1>2. PICK t \in Texts \cup {Null} : About(t)
  BY DEF OneText
<1>3. \A i \in Jobs : ~Idle(i)' => job'[i].text = t
  BY <1>1, <1>2 DEF About, Idle
<1>4. Cleared(t)'
  BY <1>1, <1>2 DEF About, Cleared
<1>5. /\ actionResult' # Null => actionResult'.origin.text = t
      /\ followUpResult' # Null => followUpResult'.answer.text = t
  <2>1. CASE ResumeAction(j)
    BY <1>1, <1>2, <2>1 DEF ResumeAction, About
  <2>2. CASE ResumeFollowUp(j)
    BY <1>1, <1>2, <2>2 DEF ResumeFollowUp, About
  <2> QED
    BY <2>1, <2>2 DEF Resume
<1>6. About(t)'
  BY <1>1, <1>2, <1>3, <1>4, <1>5 DEF About
<1> QED
  BY <1>2, <1>6 DEF OneText

(* The rest leaves what is shown and asked alone, or takes some of it away. *)
LEMMA OtherFacts ==
  ASSUME TypeOK,
         \/ \E c \in ForeignClips : CopyElsewhere(c)
         \/ onCleared
         \/ \E item \in saving : ItemInserted(item)
         \/ \E action \in suggestedActions : performSensitiveAction(action)
         \/ cancelAiAction \/ startEditing \/ saveEdit \/ cancelEdit
         \/ clearActionResult
         \/ \E c \in Contents \ Protected : copyText(c)
         \/ saveStudyItem \/ saveFollowUp
         \/ UNCHANGED vars
  PROVE  /\ UNCHANGED <<latestClipboard, lastAction, followUpResult, approved,
                        crossed, overlapped>>
         /\ job' \in {job, [j \in Jobs |-> Null]}
         /\ \/ actionResult' \in {actionResult, Null}
            \/ /\ actionResult # Null
               /\ actionResult'.origin = actionResult.origin
<1> USE DEF uiVars, clipVars, resultVars, histVars
<1>1. CASE \/ \E c \in ForeignClips : CopyElsewhere(c)
           \/ \E c \in Contents \ Protected : copyText(c)
           \/ \E action \in suggestedActions : performSensitiveAction(action)
  BY <1>1 DEF CopyElsewhere, copyText, performSensitiveAction
<1>2. CASE onCleared
  BY <1>2 DEF onCleared
<1>3. CASE saveStudyItem \/ saveFollowUp \/ (\E item \in saving : ItemInserted(item))
  BY <1>3 DEF saveStudyItem, saveFollowUp, SaveItem, ItemInserted
<1>4. CASE cancelAiAction \/ startEditing \/ cancelEdit \/ clearActionResult
  BY <1>4 DEF cancelAiAction, startEditing, cancelEdit, clearActionResult,
              UnchangedByEditing
<1>5. CASE saveEdit
  BY <1>5 DEF saveEdit, UnchangedByEditing, TypeOK, UiTypeOK, ActionResult
<1>6. CASE UNCHANGED vars
  BY <1>6 DEF vars
<1> QED
  BY <1>1, <1>2, <1>3, <1>4, <1>5, <1>6

LEMMA OtherAbout ==
  ASSUME ModelInv, OneText,
         \/ \E c \in ForeignClips : CopyElsewhere(c)
         \/ onCleared
         \/ \E item \in saving : ItemInserted(item)
         \/ \E action \in suggestedActions : performSensitiveAction(action)
         \/ cancelAiAction \/ startEditing \/ saveEdit \/ cancelEdit
         \/ clearActionResult
         \/ \E c \in Contents \ Protected : copyText(c)
         \/ saveStudyItem \/ saveFollowUp
         \/ UNCHANGED vars
  PROVE  OneText'
<1>1. /\ UNCHANGED <<latestClipboard, lastAction, followUpResult, approved, crossed>>
      /\ job' \in {job, [j \in Jobs |-> Null]}
      /\ \/ actionResult' \in {actionResult, Null}
         \/ /\ actionResult # Null
            /\ actionResult'.origin = actionResult.origin
  BY OtherFacts DEF ModelInv, DisplayInv
<1>2. ASSUME NEW t, About(t) PROVE About(t)'
  <2>1. Busy' => Busy
    BY <1>1 DEF Busy, Idle
  <2>2. \A j \in Jobs : ~Idle(j)' => job'[j].text = t
    BY <1>1, <1>2 DEF About, Idle
  <2>3. actionResult' # Null =>
          actionResult # Null /\ actionResult'.origin = actionResult.origin
    BY <1>1
  <2>4. Cleared(t) => Cleared(t)'
    BY <1>1 DEF Cleared
  <2> QED
    BY <1>1, <1>2, <2>1, <2>2, <2>3, <2>4 DEF About
<1> QED
  BY <1>1, <1>2 DEF OneText

LEMMA OneTextStep ==
  ASSUME ScreenInv, [ScreenNext]_vars
  PROVE  OneText'
<1>1. OneText /\ ModelInv
  BY DEF ScreenInv
<1>2. CASE Environment
  BY <1>1, <1>2, ReadsAbout, OtherAbout DEF Environment
<1>3. CASE Internal
  BY <1>1, <1>3, ReadsAbout, ResumeAbout, OtherAbout DEF Internal
<1>4. CASE ScreenUser
  BY <1>1, <1>4, ReadsAbout, AskAbout, OtherAbout DEF ScreenUser
<1>5. CASE UNCHANGED vars
  BY <1>1, <1>5, OtherAbout
<1> QED
  BY <1>2, <1>3, <1>4, <1>5 DEF ScreenNext
----------------------------------------------------------------------------
(* Edits. *)

EditsOK == EditsInOrder /\ EditInPlace

(* A step that begins no request and no edit and brings no result.         *)
LEMMA QuietEdits ==
  ASSUME EditsOK,
         overlapped' = overlapped,
         job' \in {job, [j \in Jobs |-> Null]},
         editingText' \in {editingText, Null},
         actionResult' \in {actionResult, Null}
  PROVE  EditsOK'
<1>1. Busy' => Busy
  BY DEF Busy, Idle
<1> QED
  BY <1>1 DEF EditsOK, EditsInOrder, EditInPlace

LEMMA ReadEdits ==
  ASSUME EditsOK,
         \/ \E b \in BOOLEAN : setMonitoringEnabled(b)
         \/ \E b \in BOOLEAN : onWindowFocusChanged(b)
         \/ onPrimaryClipChanged
  PROVE  EditsOK'
<1>1. PICK r \in Results : applyResult(r)
  BY DEF setMonitoringEnabled, onWindowFocusChanged, onPrimaryClipChanged
<1>2. /\ UNCHANGED <<overlapped, job, editingText>>
      /\ actionResult' \in {actionResult, Null}
  BY <1>1 DEF applyResult, applyText, applyNothingToShow, applyUnavailable, noCallback
<1> QED
  BY <1>2, QuietEdits

(* An action closes the editor, and its result has not been edited.        *)
LEMMA ExecuteEdits ==
  ASSUME NEW action, NEW text, executeAction(action, text)
  PROVE  EditsOK'
<1>1. editingText' = Null
  BY DEF executeAction
<1>2. actionResult' # Null => actionResult'.content = actionResult'.origin
  BY DEF executeAction, ExecuteEngineAction, ExecuteLocalAction
<1> QED
  BY <1>1, <1>2 DEF EditsOK, EditsInOrder, EditInPlace

(* The buttons are not shown while the progress indicator runs, and it     *)
(* runs during every request that nothing overlaps.                        *)
LEMMA ButtonsMeanIdle ==
  ASSUME ModelInv, ButtonsShown, alive, ~overlapped
  PROVE  ~Busy
BY DEF ModelInv, IndicatorInv, IndicatorTruthful, ButtonsShown, DismissShown

LEMMA AskEdits ==
  ASSUME EditsOK, ModelInv,
         \/ \E action \in suggestedActions : performAction(action)
         \/ WarningCardShown /\ confirmAiAction
         \/ ButtonsShown /\ regenerateAction
         \/ FollowUpShown /\ askFollowUp
  PROVE  EditsOK'
<1>1. CASE \/ \E action \in suggestedActions : performAction(action)
           \/ confirmAiAction
           \/ regenerateAction
  BY <1>1, ExecuteEdits DEF performAction, confirmAiAction, regenerateAction
<1>2. CASE FollowUpShown /\ askFollowUp
  <2>1. editingText = Null
    BY <1>2 DEF FollowUpShown, ButtonsShown
  <2>2. /\ UNCHANGED <<actionResult, editingText>>
        /\ overlapped' = (overlapped \/ Busy)
    BY <1>2 DEF askFollowUp
  <2> QED
    BY <2>1, <2>2 DEF EditsOK, EditsInOrder, EditInPlace
<1> QED
  BY <1>1, <1>2

LEMMA ResumeEdits ==
  ASSUME EditsOK, NEW j \in Jobs, Resume(j)
  PROVE  EditsOK'
<1>1. /\ Busy
      /\ UNCHANGED <<editingText, overlapped>>
      /\ \/ UNCHANGED actionResult
         \/ actionResult'.content = actionResult'.origin
  BY DEF Resume, ResumeAction, ResumeFollowUp, Busy, histVars
<1>2. ~overlapped => editingText' = Null
  BY <1>1 DEF EditsOK, EditsInOrder
<1> QED
  BY <1>1, <1>2 DEF EditsOK, EditsInOrder, EditInPlace

LEMMA EditEdits ==
  ASSUME EditsOK, ModelInv,
         \/ cancelAiAction
         \/ ButtonsShown /\ startEditing
         \/ EditFieldShown /\ saveEdit
         \/ EditFieldShown /\ cancelEdit
         \/ DismissShown /\ clearActionResult
  PROVE  EditsOK'
<1>1. alive /\ UNCHANGED <<job, overlapped>>
  BY DEF cancelAiAction, startEditing, saveEdit, cancelEdit, clearActionResult,
         UnchangedByEditing, histVars
<1>2. Busy' <=> Busy
  BY <1>1 DEF Busy, Idle
<1>3. CASE cancelAiAction \/ cancelEdit \/ clearActionResult
  <2>1. editingText' \in {editingText, Null} /\ actionResult' \in {actionResult, Null}
    BY <1>3 DEF cancelAiAction, cancelEdit, clearActionResult
  <2> QED
    BY <1>1, <2>1, QuietEdits
<1>4. CASE ButtonsShown /\ startEditing
  <2>1. /\ actionResult' = actionResult /\ actionResult # Null
        /\ editingText' = actionResult.content
    BY <1>4 DEF startEditing
  <2>2. ~overlapped => ~Busy
    BY <1>1, <1>4, ButtonsMeanIdle
  <2> QED
    BY <1>1, <1>2, <2>1, <2>2 DEF EditsOK, EditsInOrder, EditInPlace
<1>5. CASE EditFieldShown /\ saveEdit
  <2>1. actionResult \in ActionResult /\ editingText # Null
    BY <1>5 DEF EditFieldShown, DismissShown, ModelInv, DisplayInv, TypeOK, UiTypeOK
  <2>2. /\ actionResult' = [actionResult EXCEPT !.content = editingText]
        /\ editingText' = Null
    BY <1>5, <2>1 DEF saveEdit, EditFieldShown, DismissShown
  <2>3. actionResult'.content = editingText /\ actionResult'.origin = actionResult.origin
    BY <2>1, <2>2 DEF ActionResult
  <2>4. ~overlapped => editingText = actionResult.origin
    BY <1>5, <2>1 DEF EditFieldShown, DismissShown, EditsOK, EditsInOrder
  <2> QED
    BY <1>1, <2>2, <2>3, <2>4 DEF EditsOK, EditsInOrder, EditInPlace
<1> QED
  BY <1>3, <1>4, <1>5

LEMMA OtherEdits ==
  ASSUME EditsOK,
         \/ \E c \in ForeignClips : CopyElsewhere(c)
         \/ onCleared
         \/ \E item \in saving : ItemInserted(item)
         \/ \E action \in suggestedActions : performSensitiveAction(action)
         \/ \E c \in Contents \ Protected : copyText(c)
         \/ saveStudyItem \/ saveFollowUp
         \/ UNCHANGED vars
  PROVE  EditsOK'
<1>1. /\ UNCHANGED <<overlapped, editingText, actionResult>>
      /\ job' \in {job, [j \in Jobs |-> Null]}
  <2> USE DEF uiVars, resultVars, histVars
  <2>1. CASE \/ \E c \in ForeignClips : CopyElsewhere(c)
             \/ \E c \in Contents \ Protected : copyText(c)
             \/ \E action \in suggestedActions : performSensitiveAction(action)
    BY <2>1 DEF CopyElsewhere, copyText, performSensitiveAction
  <2>2. CASE onCleared
    BY <2>2 DEF onCleared
  <2>3. CASE saveStudyItem \/ saveFollowUp \/ (\E item \in saving : ItemInserted(item))
    BY <2>3 DEF saveStudyItem, saveFollowUp, SaveItem, ItemInserted
  <2>4. CASE UNCHANGED vars
    BY <2>4 DEF vars
  <2> QED
    BY <2>1, <2>2, <2>3, <2>4
<1> QED
  BY <1>1, QuietEdits

LEMMA EditsStep ==
  ASSUME ScreenInv, [ScreenNext]_vars
  PROVE  EditsOK'
<1>1. EditsOK /\ ModelInv
  BY DEF ScreenInv, EditsOK
<1>2. CASE Environment
  BY <1>1, <1>2, ReadEdits, OtherEdits DEF Environment
<1>3. CASE Internal
  BY <1>1, <1>3, ReadEdits, ResumeEdits, OtherEdits DEF Internal
<1>4. CASE ScreenUser
  BY <1>1, <1>4, ReadEdits, AskEdits, EditEdits, OtherEdits DEF ScreenUser
<1>5. CASE UNCHANGED vars
  BY <1>1, <1>5, OtherEdits
<1> QED
  BY <1>2, <1>3, <1>4, <1>5 DEF ScreenNext

----------------------------------------------------------------------------
(* Follow-up answers and saved items. *)

LEMMA FollowUpStep ==
  ASSUME FollowUpMarked, [ScreenNext]_vars
  PROVE  FollowUpMarked'
<1> SUFFICES followUpResult' \in {followUpResult, Null}
             \/ followUpResult'.answer.action = "FOLLOW_UP"
  BY DEF FollowUpMarked
<1> USE DEF uiVars, resultVars
<1>1. CASE Environment
  BY <1>1 DEF Environment, CopyElsewhere, onWindowFocusChanged, applyResult, onCleared
<1>2. CASE Internal
  BY <1>2 DEF Internal, onPrimaryClipChanged, applyResult, Resume, ResumeAction,
              ResumeFollowUp, ItemInserted
<1>3. CASE ScreenUser
  BY <1>3
  DEF ScreenUser, setMonitoringEnabled, applyResult, performAction, confirmAiAction,
      regenerateAction, executeAction, performSensitiveAction, cancelAiAction,
      askFollowUp, startEditing, saveEdit, cancelEdit, clearActionResult,
      UnchangedByEditing, copyText, saveStudyItem, saveFollowUp, SaveItem
<1>4. CASE UNCHANGED vars
  BY <1>4 DEF vars
<1> QED
  BY <1>1, <1>2, <1>3, <1>4 DEF ScreenNext

Filed(item) ==
  /\ item.type = item.content.action
  /\ item.sourceText \in {Null, item.content.text}

(* The item that is put together from a click on one of the Save buttons.  *)
LEMMA SavedItem ==
  ASSUME ScreenInv, ~crossed, ~overlapped,
         (SaveShown /\ saveStudyItem) \/ (FollowUpShown /\ saveFollowUp)
  PROVE  \A item \in saving' \ saving : Filed(item)
<1>1. PICK t \in Texts \cup {Null} : About(t)
  BY DEF ScreenInv, OneText
<1>2. actionResult # Null /\ latestClipboard \in {Null, t}
  BY <1>1 DEF SaveShown, FollowUpShown, ButtonsShown, DismissShown, About
<1>3. CASE saveStudyItem
  <2>1. actionResult.content = actionResult.origin /\ actionResult.origin.text = t
    BY <1>1, <1>2 DEF ScreenInv, EditInPlace, About
  <2> QED
    BY <1>2, <1>3, <2>1 DEF saveStudyItem, SaveItem, Filed
<1>4. CASE saveFollowUp
  <2>1. followUpResult.answer.action = "FOLLOW_UP" /\ followUpResult.answer.text = t
    BY <1>1, <1>2, <1>4 DEF ScreenInv, FollowUpMarked, About, saveFollowUp
  <2> QED
    BY <1>2, <1>4, <2>1 DEF saveFollowUp, SaveItem, Filed
<1> QED
  BY <1>3, <1>4

(* What a step may do to the items on their way: only the Save buttons add *)
(* one.                                                                    *)
LEMMA SavingSteps ==
  ASSUME [ScreenNext]_vars
  PROVE  \/ saving' \subseteq saving
         \/ SaveShown /\ saveStudyItem
         \/ FollowUpShown /\ saveFollowUp
<1>1. CASE Environment
  BY <1>1 DEF Environment, CopyElsewhere, onWindowFocusChanged, applyResult, onCleared
<1>2. CASE Internal
  BY <1>2 DEF Internal, onPrimaryClipChanged, applyResult, Resume, ItemInserted
<1>3. CASE ScreenUser
  BY <1>3
  DEF ScreenUser, setMonitoringEnabled, applyResult, performAction, confirmAiAction,
      regenerateAction, executeAction, performSensitiveAction, cancelAiAction,
      askFollowUp, startEditing, saveEdit, cancelEdit, clearActionResult,
      UnchangedByEditing, copyText
<1>4. CASE UNCHANGED vars
  BY <1>4 DEF vars
<1> QED
  BY <1>1, <1>2, <1>3, <1>4 DEF ScreenNext

(* crossed and overlapped record the past: they stay set.                  *)
LEMMA HistoryStays ==
  ASSUME TypeOK, [ScreenNext]_vars
  PROVE  (crossed => crossed') /\ (overlapped => overlapped')
<1> SUFFICES /\ crossed' \in {crossed, crossed \/ Busy}
             /\ overlapped' \in {overlapped, overlapped \/ Busy}
  BY DEF TypeOK, UiTypeOK, Busy
<1> USE DEF histVars
<1>1. ASSUME NEW r \in Results, applyResult(r)
      PROVE  crossed' \in {crossed, crossed \/ Busy} /\ overlapped' = overlapped
  BY <1>1 DEF applyResult, applyText, applyNothingToShow, applyUnavailable, noCallback
<1>2. CASE \/ \E b \in BOOLEAN : setMonitoringEnabled(b)
           \/ \E b \in BOOLEAN : onWindowFocusChanged(b)
           \/ onPrimaryClipChanged
  <2>1. PICK r \in Results : applyResult(r)
    BY <1>2 DEF setMonitoringEnabled, onWindowFocusChanged, onPrimaryClipChanged
  <2> QED
    BY <1>1, <2>1
<1>3. CASE Environment /\ ~\E b \in BOOLEAN : onWindowFocusChanged(b)
  BY <1>3 DEF Environment, CopyElsewhere, onCleared
<1>4. CASE Internal /\ ~onPrimaryClipChanged
  BY <1>4 DEF Internal, Resume, ItemInserted
<1>5. CASE ScreenUser /\ ~\E b \in BOOLEAN : setMonitoringEnabled(b)
  BY <1>5
  DEF ScreenUser, performAction, confirmAiAction,
      regenerateAction, executeAction, performSensitiveAction, cancelAiAction,
      askFollowUp, startEditing, saveEdit, cancelEdit, clearActionResult,
      UnchangedByEditing, copyText, saveStudyItem, saveFollowUp, SaveItem
<1>6. CASE UNCHANGED vars
  BY <1>6 DEF vars
<1> QED
  BY <1>2, <1>3, <1>4, <1>5, <1>6 DEF ScreenNext, Environment, Internal, ScreenUser

LEMMA SavedStep ==
  ASSUME ScreenInv, [ScreenNext]_vars
  PROVE  SavedUnderItsSource'
<1> SUFFICES ASSUME ~crossed', ~overlapped', NEW item \in saving' PROVE Filed(item)
  BY DEF SavedUnderItsSource, Filed
<1>1. ~crossed /\ ~overlapped
  BY HistoryStays DEF ScreenInv, ModelInv, DisplayInv
<1>2. item \in saving => Filed(item)
  BY <1>1 DEF ScreenInv, SavedUnderItsSource, Filed
<1>3. CASE saving' \subseteq saving
  BY <1>2, <1>3
<1>4. CASE (SaveShown /\ saveStudyItem) \/ (FollowUpShown /\ saveFollowUp)
  <2>1. \A i \in saving' \ saving : Filed(i)
    BY <1>1, <1>4, SavedItem
  <2> QED
    BY <1>2, <2>1
<1> QED
  BY <1>3, <1>4, SavingSteps

(* A step that begins no request and brings no result.                     *)
LEMMA QuietFollowUps ==
  ASSUME FollowUpsInOrder,
         crossed => crossed', overlapped => overlapped',
         followUpResult' = followUpResult,
         job' \in {job, [j \in Jobs |-> Null]},
         \/ actionResult' \in {actionResult, Null}
         \/ actionResult # Null /\ actionResult'.origin = actionResult.origin
  PROVE  FollowUpsInOrder'
<1>1. \A about : AskedUnder(about) =>
        (actionResult' # Null => about = actionResult'.origin)
  BY DEF AskedUnder
<1>2. \A j \in Jobs : job'[j] # Null => job'[j] = job[j] /\ ~Idle(j)
  BY DEF Idle
<1> QED
  BY <1>1, <1>2 DEF FollowUpsInOrder, AskedUnder, Idle

(* An action drops the follow-up answer of the result it replaces.         *)
LEMMA ExecuteFollowUps ==
  ASSUME TypeOK, NEW action, NEW text, executeAction(action, text)
  PROVE  FollowUpsInOrder'
<1> SUFFICES ASSUME ~overlapped' PROVE FollowUpsInOrder'
  BY DEF FollowUpsInOrder
<1>1. ~Busy /\ followUpResult' = Null
  BY DEF executeAction, TypeOK, UiTypeOK, Busy
<1>2. \A j \in Jobs : job'[j] # Null => job'[j].kind # "followUp"
  <2>1. CASE ExecuteEngineAction(action, text)
    BY <1>1, <2>1 DEF ExecuteEngineAction, Launch, Busy, Idle, TypeOK, UiTypeOK
  <2>2. CASE ExecuteLocalAction(action, text)
    BY <1>1, <2>2 DEF ExecuteLocalAction, Busy, Idle
  <2> QED
    BY <2>1, <2>2 DEF executeAction
<1> QED
  BY <1>1, <1>2 DEF FollowUpsInOrder, Idle

(* A follow-up is asked under the result on the screen.                    *)
LEMMA AskFollowUps ==
  ASSUME TypeOK, FollowUpsInOrder, askFollowUp
  PROVE  FollowUpsInOrder'
<1> SUFFICES ASSUME ~overlapped', ~crossed' PROVE FollowUpsInOrder'
  BY DEF FollowUpsInOrder
<1>1. /\ ~Busy /\ ~overlapped /\ ~crossed
      /\ UNCHANGED <<actionResult, followUpResult>>
  BY DEF askFollowUp, TypeOK, UiTypeOK, Busy
<1>2. PICK j \in Jobs :
        Launch(j, "followUp", "FOLLOW_UP", latestClipboard, ShownOrigin)
  BY DEF askFollowUp
<1>3. /\ job'[j].kind = "followUp" /\ job'[j].about = ShownOrigin
      /\ \A i \in Jobs : i # j => job'[i] = Null
  BY <1>1, <1>2 DEF Launch, Busy, Idle, TypeOK, UiTypeOK
<1>4. AskedUnder(ShownOrigin)
  BY DEF AskedUnder, ShownOrigin
<1> QED
  BY <1>1, <1>3, <1>4 DEF FollowUpsInOrder, AskedUnder, Idle

LEMMA ResumeFollowUps ==
  ASSUME ModelInv, FollowUpsInOrder, NEW j \in Jobs, Resume(j)
  PROVE  FollowUpsInOrder'
<1> SUFFICES ASSUME ~overlapped', ~crossed' PROVE FollowUpsInOrder'
  BY DEF FollowUpsInOrder
<1>1. ~overlapped /\ ~crossed /\ ~Idle(j)
  BY DEF Resume, histVars
<1>2. \A i \in Jobs : job'[i] = Null
  BY <1>1 DEF Resume, ModelInv, IndicatorInv, AtMostOne, Idle, TypeOK, UiTypeOK
<1>3. followUpResult' # Null =>
        (actionResult' # Null => followUpResult'.about = actionResult'.origin)
  <2>1. CASE ResumeAction(j)
    BY <1>1, <2>1 DEF ResumeAction, FollowUpsInOrder
  <2>2. CASE ResumeFollowUp(j)
    BY <1>1, <2>2 DEF ResumeFollowUp, FollowUpsInOrder, AskedUnder
  <2> QED
    BY <2>1, <2>2 DEF Resume
<1> QED
  BY <1>2, <1>3 DEF FollowUpsInOrder, AskedUnder, Idle

LEMMA FollowUpsStep ==
  ASSUME ScreenInv, [ScreenNext]_vars
  PROVE  FollowUpsInOrder'
<1>1. TypeOK /\ ModelInv /\ FollowUpsInOrder
  BY DEF ScreenInv, ModelInv, DisplayInv
<1>2. (crossed => crossed') /\ (overlapped => overlapped')
  BY <1>1, HistoryStays
<1>3. ASSUME NEW r \in Results, applyResult(r) PROVE FollowUpsInOrder'
  <2>1. /\ UNCHANGED <<job, followUpResult>>
        /\ actionResult' \in {actionResult, Null}
    BY <1>3 DEF applyResult, applyText, applyNothingToShow, applyUnavailable, noCallback
  <2> QED
    BY <1>1, <1>2, <2>1, QuietFollowUps
<1>4. CASE \/ \E b \in BOOLEAN : setMonitoringEnabled(b)
           \/ \E b \in BOOLEAN : onWindowFocusChanged(b)
           \/ onPrimaryClipChanged
  <2>1. PICK r \in Results : applyResult(r)
    BY <1>4 DEF setMonitoringEnabled, onWindowFocusChanged, onPrimaryClipChanged
  <2> QED
    BY <1>3, <2>1
<1>5. CASE \/ \E action \in suggestedActions : performAction(action)
           \/ confirmAiAction
           \/ regenerateAction
  BY <1>1, <1>5, ExecuteFollowUps DEF performAction, confirmAiAction, regenerateAction
<1>6. CASE askFollowUp
  BY <1>1, <1>6, AskFollowUps
<1>7. CASE \E j \in Jobs : Resume(j)
  BY <1>1, <1>7, ResumeFollowUps
<1>8. CASE \/ \E c \in ForeignClips : CopyElsewhere(c)
           \/ onCleared
           \/ \E item \in saving : ItemInserted(item)
           \/ \E action \in suggestedActions : performSensitiveAction(action)
           \/ cancelAiAction \/ startEditing \/ saveEdit \/ cancelEdit
           \/ clearActionResult
           \/ \E c \in Contents \ Protected : copyText(c)
           \/ saveStudyItem \/ saveFollowUp
           \/ UNCHANGED vars
  <2>1. /\ UNCHANGED <<followUpResult, crossed, overlapped>>
        /\ job' \in {job, [j \in Jobs |-> Null]}
        /\ \/ actionResult' \in {actionResult, Null}
           \/ /\ actionResult # Null
              /\ actionResult'.origin = actionResult.origin
    BY <1>1, <1>8, OtherFacts
  <2> QED
    BY <1>1, <1>2, <2>1, QuietFollowUps
<1> QED
  BY <1>4, <1>5, <1>6, <1>7, <1>8 DEF ScreenNext, Environment, Internal, ScreenUser

----------------------------------------------------------------------------
(* The theorems. *)

LEMMA ScreenInvInit == Init => ScreenInv
<1> SUFFICES ASSUME Init PROVE ScreenInv
  OBVIOUS
<1>1. EditsInOrder /\ EditInPlace /\ FollowUpMarked /\ SavedUnderItsSource
  BY DEF Init, EditsInOrder, EditInPlace, FollowUpMarked, SavedUnderItsSource, Busy
<1>2. FollowUpsInOrder
  BY DEF Init, FollowUpsInOrder, Idle
<1> QED
  BY <1>1, <1>2, ModelInit, OneTextInit DEF ScreenInv

LEMMA ScreenInvStep == ScreenInv /\ [ScreenNext]_vars => ScreenInv'
<1> SUFFICES ASSUME ScreenInv, [ScreenNext]_vars PROVE ScreenInv'
  OBVIOUS
<1>1. ModelInv' /\ FollowUpMarked'
  BY ModelStep, FollowUpStep DEF ScreenInv
<1>2. OneText'
  BY OneTextStep
<1>3. EditsOK'
  BY EditsStep
<1>4. SavedUnderItsSource'
  BY SavedStep
<1>5. FollowUpsInOrder'
  BY FollowUpsStep
<1> QED
  BY <1>1, <1>2, <1>3, <1>4, <1>5 DEF ScreenInv, EditsOK

LEMMA ScreenInvariant == ScreenSpec => []ScreenInv
<1>1. Init => ScreenInv
  BY ScreenInvInit
<1>2. ScreenInv /\ [ScreenNext]_vars => ScreenInv'
  BY ScreenInvStep
<1> QED
  BY <1>1, <1>2, PTL DEF ScreenSpec

(* The result on the screen is about the text on the screen, unless a text *)
(* was read during a request (applyResult, executeAction).                 *)
THEOREM ResultIsForShownText == ScreenSpec => []ResultForShownText
<1>1. ScreenInv => ResultForShownText
  BY DEF ScreenInv, OneText, About, ResultForShownText
<1> QED
  BY <1>1, ScreenInvariant, PTL

(* An edit is saved into the result it was begun on, unless an action      *)
(* began during a request: a draft that outlives its result is dropped     *)
(* before the next result comes (startEditing, saveEdit, executeAction).   *)
THEOREM EditsStayInPlace == ScreenSpec => []EditInPlace
<1>1. ScreenInv => EditInPlace
  BY DEF ScreenInv
<1> QED
  BY <1>1, ScreenInvariant, PTL

(* Until a text is read during a request, a follow-up answer stands under  *)
(* a result about the same text, and until requests overlap as well, under *)
(* the very result it was asked about, although applyResult clears one and *)
(* not the other (askFollowUp, executeAction).                             *)
THEOREM FollowUpIsForResult == ScreenSpec => []FollowUpMatches
<1>1. ScreenInv => FollowUpMatches
  BY DEF ScreenInv, OneText, About, FollowUpsInOrder, AskedUnder, FollowUpMatches
<1> QED
  BY <1>1, ScreenInvariant, PTL

(* No sensitive text is on its way to the AI engine that the user has not  *)
(* confirmed, whichever of the four ways it took, unless a text was read   *)
(* during a request (performAction, regenerateAction, askFollowUp).        *)
THEOREM SensitiveTextIsConfirmed == ScreenSpec => []ConfirmedUnlessCrossed
<1>1. ScreenInv => ConfirmedUnlessCrossed
  <2> SUFFICES ASSUME ScreenInv, ~crossed, NEW j \in Jobs, ~Idle(j),
                      job[j].text \in SensitiveTexts
               PROVE  job[j].text \in approved
    BY DEF ConfirmedUnlessCrossed
  <2>1. PICK t \in Texts \cup {Null} : About(t)
    BY DEF ScreenInv, OneText
  <2>2. job[j].text = t /\ Cleared(t)
    BY <2>1 DEF About, Busy
  <2> QED
    BY <2>2 DEF Cleared
<1> QED
  BY <1>1, ScreenInvariant, PTL

(* A study item carries the action and the text its content was made from, *)
(* unless requests overlapped or a text was read during one                *)
(* (saveStudyItem, saveFollowUp).                                          *)
THEOREM ItemsAreFiledRight == ScreenSpec => []SavedUnderItsSource
<1>1. ScreenInv => SavedUnderItsSource
  BY DEF ScreenInv
<1> QED
  BY <1>1, ScreenInvariant, PTL
==============================================================================
