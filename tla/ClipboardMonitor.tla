-------------------------- MODULE ClipboardMonitor --------------------------
(***************************************************************************)
(* ClipboardMonitor: the object between the Android system clipboard and   *)
(* the view model.  It reads the clipboard when monitoring is switched on, *)
(* when the window gains focus and when the system reports a change, and   *)
(* hands the outcome to its callback.  All of it runs on the main thread,  *)
(* so each method is one step.                                             *)
(*                                                                         *)
(* Every action has a parameter r: the result the callback is called with  *)
(* in that step, or NoResult when the step does not read.  The module that *)
(* composes the monitor with its owner says what the owner does with r.    *)
(*                                                                         *)
(* A clip is abstracted to its content and the EXTRA_IS_SENSITIVE flag; a  *)
(* content is what coerceToText returns, and PreviewOf the text of at most *)
(* PREVIEW_CHAR_LIMIT characters (and an ellipsis) the monitor makes of it.*)
(***************************************************************************)

CONSTANTS
  Contents,      \* the texts that can be on the clipboard
  Texts,         \* the previews: what the application gets to see
  PreviewOf,     \* the preview of each content that is not blank
  Truncated,     \* the contents longer than PREVIEW_CHAR_LIMIT
  Blank,         \* the contents for which isBlank holds
  HonorsFlag,    \* TRUE on API level 33 and later
  Protected,     \* the contents other applications only copy with the flag
  NoClip,        \* the clipboard holds no clip
  Null           \* Kotlin's null

(* A preview is itself a text one can copy.  Reading it back gives the     *)
(* same preview: a truncated one has PREVIEW_CHAR_LIMIT + 1 characters, so *)
(* it is truncated again, at the same place and with the same ellipsis.    *)
ASSUME PreviewAssumption ==
  /\ Texts \subseteq Contents \ Blank
  /\ PreviewOf \in [Contents \ Blank -> Texts]
  /\ \A t \in Texts : PreviewOf[t] = t
  /\ Truncated \subseteq Contents
  /\ \A c \in Contents \ Blank : PreviewOf[c] \in Truncated <=> c \in Truncated
  /\ Protected \subseteq Contents
  /\ HonorsFlag \in BOOLEAN
  /\ Null \notin Contents

(* What the application may show, generate from and save: the previews of  *)
(* the contents that some application copies without the flag, or all of   *)
(* them on an API level that does not know the flag.                       *)
Visible ==
  {PreviewOf[c] : c \in Contents \ (Blank \cup (IF HonorsFlag THEN Protected
                                                              ELSE {}))}

VARIABLES
  clip,          \* the system clipboard
  monEnabled,    \* ClipboardMonitor.monitoringEnabled
  monFocus,      \* ClipboardMonitor.hasWindowFocus
  listening,     \* clipChangedListener # null
  callbackSet,   \* callback # null
  notice,        \* a change report is posted to the main thread
  refused        \* history: the last read did not return what is there

monVars == <<monEnabled, monFocus, listening, callbackSet, notice, refused>>

(* A clip other applications put on the clipboard.                         *)
ForeignClips ==
  [content : Contents \ Protected, flagged : BOOLEAN]
    \cup [content : Protected, flagged : {TRUE}] \cup {NoClip}

Clips == [content : Contents, flagged : BOOLEAN] \cup {NoClip}

Outcome(kind)  == [kind |-> kind, preview |-> Null, truncated |-> FALSE]
NoResult       == Outcome("None")
TextResult(c)  ==
  [kind |-> "Text", preview |-> PreviewOf[c], truncated |-> c \in Truncated]

Results ==
  [kind : {"Text"}, preview : Texts, truncated : BOOLEAN]
    \cup {Outcome(k) : k \in {"Empty", "Unavailable", "Sensitive", "None"}}

MonTypeOK ==
  /\ clip \in Clips
  /\ monEnabled \in BOOLEAN
  /\ monFocus \in BOOLEAN
  /\ listening \in BOOLEAN
  /\ callbackSet \in BOOLEAN
  /\ notice \in BOOLEAN
  /\ refused \in BOOLEAN

MonInit ==
  /\ clip \in ForeignClips
  /\ monEnabled = FALSE
  /\ monFocus = FALSE
  /\ listening = FALSE
  /\ callbackSet = TRUE
  /\ notice = FALSE
  /\ refused = FALSE
----------------------------------------------------------------------------
isSensitive(c) == HonorsFlag /\ c.flagged

(* What a read makes of the clip there is.                                 *)
ClipOutcome ==
  IF clip = NoClip THEN Outcome("Empty")
  ELSE IF isSensitive(clip) THEN Outcome("Sensitive")
  ELSE IF clip.content \in Blank THEN Outcome("Empty")
  ELSE TextResult(clip.content)

(* Mutant: the flag is not looked at.                                      *)
readClipboardUnchecked ==
  {Outcome("Unavailable"), Outcome("Empty")} \cup
    {IF clip = NoClip THEN Outcome("Empty")
     ELSE IF clip.content \in Blank THEN Outcome("Empty")
     ELSE TextResult(clip.content)}

(* What readClipboard can return: the clipboard manager may always refuse, *)
(* by an exception, a null clip, or by denying that there is one, as it    *)
(* does when the system has moved the focus and the window does not know.  *)
readClipboard == {Outcome("Unavailable"), Outcome("Empty"), ClipOutcome}

(* Mutant: a read does not look at the focus.                              *)
tryReadUnfocused(enabled, focus, r) ==
  IF enabled /\ callbackSet
    THEN /\ r \in readClipboard
         /\ refused' = (r # ClipOutcome)
    ELSE /\ r = NoResult
         /\ UNCHANGED refused

tryRead(enabled, focus, r) ==
  IF enabled /\ focus /\ callbackSet
    THEN /\ r \in readClipboard
         /\ refused' = (r # ClipOutcome)
    ELSE /\ r = NoResult
         /\ UNCHANGED refused

registerListener   == listening' = TRUE /\ UNCHANGED notice
unregisterListener == listening' = FALSE /\ notice' = FALSE

(* Mutant: switching monitoring on registers no listener.                  *)
MonSetEnabledUnregistered(enabled, r) ==
  /\ monEnabled' = enabled
  /\ IF enabled
       THEN tryRead(enabled, monFocus, r)
       ELSE r = NoResult /\ UNCHANGED refused
  /\ notice' = (notice /\ enabled)
  /\ UNCHANGED <<clip, monFocus, listening, callbackSet>>

MonSetMonitoringEnabled(enabled, r) ==
  /\ monEnabled' = enabled
  /\ IF enabled
       THEN registerListener /\ tryRead(enabled, monFocus, r)
       ELSE unregisterListener /\ r = NoResult /\ UNCHANGED refused
  /\ UNCHANGED <<clip, monFocus, callbackSet>>

(* Mutant: gaining focus does not read.                                    *)
MonSetFocusOnly(focus, r) ==
  /\ monFocus' = focus
  /\ r = NoResult
  /\ UNCHANGED <<clip, monEnabled, listening, callbackSet, notice, refused>>

MonSetHasWindowFocus(focus, r) ==
  /\ monFocus' = focus
  /\ IF focus /\ monEnabled
       THEN tryRead(monEnabled, focus, r)
       ELSE r = NoResult /\ UNCHANGED refused
  /\ UNCHANGED <<clip, monEnabled, listening, callbackSet, notice>>

(* The system runs the registered listener on the main thread.  Several    *)
(* reports posted at once are one: each read after the first finds the     *)
(* same clip, as after copying it again.                                   *)
MonClipChanged(r) ==
  /\ notice
  /\ listening
  /\ notice' = FALSE
  /\ tryRead(monEnabled, monFocus, r)
  /\ UNCHANGED <<clip, monEnabled, monFocus, listening, callbackSet>>

MonRelease ==
  /\ unregisterListener
  /\ callbackSet' = FALSE
  /\ monEnabled' = FALSE
  /\ monFocus' = FALSE
  /\ UNCHANGED <<clip, refused>>

(* The system clipboard takes a new clip, set by another application or by *)
(* this one.  A registered listener of the focused application is told; an *)
(* application without focus may or may not be.                            *)
SetPrimaryClip(c) ==
  /\ clip' = c
  /\ \E told \in BOOLEAN :
       /\ ~listening => ~told
       /\ listening /\ monFocus => told
       /\ notice' = (notice \/ told)
  /\ UNCHANGED <<monEnabled, monFocus, listening, callbackSet, refused>>
============================================================================
