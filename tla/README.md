# ContextAI: a TLA+ model of the clipboard assistant

ContextAI is an Android application.  It watches the system clipboard while its
window has the focus, detects what kind of text is on it, offers actions for
that kind, and carries them out locally or with a language model on the device.
What it generates can be edited, copied, asked about and saved to a study
library.  The repository also carries a Kotlin inference engine over llama.cpp,
its JNI bridge, and llama.cpp itself.  This directory holds TLA+ modules of their
control logic, the TLC configurations that check them on small instances, and
TLAPS proofs of the theorems that hold for every instance.

Paths below are relative to
`src/app/src/main/java/com/example/myapplication/` unless they start with `app/`.
`InferenceEngineImpl.kt` and `ai_chat.cpp` are in `app/llama/android/src/main/`,
`llama-*` in `app/llama/src/`, `ggml-cpu.c` in `app/llama/ggml/src/ggml-cpu/`,
`log.cpp` in `app/llama/common/`.

## 1. Inventory

| component | source | state it keeps | operations | modelled in |
|---|---|---|---|---|
| Clipboard monitor | `clipboard/ClipboardMonitor.kt` | `monitoringEnabled`, `hasWindowFocus`, the registered listener, the callback | `setMonitoringEnabled`, `setHasWindowFocus`, the listener, `tryRead`, `readClipboard`, `release` | `ClipboardMonitor` |
| Clipboard view model | `clipboard/ClipboardViewModel.kt` | `ClipboardUiState`, the coroutines of `viewModelScope` | its public methods, the monitor's callback, two kinds of coroutine that suspend in the engine, one that suspends in the repository, `onCleared` | `ClipboardViewModel` |
| Screen | `ui/ContextAiScreen.kt` | none of its own that matters here | shows and enables the controls | `ContextAiScreen` |
| Action handler | `actions/ActionHandler.kt` | none | `handleAction`, `copyToClipboard`, intents | part of `ClipboardViewModel` |
| Action suggestions | `actions/ActionSuggestionEngine.kt` | none | `getSuggestions` | `ActionSuggestions` |
| Sensitive content filter | `ai/SensitiveContentFilter.kt` | none | `containsSensitiveInfo` | a constant set |
| AI engine | `ai/LocalAIEngine.kt`, `ai/LocalAIState.kt` | `_state`, `llmInference`, one activation of `runInference` per request | ten prompts through `runInference`, `release` | `EngineService` (abstract), `LocalAIEngine` |
| Model file manager | `ai/LocalModelManager.kt` | the files at the staging path and in internal storage | `setupModel`, `getModelFile` | `LocalModelManager`, with `initializeModel` of the engine |
| Classifier | `classifier/` | none | `classify` | a constant function |
| Math evaluator | `math/SafeMathEvaluator.kt` | none | `evaluate` | an action whose result is on the screen at once |
| Study library storage | `data/`, `repository/` | the Room table | insert, whole-row update, delete, the list | `StudyLibrary`; insertion by the view model in `ClipboardViewModel` |
| Study library screens | `ui/library/`, `data/StudyLibraryViewModel.kt`, `MainActivity.kt` | one view model per destination with its own snapshot of the table, search, filter, the dialog of a card, the quiz on the screen | favourite, delete, search, open, back, answer, Retake | `StudyLibrary` |
| Kotlin inference engine | `InferenceEngineImpl.kt` | a state machine, two flags, a dispatcher of one thread, the flow of an answer | load, prompts, bench, `cleanUp`, `destroy` | `AiChat` |
| JNI bridge | `ai_chat.cpp` | model and context in globals, three positions in the context | prompts, tokens, context shift, unload | `AiChat` |
| KV cache of llama.cpp | `llama-kv-cells.h`, `llama-kv-cache.cpp`, parts of `llama-context.cpp`, `llama-batch.cpp` | cells with positions, sequences and pending shifts; heads; pending stream copies | the memory calls, `find_slot`, `prepare`, `apply_ubatch`, `update`, `decode` | `SeqMemory` (abstract), `KvCache` |
| CPU thread pool of ggml | `ggml-cpu.c` | the graph number, a barrier, a chunk counter, stop, pause and abort flags | compute, pause, resume, free; what each worker does | `ThreadPool` |
| Log of the llama.cpp tools | `log.cpp` | a ring of entries, its worker thread, the file | add, pause, resume, flush, change the file | `CommonLog` |
| GGUF reader | `app/llama/android/.../gguf/` | none between calls | parse a header | not modelled |
| Old engine, theme, the rest of llama.cpp | `AiEngine.kt`, `ui/theme/`, `app/llama/` | | | not modelled |

How they interact.  The system runs the monitor's listener on the main thread;
the window tells the view model about its focus; both make the monitor read and
call the view model back in the same step.  The screen calls the view model's
methods.  `executeAction` and `askFollowUp` start coroutines that run on the
main thread up to the engine, suspend while `runInference` works on
`Dispatchers.Default`, and resume on the main thread.  The engine publishes a
state which a collector in the view model copies to the screen.  The action
COPY writes to the very clipboard the monitor reads.  The constructor of the
engine runs the model file manager.

The study library's screens write through coroutines of their view models and
draw from snapshots that Room refreshes after each write.  `AiChat.kt` hands out
one `InferenceEngineImpl`, which calls the bridge from one thread; the bridge
works on a llama.cpp context, whose memory is the KV cache and whose graphs run
on the thread pool.  The application does not call `InferenceEngineImpl` yet.

What is hard about it: any number of requests may be under way at once (the
suggestion cards are never disabled), the clipboard and the focus change while
they are, a coroutine resumes into a state that is not the one it left, the
engine's threads race with each other and with `release`, files are pushed and
processes die while a model is being copied.  In the library whole rows are
written from snapshots that may be old, and leaving a screen cancels what it
wrote.  In the inference engine flags are raised on other threads than the one
that reads them, and an answer in progress lets other calls in.  In llama.cpp
what fails half-way must be undone (KV cache), threads meet at a spinning
barrier at every node of a graph (thread pool), and a queue is read without
its lock (log).  `PROJECT.json` lists each hazard at its line with the
properties that watch it.

What makes each part correct:

* monitor: it reads only while it may, never lets a flagged text in, and misses
  no occasion to read;
* view model: what belongs together on the screen stays together: suggestions
  and text, result and text, edit and result, follow-up and result, indicator
  and request, saved item and its source; a sensitive text is confirmed before
  it reaches the engine;
* engine: every request is answered once; the published state is right; a release
  in the midst of requests leaves nothing running;
* model files: what a start copied is what it loads, whole; what went wrong is
  repaired at a later start; every start ends;
* study library: when the writes are done the table is what the user did; the
  score counts the answers; the list catches up;
* inference engine and bridge: no native call without a model, the context's
  memory is the conversation, answers end;
* KV cache: it cannot be told from a memory without cells, slots, deferred work
  and trial placement, and a token finds what it attends to;
* thread pool: every part of every node once and in order, the right result, no
  lost wake-up;
* log: what is printed is what was added, and pausing returns.

## 2. Modules

```
ActionSuggestions   ClipboardMonitor        EngineService         LocalModelManager
          \            /                         ^ refinement             |
         ClipboardViewModel                LocalAIEngine         MCLocalModelManager
                 |
          ContextAiScreen
                 |
            MCClipboard

StudyLibrary        AiChat             SeqMemory        ThreadPool     CommonLog
      |                                    ^ refinement      |
MCStudyLibrary                          KvCache        MCThreadPool
                                           |
                                       MCKvCache
```

**`ClipboardMonitor`** has one action per method.  Each takes a parameter `r`,
the result handed to the callback in that step, or `NoResult`; the owner says
what becomes of it.  A clip is a content and the sensitive flag.  The preview of
a content (500 characters and an ellipsis) is the constant function
`PreviewOf`; the assumption that previewing a preview changes nothing is what
`take(500) + "…"` does to a text of 501 characters that ends in the ellipsis.
The clipboard manager may refuse any read, by an exception, by a null clip or by
denying that there is a clip.  A change report is posted to the
main thread (`notice`) and run later; with focus the system always reports, and
without focus it may or may not.

**`ClipboardViewModel`** adds the fields of `ClipboardUiState` and one `job` per
request under way.  Because `viewModelScope` runs on `Dispatchers.Main.immediate`
a method is one step up to its suspension point: `executeAction` of an engine
action ends with the request under way (`ExecuteEngineAction`), of any other
action with the result on the screen (`ExecuteLocalAction`); `Resume` is the
rest of either coroutine.  A generated text is identified by the action and the
text it answers (`Origin`), so that a property can say which text a result, an
edit or a saved item came from; a follow-up answer also remembers which result
it was asked under (`about`, a history the code has no field for).  A text is never spelled out: contents are model
values, and which of them look sensitive, are academic, are blank or are of
which type are constants.  The engine appears as `EngineService` promises it: a
request is answered once, in any order.  `approved`, `overlapped` and `crossed`
are history variables no action reads.  Here every public method may be called
in every state.

**`ContextAiScreen`** restricts the calls to the controls the screen shows:
Dismiss and the buttons of the result card not while the indicator runs, Save
and the follow-up field only under the titles listed there, confirmation only in
the warning card.  Suggestion cards and the switch are always enabled, as in the
code.

**`EngineService`** is what the view model relies on: `Ask`, `Answer`, `Close`.
**`LocalAIEngine`** is `DefaultLocalAIEngine` with one step for each access to
`llmInference` and `_state` in `runInference`, since those run on several
threads.  It is shown to implement `EngineService` with
`asked <- {j : open /\ ~At(j, "none")}`.  `release` is a single step (the module
says why that loses nothing).

**`LocalModelManager`** has `setupModel` with its three looks at the staging file
(valid, as long as the internal one, opened) and the copy chunk by chunk, the
validation and the loading, each a step, against a developer who pushes and
removes staging files and a process that may die at any step.  A file is the
artifact it comes from and its length so far.  `staged` and `copied` are
histories: the staging file a start relied on, and whether it relied on it by
copying it or by finding a file of that length in place.  On POSIX a push unlinks the old
file, and a copy that has it open goes on reading it (`unlinked`).

**`StudyLibrary`** has the table, a queue of writes, one snapshot per view model
and what each screen remembers.  A write is the row the screen shows with one
field changed, as `StudyLibraryViewModel` builds it; Room runs the writes in
order (`Write`) and a snapshot follows later (`Refresh`).  `Back` drops the view
model of the screen that is left and, for each write it has launched, may or may
not cancel it.  The search and the type filter are the set of ids they let
through; the dialog belongs to a place in the list, as `remember` does without a
key; the quiz has its three fields and the option each card keeps.  `intent` is
the table the user would expect; `spoilt` records that a tap acted on something
other than what was shown, or was cancelled.

**`AiChat`** is `InferenceEngineImpl` over `ai_chat.cpp`.  One step is a stretch
the dispatcher thread runs without letting others in: a whole call, or one turn
of the loop of `sendUserPrompt` (`Turn`), after which the flow may be suspended
in `emit`.  `Raise` is the part of `cleanUp` and `destroy` that runs before
`runBlocking`.  The memory is a set of positioned tokens of the system prompt or
of a turn; `decode_tokens_in_batches` and `shift_context` are operators on it
with the code's arithmetic, and every native call may fail, a prompt at any of
its batches.  What a context accepts is `llama_decode` as `llama-batch.cpp:287`
checks it: positions that follow the last one, if there is room.  A native call
on something not loaded is `StrayCall`; nothing is claimed after it.

**`SeqMemory`** says what `llama.h` promises of a context's memory: tokens with a
position and sequences, the calls that change them, a batch of which a part was
computed, failed, or found no room.  **`KvCache`** is the code: cells, heads,
`find_slot` with its search and the cells it may overwrite under a window,
`prepare` that places the micro-batches on trial and takes them out again,
`update` with the stream copies and the rotation of keys, and `decode` with its
retry and its failures.  It is shown to implement `SeqMemory` with
`mem <- the used cells` (of before the trial, while one is under way).  The keys
are a value per cell: which token it is and to which position it is rotated.
`has_shift` is computed from the cells; the code keeps a flag that stays up until
the next update or clear, so it may run an update that rotates nothing.

**`ThreadPool`** has one action for each access to a shared variable or each
section under the mutex of `ggml_graph_compute_thread`, the barrier, the
chunked matrix product and the waiting loops.  A graph is a sequence of nodes:
a product with a number of chunks, an operation split by rows, or nothing.
`times` counts how often each part was computed.

**`CommonLog`** has one action per section under the mutex and one for printing
an entry.  One owner pauses, resumes, flushes and changes the file, since
`log.h:58` calls those functions not thread-safe; any number of loggers add.

**`ActionSuggestions`** has the tables: types to actions, local and AI actions,
actions that suspend in the engine.

## 3. Runs

| run | question | bounds | states |
|---|---|---|---|
| `ReadClipboard` | what is read, and when | three texts (one truncated, one only copied flagged), a blank one; one request; no saving | 115 000 |
| `AskEngine` | what belongs together across requests, and what is saved | two texts, one sensitive; two requests, symmetric; one item on its way; constraint `KeepsReading` | 760 000 |
| `StaleResult` | a result is cleared by a new text: **violated** | one request | |
| `SkippedConfirmation` | no sensitive text without confirmation: **violated** | one request | |
| `LocalAIEngine` | the engine implements its service; what its state says; a release in the midst of requests | three requests | 24 000 |
| `LocalModelManager` | what is loaded after a copy and after a skipped one; repair | two artifacts of three units and one of four, two pushes, two faults | 10 500 |
| `StaleModel` | the staged model is the one in use: **violated** | the same | |
| `StudyLibrary` | the table, the score and the list against what the user did | two items, three writes, two questions of which one has no correct letter, two filters | 1 150 000 |
| `AiChat` | loaded handles, the conversation, the end of answers | a context of 12 positions, headroom 2, batches of 4, prompts of 1, 3, 5 and 11 tokens, answers of 2 | 19 000 |
| `KvCache` | the cells implement the memory; windows, holes, rotations | two sequences, four cells a stream, micro-batches of 3, batches of 2 and 3, with and without a window of 2, one stream or two; two memory calls, two batches | 345 000 |
| `ThreadPool` | parts in order, result, quiet between graphs, termination | three threads; graphs for two, for all and for one of them; two graphs, one pause | 218 000 |
| `CommonLog` | order, completeness, termination | two loggers with two messages each, a ring of three, two pauses | 40 000 |

Safety of the reading side: `NoProtectedText` (a text only ever copied with the
flag reaches nothing), `ReadsOnlyWhenAllowed` (the contract in the class comment
of the monitor), `DisplayFresh` and `DerivedFieldsMatch`.  Safety of the asking
side: `IndicatorTruthful`, `ResultForShownText`, `EditInPlace`,
`FollowUpMatches`, `SavedUnderItsSource`, `ConfirmedUnlessCrossed`.  The last
five say exactly how far the code goes: they hold until an action begins during
another (`overlapped`) or a text is read during a request (`crossed`), and the
three violated runs show that the unconditional statements, which are the
code's own comments, do not.  Liveness: `IndicatorEnds`, `DisplayCatchesUp`,
`StartEnds`, `Heals`, `RestsAfterRelease`, and the fairness of
`ImplementsService`; `ShowsTheTable`, `AnswerEnds`, `CallsReturn` and
`DeliversAndReturns`.

Engine and model files.  `ImplementsService` ends where the engine is released;
`RestsAfterRelease` says what becomes of the requests that are under way then:
all of them end, and the state comes to rest, though not always at Idle (section
5).  `LoadedAsStaged` says what Ready means when a staging file was there: after
a copy, that very file, whatever was pushed meanwhile; after a skipped copy, a
file of equal length.  A part of an artifact is therefore loaded in two cases
only, both of which the run reaches: the staging file was a part itself, or it
was another artifact of that length.

The other components.  `TableIsTheUsersWork` says when whole-row writes from
snapshots lose nothing, and that no deleted item comes back;
`ScoreCountsAnswers` ties the score to the cards.  `LoadedWhileReady` relates the
Kotlin state to the native handles, `MemoryIsTheConversation` the positions the
bridge keeps to the memory it shares with llama.cpp.  `ImplementsSeqMemory` is
the refinement; `RotationPending` (a key is rotated to its position, or the
rest of the rotation is pending), `DecodeMakesNoHole` (the comment at
`llama-kv-cache.cpp:1145`) and `WindowPresent` are what it cannot say.
Both leave out batches of several micro-batches under a window (section 5).
`PartsInOrder`, `ResultIsWholeNodes` and `QuietBetweenGraphs` (the comment at
`ggml-cpu.c:3375`) are about the barrier, the chunk counter, the abort and the
reset of the pool; `PrintedAsAdded` and `PausedMeansPrinted` about reading the
ring without the lock.

Why the bounds are enough.  Texts only matter through the constants (flagged or
not, blank, truncated, sensitive); one of each kind, and a second ordinary one
to be the "other" text, gives every combination two texts can be in.  Two
requests are the least that overlap; the engine is checked with three since a
restored state may come from a request that itself restored one.  All contents
have the type CODE, whose suggestions are one engine action that can be saved
and followed up (EXPLAIN) and one local action that writes to the clipboard
(COPY): the other types offer more of the same two kinds.  `MaxSaving` bounds
the items on their way to the repository.  `KeepsReading` leaves out states that
only delay a read and those in which both histories are set, where every
invariant of the run is either vacuous or about the indicator, which
`ReadClipboard` and the proof cover without it.  In `LocalModelManager` a
file has three or four units, and two pass the minimum size, so a partial file
can look valid; the part of the longer artifact is as long as the whole of a
shorter one; two pushes and two faults (deaths during a start, failed copies)
allow a fault in the repair of a fault.  Closing a running application is not
bounded.

`StudyLibrary`: two items are a card and the one that takes its place; three
writes are two that race and one in between; a question with and one without a
correct letter behave in every way a question can.  `AiChat`: the prompts fit in
one batch, in two, make the context shift at once or after an answer, and exceed
it; a conversation is not bounded, only the context is.  `KvCache`: two sequences
are the least that share a token or differ in stream; batches of two and three
tokens on four cells are placed in one and in two micro-batches, fill the cache,
and wrap around its end; a second batch meets what the first and the calls
between have left.  `ThreadPool`: three threads are the least of which one can
lag behind the barrier while two meet at the next; two graphs reuse the pool,
with four graph numbers instead of 2^16 (what is compared is only whether the
number changed) and two chunks per thread instead of four.  `CommonLog`: the proof covers every
capacity; for termination a ring of three is full with two entries and is used
more than once around.

Deadlock is not checked where the system may stop: after `onCleared` or
`release`, and where the bounded environment has nothing left to do.

Fairness.  `Resume(j)`: the engine answers every request, which is what
`LocalAIEngine` shows under weak fairness of its own steps; `generateResponse`
ends because it generates at most `maxTokens` tokens.  `onPrimaryClipChanged`:
the main looper runs what is posted to it.  `initializeModel`: a constructor
runs to its end unless the process dies.  `runInference(j)`, `Return(j)`: the threads of the
dispatcher run; no fairness is needed of `CollectAiState`.  `RefreshDrawn`, `Write`: Room runs its queue and
the screen that is shown collects.  `Turn`: the dispatcher runs what is queued
and the collector of an answer goes on collecting.  In `ThreadPool` and
`CommonLog` every thread that can run does, one weak fairness per thread or
step; for the pool that includes the spinning threads, which the code trusts the
scheduler with.  The owner of the log is fair only once it has called pause.
`KvCache` states no fairness: it has no liveness property.  Nothing is assumed
of the user, the other applications, the window or the developer; `Heals` and `DisplayCatchesUp`
state what they need of those as premises.

## 4. Proofs

All theorems are about the specifications `Spec` of the module, `EngineSpec` and
`ModelSpec`, for every value of the constants that satisfies the named
assumptions, without the bounds of the runs.  `ContextAiScreen` only restricts the calls of
`Spec` (`ScreenImplementsViewModel`), so what is proved of the view model holds of
the screen too; what needs the screen is proved of `ScreenSpec`.

| theorem | says | inductive invariant |
|---|---|---|
| `ClipboardProofs!TypeCorrect` | `TypeOK` | itself |
| `ClipboardProofs!ProtectedTextStaysOut` | `NoProtectedText` | with `ClipClear`: the application writes to the clipboard without the flag, so one must also know that what is readable there is visible already |
| `ClipboardProofs!DisplayIsFresh`, `!SuggestionsFit`, `!NoReadBehindTheBack` | `DisplayFresh`, `DerivedFieldsMatch`, `ReadsOnlyWhenAllowed` | with `MonitorWired`: callback set, listener registered exactly while monitoring is on |
| `ClipboardProofs!IndicatorIsTruthful` | `IndicatorTruthful` | with `AtMostOne`: without overlap there is one request, so its end may end the indicator |
| `ClipboardProofs!ScreenImplementsViewModel` | `ScreenSpec => Spec` | each step of the screen is one of the view model |
| `ClipboardProofs!ResultIsForShownText`, `!EditsStayInPlace`, `!FollowUpIsForResult`, `!SensitiveTextIsConfirmed`, `!ItemsAreFiledRight` | `ResultForShownText`, `EditInPlace`, `FollowUpMatches`, `ConfirmedUnlessCrossed`, `SavedUnderItsSource`, of the screen | what each says of the results, edits and items on the screen, said of every request under way as well, with what the hidden controls make impossible meanwhile; for the follow-up (`FollowUpsInOrder`), that a question under way is about the result still on the screen |
| `LocalAIEngineProofs!EngineTypeCorrect` | `EngineTypeOK` | with `PrevSet`: what is restored has been saved |
| `LocalAIEngineProofs!EngineNeverMisreported` | `NeverMisreported` | with `LoadedWhileWorking`: a request past the null check has an engine, and has saved a state of a loaded one |
| `LocalAIEngineProofs!EngineStateExact` | `StateExactWhenAlone` | with `Alone` and `RestoresReady` |
| `LocalAIEngineProofs!EngineIsService` | `EngineSpec => Service!SvcSpec` | each step maps to a step of the service or a stutter |
| `LocalModelManagerProofs!ModelTypeCorrect`, `!LoadedIsStaged` | `ModelTypeOK`, `LoadedAsStaged` | with `CopiesOneModel`, `ReadyIsRunning` and `InternalIsStaged`: from the decision to skip or the end of the copy on, the internal file is what `LoadedAsStaged` will say of it |
| `CommonLogProofs!LogTypeCorrect`, `!LogPrintsAsAdded`, `!LogPausedIsPrinted` | `TypeOK`, `PrintedAsAdded`, `PausedMeansPrinted` of the log | `RingInv`: what the ring holds, slot by slot, between the next slot to print and the tail, and how far the worker's copy of the tail reaches |
| `AiChatProofs!NativeCallsAreLoaded` | `LoadedWhileReady` | `EngineInv`: an answer is under way exactly in Generating, and nothing is loaded before the first load |
| `AiChatProofs!ConversationIsKept` | `MemoryIsTheConversation` | `ChatInv`: in ModelReady and Generating the memory is an interval of positions up to the bridge's own (`Talk`), which is also what every batch of a prompt leaves; where nothing is loaded the positions are 0 |
| `StudyLibraryProofs!EveryTapIsKept` | `TableIsTheUsersWork` | `TableInv`: until a tap is spoilt, what every row will be when the queued writes are done (`Settled`) is what was meant; ids and write numbers are used once |
| `StudyLibraryProofs!QuizIsCountedRight` | `ScoreCountsAnswers` | `QuizInv`: the counters count the cards that are answered |
| `ThreadPoolProofs!ThreadsMeet` | all threads that compute head for one barrier | `MeetInv`: they agree on the node and the purpose of the barrier, and it counts those that wait |
| `ThreadPoolProofs!PoolIsQuiet` | `QuietBetweenGraphs` | `MeetInv` |
| `ThreadPoolProofs!PartsAreComputedInOrder`, `!ResultsAreWhole` | `PartsInOrder`, `ResultIsWholeNodes` | `PartsInv`: which parts are taken, done or still to be taken, from what the threads have in hand and the chunk counter |
| `KvCacheProofs!BatchesHaveTheirSlots` | the micro-batches fit their slots and no trial is left when one is computed | `TypeInv` |
| `KvCacheProofs!KeysAreRotated` | `RotationPending` | `RotInv`: while micro-batches are on trial, what the first of them that took a cell has saved of it |

Of the log's properties neither speaks of the ring, yet whether a message is
printed once depends on slots not being overwritten while they wait, and that on
the head standing still during a flush.  `Flushed + Pending <= Capacity - 1` is
the fact that a full queue leaves one slot unused, counted over what is printed
but not freed yet and what waits; the end entry takes that last slot, which is
why pausing never overwrites a message even when it then fails to stop the
worker.  Indices are compared through `After` and `Distance`, with the modulus
removed once (`NextSlot`).

In the thread pool a thread may still look for work in one node, or skip empty
ones, while another already waits at the barrier behind them.  `MeetInv`
therefore says which barrier a thread heads for, not where it is.  That all
agree on it is what makes the reset of the chunk counter, the use of the shared
buffer and the decision to abort safe, and the last thread to arrive finds
exactly the others waiting.

While the cache has micro-batches on trial its cells are not meant to be right:
one micro-batch may overwrite what another has placed, and they are taken out in
reverse order.  What is right then is what a cell will hold in the end, which is
what the first micro-batch that took it has saved (`Untouched`).

Two definitions are recursive functions: the batches of a prompt
(`decode_tokens_in_batches`) and the stream copies of the cache
(`stream_copies`).  Each is first shown to exist; what holds behind every
one of its steps is then shown of the least step at which it would not, since
induction over data is out of the provers' reach.  The same argument gives the
greatest and least element of a finite set, which `Max` and `Min` choose.

Assumptions: `PreviewAssumption` (what `readClipboard` does to a text),
`ClassifierAssumption` (the classifier and filter are functions of the text),
`NullAssumption` (`Null` is not a request), `ModelAssumption`, `CapacityAssumption` and
`BoundsAssumption` of the log, `ChatAssumption`, those of the library (types only) and of the thread
pool (types, and `MaxGraphs < GraphIds`: the proofs cover a pool until its 16-bit
graph number wraps), and `CacheAssumption`: types, divisors greater than
one, and at most one more sequence than a micro-batch has room for, because
`split_equal` leaves further sequences to a later micro-batch
(`llama-batch.cpp:546`), which `split` does not model.  TLC evaluates them in every run.

Model-checked only: every liveness property and the fairness half of
`ImplementsService`, since the prover handles neither ENABLED nor fairness; of
the cache the action properties `DecodeMakesNoHole` and `WindowPresent`, whose
invariant must say which positions a trial placement purges, and the refinement
`ImplementsSeqMemory`.

## 5. Where the code does not keep its word

Violated runs:

* `StaleResult`: `clipboard/ClipboardViewModel.kt:237` clears the result on new
  content, but `:94` puts the answer of a request begun before back under the
  new text.
* `SkippedConfirmation`: `:70` wants a confirmation for sensitive text;
  `regenerateAction` and `askFollowUp` do not ask for one, and after a late
  answer their buttons are there for a text nobody confirmed.
* `StaleModel`: `ai/LocalModelManager.kt:34` wants the staged model to be the one
  in use; the comparison at `:37` is of lengths only.

Cases a property excepts, because the code does not cover them.  For four of
them the repository does promise something, and the code breaks it there:
`llama.h:782` and `llama-kv-cache.cpp:1145` promise that all positions of a
sequence from the least to the greatest are present (`OnePass`);
`InferenceEngineImpl.kt:310` says that `destroy` cancels all ongoing coroutines
(`destroyed`); `ui/library/StudyDetailScreen.kt:197` offers "Retake Quiz"
(`retaken`); `setupModel` wants the staged model (`LoadedAsStaged`, of which
`StaleModel` is the run).  The first three have no violated run of their own: the
exception is in the property, and this section says what happens in it.

* `LocalAIEngine`, after `release`: a request that already had the engine puts the
  state of before back over the Idle that `release` has set
  (`ai/LocalAIEngine.kt:100`, `:103`), so a released engine may say Ready.  The
  view model that would show it is gone by then.
* `LocalModelManager`, a skipped copy: a part left by a copy that stopped is
  loaded if a push in progress, or another artifact, has just its length.
* `StudyLibrary`, `spoilt`: two writes from one snapshot overwrite each other; a
  dialog survives the list moving under it; leaving the detail screen may
  cancel the score.  `retaken`: after Retake no card can be answered.
* `AiChat`, `overran`: a prompt longer than the context is cut
  (`ai_chat.cpp:432`) but counted in full, and a shift between two batches of a
  prompt moves `current_position` while the batches go on from the old start.
  The stop position is not moved by a shift (`:493`), so an answer whose stop
  position lies above the limit is ended by the model or the user only.
* `AiChat`, `destroyed`: `destroy` leaves the state and a suspended answer as they
  are, and a load queued before it takes the flag down again
  (`InferenceEngineImpl.kt:177`): what comes next calls into freed handles.
  `reset`: `cleanUp` after an Error keeps the model that was loaded before the
  error.  A prompt that fails leaves ProcessingUserPrompt for good; a refused
  `cleanUp` leaves its flag up, and the next answer is empty.
* `CommonLog`, `EndUnseen`: pausing with a full ring and a worker that is not
  printing makes the full ring look empty: the worker sleeps on, the join hangs.
* `KvCache`, `OnePass`: under a window the trial placement of several
  micro-batches purges cells that restoring does not bring back
  (`llama-kv-cache.cpp:795` restores the slots only).  `divided`: `pos_div`
  records its shift with the opposite sign of `pos_add` (`llama-kv-cells.h:451`).
  `Fail` of `SeqMemory`: a failed micro-batch is removed from the first sequence
  of each token only (`llama-context.cpp:1826`).

## 6. Not modelled

* Layout, wording, the regular expressions of the classifier and the filter,
  prompts: data the control of the application does not look into.
* The math evaluator: a pure function in floating point.
* The GGUF reader: a sequential parser; its state does not outlive a call.
* `AiEngine.kt`: no other file refers to it.
* Flashcards; the texts of a quiz (`parseQuiz` is the constant `Correct`).
* Of `AiChat`: the list of chat messages, which characters are split over
  tokens (a turn of the loop may have no text to emit), the sampler.
* Of the KV cache: saving and loading a state, the defragmenting option,
  embeddings, M-RoPE positions; recurrent and hybrid memories.
* Of the thread pool: OpenMP (its barrier is the library's), fused operations,
  affinity, the llamafile path, weaker memory orders than sequential
  consistency, a pause from another thread during a graph.
* The rest of llama.cpp, by far the largest part of the tree: kernels, GPU
  backends, model graphs, tokenizers, samplers, conversion, server and examples.
  It is vendored, and nearly all of it is arithmetic on tensors or tables
  without a state that several callers share.  For that reason the modules
  cover a small share of the lines of the tree; what they leave out of the
  application itself.

## 7. Plan

Done in this order: monitor and view model (the core), screen, engine with its
abstract service, model files, their proofs; study library, inference engine
and bridge, KV cache with its abstract memory, thread pool, log, the proofs of
the log and of the engine's handles; then the proofs of the screen, the study
library, the thread pool, the conversation and the rotation of the keys.  Next:

1. `DecodeMakesNoHole` and `WindowPresent` of the cache.  They need, beside
   `RotInv`, which positions of a sequence a micro-batch takes and purges.
2. The safety half of `ImplementsSeqMemory`: a memory call is a step of
   `SeqMemory`, the trial a stutter up to what it purges (`Forget`), a computed or
   failed micro-batch a step.
