------------------------------- MODULE AiChat -------------------------------
(***************************************************************************)
(* The Kotlin inference engine of the llama library (InferenceEngineImpl)  *)
(* over its native bridge (ai_chat.cpp): the engine's state machine, the   *)
(* model and context the bridge holds in globals, and the conversation in  *)
(* the context's memory with the positions the bridge keeps beside it.     *)
(*                                                                         *)
(* Everything runs on a dispatcher of one thread.  The only point where a  *)
(* task lets others in is emit, in the flow of sendUserPrompt; cleanUp and *)
(* destroy raise _cancelGeneration on the thread of their caller first and *)
(* wait for the dispatcher then.                                           *)
(***************************************************************************)
EXTENDS Integers, FiniteSets, FiniteSetsExt

CONSTANTS ContextSize, \* DEFAULT_CONTEXT_SIZE
          Headroom,    \* OVERFLOW_HEADROOM
          BatchSize,   \* BATCH_SIZE
          Sizes,       \* numbers of tokens of a formatted prompt
          Predict      \* predictLength

ASSUME ChatAssumption ==
  /\ BatchSize \in Nat \ {0} /\ Headroom \in Nat \ {0}
  /\ ContextSize \in Nat /\ ContextSize > Headroom
  /\ Sizes \subseteq Nat \ {0} /\ Predict \in Nat

VARIABLES
  state, readyForSystemPrompt, cancelGeneration,
  flow,    \* "none", "busy": it holds the dispatcher, "emit": suspended there
  waiting, \* calls that raised the flag and wait for the dispatcher
  g_model, g_context, \* "null", "live", "freed"
  mem,     \* the tokens in the context's memory, with their positions
  system_prompt_position, current_position, stop_generation_position,
  destroyed, reset, \* history: destroy ran; cleanUp reset an Error
  overran, \* history: a prompt was cut, or shifted the context and succeeded
  stray    \* history: a native call used what is not live; nothing is known after it

engine == <<state, readyForSystemPrompt, cancelGeneration, flow, waiting>>
handles == <<g_model, g_context>>
chat == <<mem, system_prompt_position, current_position, stop_generation_position>>
history == <<destroyed, reset, overran, stray>>
vars == <<engine, handles, chat, history>>

Limit == ContextSize - Headroom
isModelLoaded ==
  state \in {"ModelReady", "Benchmarking", "ProcessingSystemPrompt", "ProcessingUserPrompt", "Generating"}
Live == g_model = "live" /\ g_context = "live"

Init ==
  /\ state = "Uninitialized" /\ readyForSystemPrompt = FALSE /\ cancelGeneration = FALSE
  /\ flow = "none" /\ waiting = {}
  /\ g_model = "null" /\ g_context = "null"
  /\ mem = {} /\ system_prompt_position = 0 /\ current_position = 0 /\ stop_generation_position = 0
  /\ destroyed = FALSE /\ reset = FALSE /\ overran = FALSE /\ stray = FALSE

----------------------------------------------------------------------------
(* The context's memory.  c is what the native code works on: the tokens, the
   two positions, and whether the calls so far succeeded. *)

positions(m) == {t.pos : t \in m}

\* Mutant: the tokens that are kept stay at their old positions.
shift_contextNoMove(c) ==
  LET n_discard == (c.cur - c.sys) \div 2 IN
  [c EXCEPT !.cur = @ - n_discard,
            !.mem = {t \in c.mem : t.pos < c.sys \/ t.pos >= c.sys + n_discard}]

\* Half of what follows the system prompt goes; the rest moves down.
shift_context(c) ==
  LET n_discard == (c.cur - c.sys) \div 2
      kept == {t \in c.mem : t.pos < c.sys \/ t.pos >= c.sys + n_discard} IN
  [c EXCEPT !.cur = @ - n_discard,
            !.mem = {IF t.pos >= c.sys + n_discard /\ t.pos < c.cur
                     THEN [t EXCEPT !.pos = @ - n_discard] ELSE t : t \in kept}]

\* llama_decode takes n tokens from position p on if they follow what the memory
\* holds and there is room; it may fail all the same.
decode(c, p, n, role, works) ==
  IF /\ works
     /\ c.mem = {} \/ p = Max(positions(c.mem)) + 1
     /\ Cardinality(c.mem) + n <= ContextSize
  THEN [c EXCEPT !.mem = @ \union {[pos |-> q, role |-> role] : q \in p .. p + n - 1}]
  ELSE [c EXCEPT !.ok = FALSE]

\* The batch of n tokens that begins with token i; start is the position of
\* token 0.  Nothing is decoded behind a failure.
decode_batch(c, start, i, n, role, works) ==
  LET size == Min({n - i, BatchSize})
      room == IF start + i + size >= Limit THEN shift_context(c) ELSE c IN
  IF c.ok THEN decode(room, start + i, size, role, works) ELSE c

\* n tokens from position start on, batch by batch; the one numbered bad fails.
Batches(n) == (n + BatchSize - 1) \div BatchSize
decode_tokens_in_batches(c0, start, n, role, bad) ==
  LET after[b \in 0 .. Batches(n)] ==
        IF b = 0 THEN c0
        ELSE decode_batch(after[b - 1], start, (b - 1) * BatchSize, n, role, b # bad)
  IN after[Batches(n)]

----------------------------------------------------------------------------
(* The operations.  A call in a state its check refuses throws and changes
   nothing: it is no step, unless it has raised the flag before. *)

Free == flow # "busy" /\ ~stray /\ state # "Uninitialized"

\* Loading the library; an UnsatisfiedLinkError is no Exception, the state stays.
LibraryLoaded(ok) ==
  /\ state = "Uninitialized"
  /\ state' = IF ok THEN "Initialized" ELSE "Initializing"
  /\ UNCHANGED <<readyForSystemPrompt, cancelGeneration, flow, waiting, handles, chat, history>>

\* outcome: where loading ends.
loadModel(outcome) ==
  /\ Free /\ state = "Initialized"
  /\ state' = IF outcome = "ok" THEN "ModelReady" ELSE "Error"
  /\ readyForSystemPrompt' = IF outcome = "no file" THEN readyForSystemPrompt ELSE outcome = "ok"
  /\ cancelGeneration' = IF outcome = "ok" THEN FALSE ELSE cancelGeneration
  /\ g_model' = IF outcome \in {"not prepared", "ok"} THEN "live" ELSE g_model
  /\ IF outcome = "ok" THEN g_context' = "live" /\ mem' = {} ELSE UNCHANGED <<g_context, mem>>
  /\ reset' = FALSE
  /\ UNCHANGED <<flow, waiting, system_prompt_position, current_position,
                 stop_generation_position, destroyed, overran, stray>>

\* processSystemPrompt starts the conversation over; any failure is an Error.
setSystemPrompt(n, bad) ==
  LET c == decode_tokens_in_batches([mem |-> {}, cur |-> 0, sys |-> 0, ok |-> TRUE], 0, n, "system", bad)
      fits == n <= Limit IN
  /\ Free /\ state = "ModelReady" /\ readyForSystemPrompt /\ Live
  /\ readyForSystemPrompt' = FALSE
  /\ state' = IF fits /\ c.ok THEN "ModelReady" ELSE "Error"
  /\ mem' = IF fits THEN c.mem ELSE {}
  /\ system_prompt_position' = IF fits /\ c.ok THEN n ELSE 0
  /\ current_position' = IF fits /\ c.ok THEN n ELSE 0
  /\ stop_generation_position' = 0
  /\ UNCHANGED <<cancelGeneration, flow, waiting, handles, history>>

\* sendUserPrompt up to the loop.  The prompt is cut to the context but counted
\* in full; when it fails the flow just returns and leaves the state.
sendUserPrompt(n, bad) ==
  LET c0 == [mem |-> mem, cur |-> current_position, sys |-> system_prompt_position, ok |-> TRUE]
      c == decode_tokens_in_batches(c0, current_position, Min({n, Limit}), "turn", bad) IN
  /\ Free /\ state = "ModelReady" /\ Live
  /\ readyForSystemPrompt' = FALSE
  /\ mem' = c.mem
  /\ overran' = (overran \/ n > Limit \/ c.cur # current_position)
  /\ IF c.ok
     THEN /\ state' = "Generating" /\ flow' = "busy"
          /\ current_position' = c.cur + n
          /\ stop_generation_position' = c.cur + n + n + Predict
     ELSE /\ state' = "ProcessingUserPrompt"
          /\ current_position' = c.cur
          /\ stop_generation_position' = 0
          /\ UNCHANGED flow
  /\ UNCHANGED <<cancelGeneration, waiting, handles, system_prompt_position, destroyed, reset, stray>>

EndFlow == state' = "ModelReady" /\ flow' = "none"

\* Mutant: the stop position is looked at before it is reached only.
GenerateOneTooFar(works, result) ==
  LET c0 == [mem |-> mem, cur |-> current_position, sys |-> system_prompt_position, ok |-> TRUE]
      c1 == IF c0.cur >= Limit THEN shift_context(c0) ELSE c0
      c2 == decode(c1, c1.cur, 1, "turn", works) IN
  /\ flow # "none" /\ ~stray
  /\ IF cancelGeneration
     THEN EndFlow /\ UNCHANGED <<mem, current_position>>
     ELSE /\ Live
          /\ IF c1.cur > stop_generation_position
             THEN EndFlow /\ mem' = c1.mem /\ current_position' = c1.cur
             ELSE /\ mem' = c2.mem
                  /\ current_position' = IF c2.ok THEN c1.cur + 1 ELSE c1.cur
                  /\ IF ~c2.ok \/ result = "end" THEN EndFlow
                     ELSE flow' = result /\ UNCHANGED state
  /\ UNCHANGED <<readyForSystemPrompt, cancelGeneration, waiting, handles,
                 system_prompt_position, stop_generation_position, history>>

\* One turn of the loop: nothing if it was cancelled, else generateNextToken,
\* which ends the answer (null), gives a part of a character ("", the loop goes
\* on) or text to emit.
Generate(works, result) ==
  LET c0 == [mem |-> mem, cur |-> current_position, sys |-> system_prompt_position, ok |-> TRUE]
      c1 == IF c0.cur >= Limit THEN shift_context(c0) ELSE c0
      c2 == decode(c1, c1.cur, 1, "turn", works) IN
  /\ flow # "none" /\ ~stray
  /\ IF cancelGeneration
     THEN EndFlow /\ UNCHANGED <<mem, current_position>>
     ELSE /\ Live
          /\ IF c1.cur >= stop_generation_position
             THEN EndFlow /\ mem' = c1.mem /\ current_position' = c1.cur
             ELSE /\ mem' = c2.mem
                  /\ current_position' = IF c2.ok THEN c1.cur + 1 ELSE c1.cur
                  /\ IF ~c2.ok \/ result = "end" THEN EndFlow
                     ELSE flow' = result /\ UNCHANGED state
  /\ UNCHANGED <<readyForSystemPrompt, cancelGeneration, waiting, handles,
                 system_prompt_position, stop_generation_position, history>>

\* The collector is cancelled while the flow is suspended.
CollectorCancelled ==
  /\ flow = "emit" /\ ~stray
  /\ EndFlow
  /\ UNCHANGED <<readyForSystemPrompt, cancelGeneration, waiting, handles, chat, history>>

\* bench works on a context of its own.
bench ==
  /\ Free /\ state = "ModelReady" /\ Live
  /\ readyForSystemPrompt' = FALSE
  /\ UNCHANGED <<state, cancelGeneration, flow, waiting, handles, chat, history>>

unload ==
  /\ g_model' = "freed" /\ g_context' = "freed"
  /\ mem' = {} /\ system_prompt_position' = 0 /\ current_position' = 0 /\ stop_generation_position' = 0

\* The part of cleanUp and destroy before runBlocking.
Raise(call) ==
  /\ ~stray /\ call \notin waiting
  /\ cancelGeneration' = TRUE /\ waiting' = waiting \union {call}
  /\ UNCHANGED <<state, readyForSystemPrompt, flow, handles, chat, history>>

\* Mutant: a generation that is suspended is unloaded too.
cleanUpGenerating ==
  /\ Free /\ "cleanUp" \in waiting
  /\ waiting' = waiting \ {"cleanUp"}
  /\ CASE state \in {"ModelReady", "Generating"} ->
            /\ Live /\ unload
            /\ readyForSystemPrompt' = FALSE /\ state' = "Initialized" /\ UNCHANGED reset
       [] state = "Error" ->
            /\ state' = "Initialized" /\ reset' = TRUE
            /\ UNCHANGED <<readyForSystemPrompt, handles, chat>>
       [] OTHER -> UNCHANGED <<state, readyForSystemPrompt, handles, chat, reset>>
  /\ UNCHANGED <<cancelGeneration, flow, destroyed, overran, stray>>

\* In any other state cleanUp throws, and the flag stays up.
cleanUp ==
  /\ Free /\ "cleanUp" \in waiting
  /\ waiting' = waiting \ {"cleanUp"}
  /\ CASE state = "ModelReady" ->
            /\ Live /\ unload
            /\ readyForSystemPrompt' = FALSE /\ state' = "Initialized" /\ UNCHANGED reset
       [] state = "Error" ->
            /\ state' = "Initialized" /\ reset' = TRUE
            /\ UNCHANGED <<readyForSystemPrompt, handles, chat>>
       [] OTHER -> UNCHANGED <<state, readyForSystemPrompt, handles, chat, reset>>
  /\ UNCHANGED <<cancelGeneration, flow, destroyed, overran, stray>>

\* The state and a suspended flow stay as they are.
destroy ==
  /\ Free /\ "destroy" \in waiting
  /\ waiting' = waiting \ {"destroy"}
  /\ readyForSystemPrompt' = FALSE /\ destroyed' = TRUE
  /\ IF state = "Initialized" THEN UNCHANGED <<handles, chat, stray>>
     ELSE unload /\ stray' = ~Live
  /\ UNCHANGED <<state, cancelGeneration, flow, reset, overran>>

\* A native call that would use what is freed or was never there.
StrayCall ==
  /\ ~stray /\ ~Live
  /\ (Free /\ state = "ModelReady") \/ (flow # "none" /\ ~cancelGeneration)
  /\ stray' = TRUE
  /\ UNCHANGED <<engine, handles, chat, destroyed, reset, overran>>

Turn == \E works \in BOOLEAN, result \in {"end", "busy", "emit"} : Generate(works, result)

Next ==
  \/ \E ok \in BOOLEAN : LibraryLoaded(ok)
  \/ \E outcome \in {"no file", "not loaded", "not prepared", "ok"} : loadModel(outcome)
  \/ \E n \in Sizes : \E bad \in 0 .. Batches(n) : setSystemPrompt(n, bad) \/ sendUserPrompt(n, bad)
  \/ Turn \/ CollectorCancelled \/ bench
  \/ \E call \in {"cleanUp", "destroy"} : Raise(call)
  \/ cleanUp \/ destroy \/ StrayCall

\* The dispatcher runs what is queued, and the collector goes on collecting.
Spec == Init /\ [][Next]_vars /\ WF_vars(Turn)

----------------------------------------------------------------------------
(* Properties *)

\* Until destroy the engine's state tells what the globals hold: no native call
\* uses a model or context that is not there, whatever is suspended in an emit,
\* and loading loses none, except after an Error that cleanUp only reset.
LoadedWhileReady ==
  ~destroyed => /\ ~stray
                /\ isModelLoaded => Live
                /\ state = "Initialized" /\ ~reset => g_model # "live" /\ g_context # "live"

\* While the engine takes prompts or answers one, the memory holds exactly the
\* positions below current_position and still begins with the system prompt,
\* through shifts, failed batches, cancelled answers and reloads.  (A prompt
\* longer than the context is cut but counted in full, and one that makes the
\* context shift between its batches leaves a hole: both spoil this.)
MemoryIsTheConversation ==
  state \in {"ModelReady", "Generating"} /\ ~destroyed /\ ~overran =>
    /\ positions(mem) = 0 .. current_position - 1
    /\ Cardinality(mem) = current_position
    /\ positions({t \in mem : t.role = "system"}) = 0 .. system_prompt_position - 1

\* An answer ends, also if the model never ends it, when it is cancelled or when
\* its stop position lies below the limit at which the context is shifted.
AnswerEnds ==
  (state = "Generating" /\ (cancelGeneration \/ stop_generation_position < Limit))
    ~> (state # "Generating" \/ destroyed)
=============================================================================
