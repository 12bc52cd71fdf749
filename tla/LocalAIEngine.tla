--------------------------- MODULE LocalAIEngine ---------------------------
(***************************************************************************)
(* DefaultLocalAIEngine: one MediaPipe LlmInference instance, a published  *)
(* state, and runInference, which every request of the view model goes     *)
(* through.  runInference runs on the threads of Dispatchers.Default, so   *)
(* the reads and writes of several requests, and release() on the main     *)
(* thread, interleave: each access to a shared field is a step of its own. *)
(*                                                                         *)
(* release() is one step although it makes three writes: a request reads   *)
(* llmInference once, so reading it between two of the writes has the      *)
(* outcome of reading it before or after all three.                        *)
(***************************************************************************)
CONSTANT
  Jobs           \* the requests that can be under way at once

VARIABLES
  engineState,   \* _state.value
  llm,           \* llmInference # null
  call,          \* the runInference activation of each request
  aiState,       \* the state the view model's collector has shown last
  open,          \* the owner has not called release
  overlapped     \* history: a request began while another was under way

engineVars == <<engineState, llm, call, aiState, open, overlapped>>

EngineStates == {"Idle", "Loading", "Generating", "Ready", "Error"}

(* "response" is generated text; "failure" the text "Error: ..." made of   *)
(* an exception; "noModel" the text "Model not initialized".               *)
Answers == {"response", "failure", "noModel"}

CallPcs ==
  {"none", "queued", "captured", "saved", "generating", "answered"}

NoCall == [pc |-> "none", prev |-> "unset", answer |-> "unset"]

Calls ==
  [pc : CallPcs, prev : EngineStates \cup {"unset"},
   answer : Answers \cup {"unset"}]

At(j, pc) == call[j].pc = pc

EngineTypeOK ==
  /\ engineState \in EngineStates
  /\ llm \in BOOLEAN
  /\ call \in [Jobs -> Calls]
  /\ aiState \in EngineStates \cup {"Unavailable"}
  /\ open \in BOOLEAN
  /\ overlapped \in BOOLEAN

(* The constructor runs initializeModel to its end: the owner sees one of  *)
(* its two outcomes.                                                       *)
EngineInit ==
  /\ llm \in BOOLEAN
  /\ engineState = IF llm THEN "Ready" ELSE "Error"
  /\ call = [j \in Jobs |-> NoCall]
  /\ aiState = "Unavailable"
  /\ open = TRUE
  /\ overlapped = FALSE
----------------------------------------------------------------------------
(* A coroutine of the owner suspends in withContext(Dispatchers.Default).  *)
Begin(j) ==
  /\ open
  /\ At(j, "none")
  /\ call' = [call EXCEPT ![j].pc = "queued"]
  /\ overlapped' = (overlapped \/ \E i \in Jobs : ~At(i, "none"))
  /\ UNCHANGED <<engineState, llm, aiState, open>>

(* Mutant: the state to restore is not saved.                              *)
CaptureEngineOnly(j) ==
  /\ At(j, "queued")
  /\ call' = IF llm
               THEN [call EXCEPT ![j].pc = "saved"]
               ELSE [call EXCEPT ![j].pc = "answered", ![j].answer = "noModel"]
  /\ UNCHANGED <<engineState, llm, aiState, open, overlapped>>

(* Mutant: without a model the request waits for one.                      *)
AwaitEngine(j) ==
  /\ At(j, "queued")
  /\ llm
  /\ call' = [call EXCEPT ![j].pc = "captured"]
  /\ UNCHANGED <<engineState, llm, aiState, open, overlapped>>

(* val engine = llmInference ?: return@withContext "Model not initialized" *)
CaptureEngine(j) ==
  /\ At(j, "queued")
  /\ call' = IF llm
               THEN [call EXCEPT ![j].pc = "captured"]
               ELSE [call EXCEPT ![j].pc = "answered", ![j].answer = "noModel"]
  /\ UNCHANGED <<engineState, llm, aiState, open, overlapped>>

(* val previousState = _state.value *)
SavePreviousState(j) ==
  /\ At(j, "captured")
  /\ call' = [call EXCEPT ![j].pc = "saved", ![j].prev = engineState]
  /\ UNCHANGED <<engineState, llm, aiState, open, overlapped>>

(* _state.value = LocalAIState.Generating *)
MarkGenerating(j) ==
  /\ At(j, "saved")
  /\ call' = [call EXCEPT ![j].pc = "generating"]
  /\ engineState' = "Generating"
  /\ UNCHANGED <<llm, aiState, open, overlapped>>

(* Mutant: only the path without an exception restores the state.          *)
GenerateWithoutFinally(j) ==
  /\ At(j, "generating")
  /\ \E a \in {"response", "failure"} :
       /\ a = "response" => llm
       /\ call' = [call EXCEPT ![j].pc = "answered", ![j].answer = a]
       /\ engineState' = IF a = "response" THEN call[j].prev ELSE engineState
  /\ UNCHANGED <<llm, aiState, open, overlapped>>

(* Mutant: an exception is published as an error of the engine.            *)
GenerateOrFail(j) ==
  /\ At(j, "generating")
  /\ \E a \in {"response", "failure"} :
       /\ a = "response" => llm
       /\ call' = [call EXCEPT ![j].pc = "answered", ![j].answer = a]
       /\ engineState' = IF a = "response" THEN call[j].prev ELSE "Error"
  /\ UNCHANGED <<llm, aiState, open, overlapped>>

(* generateResponse returns or throws; both paths restore previousState.   *)
(* An instance that release has closed cannot generate.                    *)
GenerateResponse(j) ==
  /\ At(j, "generating")
  /\ \E a \in {"response", "failure"} :
       /\ a = "response" => llm
       /\ call' = [call EXCEPT ![j].pc = "answered", ![j].answer = a]
  /\ engineState' = call[j].prev
  /\ UNCHANGED <<llm, aiState, open, overlapped>>

runInference(j) ==
  \/ CaptureEngine(j)
  \/ SavePreviousState(j)
  \/ MarkGenerating(j)
  \/ GenerateResponse(j)

(* The coroutine resumes with the answer on the main thread.               *)
Return(j) ==
  /\ open
  /\ At(j, "answered")
  /\ call' = [call EXCEPT ![j] = NoCall]
  /\ UNCHANGED <<engineState, llm, aiState, open, overlapped>>

(* The view model's collector of aiEngine.state, on the main thread.       *)
CollectAiState ==
  /\ open
  /\ aiState # engineState
  /\ aiState' = engineState
  /\ UNCHANGED <<engineState, llm, call, open, overlapped>>

(* onCleared: the owner's coroutines are cancelled.  A request that no     *)
(* thread has picked up yet is dropped or runs all the same; the others    *)
(* run on, since generateResponse does not look for cancellation.          *)
release ==
  /\ open
  /\ open' = FALSE
  /\ llm' = FALSE
  /\ engineState' = "Idle"
  /\ \E dropped \in SUBSET {j \in Jobs : At(j, "queued")} :
       call' = [j \in Jobs |-> IF j \in dropped THEN NoCall ELSE call[j]]
  /\ UNCHANGED <<aiState, overlapped>>

EngineNext ==
  \/ \E j \in Jobs : Begin(j)
  \/ \E j \in Jobs : runInference(j)
  \/ \E j \in Jobs : Return(j)
  \/ CollectAiState
  \/ release

EngineSpec == EngineInit /\ [][EngineNext]_engineVars

(* The threads of Dispatchers.Default and the main looper run what is      *)
(* handed to them, and generateResponse ends: it generates at most         *)
(* maxTokens tokens.  Nothing obliges the owner to ask or to release.      *)
EngineFairSpec ==
  /\ EngineSpec
  /\ \A j \in Jobs : WF_engineVars(runInference(j)) /\ WF_engineVars(Return(j))
----------------------------------------------------------------------------
(* The engine is the service the view model relies on: every request is    *)
(* answered once, and only while the owner keeps the engine open.          *)
Service == INSTANCE EngineService
             WITH asked <- {j \in Jobs : open /\ ~At(j, "none")}

ImplementsService == Service!SvcFairSpec

Resting == IF llm THEN "Ready" ELSE "Error"

(* While requests come one at a time, the save and restore of              *)
(* previousState in runInference leaves the published state right: it is   *)
(* Generating exactly while generateResponse runs, and the outcome of the  *)
(* initialisation at all other times.                                      *)
StateExactWhenAlone ==
  open /\ ~overlapped =>
    engineState = IF \E j \in Jobs : At(j, "generating")
                    THEN "Generating" ELSE Resting

(* However requests overlap, saving and restoring never makes an engine    *)
(* that failed to load look usable, never makes a loaded one look failed,  *)
(* and a request is told "Model not initialized" only if nothing is loaded.*)
NeverMisreported ==
  open => /\ engineState \in {"Generating", "Ready"} <=> llm
          /\ \A j \in Jobs : call[j].answer = "noModel" => ~llm

(* release may come between any two steps of any number of requests.  The  *)
(* threads come to rest all the same: each request that still runs finds   *)
(* the engine gone, or fails on the closed one, and ends, for good.  The   *)
(* state rests at Idle, unless a request that had the engine ran into the  *)
(* release and restored the state of before on the engine it left.         *)
RestsAfterRelease ==
  ~open ~> [](/\ \A j \in Jobs : At(j, "none") \/ At(j, "answered")
             /\ \/ engineState = "Idle"
                \/ \E j \in Jobs : call[j].answer \in {"response", "failure"})
============================================================================
