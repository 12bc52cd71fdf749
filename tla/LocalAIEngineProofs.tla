------------------------ MODULE LocalAIEngineProofs ------------------------
(***************************************************************************)
(* Proofs about the AI engine for any number of concurrent requests.  The  *)
(* properties of the published state rest on what each request has saved   *)
(* as previousState, so the invariants speak of that as well.              *)
(***************************************************************************)
EXTENDS LocalAIEngine, TLAPS

Working == {"captured", "saved", "generating"} \* has an engine, no answer yet
Marked  == {"saved", "generating"}             \* has saved previousState

PrevSet == \A j \in Jobs : call[j].pc \in Marked => call[j].prev \in EngineStates

TypeInv == EngineTypeOK /\ PrevSet

(* What one step of a request does to its own activation.                  *)
LEMMA RunFacts ==
  ASSUME TypeInv, NEW j \in Jobs, runInference(j)
  PROVE  /\ \A i \in Jobs : i # j => call'[i] = call[i]
         /\ call'[j] \in Calls
         /\ UNCHANGED <<llm, aiState, open, overlapped>>
         /\ \/ /\ call[j].pc = "queued" /\ llm
               /\ call'[j].pc = "captured"
               /\ call'[j].answer = call[j].answer
               /\ engineState' = engineState
            \/ /\ call[j].pc = "queued" /\ ~llm
               /\ call'[j].pc = "answered"
               /\ call'[j].answer = "noModel"
               /\ engineState' = engineState
            \/ /\ call[j].pc = "captured"
               /\ call'[j].pc = "saved" /\ call'[j].prev = engineState
               /\ call'[j].answer = call[j].answer
               /\ engineState' = engineState
            \/ /\ call[j].pc = "saved"
               /\ call'[j].pc = "generating" /\ call'[j].prev = call[j].prev
               /\ call'[j].answer = call[j].answer
               /\ engineState' = "Generating"
            \/ /\ call[j].pc = "generating"
               /\ call'[j].pc = "answered"
               /\ call'[j].answer \in {"response", "failure"}
               /\ engineState' = call[j].prev
<1> USE DEF TypeInv, EngineTypeOK, EngineStates, Answers, CallPcs, At
<1>1. call[j] \in Calls
  OBVIOUS
<1>2. CASE CaptureEngine(j)
  BY <1>1, <1>2 DEF CaptureEngine, Calls
<1>3. CASE SavePreviousState(j)
  BY <1>1, <1>3 DEF SavePreviousState, Calls
<1>4. CASE MarkGenerating(j)
  BY <1>1, <1>4 DEF MarkGenerating, Calls
<1>5. CASE GenerateResponse(j)
  <2>1. PICK a \in {"response", "failure"} :
          call' = [call EXCEPT ![j] = [call[j] EXCEPT !.pc = "answered", !.answer = a]]
    BY <1>5 DEF GenerateResponse
  <2>2. call'[j] = [call[j] EXCEPT !.pc = "answered", !.answer = a]
    BY <2>1
  <2>3. /\ call'[j] \in Calls
        /\ call'[j].pc = "answered" /\ call'[j].answer = a
    BY <1>1, <2>2 DEF Calls
  <2>4. \A i \in Jobs : i # j => call'[i] = call[i]
    BY <2>1
  <2> QED
    BY <1>5, <2>3, <2>4 DEF GenerateResponse
<1> QED
  BY <1>2, <1>3, <1>4, <1>5 DEF runInference

LEMMA EngineTypeInit == EngineInit => TypeInv
<1> SUFFICES ASSUME EngineInit PROVE TypeInv
  OBVIOUS
<1>1. NoCall \in Calls /\ NoCall.pc = "none"
  BY DEF Calls, CallPcs, NoCall
<1>2. EngineTypeOK
  BY <1>1 DEF EngineInit, EngineTypeOK, EngineStates
<1>3. PrevSet
  BY <1>1 DEF EngineInit, PrevSet, Marked
<1> QED
  BY <1>2, <1>3 DEF TypeInv

LEMMA EngineTypeStep == TypeInv /\ [EngineNext]_engineVars => TypeInv'
<1> SUFFICES ASSUME TypeInv, [EngineNext]_engineVars PROVE TypeInv'
  OBVIOUS
<1> USE DEF TypeInv, PrevSet, Marked
<1>1. /\ NoCall \in Calls
      /\ NoCall.pc = "none"
  BY DEF Calls, CallPcs, NoCall
<1>2. ASSUME NEW j \in Jobs, Begin(j) PROVE TypeInv'
  BY <1>2 DEF Begin, EngineTypeOK, Calls, CallPcs
<1>3. ASSUME NEW j \in Jobs, runInference(j) PROVE TypeInv'
  <2>1. call' \in [Jobs -> Calls]
    <3>1. DOMAIN call' = Jobs /\ call' = [i \in DOMAIN call' |-> call'[i]]
      BY <1>3 DEF runInference, CaptureEngine, SavePreviousState, MarkGenerating,
                  GenerateResponse, EngineTypeOK
    <3>2. \A i \in Jobs : call'[i] \in Calls
      BY <1>3, RunFacts DEF EngineTypeOK
    <3> QED
      BY <3>1, <3>2
  <2>2. engineState' \in EngineStates
    BY <1>3, RunFacts DEF EngineTypeOK, EngineStates
  <2>3. PrevSet'
    BY <1>3, RunFacts DEF EngineTypeOK
  <2> QED
    BY <1>3, <2>1, <2>2, <2>3, RunFacts DEF EngineTypeOK
<1>4. ASSUME NEW j \in Jobs, Return(j) PROVE TypeInv'
  BY <1>1, <1>4 DEF Return, EngineTypeOK
<1>5. CASE CollectAiState
  BY <1>5 DEF CollectAiState, EngineTypeOK
<1>6. CASE release
  BY <1>1, <1>6 DEF release, EngineTypeOK, EngineStates
<1>7. CASE UNCHANGED engineVars
  BY <1>7 DEF engineVars, EngineTypeOK
<1> QED
  BY <1>2, <1>3, <1>4, <1>5, <1>6, <1>7 DEF EngineNext

(* Every field has the values the code gives it (runInference, release).   *)
THEOREM EngineTypeCorrect == EngineSpec => []EngineTypeOK
<1>1. TypeInv => EngineTypeOK
  BY DEF TypeInv
<1> QED
  BY <1>1, EngineTypeInit, EngineTypeStep, PTL DEF EngineSpec
----------------------------------------------------------------------------
(* While the engine is open: a request that has passed the null check has  *)
(* an engine, and what it will restore is a state of a loaded engine.      *)
LoadedWhileWorking ==
  open => \A j \in Jobs : /\ call[j].pc \in Working => llm
                          /\ call[j].pc \in Marked => call[j].prev \in {"Generating", "Ready"}

ReportInv == TypeInv /\ LoadedWhileWorking /\ NeverMisreported

LEMMA ReportInit == EngineInit => ReportInv
<1> SUFFICES ASSUME EngineInit PROVE ReportInv
  OBVIOUS
<1>1. \A j \in Jobs : call[j].pc = "none" /\ call[j].answer = "unset"
  BY DEF EngineInit, NoCall
<1>2. LoadedWhileWorking
  BY <1>1 DEF LoadedWhileWorking, Working, Marked
<1>3. NeverMisreported
  BY <1>1 DEF EngineInit, NeverMisreported
<1> QED
  BY <1>2, <1>3, EngineTypeInit DEF ReportInv

LEMMA ReportStep == ReportInv /\ [EngineNext]_engineVars => ReportInv'
<1> SUFFICES ASSUME ReportInv, [EngineNext]_engineVars PROVE ReportInv'
  OBVIOUS
<1> USE DEF ReportInv
<1>1. TypeInv'
  BY EngineTypeStep
<1>2. call \in [Jobs -> Calls]
  BY DEF TypeInv, EngineTypeOK
<1>3. ASSUME NEW j \in Jobs, Begin(j) PROVE LoadedWhileWorking' /\ NeverMisreported'
  <2>1. /\ UNCHANGED <<llm, engineState, open>>
        /\ call'[j].pc = "queued" /\ call'[j].answer = call[j].answer
        /\ \A i \in Jobs : i # j => call'[i] = call[i]
    BY <1>2, <1>3 DEF Begin, Calls
  <2> QED
    BY <2>1 DEF LoadedWhileWorking, NeverMisreported, Working, Marked
<1>4. ASSUME NEW j \in Jobs, runInference(j)
      PROVE  LoadedWhileWorking' /\ NeverMisreported'
  <2>1. LoadedWhileWorking'
    BY <1>4, RunFacts DEF LoadedWhileWorking, NeverMisreported, Working, Marked
  <2>2. NeverMisreported'
    BY <1>4, RunFacts DEF LoadedWhileWorking, NeverMisreported, Working, Marked
  <2> QED
    BY <2>1, <2>2
<1>5. ASSUME NEW j \in Jobs, Return(j) PROVE LoadedWhileWorking' /\ NeverMisreported'
  <2>1. /\ UNCHANGED <<llm, engineState, open>>
        /\ call'[j].pc = "none" /\ call'[j].answer = "unset"
        /\ \A i \in Jobs : i # j => call'[i] = call[i]
    BY <1>2, <1>5 DEF Return, NoCall
  <2> QED
    BY <2>1 DEF LoadedWhileWorking, NeverMisreported, Working, Marked
<1>6. CASE release
  BY <1>1, <1>6 DEF release, LoadedWhileWorking, NeverMisreported
<1>7. CASE CollectAiState \/ UNCHANGED engineVars
  <2>1. UNCHANGED <<llm, engineState, open, call>>
    BY <1>7 DEF CollectAiState, engineVars
  <2> QED
    BY <1>1, <2>1 DEF LoadedWhileWorking, NeverMisreported
<1> QED
  BY <1>1, <1>3, <1>4, <1>5, <1>6, <1>7 DEF EngineNext

(* However many requests save and restore previousState in whatever order, *)
(* the state tells whether an engine is loaded, and a request is told      *)
(* "Model not initialized" only if none is (runInference).                 *)
THEOREM EngineNeverMisreported == EngineSpec => []NeverMisreported
<1>1. ReportInv => NeverMisreported
  BY DEF ReportInv
<1> QED
  BY <1>1, ReportInit, ReportStep, PTL DEF EngineSpec
----------------------------------------------------------------------------
(* As long as requests come one at a time there is at most one, and it     *)
(* restores the state of an engine at rest.                                *)
Alone ==
  ~overlapped => \A i, j \in Jobs : call[i].pc # "none" /\ call[j].pc # "none" => i = j

RestoresReady ==
  open /\ ~overlapped => \A j \in Jobs : call[j].pc \in Marked => call[j].prev = "Ready"

ExactInv == ReportInv /\ Alone /\ RestoresReady /\ StateExactWhenAlone

LEMMA ExactInit == EngineInit => ExactInv
<1> SUFFICES ASSUME EngineInit PROVE ExactInv
  OBVIOUS
<1>1. \A j \in Jobs : call[j].pc = "none"
  BY DEF EngineInit, NoCall
<1>2. Alone /\ RestoresReady
  BY <1>1 DEF Alone, RestoresReady, Marked
<1>3. StateExactWhenAlone
  BY <1>1 DEF EngineInit, StateExactWhenAlone, Resting, At
<1> QED
  BY <1>2, <1>3, ReportInit DEF ExactInv

LEMMA ExactStep == ExactInv /\ [EngineNext]_engineVars => ExactInv'
<1> SUFFICES ASSUME ExactInv, [EngineNext]_engineVars PROVE ExactInv'
  OBVIOUS
<1> USE DEF ExactInv, At, Resting
<1>1. ReportInv'
  BY ReportStep
<1>2. call \in [Jobs -> Calls]
  BY DEF ReportInv, TypeInv, EngineTypeOK
<1>3. ASSUME NEW j \in Jobs, Begin(j)
      PROVE  Alone' /\ RestoresReady' /\ StateExactWhenAlone'
  <2>1. /\ UNCHANGED <<llm, engineState, open>>
        /\ call[j].pc = "none" /\ call'[j].pc = "queued"
        /\ \A i \in Jobs : i # j => call'[i] = call[i]
        /\ overlapped' = (overlapped \/ \E i \in Jobs : call[i].pc # "none")
    BY <1>2, <1>3 DEF Begin, Calls
  <2>2. Alone'
    BY <2>1 DEF Alone
  <2>3. RestoresReady'
    BY <2>1 DEF RestoresReady, Marked
  <2>4. StateExactWhenAlone'
    BY <2>1 DEF StateExactWhenAlone
  <2> QED
    BY <2>2, <2>3, <2>4
<1>4. ASSUME NEW j \in Jobs, runInference(j)
      PROVE  Alone' /\ RestoresReady' /\ StateExactWhenAlone'
  <2>1. TypeInv /\ LoadedWhileWorking
    BY DEF ReportInv
  <2>2. /\ \A i \in Jobs : i # j => call'[i] = call[i]
        /\ UNCHANGED <<llm, open, overlapped>>
        /\ call[j].pc # "none"
    BY <1>4, <2>1, RunFacts
  <2>3. Alone'
    BY <2>2 DEF Alone
  <2>4. ~overlapped => \A i \in Jobs : i # j => call[i].pc = "none"
    BY <2>2 DEF Alone
  <2>5. RestoresReady'
    BY <1>4, <2>1, <2>2, <2>4, RunFacts
    DEF RestoresReady, Marked, Working, StateExactWhenAlone, LoadedWhileWorking
  <2>6. StateExactWhenAlone'
    BY <1>4, <2>1, <2>2, <2>4, RunFacts
    DEF RestoresReady, Marked, Working, StateExactWhenAlone, LoadedWhileWorking
  <2> QED
    BY <2>3, <2>5, <2>6
<1>5. ASSUME NEW j \in Jobs, Return(j)
      PROVE  Alone' /\ RestoresReady' /\ StateExactWhenAlone'
  <2>1. /\ UNCHANGED <<llm, engineState, open, overlapped>>
        /\ call[j].pc = "answered" /\ call'[j].pc = "none"
        /\ \A i \in Jobs : i # j => call'[i] = call[i]
    BY <1>2, <1>5 DEF Return, NoCall
  <2> QED
    BY <2>1 DEF Alone, RestoresReady, StateExactWhenAlone, Marked
<1>6. CASE release
  <2>1. \A j \in Jobs : call'[j] \in {NoCall, call[j]}
    BY <1>6 DEF release
  <2>2. NoCall.pc = "none"
    BY DEF NoCall
  <2> QED
    BY <1>1, <1>6, <2>1, <2>2 DEF release, Alone, RestoresReady, StateExactWhenAlone
<1>7. CASE CollectAiState \/ UNCHANGED engineVars
  <2>1. UNCHANGED <<llm, engineState, open, call, overlapped>>
    BY <1>7 DEF CollectAiState, engineVars
  <2> QED
    BY <1>1, <2>1 DEF Alone, RestoresReady, StateExactWhenAlone
<1> QED
  BY <1>1, <1>3, <1>4, <1>5, <1>6, <1>7 DEF EngineNext

(* Requests that come one at a time leave the published state exact: it is *)
(* Generating while generateResponse runs, and the outcome of the          *)
(* initialisation otherwise (runInference).                                *)
THEOREM EngineStateExact == EngineSpec => []StateExactWhenAlone
<1>1. ExactInv => StateExactWhenAlone
  BY DEF ExactInv
<1> QED
  BY <1>1, ExactInit, ExactStep, PTL DEF EngineSpec
----------------------------------------------------------------------------
(* Every request is answered at most once, and only while the engine is    *)
(* open: the steps of the engine are those of EngineService.               *)
LEMMA ServiceStep == TypeInv /\ [EngineNext]_engineVars => [Service!SvcNext]_(Service!svcVars)
<1> SUFFICES ASSUME TypeInv, [EngineNext]_engineVars
             PROVE  [Service!SvcNext]_(Service!svcVars)
  OBVIOUS
<1> DEFINE asked == {j \in Jobs : open /\ ~At(j, "none")}
<1> USE DEF Service!SvcNext, Service!svcVars, At
<1>1. call \in [Jobs -> Calls]
  BY DEF TypeInv, EngineTypeOK
<1>2. ASSUME NEW j \in Jobs, Begin(j) PROVE Service!Ask(j)
  <2>1. /\ open /\ open' = open
        /\ call[j].pc = "none" /\ call'[j].pc = "queued"
        /\ \A i \in Jobs : i # j => call'[i] = call[i]
    BY <1>1, <1>2 DEF Begin, Calls
  <2>2. j \notin asked /\ asked' = asked \cup {j}
    BY <2>1
  <2> QED
    BY <2>1, <2>2 DEF Service!Ask
<1>3. ASSUME NEW j \in Jobs, runInference(j) PROVE asked' = asked /\ open' = open
  <2>1. /\ open' = open
        /\ call[j].pc # "none" /\ call'[j].pc # "none"
        /\ \A i \in Jobs : i # j => call'[i] = call[i]
    BY <1>3, RunFacts
  <2> QED
    BY <2>1
<1>4. ASSUME NEW j \in Jobs, Return(j) PROVE Service!Answer(j)
  <2>1. /\ open /\ open' = open
        /\ call[j].pc = "answered" /\ call'[j].pc = "none"
        /\ \A i \in Jobs : i # j => call'[i] = call[i]
    BY <1>1, <1>4 DEF Return, NoCall
  <2>2. j \in asked /\ asked' = asked \ {j}
    BY <2>1
  <2> QED
    BY <2>1, <2>2 DEF Service!Answer
<1>5. CASE release
  BY <1>5 DEF release, Service!Close
<1>6. CASE CollectAiState \/ UNCHANGED engineVars
  BY <1>6 DEF CollectAiState, engineVars
<1> QED
  BY <1>2, <1>3, <1>4, <1>5, <1>6 DEF EngineNext

(* The engine implements, but for fairness, the service the view model     *)
(* relies on (runInference under withContext).                             *)
THEOREM EngineIsService == EngineSpec => Service!SvcSpec
<1>1. EngineInit => Service!SvcInit
  BY DEF EngineInit, NoCall, At, Service!SvcInit
<1> QED
  BY <1>1, EngineTypeInit, EngineTypeStep, ServiceStep, PTL
  DEF EngineSpec, Service!SvcSpec
=============================================================================
