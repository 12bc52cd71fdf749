------------------------- MODULE LocalModelManager -------------------------
(***************************************************************************)
(* How the model file gets into the application: setupModel copies it from *)
(* the staging path to internal storage, getModelFile validates it, and    *)
(* DefaultLocalAIEngine.initializeModel loads it and publishes the state.  *)
(* The developer pushes files to the staging path meanwhile, the copy may  *)
(* fail half-way, and the process may die at any point.                    *)
(*                                                                         *)
(* A file is the model it was made from and its length so far; lengths are *)
(* in units of which MinSize make MIN_MODEL_SIZE_BYTES.                    *)
(***************************************************************************)
EXTENDS Naturals

CONSTANTS
  Models,        \* the model artifacts there are
  LengthOf,      \* the length of each whole artifact
  MinSize,       \* MIN_MODEL_SIZE_BYTES
  MaxPushes,     \* bound: files pushed to the staging path
  MaxFaults,     \* bound: process deaths and failed copies
  Null           \* no such file

ASSUME ModelAssumption ==
  /\ LengthOf \in [Models -> Nat]
  /\ MinSize \in Nat \ {0}
  /\ MaxPushes \in Nat /\ MaxFaults \in Nat
  /\ Null \notin [model : Models, size : Nat]

VARIABLES
  staging,       \* the file at STAGING_PATH
  internal,      \* filesDir/llm_model.bin
  unlinked,      \* the file a copy reads that is no longer at that path, or Null
  pc,            \* where the process is in initializeModel
  engineState,   \* _state.value
  staged,        \* history: the staging file setupModel relied on, or Null
  copied,        \* history: it relied on it by copying it
  pushes, faults \* counters of the bounds

modelVars == <<staging, internal, unlinked, pc, engineState, staged, copied,
               pushes, faults>>

Files == {f \in [model : Models, size : Nat] : f.size <= LengthOf[f.model]}
Whole(f) == f # Null /\ f.size = LengthOf[f.model]

(* isValid *)
isValid(f) == f # Null /\ f.size >= MinSize

ModelTypeOK ==
  /\ staging \in Files \cup {Null}
  /\ internal \in Files \cup {Null}
  /\ unlinked \in Files \cup {Null}
  /\ pc \in {"down", "setup", "compare", "opening", "copying", "validate",
            "load", "running"}
  /\ unlinked # Null => pc = "copying"
  /\ pc = "copying" => internal # Null /\ (staging # Null \/ unlinked # Null)
  /\ engineState \in {"Idle", "Loading", "Ready", "Error"}
  /\ staged \in Files \cup {Null}
  /\ copied \in BOOLEAN
  /\ pushes \in 0..MaxPushes /\ faults \in 0..MaxFaults

ModelInit ==
  /\ staging = Null
  /\ internal = Null
  /\ unlinked = Null
  /\ pc = "down"
  /\ engineState = "Idle"
  /\ staged = Null
  /\ copied = FALSE
  /\ pushes = 0
  /\ faults = 0
----------------------------------------------------------------------------
(* The view model constructs the engine, whose init runs initializeModel.  *)
StartProcess ==
  /\ pc = "down"
  /\ pc' = "setup"
  /\ engineState' = "Loading"
  /\ staged' = Null
  /\ copied' = FALSE
  /\ UNCHANGED <<staging, internal, unlinked, pushes, faults>>

GiveUp == pc' = "running" /\ engineState' = "Error"

(* setupModel looks at the staging file three times: is it valid, is it as *)
(* long as the internal one, and to open it.  It may change in between.    *)
FindStaged ==
  /\ pc = "setup"
  /\ isValid(staging)
  /\ pc' = "compare"
  /\ UNCHANGED <<staging, internal, unlinked, engineState, staged, copied,
                 pushes, faults>>

(* File.length is 0 for a file that does not exist.                        *)
length(f) == IF f = Null THEN 0 ELSE f.size

(* Mutant: a model that exists is never replaced.                          *)
needsCopyOnlyIfMissing == internal = Null

(* Mutant: a model that passes isValid is never replaced.                  *)
needsCopyUnlessValid == ~isValid(internal)

needsCopy == internal = Null \/ length(internal) # length(staging)

DecideToCopy ==
  /\ pc = "compare"
  /\ needsCopy
  /\ pc' = "opening"
  /\ UNCHANGED <<staging, internal, unlinked, engineState, staged, copied,
                 pushes, faults>>

SkipCopy ==
  /\ pc = "compare"
  /\ ~needsCopy
  /\ pc' = "validate"
  /\ staged' = staging
  /\ copied' = FALSE
  /\ UNCHANGED <<staging, internal, unlinked, engineState, pushes, faults>>

(* FileOutputStream empties the target before the first byte.              *)
OpenCopy ==
  /\ pc = "opening"
  /\ staging # Null
  /\ pc' = "copying"
  /\ internal' = [model |-> staging.model, size |-> 0]
  /\ UNCHANGED <<staging, unlinked, engineState, staged, copied,
                 pushes, faults>>

OpenMissing ==
  /\ pc = "opening"
  /\ staging = Null
  /\ GiveUp
  /\ UNCHANGED <<staging, internal, unlinked, staged, copied, pushes, faults>>

(* One of the two files cannot be opened for another reason.               *)
OpenFails ==
  /\ pc = "opening"
  /\ faults < MaxFaults
  /\ faults' = faults + 1
  /\ GiveUp
  /\ UNCHANGED <<staging, internal, unlinked, staged, copied, pushes>>

Copied == IF unlinked = Null THEN staging ELSE unlinked

CopyChunk ==
  /\ pc = "copying"
  /\ internal.size < Copied.size
  /\ internal' = [internal EXCEPT !.size = @ + 1]
  /\ UNCHANGED <<staging, unlinked, pc, engineState, staged, copied,
                 pushes, faults>>

CopyDone ==
  /\ pc = "copying"
  /\ internal.size = Copied.size
  /\ pc' = "validate"
  /\ unlinked' = Null
  /\ staged' = Copied
  /\ copied' = TRUE
  /\ UNCHANGED <<staging, internal, engineState, pushes, faults>>

(* Mutant: the exception leaves the source file open.                      *)
CopyFailsOpen ==
  /\ pc = "copying"
  /\ faults < MaxFaults
  /\ faults' = faults + 1
  /\ GiveUp
  /\ UNCHANGED <<staging, internal, unlinked, staged, copied, pushes>>

(* copyTo throws, and what it has written stays.                           *)
CopyFails ==
  /\ pc = "copying"
  /\ faults < MaxFaults
  /\ faults' = faults + 1
  /\ unlinked' = Null
  /\ GiveUp
  /\ UNCHANGED <<staging, internal, staged, copied, pushes>>

KeepInternal ==
  /\ pc = "setup"
  /\ ~isValid(staging)
  /\ isValid(internal)
  /\ pc' = "validate"
  /\ UNCHANGED <<staging, internal, unlinked, engineState, staged, copied,
                 pushes, faults>>

(* Mutant: initializeModel returns without publishing an error.            *)
NoModelUnreported ==
  /\ pc = "setup"
  /\ ~isValid(staging)
  /\ ~isValid(internal)
  /\ pc' = "running"
  /\ UNCHANGED <<staging, internal, unlinked, engineState, staged, copied,
                 pushes, faults>>

NoModel ==
  /\ pc = "setup"
  /\ ~isValid(staging)
  /\ ~isValid(internal)
  /\ GiveUp
  /\ UNCHANGED <<staging, internal, unlinked, staged, copied, pushes, faults>>

setupModel ==
  \/ FindStaged
  \/ DecideToCopy
  \/ SkipCopy
  \/ OpenCopy
  \/ OpenMissing
  \/ OpenFails
  \/ CopyChunk
  \/ CopyDone
  \/ CopyFails
  \/ KeepInternal
  \/ NoModel

getModelFile ==
  /\ pc = "validate"
  /\ IF isValid(internal)
       THEN pc' = "load" /\ UNCHANGED engineState
       ELSE GiveUp
  /\ UNCHANGED <<staging, internal, unlinked, staged, copied, pushes, faults>>

(* LlmInference.createFromOptions accepts the file or throws.              *)
createFromOptions ==
  /\ pc = "load"
  /\ \/ pc' = "running" /\ engineState' = "Ready"
     \/ GiveUp
  /\ UNCHANGED <<staging, internal, unlinked, staged, copied, pushes, faults>>

initializeModel == setupModel \/ getModelFile \/ createFromOptions

(* Process death; the user may also just close the application.            *)
Die ==
  /\ pc # "down"
  /\ IF pc = "running" THEN UNCHANGED faults
     ELSE faults < MaxFaults /\ faults' = faults + 1
  /\ pc' = "down"
  /\ unlinked' = Null
  /\ engineState' = "Idle"
  /\ UNCHANGED <<staging, internal, staged, copied, pushes>>
----------------------------------------------------------------------------
(* adb push: the old file is unlinked, a copy that reads it reads on, and  *)
(* the new one grows under the same name.                                  *)
Unlink == unlinked' = IF pc = "copying" THEN Copied ELSE Null

PushStart(m) ==
  /\ pushes < MaxPushes
  /\ pushes' = pushes + 1
  /\ Unlink
  /\ staging' = [model |-> m, size |-> 0]
  /\ UNCHANGED <<internal, pc, engineState, staged, copied, faults>>

PushChunk ==
  /\ staging # Null
  /\ ~Whole(staging)
  /\ staging' = [staging EXCEPT !.size = @ + 1]
  /\ UNCHANGED <<internal, unlinked, pc, engineState, staged, copied,
                 pushes, faults>>

RemoveStaging ==
  /\ staging # Null
  /\ Unlink
  /\ staging' = Null
  /\ UNCHANGED <<internal, pc, engineState, staged, copied, pushes, faults>>

ModelNext ==
  \/ StartProcess
  \/ initializeModel
  \/ Die
  \/ \E m \in Models : PushStart(m)
  \/ PushChunk
  \/ RemoveStaging

ModelSpec == ModelInit /\ [][ModelNext]_modelVars

(* The constructor runs to its end unless the process dies.                *)
ModelFairSpec == ModelSpec /\ WF_modelVars(initializeModel)
----------------------------------------------------------------------------
(* A start that becomes Ready after setupModel used a staging file: if it  *)
(* copied, the internal file is the file that was copied, all of it, even  *)
(* if that was replaced or removed meanwhile; if it skipped the copy, the  *)
(* lengths are equal, and that is all the code looks at.  So a part of an  *)
(* artifact, left by a copy that stopped half-way, is loaded only if the   *)
(* staging file was itself a part - a push in progress, copied as far as   *)
(* it had come or found at the same length - or the whole of another       *)
(* artifact that is as long as the part.                                   *)
LoadedAsStaged ==
  engineState = "Ready" /\ staged # Null =>
    /\ IF copied THEN internal = staged ELSE internal.size = staged.size
    /\ \/ Whole(internal)
       \/ ~Whole(staged)
       \/ ~copied /\ internal.model # staged.model

(* Once a whole valid file stays at the staging path, the starts that      *)
(* follow repair whatever earlier pushes, crashes and failed copies left:  *)
(* the internal file gets its length for good.                             *)
Heals ==
  \A m \in Models :
    LengthOf[m] >= MinSize
      /\ <>[](staging = [model |-> m, size |-> LengthOf[m]])
      /\ []<>(pc = "setup")
    => <>[](internal # Null /\ internal.size = LengthOf[m])

(* Every start comes to an end: Ready, Error, or the death of the process. *)
StartEnds == engineState = "Loading" ~> engineState # "Loading"

(* LocalModelManager.kt: "If a valid staging file is present, always       *)
(* ensure it is the one in internal storage" - for a staging file that has *)
(* been complete and untouched since before the start.                     *)
DevelopmentRule ==
  engineState = "Ready" /\ Whole(staging) /\ staged = staging =>
    internal.model = staging.model
============================================================================
