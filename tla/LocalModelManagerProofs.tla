---------------------- MODULE LocalModelManagerProofs ----------------------
(***************************************************************************)
(* Proofs about the model file, for every set of artifacts and any number  *)
(* of pushes, process deaths and failed copies.                            *)
(***************************************************************************)
EXTENDS LocalModelManager, TLAPS

(* A copy makes a file of the model it reads.                              *)
CopiesOneModel == pc = "copying" => internal.model = Copied.model

(* Once setup has used a staging file, the internal one has its length,    *)
(* and is that file if setup copied it.                                    *)
InternalIsStaged ==
  pc \in {"validate", "load"} \/ engineState = "Ready" =>
    (staged # Null => /\ internal # Null
                      /\ internal.size = staged.size
                      /\ copied => internal = staged)

(* Ready means that loading is over.                                       *)
ReadyIsRunning ==
  /\ engineState = "Ready" => pc = "running"
  /\ pc \in {"setup", "compare", "opening", "copying"} => staged = Null

StagedInv == ModelTypeOK /\ CopiesOneModel /\ InternalIsStaged /\ ReadyIsRunning

LEMMA FileFacts ==
  ASSUME NEW f \in Files
  PROVE  /\ f.model \in Models /\ f.size \in Nat
         /\ LengthOf[f.model] \in Nat /\ f.size <= LengthOf[f.model]
         /\ f # Null
         /\ f = [model |-> f.model, size |-> f.size]
BY ModelAssumption DEF Files

LEMMA EmptyFile == \A m \in Models : [model |-> m, size |-> 0] \in Files
BY ModelAssumption DEF Files

LEMMA LongerFile ==
  ASSUME NEW f \in Files, NEW n \in Nat, f.size < n, n <= LengthOf[f.model]
  PROVE  [f EXCEPT !.size = @ + 1] \in Files
<1>1. [f EXCEPT !.size = @ + 1] = [model |-> f.model, size |-> f.size + 1]
  BY FileFacts
<1>2. /\ f.model \in Models /\ f.size + 1 \in Nat
      /\ f.size + 1 <= LengthOf[f.model]
  BY FileFacts
<1> QED
  BY <1>1, <1>2 DEF Files

LEMMA StagedInit == ModelInit => StagedInv
<1> SUFFICES ASSUME ModelInit PROVE StagedInv
  OBVIOUS
<1>1. ModelTypeOK
  <2>1. 0 \in 0..MaxPushes /\ 0 \in 0..MaxFaults
    BY ModelAssumption
  <2>2. copied \in BOOLEAN
    BY DEF ModelInit
  <2> QED
    BY <2>1, <2>2 DEF ModelInit, ModelTypeOK
<1>2. CopiesOneModel /\ InternalIsStaged /\ ReadyIsRunning
  BY DEF ModelInit, CopiesOneModel, InternalIsStaged, ReadyIsRunning
<1> QED
  BY <1>1, <1>2 DEF StagedInv

(* What is copied, while something is.                                     *)
LEMMA CopiedFile ==
  ASSUME ModelTypeOK, pc = "copying"
  PROVE  Copied \in Files /\ Copied # Null /\ internal \in Files
BY FileFacts DEF ModelTypeOK, Copied

LEMMA SetupStep ==
  ASSUME StagedInv, setupModel
  PROVE  StagedInv'
<1> USE DEF StagedInv, ModelTypeOK, CopiesOneModel, InternalIsStaged, ReadyIsRunning
<1>1. CASE OpenCopy
  <2>1. staging \in Files /\ unlinked = Null
    BY <1>1 DEF OpenCopy
  <2>2. /\ internal' = [model |-> staging.model, size |-> 0]
        /\ internal' \in Files
    BY <1>1, <2>1, FileFacts, EmptyFile DEF OpenCopy
  <2>3. internal'.model = staging.model /\ internal' # Null
    BY <2>2, FileFacts
  <2> QED
    BY <1>1, <2>1, <2>2, <2>3, FileFacts DEF OpenCopy, Copied
<1>2. CASE OpenFails
  BY <1>2, ModelAssumption DEF OpenFails, GiveUp
<1>3. CASE CopyChunk
  <2>1. /\ Copied \in Files /\ Copied # Null /\ internal \in Files
        /\ internal.model = Copied.model /\ internal.size < Copied.size
    BY <1>3, CopiedFile DEF CopyChunk
  <2>2. internal' \in Files
    BY <1>3, <2>1, FileFacts, LongerFile DEF CopyChunk
  <2>3. internal'.model = internal.model
    BY <1>3, <2>1, FileFacts DEF CopyChunk
  <2>4. Copied' = Copied
    BY <1>3 DEF CopyChunk, Copied
  <2>5. internal' # Null
    BY <2>2, FileFacts
  <2> QED
    BY <1>3, <2>1, <2>2, <2>3, <2>4, <2>5 DEF CopyChunk
<1>4. CASE CopyDone
  <2>1. Copied \in Files /\ internal.size = Copied.size /\ internal # Null
    BY <1>4, CopiedFile, FileFacts DEF CopyDone
  <2>2. internal = Copied
    BY <1>4, <2>1, CopiedFile, FileFacts DEF CopyDone
  <2> QED
    BY <1>4, <2>1, <2>2 DEF CopyDone
<1>5. CASE CopyFails
  BY <1>5, ModelAssumption DEF CopyFails, GiveUp
<1>6. CASE SkipCopy
  <2>1. internal # Null /\ (staging # Null => internal.size = staging.size)
    BY <1>6 DEF SkipCopy, needsCopy, length
  <2> QED
    BY <1>6, <2>1 DEF SkipCopy
<1>7. CASE KeepInternal
  BY <1>7 DEF KeepInternal
<1>8. CASE NoModel
  BY <1>8 DEF NoModel, GiveUp
<1>9. CASE FindStaged
  BY <1>9 DEF FindStaged
<1>10. CASE DecideToCopy
  BY <1>10 DEF DecideToCopy
<1>11. CASE OpenMissing
  BY <1>11 DEF OpenMissing, GiveUp
<1> QED
  BY <1>1, <1>2, <1>3, <1>4, <1>5, <1>6, <1>7, <1>8, <1>9, <1>10, <1>11
  DEF setupModel

LEMMA ProcessStep ==
  ASSUME StagedInv, StartProcess \/ getModelFile \/ createFromOptions \/ Die
  PROVE  StagedInv'
<1> USE DEF StagedInv, ModelTypeOK, CopiesOneModel, InternalIsStaged, ReadyIsRunning
<1>1. CASE StartProcess
  BY <1>1 DEF StartProcess
<1>2. CASE getModelFile
  BY <1>2 DEF getModelFile, GiveUp
<1>3. CASE createFromOptions
  BY <1>3 DEF createFromOptions, GiveUp
<1>4. CASE Die
  BY <1>4, ModelAssumption DEF Die
<1> QED
  BY <1>1, <1>2, <1>3, <1>4

(* A push takes nothing away from a copy that is under way.                *)
LEMMA UnlinkFacts ==
  ASSUME StagedInv, Unlink
  PROVE  /\ unlinked' \in Files \cup {Null}
         /\ pc = "copying" => unlinked' = Copied /\ unlinked' # Null
         /\ pc # "copying" => unlinked' = Null
BY CopiedFile DEF StagedInv, Unlink

LEMMA PushStep ==
  ASSUME StagedInv, (\E m \in Models : PushStart(m)) \/ PushChunk \/ RemoveStaging
  PROVE  StagedInv'
<1> USE DEF StagedInv, ModelTypeOK, CopiesOneModel, InternalIsStaged, ReadyIsRunning
<1>1. ASSUME NEW m \in Models, PushStart(m) PROVE StagedInv'
  <2>1. /\ unlinked' \in Files \cup {Null}
        /\ pc = "copying" => unlinked' = Copied /\ unlinked' # Null
        /\ pc # "copying" => unlinked' = Null
    BY <1>1, UnlinkFacts DEF PushStart
  <2>2. staging' \in Files /\ staging' # Null
    BY <1>1, EmptyFile, FileFacts DEF PushStart
  <2>3. pc = "copying" => Copied' = Copied
    BY <2>1 DEF Copied
  <2> QED
    BY <1>1, <2>1, <2>2, <2>3, ModelAssumption DEF PushStart
<1>2. CASE PushChunk
  <2>1. staging \in Files /\ staging.size # LengthOf[staging.model]
    BY <1>2 DEF PushChunk, Whole
  <2>2. staging' \in Files
    BY <1>2, <2>1, FileFacts, LongerFile DEF PushChunk
  <2>3. staging' # Null /\ staging'.model = staging.model
    BY <1>2, <2>1, <2>2, FileFacts DEF PushChunk
  <2>4. pc = "copying" => Copied'.model = Copied.model
    BY <1>2, <2>3 DEF PushChunk, Copied
  <2> QED
    BY <1>2, <2>2, <2>3, <2>4 DEF PushChunk
<1>3. CASE RemoveStaging
  <2>1. /\ unlinked' \in Files \cup {Null}
        /\ pc = "copying" => unlinked' = Copied /\ unlinked' # Null
        /\ pc # "copying" => unlinked' = Null
    BY <1>3, UnlinkFacts DEF RemoveStaging
  <2>2. pc = "copying" => Copied' = Copied
    BY <2>1 DEF Copied
  <2> QED
    BY <1>3, <2>1, <2>2 DEF RemoveStaging
<1> QED
  BY <1>1, <1>2, <1>3

LEMMA StagedStep == StagedInv /\ [ModelNext]_modelVars => StagedInv'
<1> SUFFICES ASSUME StagedInv, [ModelNext]_modelVars PROVE StagedInv'
  OBVIOUS
<1>1. CASE ModelNext
  BY <1>1, SetupStep, ProcessStep, PushStep DEF ModelNext, initializeModel
<1>2. CASE UNCHANGED modelVars
  BY <1>2 DEF modelVars, StagedInv, ModelTypeOK, CopiesOneModel, InternalIsStaged,
              ReadyIsRunning, Copied
<1> QED
  BY <1>1, <1>2

LEMMA StagedInvariant == ModelSpec => []StagedInv
BY StagedInit, StagedStep, PTL DEF ModelSpec

(* The files are always the beginning of one artifact, and a copy holds    *)
(* its source open exactly as long as it runs (setupModel).                *)
THEOREM ModelTypeCorrect == ModelSpec => []ModelTypeOK
<1>1. StagedInv => ModelTypeOK
  BY DEF StagedInv
<1> QED
  BY <1>1, StagedInvariant, PTL

(* A start that becomes Ready with a staging file has loaded exactly what  *)
(* it copied, or, if it copied nothing, a file as long as the staging file *)
(* was; a part of an artifact is loaded only against a part or against     *)
(* another artifact of its length (setupModel, initializeModel).           *)
THEOREM LoadedIsStaged == ModelSpec => []LoadedAsStaged
<1>1. StagedInv => LoadedAsStaged
  <2> SUFFICES ASSUME StagedInv, engineState = "Ready", staged # Null
               PROVE  /\ IF copied THEN internal = staged
                                   ELSE internal.size = staged.size
                      /\ \/ Whole(internal)
                         \/ ~Whole(staged)
                         \/ ~copied /\ internal.model # staged.model
    BY DEF LoadedAsStaged
  <2>1. /\ internal # Null /\ internal.size = staged.size
        /\ copied => internal = staged
    BY DEF StagedInv, InternalIsStaged
  <2>2. internal.model = staged.model /\ Whole(staged) => Whole(internal)
    BY <2>1 DEF Whole
  <2> QED
    BY <2>1, <2>2
<1> QED
  BY <1>1, StagedInvariant, PTL
============================================================================
