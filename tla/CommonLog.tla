------------------------------ MODULE CommonLog ------------------------------
(***************************************************************************)
(* The asynchronous log of llama.cpp's tools (common/log.cpp).  Any thread *)
(* adds messages to a ring of entries; one worker thread prints them, with *)
(* the mutex dropped while it prints.  Pausing the log pushes an end entry *)
(* that makes the worker stop, and joins it; changing the file or the      *)
(* colours and flushing are a pause and a resume.                          *)
(*                                                                         *)
(* One action is one section under the mutex, or the printing of one entry *)
(* outside it.  log.h calls pause, resume, set_file and set_colors "not    *)
(* thread-safe": one owner calls them, while any logger adds.              *)
(***************************************************************************)
EXTENDS Naturals, Sequences

CONSTANTS Loggers,     \* threads that add messages
          Capacity,    \* entries of the ring (512)
          MaxMessages, \* bound: messages each logger adds
          MaxCalls     \* bound: pauses by the owner

ASSUME CapacityAssumption == Capacity \in Nat \ {0, 1}
ASSUME BoundsAssumption == MaxMessages \in Nat /\ MaxCalls \in Nat

VARIABLES queue, head, tail,  \* the ring
          running,
          worker,             \* where the worker is; "none": no thread
          h, cached_tail,     \* locals of the worker's flush
          file,               \* number of the open file
          logger, sent,       \* where each logger is, its messages so far
          owner, calls,       \* what the owner does once the worker is joined
          accepted, printed   \* history: <<message, file>> as added, as printed

log == <<queue, head, tail, running>>
work == <<worker, h, cached_tail>>
callers == <<logger, sent, owner, calls>>
history == <<accepted, printed>>
vars == <<log, work, file, callers, history>>

Slots == 0 .. Capacity - 1
\* Mutant: the index runs off the end of the ring.
nextUnwrapped(i) == i + 1

next(i) == (i + 1) % Capacity
\* Mutant: the last entry of the ring is used too, so that a full ring looks empty.
is_fullNever == FALSE

is_full == next(tail) = head
is_empty == head = tail

End == [is_end |-> TRUE]
Entry(m) == [is_end |-> FALSE, msg |-> m]
Entries == {End} \union [is_end : {FALSE}, msg : {<<>>} \union (Loggers \X Nat)]

notify_new == IF worker = "asleep" THEN "waiting" ELSE worker
notify_full == [l \in Loggers |-> IF logger[l] = "asleep" THEN "adding" ELSE logger[l]]

----------------------------------------------------------------------------

\* The constructor: an empty ring, and a resume.
Init ==
  /\ queue = [i \in Slots |-> Entry(<<>>)] /\ head = 0 /\ tail = 0
  /\ running = TRUE
  /\ worker = "waiting" /\ h = 0 /\ cached_tail = 0
  /\ file = 0
  /\ logger = [l \in Loggers |-> "idle"] /\ sent = [l \in Loggers |-> 0]
  /\ owner = "idle" /\ calls = 0
  /\ accepted = <<>> /\ printed = <<>>

CallAdd(l) ==
  /\ logger[l] = "idle" /\ sent[l] < MaxMessages
  /\ logger' = [logger EXCEPT ![l] = "adding"]
  /\ sent' = [sent EXCEPT ![l] = @ + 1]
  /\ UNCHANGED <<log, work, file, owner, calls, history>>

\* add: sleep while the queue is full; while the log is paused drop the
\* message; else write the entry at the tail and wake the worker.
Add(l) ==
  LET m == <<l, sent[l]>> IN
  /\ logger[l] = "adding"
  /\ \/ /\ running /\ is_full
        /\ logger' = [logger EXCEPT ![l] = "asleep"]
        /\ UNCHANGED <<queue, tail, worker, accepted>>
     \/ /\ ~running
        /\ logger' = [logger EXCEPT ![l] = "idle"]
        /\ UNCHANGED <<queue, tail, worker, accepted>>
     \/ /\ running /\ ~is_full
        /\ queue' = [queue EXCEPT ![tail] = Entry(m)]
        /\ tail' = next(tail)
        /\ worker' = notify_new
        /\ accepted' = Append(accepted, <<m, file>>)
        /\ logger' = [logger EXCEPT ![l] = "idle"]
  /\ UNCHANGED <<head, running, h, cached_tail, file, sent, owner, calls, printed>>

\* A condition variable may wake a sleeper for no reason.
SpuriousWake ==
  \/ /\ worker = "asleep" /\ worker' = "waiting"
     /\ UNCHANGED <<log, h, cached_tail, file, callers, history>>
  \/ /\ \E l \in Loggers : logger[l] = "asleep" /\ logger' = [logger EXCEPT ![l] = "adding"]
     /\ UNCHANGED <<log, work, file, sent, owner, calls, history>>

----------------------------------------------------------------------------
(* The worker thread that resume starts. *)

\* cv_new.wait, then the bounds of the flush are copied and the lock dropped.
WorkerWait ==
  /\ worker = "waiting"
  /\ IF is_empty
     THEN worker' = "asleep" /\ UNCHANGED <<h, cached_tail>>
     ELSE worker' = "flushing" /\ h' = head /\ cached_tail' = tail
  /\ UNCHANGED <<log, file, callers, history>>

\* flush_queue: one turn of the loop, without the lock.
PrintEntry ==
  /\ worker = "flushing" /\ h # cached_tail
  /\ h' = next(h)
  /\ IF queue[h].is_end
     THEN worker' = "stopping" /\ UNCHANGED printed
     ELSE printed' = Append(printed, <<queue[h].msg, file>>) /\ UNCHANGED worker
  /\ UNCHANGED <<log, cached_tail, file, callers, accepted>>

\* Mutant: nobody tells the loggers that there is room.
AdvanceHeadSilent ==
  /\ worker = "stopping" \/ (worker = "flushing" /\ h = cached_tail)
  /\ head' = h
  /\ worker' = IF worker = "stopping" THEN "none" ELSE "waiting"
  /\ UNCHANGED <<queue, tail, running, h, cached_tail, file, logger, sent, owner, calls, history>>

\* The lock again: the head moves, loggers that waited for room wake up; after
\* an end entry the thread ends.
AdvanceHead ==
  /\ worker = "stopping" \/ (worker = "flushing" /\ h = cached_tail)
  /\ head' = h
  /\ worker' = IF worker = "stopping" THEN "none" ELSE "waiting"
  /\ logger' = notify_full
  /\ UNCHANGED <<queue, tail, running, h, cached_tail, file, sent, owner, calls, history>>

----------------------------------------------------------------------------
(* The owner: pause, resume, set_file, and flush (or set_colors). *)

\* pause under the lock: the end entry goes to the tail without a look at the
\* room there is; then (goal) the owner joins the worker.
Pause(goal) ==
  /\ owner = "idle" /\ calls < MaxCalls /\ calls' = calls + 1
  /\ IF running
     THEN /\ running' = FALSE
          /\ queue' = [queue EXCEPT ![tail] = End]
          /\ tail' = next(tail)
          /\ worker' = notify_new
          /\ logger' = notify_full
     ELSE UNCHANGED <<queue, tail, running, worker, logger>>
  /\ owner' = goal
  /\ UNCHANGED <<head, h, cached_tail, file, sent, history>>

\* Mutant: the worker is told to stop and not waited for.
JoinAtOnce ==
  /\ owner \in {"pause", "set_file", "flush"}
  /\ owner' = IF owner = "pause" THEN "idle" ELSE "resume"
  /\ file' = IF owner = "set_file" THEN file + 1 ELSE file
  /\ UNCHANGED <<log, work, logger, sent, calls, history>>

\* join returns when the thread has ended; set_file opens the other file.
Join ==
  /\ owner \in {"pause", "set_file", "flush"} /\ worker = "none"
  /\ owner' = IF owner = "pause" THEN "idle" ELSE "resume"
  /\ file' = IF owner = "set_file" THEN file + 1 ELSE file
  /\ UNCHANGED <<log, work, logger, sent, calls, history>>

Resume ==
  /\ owner \in {"idle", "resume"} /\ ~running
  /\ running' = TRUE
  /\ worker' = "waiting"
  /\ owner' = "idle"
  /\ UNCHANGED <<queue, head, tail, h, cached_tail, file, logger, sent, calls, history>>

----------------------------------------------------------------------------

Next ==
  \/ \E l \in Loggers : CallAdd(l) \/ Add(l)
  \/ SpuriousWake
  \/ WorkerWait \/ PrintEntry \/ AdvanceHead
  \/ \E goal \in {"pause", "set_file", "flush"} : Pause(goal)
  \/ Join \/ Resume

\* Threads that can run do: the worker, a logger inside add, and the owner once
\* it has called pause.  Nobody has to log, to pause or to resume.
Fairness ==
  /\ WF_vars(WorkerWait) /\ WF_vars(PrintEntry) /\ WF_vars(AdvanceHead)
  /\ \A l \in Loggers : WF_vars(Add(l))
  /\ WF_vars(Join) /\ WF_vars(owner = "resume" /\ Resume)

Spec == Init /\ [][Next]_vars /\ Fairness

----------------------------------------------------------------------------
(* Properties *)

TypeOK ==
  /\ queue \in [Slots -> Entries]
  /\ head \in Slots /\ tail \in Slots /\ h \in Slots /\ cached_tail \in Slots
  /\ running \in BOOLEAN
  /\ worker \in {"none", "waiting", "asleep", "flushing", "stopping"}
  /\ logger \in [Loggers -> {"idle", "adding", "asleep"}] /\ sent \in [Loggers -> 0 .. MaxMessages]
  /\ owner \in {"idle", "pause", "set_file", "flush", "resume"}
  /\ file \in Nat /\ calls \in 0 .. MaxCalls

\* The end entry closed the ring: with no room left, pause makes tail meet head,
\* the full queue looks empty, and a worker that was not printing never sees it.
EndUnseen == ~running /\ is_empty /\ worker \in {"waiting", "asleep"}

\* Messages are printed in the order in which they were added, none twice and
\* none skipped, each to the file that was open when it was added, whoever
\* pauses, resumes or changes the file meanwhile.
PrintedAsAdded == printed = SubSeq(accepted, 1, Len(printed))

\* When pause has returned, and so before a new file is written to or a flush
\* returns, every message the log accepted is printed.
PausedMeansPrinted == worker = "none" => printed = accepted

\* Every accepted message is printed, and a pause, a flush or a change of file
\* returns, unless the end entry found no room and was taken for an empty queue;
\* and a logger that waits for room is always woken, by the worker or the pause.
DeliversAndReturns ==
  /\ \A n \in 1 .. MaxMessages :
       Len(accepted) >= n /\ ~EndUnseen ~> Len(printed) >= n \/ EndUnseen
  /\ (owner # "idle" /\ ~EndUnseen) ~> owner = "idle"
  /\ \A l \in Loggers : logger[l] = "asleep" ~> logger[l] # "asleep"
=============================================================================
